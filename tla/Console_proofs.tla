--------------------------- MODULE Console_proofs ---------------------------
(***************************************************************************)
(* The console of Console, for every set of tasks and every priorities: a  *)
(* task that is suspended only by less urgent ones is never suspended      *)
(* while it holds the mutex or waits for it, and waiting inverts no        *)
(* priorities.                                                             *)
(***************************************************************************)
EXTENDS Console, TLAPS

\* Only the holder runs above its own priority.
LentInv == \A t \in Task : cur[t] >= Prio[t] /\ (t # owner => cur[t] = Prio[t])

\* A task sleeps outside a print, and waits in the middle of one.
PlaceInv ==
  /\ \A t \in Task : st[t] = "delayed" => pc[t] = "work"
  /\ \A t \in Task : st[t] = "waiting" => pc[t] = "take"

\* u is the one all waiting tasks wait for: the holder, or, when the mutex is
\* free, a task about to take it.
Serves(u) ==
  /\ st[u] = "ready"
  /\ owner # None => u = owner
  /\ owner = None => pc[u] = "take"
  /\ \A t \in Waiting : cur[u] >= Prio[t]

ServedInv == Waiting # {} => \E u \in Task : Serves(u)

IInv ==
  /\ TypeOK /\ HolderIsReady /\ NeverSuspendedInPrint
  /\ LentInv /\ PlaceInv /\ ServedInv

LEMMA InitIInv == Init => IInv
<1> SUFFICES ASSUME Init PROVE IInv
  OBVIOUS
<1> USE ConsoleAssumption DEF Init
<1>1. TypeOK
  BY DEF TypeOK, State, Label
<1>2. HolderIsReady /\ NeverSuspendedInPrint /\ LentInv /\ PlaceInv
  BY DEF HolderIsReady, NeverSuspendedInPrint, LentInv, PlaceInv
<1>3. ServedInv
  BY DEF ServedInv, Waiting
<1>4. QED
  BY <1>1, <1>2, <1>3 DEF IInv

LEMMA ServedInverts == IInv => NoInversion
<1> SUFFICES ASSUME IInv, NEW t \in Task, NEW u \in Task,
                    st[t] = "waiting", Running(u), u # owner
             PROVE  Prio[u] >= Prio[t]
  BY DEF NoInversion
<1>1. PICK v \in Task : Serves(v)
  BY DEF IInv, ServedInv, Waiting
<1>2. cur[v] >= Prio[t] /\ cur[u] >= cur[v]
  BY <1>1 DEF Serves, Waiting, Running
<1>3. cur[u] = Prio[u]
  BY DEF IInv, LentInv
<1>4. cur[u] \in Nat /\ cur[v] \in Nat /\ Prio[t] \in Nat
  BY ConsoleAssumption DEF IInv, TypeOK
<1>5. QED
  BY <1>2, <1>3, <1>4

\* Whoever is suspended was neither in a print nor about to begin one.
LEMMA SuspendedIdle ==
  ASSUME IInv, NEW p \in Suspends, DoSuspend(p[1], p[2])
  PROVE  /\ p[1] \in Task /\ p[2] \in Task
         /\ pc[p[2]] = "work"
         /\ p[2] # owner
         /\ st[p[2]] # "waiting"
         /\ p[1] = p[2] \/ st[p[2]] # "ready"
<1> DEFINE s == p[1]  t == p[2]
<1>1. s \in Task /\ t \in Task /\ (s = t \/ Prio[s] < Prio[t])
  BY ConsoleAssumption
<1>2. Running(s) /\ pc[s] = "work" /\ s # owner
  BY <1>1 DEF DoSuspend, At, IInv, TypeOK
<1>3. cur[s] = Prio[s] /\ cur[t] >= Prio[t]
  BY <1>1, <1>2 DEF IInv, LentInv
<1>4. cur[s] \in Nat /\ cur[t] \in Nat /\ Prio[s] \in Nat /\ Prio[t] \in Nat
  BY <1>1, ConsoleAssumption DEF IInv, TypeOK
<1>5. CASE s = t
  BY <1>1, <1>2, <1>5 DEF Running
<1>6. CASE s # t
  <2>1. Prio[s] < Prio[t]
    BY <1>1, <1>6
  <2>2. st[t] # "ready"
    <3>1. st[t] = "ready" => cur[t] <= cur[s]
      BY <1>1, <1>2 DEF Running
    <3>2. QED
      BY <3>1, <2>1, <1>3, <1>4
  <2>3. st[t] # "waiting"
    BY <1>1, <1>2, <1>4, <2>1, ServedInverts DEF NoInversion
  <2>4. pc[t] = "work"
    BY <1>1, <2>2, <2>3 DEF IInv, PlaceInv, NeverSuspendedInPrint, TypeOK, State
  <2>5. t # owner
    BY <1>1, <2>4 DEF IInv, TypeOK
  <2>6. QED
    BY <1>1, <2>2, <2>3, <2>4, <2>5
<1>7. QED
  BY <1>5, <1>6

-----------------------------------------------------------------------------
(* One lemma per operation                                                 *)

LEMMA CallStep == ASSUME IInv, NEW t \in Task, Call(t) PROVE IInv'
<1> USE DEF IInv, Call, At, Running, Goto, TypeOK
<1>1. TypeOK' /\ HolderIsReady' /\ NeverSuspendedInPrint'
  BY DEF Label, HolderIsReady, NeverSuspendedInPrint
<1>2. LentInv' /\ PlaceInv'
  BY DEF LentInv, PlaceInv
<1>3. ServedInv'
  BY DEF ServedInv, Serves, Waiting
<1>4. QED
  BY <1>1, <1>2, <1>3

LEMMA TakeStep == ASSUME IInv, NEW t \in Task, Take(t) PROVE IInv'
<1> USE ConsoleAssumption DEF IInv, Take, At, Goto, TypeOK
<1>1. TypeOK'
  BY DEF Label
<1>2. HolderIsReady' /\ NeverSuspendedInPrint'
  BY DEF HolderIsReady, NeverSuspendedInPrint, Running
<1>3. LentInv'
  BY DEF LentInv
<1>4. PlaceInv'
  BY DEF PlaceInv, Running
<1>5. ServedInv'
  <2> SUFFICES ASSUME Waiting # {} PROVE Serves(t)'
    BY DEF ServedInv, Waiting
  <2>1. PICK u \in Task : Serves(u)
    BY DEF ServedInv
  <2>2. cur[t] >= cur[u] /\ cur[t] \in Nat /\ cur[u] \in Nat
    BY <2>1 DEF Serves, Running
  <2>3. \A w \in Waiting : cur[t] >= Prio[w]
    <3> SUFFICES ASSUME NEW w \in Waiting PROVE cur[t] >= Prio[w]
      OBVIOUS
    <3>1. cur[u] >= Prio[w] /\ Prio[w] \in Nat
      BY <2>1 DEF Serves, Waiting
    <3>2. QED
      BY <2>2, <3>1
  <2>4. QED
    BY <2>3 DEF Serves, Waiting, Running
<1>6. QED
  BY <1>1, <1>2, <1>3, <1>4, <1>5

LEMMA BlockStep == ASSUME IInv, NEW t \in Task, Block(t) PROVE IInv'
<1> USE ConsoleAssumption DEF IInv, Block, At, Inherit, Higher
<1>1. owner \in Task /\ owner # t /\ st[owner] = "ready"
  BY DEF TypeOK, HolderIsReady
<1>2. TypeOK'
  BY <1>1 DEF TypeOK, State
<1>3. HolderIsReady' /\ NeverSuspendedInPrint' /\ PlaceInv'
  BY <1>1 DEF HolderIsReady, NeverSuspendedInPrint, PlaceInv, TypeOK
<1>4. LentInv'
  <2>1. \A u \in Task : u # owner => cur'[u] = cur[u]
    BY DEF TypeOK
  <2>2. cur'[owner] >= cur[owner]
    BY <1>1 DEF TypeOK
  <2>3. cur'[owner] >= Prio[owner]
    <3>1. cur[owner] >= Prio[owner]
      BY <1>1 DEF LentInv
    <3>2. cur[owner] \in Nat /\ cur'[owner] \in Nat /\ Prio[owner] \in Nat
      BY <1>1, <1>2 DEF TypeOK
    <3>3. QED
      BY <2>2, <3>1, <3>2
  <2>4. owner' = owner
    OBVIOUS
  <2>5. QED
    BY <2>1, <2>3, <2>4 DEF LentInv
<1>5. cur[t] = Prio[t]
  BY <1>1 DEF LentInv
<1>6. cur'[owner] >= Prio[t] /\ cur'[owner] >= cur[owner]
  BY <1>1, <1>5 DEF TypeOK
<1>7. \A w \in Waiting : cur[owner] >= Prio[w]
  BY <1>1 DEF ServedInv, Serves
<1>8. Waiting' = Waiting \cup {t}
  BY DEF Waiting, TypeOK
<1>9. \A w \in Waiting' : cur'[owner] >= Prio[w]
  BY <1>1, <1>6, <1>7, <1>8, <1>2 DEF TypeOK, Waiting
<1>10. Serves(owner)'
  BY <1>1, <1>9 DEF Serves, TypeOK
<1>11. QED
  BY <1>1, <1>2, <1>3, <1>4, <1>10 DEF ServedInv

LEMMA SendStep == ASSUME IInv, NEW t \in Task, Send(t) PROVE IInv'
<1> USE DEF IInv, Send, At, Running, Goto, TypeOK
<1>1. TypeOK' /\ HolderIsReady' /\ NeverSuspendedInPrint'
  BY DEF Label, HolderIsReady, NeverSuspendedInPrint
<1>2. LentInv' /\ PlaceInv'
  BY DEF LentInv, PlaceInv
<1>3. ServedInv'
  BY DEF ServedInv, Serves, Waiting
<1>4. QED
  BY <1>1, <1>2, <1>3

LEMMA GiveStep == ASSUME IInv, NEW t \in Task, Give(t) PROVE IInv'
<1> USE ConsoleAssumption DEF IInv, At, Goto
<1>1. owner = t /\ st[t] = "ready"
  BY DEF Give, TypeOK, Running
<1>2. PICK w \in Woken : st' = [u \in Task |-> IF u = w THEN "ready" ELSE st[u]]
  BY DEF Give
<1>3. TypeOK'
  BY <1>1, <1>2 DEF Give, TypeOK, State, Label
<1>4. HolderIsReady' /\ LentInv'
  <2>1. owner' = None
    BY DEF Give
  <2>2. cur'[t] = Prio[t] /\ Prio[t] \in Nat
    BY DEF Give, TypeOK
  <2>3. \A u \in Task : u # t => cur'[u] = cur[u]
    BY DEF Give, TypeOK
  <2>4. \A u \in Task : cur'[u] = Prio[u] /\ Prio[u] \in Nat
    BY <1>1, <2>2, <2>3 DEF LentInv
  <2>5. QED
    BY <2>1, <2>4 DEF HolderIsReady, LentInv
<1>5. NeverSuspendedInPrint' /\ PlaceInv'
  BY <1>1, <1>2 DEF Give, NeverSuspendedInPrint, PlaceInv, TypeOK
<1>6. ServedInv'
  <2> SUFFICES ASSUME Waiting' # {} PROVE Serves(w)' /\ w \in Task
    BY DEF ServedInv
  <2>1. Waiting # {}
    BY <1>2 DEF Waiting
  <2>2. w \in Task /\ w \in Waiting /\ w # t /\ \A u \in Waiting : cur[u] <= cur[w]
    BY <2>1, <1>1 DEF Woken, Heads, Waiting
  <2>3. \A u \in Waiting' : u \in Waiting /\ u # t
    BY <1>1, <1>2 DEF Waiting
  <2>4. \A u \in Task : u # t => cur'[u] = Prio[u] /\ cur[u] = Prio[u]
    BY <1>1 DEF Give, LentInv, TypeOK
  <2>5. \A u \in Waiting' : cur'[w] >= Prio[u]
    BY <2>2, <2>3, <2>4 DEF Waiting
  <2>6. pc'[w] = "take" /\ st'[w] = "ready"
    BY <2>2, <1>2 DEF Give, PlaceInv, Waiting, TypeOK
  <2>7. QED
    BY <2>2, <2>5, <2>6 DEF Serves, Give
<1>7. QED
  BY <1>3, <1>4, <1>5, <1>6

LEMMA SleepStep == ASSUME IInv, NEW t \in Task, Sleep(t) \/ Wake(t) PROVE IInv'
<1> USE DEF IInv, Sleep, Wake, At
<1>1. pc[t] = "work" /\ t # owner /\ st[t] # "waiting"
  BY DEF PlaceInv, TypeOK, Running
<1>2. TypeOK'
  BY DEF TypeOK, State
<1>3. HolderIsReady' /\ NeverSuspendedInPrint' /\ LentInv' /\ PlaceInv'
  BY <1>1 DEF HolderIsReady, NeverSuspendedInPrint, LentInv, PlaceInv, TypeOK
<1>4. Waiting' = Waiting
  BY <1>1 DEF Waiting, TypeOK
<1>5. ServedInv'
  BY <1>1, <1>4 DEF ServedInv, Serves, TypeOK
<1>6. QED
  BY <1>2, <1>3, <1>5

LEMMA SuspendStep ==
  ASSUME IInv, NEW p \in Suspends, DoSuspend(p[1], p[2]) PROVE IInv'
<1> DEFINE t == p[2]
<1>1. t \in Task /\ pc[t] = "work" /\ t # owner /\ st[t] # "waiting"
  BY SuspendedIdle
<1> USE DEF IInv, DoSuspend
<1>2. TypeOK'
  BY DEF TypeOK, State
<1>3. HolderIsReady' /\ NeverSuspendedInPrint' /\ LentInv' /\ PlaceInv'
  BY <1>1 DEF HolderIsReady, NeverSuspendedInPrint, LentInv, PlaceInv, TypeOK
<1>4. Waiting' = Waiting
  BY <1>1 DEF Waiting, TypeOK
<1>5. ServedInv'
  BY <1>1, <1>4 DEF ServedInv, Serves, TypeOK
<1>6. QED
  BY <1>2, <1>3, <1>5

LEMMA ResumeStep ==
  ASSUME IInv, NEW p \in Resumes, DoResume(p[1], p[2]) PROVE IInv'
<1> DEFINE t == p[2]
<1>1. t \in Task /\ st[t] = "suspended" /\ pc[t] = "work" /\ t # owner
  BY ConsoleAssumption DEF DoResume, IInv, NeverSuspendedInPrint, TypeOK
<1> USE DEF IInv, DoResume
<1>2. TypeOK'
  BY DEF TypeOK, State
<1>3. HolderIsReady' /\ NeverSuspendedInPrint' /\ LentInv' /\ PlaceInv'
  BY <1>1 DEF HolderIsReady, NeverSuspendedInPrint, LentInv, PlaceInv, TypeOK
<1>4. Waiting' = Waiting
  BY <1>1 DEF Waiting, TypeOK
<1>5. ServedInv'
  BY <1>1, <1>4 DEF ServedInv, Serves, TypeOK
<1>6. QED
  BY <1>2, <1>3, <1>5

-----------------------------------------------------------------------------
THEOREM Invariance == Spec => []IInv
<1>1. IInv /\ [Next]_vars => IInv'
  <2> SUFFICES ASSUME IInv, [Next]_vars PROVE IInv'
    OBVIOUS
  <2>1. ASSUME NEW t \in Task, Printf(t) PROVE IInv'
    BY <2>1, CallStep, TakeStep, BlockStep, SendStep, GiveStep DEF Printf
  <2>2. ASSUME NEW t \in Task, Sleep(t) \/ Wake(t) PROVE IInv'
    BY <2>2, SleepStep
  <2>3. CASE UNCHANGED vars
    BY <2>3 DEF vars, IInv, TypeOK, HolderIsReady, NeverSuspendedInPrint, LentInv,
       PlaceInv, ServedInv, Serves, Waiting
  <2>4. QED
    BY <2>1, <2>2, <2>3, SuspendStep, ResumeStep DEF Next
<1>2. QED
  BY <1>1, InitIInv, PTL DEF Spec

\* Every variable keeps its type, and only the holder of the mutex transmits
\* (uart.c:31-43, uart5.c:16-30).
THEOREM TypeCorrect == Spec => []TypeOK
<1>1. IInv => TypeOK
  BY DEF IInv
<1>2. QED
  BY <1>1, Invariance, PTL

\* The holder of the console is never suspended: every task that prints is
\* suspended only by itself or by less urgent tasks.
THEOREM HolderStaysReady == Spec => []HolderIsReady
<1>1. IInv => HolderIsReady
  BY DEF IInv
<1>2. QED
  BY <1>1, Invariance, PTL

\* No task is suspended in the middle of a print, or while it waits for one.
THEOREM NobodyLosesItsPlace == Spec => []NeverSuspendedInPrint
<1>1. IInv => NeverSuspendedInPrint
  BY DEF IInv
<1>2. QED
  BY <1>1, Invariance, PTL

\* A print inverts no priorities: inheritance keeps less urgent tasks from
\* running while a more urgent one waits.
THEOREM InvertsNothing == Spec => []NoInversion
<1>1. QED
  BY ServedInverts, Invariance, PTL
=============================================================================
