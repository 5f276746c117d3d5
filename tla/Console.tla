------------------------------- MODULE Console -------------------------------
(***************************************************************************)
(* The console both controllers print to: one mutex with priority          *)
(* inheritance around a transmission that polls the UART.  Tasks of every  *)
(* priority print, and some tasks suspend others without asking what they  *)
(* are doing: Main suspends SCC, CAN suspends SIS.  A task suspended while *)
(* it holds the mutex would stop every task that prints.                   *)
(*                                                                         *)
(*   Uart3_Printf (uart.c, phase 1), uart_printf (uart5.c, phase 2):       *)
(*     "work"   not printing          "take"   wants the mutex             *)
(*     "send"   holds it, transmits   "give"   transmitted, about to give  *)
(*                                                                         *)
(* Scheduling is that of FreeRTOS on one core: the ready task of the       *)
(* highest current priority runs.  A mutex lends its holder the priority   *)
(* of the most urgent task that ever blocked on it, until it is given.     *)
(*                                                                         *)
(* Definitions named Mut... are plausible mistakes in the definition that  *)
(* follows; the project substitutes them to see the properties fail.       *)
(***************************************************************************)
EXTENDS Naturals

CONSTANTS Task,      \* the tasks that print
          Prio,      \* [Task -> Nat], a larger number is more urgent
          Suspends,  \* the pairs <<s, t>> where s suspends t
          Resumes,   \* the pairs <<s, t>> where s resumes t
          None       \* nobody holds the mutex

\* A task is suspended by itself or by a less urgent one.
ASSUME ConsoleAssumption ==
  /\ Prio \in [Task -> Nat]
  /\ Suspends \subseteq Task \X Task
  /\ Resumes \subseteq Task \X Task
  /\ \A p \in Suspends : p[1] = p[2] \/ Prio[p[1]] < Prio[p[2]]
  /\ None \notin Task

VARIABLES st,     \* [Task -> State]
          pc,     \* [Task -> Label]
          owner,  \* the holder of the mutex, or None
          cur     \* [Task -> Nat], current priorities

vars == <<st, pc, owner, cur>>

State == {"ready", "delayed", "waiting", "suspended"}
Label == {"work", "take", "send", "give"}

\* Tasks that others resume may be created suspended (task_create.c:83, 94).
Init ==
  /\ st \in [Task -> {"ready", "suspended"}]
  /\ \A t \in Task : st[t] = "suspended" => \E p \in Resumes : p[2] = t
  /\ pc = [t \in Task |-> "work"]
  /\ owner = None
  /\ cur = Prio

Running(t) == st[t] = "ready" /\ \A u \in Task : st[u] = "ready" => cur[u] <= cur[t]

At(t, l) == Running(t) /\ pc[t] = l
Goto(t, m) == pc' = [pc EXCEPT ![t] = m]

Higher(m, n) == IF m < n THEN n ELSE m

\* What t lends the holder when it blocks, and the mutant of a plain semaphore.
MutInherit(t) == UNCHANGED cur
Inherit(t) == cur' = [cur EXCEPT ![owner] = Higher(@, cur[t])]

-----------------------------------------------------------------------------
(* uart.c:31-43, uart5.c:16-30                                             *)

\* A task calls the function.
Call(t) == At(t, "work") /\ Goto(t, "take") /\ UNCHANGED <<st, owner, cur>>

\* osMutexWait, the mutex is free.
Take(t) ==
  /\ At(t, "take") /\ owner = None
  /\ owner' = t
  /\ Goto(t, "send")
  /\ UNCHANGED <<st, cur>>

\* osMutexWait, the mutex is taken: wait for ever, lend the holder the priority.
Block(t) ==
  /\ At(t, "take") /\ owner # None
  /\ st' = [st EXCEPT ![t] = "waiting"]
  /\ Inherit(t)
  /\ UNCHANGED <<pc, owner>>

\* Mutant: a transmission that sleeps until the UART is done.
MutSend(t) ==
  /\ At(t, "send") /\ Goto(t, "give")
  /\ st' = [st EXCEPT ![t] = "delayed"]
  /\ UNCHANGED <<owner, cur>>

\* HAL_UART_Transmit polls: it never blocks.
Send(t) == At(t, "send") /\ Goto(t, "give") /\ UNCHANGED <<st, owner, cur>>

Waiting == {t \in Task : st[t] = "waiting"}

\* The waiting tasks the kernel may wake: those of the highest priority.
Heads == {t \in Waiting : \A u \in Waiting : cur[u] <= cur[t]}

\* Who is woken when the mutex is given, and the mutant that wakes nobody.
MutWoken == {None}
Woken == IF Waiting = {} THEN {None} ELSE Heads

\* osMutexRelease: give the lent priority back, wake one waiting task, which
\* then tries again.
Give(t) ==
  /\ At(t, "give")
  /\ owner' = None
  /\ cur' = [cur EXCEPT ![t] = Prio[t]]
  /\ \E w \in Woken : st' = [u \in Task |-> IF u = w THEN "ready" ELSE st[u]]
  /\ Goto(t, "work")

-----------------------------------------------------------------------------
(* What the tasks do between two prints                                    *)

\* osDelay, SAL_TaskSleep, a wait for a queue or a socket
Sleep(t) ==
  /\ At(t, "work")
  /\ st' = [st EXCEPT ![t] = "delayed"]
  /\ UNCHANGED <<pc, owner, cur>>

\* The sleep ends.
Wake(t) ==
  /\ st[t] = "delayed"
  /\ st' = [st EXCEPT ![t] = "ready"]
  /\ UNCHANGED <<pc, owner, cur>>

\* osThreadSuspend, SAL_TaskSuspend
DoSuspend(s, t) ==
  /\ At(s, "work")
  /\ st' = [st EXCEPT ![t] = "suspended"]
  /\ UNCHANGED <<pc, owner, cur>>

\* osThreadResume, SAL_TaskResume
DoResume(s, t) ==
  /\ At(s, "work")
  /\ st[t] = "suspended"
  /\ st' = [st EXCEPT ![t] = "ready"]
  /\ UNCHANGED <<pc, owner, cur>>

Printf(t) == Call(t) \/ Take(t) \/ Block(t) \/ Send(t) \/ Give(t)

Next ==
  \/ \E t \in Task : Printf(t) \/ Sleep(t) \/ Wake(t)
  \/ \E p \in Suspends : DoSuspend(p[1], p[2])
  \/ \E p \in Resumes : DoResume(p[1], p[2])

Spec == Init /\ [][Next]_vars

\* A running task goes on: a print, once begun, is not abandoned.
Fairness == \A t \in Task : WF_vars(Take(t) \/ Block(t) \/ Send(t) \/ Give(t))

FairSpec == Spec /\ Fairness

-----------------------------------------------------------------------------
\* The type of every variable; only the holder is past taking the mutex.
TypeOK ==
  /\ st \in [Task -> State]
  /\ pc \in [Task -> Label]
  /\ owner \in Task \cup {None}
  /\ cur \in [Task -> Nat]
  /\ \A t \in Task : pc[t] \in {"send", "give"} <=> owner = t

\* The holder of the console is never suspended, asleep or waiting, whoever
\* suspends whom (main.c:559 of phase 1, main.c:203 of phase 2, can.c:109):
\* a task can only be suspended by one that cannot run while it prints.
HolderIsReady == owner # None => st[owner] = "ready"

\* While a task waits for the console, none less urgent runs, but for the
\* holder that finishes its print (uart.c:33, uart5.c:19).
NoInversion ==
  \A t, u \in Task :
    st[t] = "waiting" /\ Running(u) /\ u # owner => Prio[u] >= Prio[t]

\* A task that waits for the console is never suspended (it would lose its
\* place): a suspended task is not in the middle of a print.
NeverSuspendedInPrint == \A t \in Task : st[t] = "suspended" => pc[t] = "work"

\* The most urgent task that wants to print prints: nobody's print, no
\* suspension and no lost wake-up keeps it from the console.
Most == {t \in Task : \A u \in Task : Prio[u] <= Prio[t]}
UrgentPrints == \A t \in Most : pc[t] = "take" ~> pc[t] = "send"
=============================================================================
