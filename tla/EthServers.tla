------------------------------ MODULE EthServers ------------------------------
(***************************************************************************)
(* The three TCP servers of the phase 2 controller (w5500_port.c), each on *)
(* a socket of the W5500 chip: eth0 takes the driver's buttons, eth1 sends *)
(* the vehicle's status, eth2 takes the lane detection's offsets and sends *)
(* flags.  They share the chip under one mutex.  What a message holds and  *)
(* does to the flags is left out: no call of the chip depends on it.       *)
(* main.c:312-320 creates the servers only when its lines are uncommented; *)
(* it is modelled as if they were, in that order.                          *)
(*                                                                         *)
(* A server polls its socket's status, sleeping in between: the chip and   *)
(* the client go on meanwhile.  What a call of the library does to the     *)
(* socket is taken from how the servers use it.                            *)
(*                                                                         *)
(* What phase 1's server of the buttons, TcpLines, has too bears an Eth in *)
(* its name here.                                                          *)
(*                                                                         *)
(* Definitions named Mut... are plausible mistakes in the definition that  *)
(* follows; the project substitutes them to see the properties fail.       *)
(***************************************************************************)

CONSTANT EthServer   \* the servers: "eth1", and "eth0" or "eth2" or both

ASSUME EthServersAssumption ==
  "eth1" \in EthServer /\ EthServer \subseteq {"eth0", "eth1", "eth2"}

Status == {"closed", "init", "listen", "established", "close_wait"}
None == "none"

\* The sections of a server that hold the mutex, and the other places it is at.
Locked == {"reset", "socket", "listen", "look", "again", "serve", "avail", "recv",
           "send", "disconnect", "relisten", "close"}
Labels == Locked \cup {"new", "due", "obey", "closing", "deleted"}
Boot == {"reset", "socket", "listen"}
Serving == {"serve", "avail", "recv", "obey", "due", "send"}

VARIABLES
  eth_pc, owner,   \* each server, and who holds the mutex
  sn_sr, avail     \* each socket: its status, and that something was received

chipVars == <<sn_sr, avail>>
ethVars == <<eth_pc, owner, chipVars>>

EthInit ==
  /\ eth_pc = [t \in EthServer |-> IF t = "eth1" THEN "reset" ELSE "new"]
  /\ owner = None
  /\ sn_sr = [t \in EthServer |-> "closed"] /\ avail = [t \in EthServer |-> FALSE]

-----------------------------------------------------------------------------
(* The clients and the chip                                                *)

Status0(t, s) == sn_sr' = [sn_sr EXCEPT ![t] = s]
ChipSteps(t, from, to) ==
  /\ sn_sr[t] \in from /\ Status0(t, to)
  /\ UNCHANGED <<eth_pc, owner>>

Connects(t) == ChipSteps(t, {"listen"}, "established") /\ avail' = [avail EXCEPT ![t] = FALSE]
Closes(t) == ChipSteps(t, {"established"}, "close_wait") /\ UNCHANGED avail
Breaks(t) == ChipSteps(t, {"established", "close_wait"}, "closed") /\ UNCHANGED avail

Sends(t) ==
  /\ sn_sr[t] = "established" /\ t # "eth1"
  /\ avail' = [avail EXCEPT ![t] = TRUE]
  /\ UNCHANGED <<eth_pc, owner, sn_sr>>

Client(t) == Connects(t) \/ Closes(t) \/ Breaks(t) \/ Sends(t)

-----------------------------------------------------------------------------
(* The mutex, w5500_port.c:21-22                                           *)

wiz_lock(t) ==
  /\ eth_pc[t] \in Locked /\ owner = None
  /\ owner' = t
  /\ UNCHANGED <<eth_pc, chipVars>>

At(t, l) == eth_pc[t] = l
Goto(t, m) == eth_pc' = [eth_pc EXCEPT ![t] = m]

\* The end of a section.
wiz_unlock(t) == owner = t /\ owner' = None

Section(t, l, m) == At(t, l) /\ wiz_unlock(t) /\ Goto(t, m)
LooksOnly(t, l, m) == Section(t, l, m) /\ UNCHANGED chipVars

-----------------------------------------------------------------------------
(* A server begins                                                         *)

\* eth1 is more urgent than the task that creates them all: it runs until it
\* sleeps before the others exist.
Created(t) ==
  /\ At(t, "new") /\ eth_pc["eth1"] \notin Boot
  /\ Goto(t, "socket")
  /\ UNCHANGED <<owner, chipVars>>

\* wizchip_init, w5500_port.c:384-391: every socket is closed.
Reset(t) ==
  /\ Section(t, "reset", "socket")
  /\ sn_sr' = [u \in EthServer |-> "closed"]
  /\ UNCHANGED avail

\* w5500_port.c:269-276
Socket(t) ==
  \/ /\ Section(t, "socket", "listen") /\ Status0(t, "init")
     /\ UNCHANGED avail
  \/ LooksOnly(t, "socket", "deleted")

\* listen: it works, or it leaves the socket as it was or closed.
Listens(t) == Status0(t, "listen") /\ UNCHANGED avail
ListenFails(t) ==
  (Status0(t, sn_sr[t]) \/ Status0(t, "closed")) /\ UNCHANGED avail

\* w5500_port.c:279-286: a listen that fails gives the mutex back.
Listen(t) ==
  \/ Section(t, "listen", "look") /\ Listens(t)
  \/ Section(t, "listen", "closing") /\ ListenFails(t)

\* w5500_port.c:283-284, close without the mutex; the mutant leaves the socket
\* open.
MutClosing(t) ==
  /\ At(t, "closing") /\ Goto(t, "deleted")
  /\ UNCHANGED <<owner, chipVars>>
Closing(t) ==
  /\ At(t, "closing") /\ Goto(t, "deleted")
  /\ Status0(t, "closed")
  /\ UNCHANGED <<owner, avail>>

-----------------------------------------------------------------------------
(* A server waits for a client                                             *)

\* w5500_port.c:289-295 and 359-365.  A connection its client has closed is
\* neither of the two the server looks for.
Look(t) ==
  LooksOnly(t, "look", CASE sn_sr[t] = "established" -> "serve"
                         [] sn_sr[t] = "closed"      -> "again"
                         [] OTHER                    -> "look")

\* w5500_port.c:359-363: whether listen works is not asked.
Again(t) == Section(t, "again", "look") /\ (Listens(t) \/ ListenFails(t))

-----------------------------------------------------------------------------
(* A server serves its client                                              *)

\* w5500_port.c:299-303; the mutant goes on while the chip has not closed the
\* socket.
Next0(t) == IF t = "eth1" THEN "due" ELSE "avail"
MutServe(t) ==
  LooksOnly(t, "serve", IF sn_sr[t] # "closed" THEN Next0(t) ELSE "disconnect")
Serve(t) ==
  LooksOnly(t, "serve", IF sn_sr[t] = "established" THEN Next0(t) ELSE "disconnect")

\* After the reading: eth2 goes on to send, eth0 sleeps.
Read(t) == IF t = "eth2" THEN "due" ELSE "serve"
Avail(t) == LooksOnly(t, "avail", IF avail[t] THEN "recv" ELSE Read(t))

\* w5500_port.c:310-314: all of it, or the connection broke.
EthRecv(t) ==
  /\ \E m \in {"obey", Read(t)} : Section(t, "recv", m)
  /\ avail' = [avail EXCEPT ![t] = FALSE]
  /\ UNCHANGED sn_sr

\* w5500_port.c:314-341 and 545-583
EthObey(t) ==
  /\ At(t, "obey") /\ Goto(t, Read(t))
  /\ UNCHANGED <<owner, chipVars>>

\* w5500_port.c:429-456 and 585-605: the interval is over, or not yet.
Due(t) ==
  /\ At(t, "due") /\ \E m \in {"send", "serve"} : Goto(t, m)
  /\ UNCHANGED <<owner, chipVars>>
Send(t) == LooksOnly(t, "send", "serve")

-----------------------------------------------------------------------------
(* A server ends a connection                                              *)

\* w5500_port.c:347-349
Disconnect(t) ==
  /\ Section(t, "disconnect", "relisten")
  /\ Status0(t, "closed")
  /\ UNCHANGED avail

\* w5500_port.c:351-357, and the mutant that does not ask whether listen works.
MutRelisten(t) == Section(t, "relisten", "look") /\ (Listens(t) \/ ListenFails(t))
Relisten(t) ==
  \/ Section(t, "relisten", "look") /\ Listens(t)
  \/ Section(t, "relisten", "close") /\ ListenFails(t)

\* w5500_port.c:369-372
Close(t) ==
  /\ Section(t, "close", "deleted")
  /\ Status0(t, "closed")
  /\ UNCHANGED avail

-----------------------------------------------------------------------------
\* What a server does but for waiting for the mutex.
ServerStep(t) ==
  \/ Created(t) \/ Reset(t) \/ Socket(t) \/ Listen(t) \/ Closing(t)
  \/ Look(t) \/ Again(t) \/ Serve(t) \/ Avail(t) \/ EthRecv(t) \/ EthObey(t)
  \/ Due(t) \/ Send(t)
  \/ Disconnect(t) \/ Relisten(t) \/ Close(t)

EthNext == \E t \in EthServer : Client(t) \/ wiz_lock(t) \/ ServerStep(t)

EthSpec == EthInit /\ [][EthNext]_ethVars

\* A server runs on, and who waits for the mutex gets it: between two of its
\* sections every server sleeps or prints.
EthFairSpec ==
  EthSpec /\ \A t \in EthServer : WF_ethVars(ServerStep(t)) /\ SF_ethVars(wiz_lock(t))

-----------------------------------------------------------------------------
\* The type of every variable.
EthTypeOK ==
  /\ eth_pc \in [EthServer -> Labels] /\ owner \in EthServer \cup {None}
  /\ sn_sr \in [EthServer -> Status] /\ avail \in [EthServer -> BOOLEAN]

\* A server that has given up (w5500_port.c:284, 372) leaves its socket closed
\* and the mutex to the others.
GivesUpCleanly ==
  \A t \in EthServer : eth_pc[t] = "deleted" => sn_sr[t] = "closed" /\ owner # t

\* The end of a connection a server serves is noticed (w5500_port.c:303,
\* 346-349), whoever ended it, and then the server listens again or gives up
\* (:351-357, :368-372).  A path that kept the mutex (:280-286, :352-356) would
\* stop the other servers here.
ServesAgain ==
  \A t \in EthServer :
    eth_pc[t] \in Serving /\ sn_sr[t] \in {"close_wait", "closed"} ~>
      sn_sr[t] = "listen" \/ eth_pc[t] = "deleted"
=============================================================================
