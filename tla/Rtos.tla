-------------------------------- MODULE Rtos --------------------------------
(***************************************************************************)
(* The scheduler both controllers run on: FreeRTOS (behind CMSIS in phase  *)
(* 1, behind SAL in phase 2) on one core, fixed priorities, preemptive.    *)
(* It is external code; what is stated here is what src/ relies on:        *)
(*                                                                         *)
(*   - a task runs only while no task of a higher priority is ready;       *)
(*     ready tasks of one priority are time-sliced, so their steps may     *)
(*     interleave in any order;                                            *)
(*   - a resumed task is ready at once: if its priority is higher than the *)
(*     caller's, it runs before the caller's next instruction;             *)
(*   - resuming a task that is not suspended does nothing; a task that is  *)
(*     suspended in its sleep returns from the sleep when it is resumed.   *)
(*                                                                         *)
(* Sleep times are abstracted: a sleeping task may wake at any time.       *)
(* A task is an element of Task, st[t] its scheduling state.               *)
(***************************************************************************)
EXTENDS Naturals

CONSTANTS Task,     \* the tasks of the controller
          Prio      \* [Task -> Nat], a larger number is more urgent

TaskState == {"ready", "delayed", "suspended"}

\* Nothing more urgent than p is ready: what interrupts neither a task of
\* priority p nor the work of tasks below it that a module keeps abstract.
Calm(st, p) == \A u \in Task : st[u] = "ready" => Prio[u] <= p

\* Task t may execute its next instructions.
Running(st, t) == st[t] = "ready" /\ Calm(st, Prio[t])

\* The scheduling states after a call of the kernel on task t.
Delay(st, t)   == [st EXCEPT ![t] = "delayed"]
Suspend(st, t) == [st EXCEPT ![t] = "suspended"]
Resume(st, t)  == [st EXCEPT ![t] = IF @ = "suspended" THEN "ready" ELSE @]

\* A sleep ends, or what the task waits for arrives.
Rouse(st, t)   == [st EXCEPT ![t] = IF @ = "delayed" THEN "ready" ELSE @]
=============================================================================
