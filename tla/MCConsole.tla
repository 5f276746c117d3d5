------------------------------ MODULE MCConsole ------------------------------
(***************************************************************************)
(* The tasks of phase 1 that print, with the priorities of task_create.c   *)
(* (55-94); LKA, of Main's priority, does not print.                       *)
(***************************************************************************)
EXTENDS Console, TLC

Phase1 == {"sis", "can", "scc", "main", "tcp2", "tcp"}
Prio1 == "sis" :> 6 @@ "can" :> 5 @@ "scc" :> 4 @@ "main" :> 3 @@ "tcp2" :> 2 @@
         "tcp" :> 1
Suspends1 == {<<"can", "sis">>, <<"sis", "sis">>, <<"main", "scc">>}
Resumes1 == {<<"can", "sis">>, <<"main", "scc">>}
=============================================================================
