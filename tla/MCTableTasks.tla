---------------------------- MODULE MCTableTasks ----------------------------
(* Two adders race one closing caller (AbortTasksAndClose then            *)
(* WaitTasksCompletion) and one AbortTasks caller.                        *)
EXTENDS TableTasks

CONSTANTS a1, a2, c1, c2

MCAdders == {a1, a2}
MCClosers == {c1, c2}
MCClose == (c1 :> TRUE @@ c2 :> FALSE)
=============================================================================
