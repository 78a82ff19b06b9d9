----------------------------- MODULE MCTaskCost -----------------------------
(***************************************************************************)
(* Instance of TaskCost for TLC: tasks that use one token and cost one.    *)
(***************************************************************************)
EXTENDS TaskCost

MCResults == {[tokens |-> 1, cost |-> 1, reported |-> FALSE]}
=============================================================================
