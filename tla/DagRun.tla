------------------------------- MODULE DagRun -------------------------------
(***************************************************************************)
(* What every engine of the platform that executes a dependency graph      *)
(* promises: a node is started only when everything it depends on has been *)
(* finished, and only a started node finishes.  Nothing is said of when a  *)
(* node is started again (a retry, a restart of the daemon): that is the   *)
(* engines' business.  FederatedGoal and WorkflowEngine implement it.      *)
(***************************************************************************)
CONSTANT Nodes

VARIABLES
  deps,      \* deps[n]: the nodes n depends on, fixed by the request
  started,   \* nodes handed out for execution at least once
  finished   \* nodes whose result has been accepted at least once

contract == <<deps, started, finished>>

Init ==
  /\ deps \in [Nodes -> SUBSET Nodes]
  /\ started = {}
  /\ finished = {}

Start(n) ==
  /\ deps[n] \subseteq finished
  /\ started' = started \cup {n}
  /\ UNCHANGED <<deps, finished>>

Finish(n) ==
  /\ n \in started
  /\ finished' = finished \cup {n}
  /\ UNCHANGED <<deps, started>>

Next == \E n \in Nodes : Start(n) \/ Finish(n)

Spec == Init /\ [][Next]_contract
=============================================================================
