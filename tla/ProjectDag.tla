----------------------------- MODULE ProjectDag -----------------------------
(***************************************************************************)
(* pkg/goal/dag.go: validation and layering of the projects of a federated *)
(* goal.  A request is a function d from project names to the names each   *)
(* project lists as dependencies; a name may be listed that no project     *)
(* has.  Multiplicities do not matter to the code: a name listed twice is  *)
(* added twice to inDegree and subtracted twice through adjacency.         *)
(***************************************************************************)
EXTENDS Naturals, FiniteSets

\* The dependencies name existing projects other than the project itself.
KnownDeps(d) == \A p \in DOMAIN d : d[p] \subseteq DOMAIN d \ {p}

\* What Kahn's algorithm has taken out after i passes: each pass takes every
\* project whose remaining in-degree is zero.
Peeled(d) ==
  LET taken[i \in 0 .. Cardinality(DOMAIN d)] ==
        IF i = 0 THEN {}
        ELSE {p \in DOMAIN d : d[p] \subseteq taken[i - 1]}
  IN  taken

ValidateProjectDAG(d) ==
  /\ KnownDeps(d)
  /\ Peeled(d)[Cardinality(DOMAIN d)] = DOMAIN d

\* The layers in dispatch order, empty passes left out.
BuildProjectLayers(d) ==
  LET taken == Peeled(d)
      depth == CHOOSE k \in DOMAIN taken :
                 /\ taken[k] = taken[Cardinality(DOMAIN d)]
                 /\ \A j \in DOMAIN taken : taken[j] = taken[k] => k <= j
  IN  [k \in 1 .. depth |-> taken[k] \ taken[k - 1]]

\* layers[0] of the code: what createFederatedGoal dispatches at once.
FirstLayer(d) == {p \in DOMAIN d : d[p] = {}}
=============================================================================
