-------------------------- MODULE MCWorkflowEngine --------------------------
(***************************************************************************)
(* Instance of WorkflowEngine for TLC: workflows of four steps with layers *)
(* of one to three steps, layered as the code layers them.                 *)
(***************************************************************************)
EXTENDS WorkflowEngine, ProjectDag, TLC

CONSTANTS a, b, c, d

MCSteps == {a, b, c, d}

Graph(ofA, ofB, ofC, ofD) == (a :> ofA) @@ (b :> ofB) @@ (c :> ofC) @@ (d :> ofD)

Diamond == Graph({}, {a}, {a}, {b, c})
Pairs   == Graph({}, {a}, {}, {c})          \* a <- b beside c <- d
Join    == Graph({}, {}, {}, {a, b, c})
Skewed  == Graph({}, {a}, {b}, {a})         \* a <- b <- c and a <- d
Loop    == Graph({d}, {a}, {b}, {c})        \* rejected by validateDAG

MCPlans ==
  {[deps |-> g, layers |-> BuildProjectLayers(g)] :
     g \in {h \in {Diamond, Pairs, Join, Skewed, Loop} : ValidateProjectDAG(h)}}
=============================================================================
