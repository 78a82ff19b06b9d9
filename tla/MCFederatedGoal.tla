-------------------------- MODULE MCFederatedGoal --------------------------
(***************************************************************************)
(* Instances of FederatedGoal for TLC: three projects a, b, c.             *)
(***************************************************************************)
EXTENDS FederatedGoal, TLC

CONSTANTS a, b, c

MCProjects == {a, b, c}

Graph(ofB, ofC) == (a :> {}) @@ (b :> ofB) @@ (c :> ofC)

Chain == Graph({a}, {b})        \* a <- b <- c
Join  == Graph({}, {a, b})      \* c needs both a and b
Fork  == Graph({a}, {a})        \* b and c need a
Loop  == (a :> {c}) @@ (b :> {a}) @@ (c :> {b})

MCDeep == {Chain, Join, Fork, Graph({a}, {a, b}), Loop}
=============================================================================
