------------------------------ MODULE DagSort ------------------------------
(***************************************************************************)
(* Kahn's algorithm as the platform runs it, twice in a row: first to      *)
(* reject cyclic requests, then to group the nodes into layers.            *)
(* pkg/goal/dag.go does it for the projects of a federated goal,           *)
(* pkg/workflow/engine.go (validateDAG, buildDAG) for the steps of a       *)
(* workflow, line for line.  ProjectDag says what it computes.             *)
(*                                                                         *)
(* A request is a list of dependencies per name, which may repeat a name   *)
(* and may name the node itself or nothing that exists.  The queue is a    *)
(* set: the code fills it in the random order of a Go map.                 *)
(***************************************************************************)
EXTENDS ProjectDag, Integers, Sequences, SequencesExt

CONSTANTS
  Names,    \* the nodes of the request
  Unknown,  \* a name that no node has
  MaxDeps   \* bound on the length of a list of dependencies

ASSUME SortAssumption == IsFiniteSet(Names) /\ Unknown \notin Names /\ MaxDeps \in Nat

VARIABLES
  lists,     \* the request
  sortAt,    \* "check", "visit", "layer", "accepted" or "rejected"
  inDegree,  \* the map inDegree
  queue,     \* names in the queue of the first pass
  visited,   \* its counter
  layers     \* the layers found by the second pass

sortVars == <<lists, sortAt, inDegree, queue, visited, layers>>

-----------------------------------------------------------------------------
\* The request without order and repetitions.
Deps == [n \in Names |-> ToSet(lists[n])]

\* The positions in the list of n that name a node of S: n is as often in the adjacency
\* lists of S.
Naming(n, S) == {i \in DOMAIN lists[n] : lists[n][i] \in S}

\* Every listed dependency counts, a repeated one repeatedly.
Degrees == [n \in Names |-> Len(lists[n])]

\* inDegree of the names in rest once the names in taken have been processed.
Without(taken, rest) ==
  [n \in rest |-> inDegree[n] - Cardinality(Naming(n, taken))]

Zeros(f) == {n \in DOMAIN f : f[n] = 0}

SortInit ==
  /\ lists \in [Names -> BoundedSeq(Names \cup {Unknown}, MaxDeps)]
  /\ sortAt = "check"
  /\ inDegree = << >> /\ queue = {} /\ visited = 0 /\ layers = << >>

\* ValidateProjectDAG: the names, then the initial queue.
CheckNames ==
  /\ sortAt = "check"
  /\ IF KnownDeps(Deps)
       THEN sortAt' = "visit" /\ inDegree' = Degrees /\ queue' = Zeros(Degrees)
       ELSE sortAt' = "rejected" /\ UNCHANGED <<inDegree, queue>>
  /\ UNCHANGED <<lists, visited, layers>>

\* One node is taken from the queue; a successor enters it when its degree
\* reaches zero.
Visit(n) ==
  /\ sortAt = "visit" /\ n \in queue
  /\ visited' = visited + 1
  /\ inDegree' = Without({n}, Names)
  /\ queue' = (queue \ {n}) \cup (Zeros(inDegree') \ Zeros(inDegree))
  /\ UNCHANGED <<lists, sortAt, layers>>

\* Mutant of CheckCycle: the first pass goes on until every node is visited.
CheckAllVisited ==
  /\ sortAt = "visit" /\ queue = {}
  /\ visited = Cardinality(Names)
  /\ sortAt' = "layer" /\ inDegree' = Degrees
  /\ UNCHANGED <<lists, queue, visited, layers>>

\* The queue is empty: a node that was not visited lies on a cycle, or behind one.
\* BuildProjectLayers starts from the degrees again.
CheckCycle ==
  /\ sortAt = "visit" /\ queue = {}
  /\ IF visited = Cardinality(Names)
       THEN sortAt' = "layer" /\ inDegree' = Degrees
       ELSE sortAt' = "rejected" /\ UNCHANGED inDegree
  /\ UNCHANGED <<lists, queue, visited, layers>>

\* Mutant of TakeLayer: one node at a time.
TakeOne ==
  /\ sortAt = "layer"
  /\ \E n \in Zeros(inDegree) :
       /\ layers' = Append(layers, {n})
       /\ inDegree' = Without({n}, DOMAIN inDegree \ {n})
  /\ UNCHANGED <<lists, sortAt, queue, visited>>

\* All nodes of degree zero form the next layer.
TakeLayer ==
  /\ sortAt = "layer" /\ Zeros(inDegree) # {}
  /\ layers' = Append(layers, Zeros(inDegree))
  /\ inDegree' = Without(Zeros(inDegree), DOMAIN inDegree \ Zeros(inDegree))
  /\ UNCHANGED <<lists, sortAt, queue, visited>>

EndLayers ==
  /\ sortAt = "layer" /\ Zeros(inDegree) = {}
  /\ sortAt' = IF DOMAIN inDegree = {} THEN "accepted" ELSE "rejected"
  /\ UNCHANGED <<lists, inDegree, queue, visited, layers>>

SortNext == CheckNames \/ (\E n \in Names : Visit(n)) \/ CheckCycle \/ TakeLayer \/ EndLayers

SortSpec == SortInit /\ [][SortNext]_sortVars

\* The goroutine that runs the algorithm is not stopped half-way.
FairSortSpec == SortSpec /\ WF_sortVars(SortNext)

-----------------------------------------------------------------------------
(* Properties.                                                             *)

\* Some order of the nodes respects all dependencies.
Acyclic ==
  \E rank \in [Names -> 1 .. Cardinality(Names)] :
    \A n \in Names : \A m \in Deps[n] : rank[m] < rank[n]

\* A request is accepted exactly when its names are known and it has no cycle,
\* whatever the order in which the maps are iterated and however often a
\* dependency is repeated; ProjectDag's definitions say the same.
VerdictIsRight ==
  /\ sortAt = "accepted" => KnownDeps(Deps) /\ Acyclic /\ ValidateProjectDAG(Deps)
  /\ sortAt = "rejected" => ~(KnownDeps(Deps) /\ Acyclic) /\ ~ValidateProjectDAG(Deps)

\* The layers are those of ProjectDag, each node is in one of them, all its
\* dependencies in earlier ones, and one of them in the layer just before: a
\* node waits no longer than it has to.
LayersAreRight ==
  sortAt = "accepted" =>
    /\ layers = BuildProjectLayers(Deps)
    /\ layers # << >> => layers[1] = FirstLayer(Deps)
    /\ \A n \in Names : \E k \in DOMAIN layers :
         /\ n \in layers[k]
         /\ \A j \in DOMAIN layers \ {k} : n \notin layers[j]
         /\ Deps[n] \subseteq UNION {layers[j] : j \in 1 .. k - 1}
         /\ k > 1 => Deps[n] \cap layers[k - 1] # {}

\* What the first pass has let through never fails in the second one, so that
\* layers[0], which createFederatedGoal indexes unchecked, exists.
SecondPassSucceeds ==
  /\ sortAt = "layer" /\ Zeros(inDegree) = {} => DOMAIN inDegree = {}
  /\ sortAt = "accepted" /\ Names # {} => layers # << >>

\* The three together: what ProjectDag says of a request is what the code makes of it.
SortIsRight == VerdictIsRight /\ LayersAreRight /\ SecondPassSucceeds

\* Both passes end.
Terminates == <>(sortAt \in {"accepted", "rejected"})
=============================================================================
