--------------------------- MODULE TopologicalSort ---------------------------
(***************************************************************************)
(* topologicalLayers: the validation of a DAG request and Kahn's algorithm *)
(* over it.  A round of the while loop is a step; the order of ids within  *)
(* a layer is left out.                                                    *)
(***************************************************************************)
EXTENDS DagGraph

CONSTANTS
  Id        \* node ids

VARIABLES
  pc,       \* "idle", "checking", "layering", "accepted" or "rejected"
  nodes,    \* the request: a sequence of [id, dependsOn]
  graph,    \* its dependsOn lists by id (adjacency, seen from the dependent)
  inDegree, \* per id, dependencies that no layer holds yet
  frontier, \* the next layer
  layers,   \* the layers so far
  processed \* how many nodes they hold

sortVars == <<pc, nodes, graph, inDegree, frontier, layers, processed>>

Request == Seq([id : Id, dependsOn : Seq(Id)])

SortInit ==
  /\ pc = "idle"
  /\ nodes = <<>>
  /\ graph = NoDag
  /\ inDegree = <<>>
  /\ frontier = {}
  /\ layers = <<>>
  /\ processed = 0

Call(request) ==
  /\ pc = "idle"
  /\ pc' = "checking"
  /\ nodes' = request
  /\ UNCHANGED <<graph, inDegree, frontier, layers, processed>>

-----------------------------------------------------------------------------
Ids(request) == {request[k].id : k \in DOMAIN request}

UniqueIds(request) ==
  \A j, k \in DOMAIN request : request[j].id = request[k].id => j = k

(* No self-loop and no unknown dependency.                                 *)
KnownDeps(request) ==
  \A k \in DOMAIN request : \A i \in DOMAIN request[k].dependsOn :
    request[k].dependsOn[i] \in Ids(request) \ {request[k].id}

AsGraph(request) ==
  [n \in Ids(request) |->
     request[CHOOSE k \in DOMAIN request : request[k].id = n].dependsOn]

WellFormed(request) ==
  request # <<>> /\ UniqueIds(request) /\ KnownDeps(request)

Reject ==
  /\ pc = "checking"
  /\ ~ WellFormed(nodes)
  /\ pc' = "rejected"
  /\ UNCHANGED <<nodes, graph, inDegree, frontier, layers, processed>>

(* Mutant of Prepare: a dependency named twice counts once in inDegree.    *)
PrepareOnce ==
  /\ pc = "checking"
  /\ WellFormed(nodes)
  /\ graph' = AsGraph(nodes)
  /\ inDegree' = [n \in Ids(nodes) |-> Cardinality(Deps(graph', n))]
  /\ frontier' = {n \in Ids(nodes) : inDegree'[n] = 0}
  /\ pc' = "layering"
  /\ UNCHANGED <<nodes, layers, processed>>

(* A dependency named twice counts twice, here and in adjacency.           *)
Prepare ==
  /\ pc = "checking"
  /\ WellFormed(nodes)
  /\ graph' = AsGraph(nodes)
  /\ inDegree' = [n \in Ids(nodes) |-> Len(graph'[n])]
  /\ frontier' = {n \in Ids(nodes) : inDegree'[n] = 0}
  /\ pc' = "layering"
  /\ UNCHANGED <<nodes, layers, processed>>

(* The entries of n's dependsOn list that the frontier satisfies.          *)
FromFrontier(n) == {i \in DOMAIN graph[n] : graph[n][i] \in frontier}

(* Mutant of Round: a node is taken without its in-degree being 0.         *)
RoundAny ==
  /\ pc = "layering"
  /\ frontier # {}
  /\ layers' = Append(layers, frontier)
  /\ processed' = processed + Cardinality(frontier)
  /\ inDegree' = [n \in DOMAIN graph |->
                    inDegree[n] - Cardinality(FromFrontier(n))]
  /\ frontier' = {n \in DOMAIN graph : FromFrontier(n) # {}}
  /\ UNCHANGED <<pc, nodes, graph>>

Round ==
  /\ pc = "layering"
  /\ frontier # {}
  /\ layers' = Append(layers, frontier)
  /\ processed' = processed + Cardinality(frontier)
  /\ inDegree' = [n \in DOMAIN graph |->
                    inDegree[n] - Cardinality(FromFrontier(n))]
  /\ frontier' = {n \in DOMAIN graph : /\ FromFrontier(n) # {}
                                       /\ inDegree'[n] = 0}
  /\ UNCHANGED <<pc, nodes, graph>>

(* Mutant of Finish: processed is not compared with the number of nodes.   *)
FinishAlways ==
  /\ pc = "layering"
  /\ frontier = {}
  /\ pc' = "accepted"
  /\ UNCHANGED <<nodes, graph, inDegree, frontier, layers, processed>>

(* Nodes that no round reached are on or behind a cycle.                   *)
Finish ==
  /\ pc = "layering"
  /\ frontier = {}
  /\ pc' = IF processed = Len(nodes) THEN "accepted" ELSE "rejected"
  /\ UNCHANGED <<nodes, graph, inDegree, frontier, layers, processed>>

SortStep == Reject \/ Prepare \/ Round \/ Finish

SortSpec ==
  SortInit /\ [][SortStep \/ \E request \in Request : Call(request)]_sortVars

-----------------------------------------------------------------------------
(* Correctness.                                                            *)

SortTypeOK ==
  /\ pc \in {"idle", "checking", "layering", "accepted", "rejected"}
  /\ nodes \in Request
  /\ DOMAIN graph \subseteq Id
  /\ \A n \in DOMAIN graph : graph[n] \in Seq(Id)
  /\ pc \in {"layering", "accepted"} =>
       inDegree \in [DOMAIN graph -> Nat] /\ frontier \subseteq DOMAIN graph
  /\ layers \in Seq(SUBSET DOMAIN graph)
  /\ processed \in Nat

(* Every dependency of a node is in an earlier layer, so a layer can run   *)
(* in parallel once the ones before it have completed.                     *)
DepsInEarlierLayers ==
  \A k \in DOMAIN layers : \A n \in layers[k] : \A d \in Deps(graph, n) :
    \E j \in 1..(k - 1) : d \in layers[j]

(* A node is in the earliest layer it can be in: one of its dependencies   *)
(* is in the layer just before ("parallelism is maximal", ADR-006).        *)
NoLaterThanNeeded ==
  \A k \in DOMAIN layers : k > 1 =>
    \A n \in layers[k] : Deps(graph, n) \intersect layers[k - 1] # {}

(* The layers of an accepted request hold each of its nodes exactly once.  *)
LayersPartition ==
  /\ \A j, k \in DOMAIN layers :
       j # k => layers[j] \intersect layers[k] = {}
  /\ pc = "accepted" => UNION {layers[k] : k \in DOMAIN layers} = Ids(nodes)

(* Each node is in the layer of its longest path from a root.              *)
Layered == DepsInEarlierLayers /\ NoLaterThanNeeded /\ LayersPartition

(* The verdict: a request is accepted exactly if its ids are unique and    *)
(* the graph is closed and acyclic, which is what createDag relies on.     *)
AcceptsExactlyValid ==
  /\ pc = "accepted" => UniqueIds(nodes) /\ Valid(AsGraph(nodes))
  /\ pc = "rejected" => ~ (UniqueIds(nodes) /\ Valid(AsGraph(nodes)))

=============================================================================
