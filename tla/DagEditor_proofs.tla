-------------------------- MODULE DagEditor_proofs --------------------------
(***************************************************************************)
(* topologicalLayers is correct for every request: it accepts exactly the  *)
(* closed, acyclic graphs with unique ids, and its layers are those of the *)
(* longest paths.  It accepts all that the editor sends, and what it       *)
(* accepts is drawn back, for every number of nodes and every edit.        *)
(***************************************************************************)
EXTENDS DagDrawing, SequenceTheorems, FiniteSetTheorems, TLAPS

(* The nodes that are in some layer, and what a node still waits for.      *)
Placed  == UNION {layers[k] : k \in DOMAIN layers}
Owed(n) == {i \in DOMAIN graph[n] : graph[n][i] \notin Placed}

(* Before the graph is built.                                              *)
Unbuilt == graph = NoDag /\ layers = <<>> /\ processed = 0 /\ frontier = {}

(* What the request is turned into.                                        *)
BuiltGraph == /\ WellFormed(nodes) /\ graph = AsGraph(nodes)
              /\ layers \in Seq(SUBSET DOMAIN graph)

(* The counters count what is left; the frontier is what waits for nothing *)
(* and is in no layer; there are no more layers than nodes in them.        *)
Counters ==
  /\ inDegree \in [DOMAIN graph -> Nat]
  /\ \A n \in DOMAIN graph : inDegree[n] = Cardinality(Owed(n))
  /\ frontier = {n \in DOMAIN graph : n \notin Placed /\ Owed(n) = {}}
  /\ \A n \in Placed : Owed(n) = {}
  /\ processed = Cardinality(Placed) /\ Len(layers) <= processed

(* The last layer released each node of the frontier.                      *)
JustReleased ==
  layers # <<>> =>
    \A n \in frontier : Deps(graph, n) \intersect layers[Len(layers)] # {}

Disjoint ==
  \A j, k \in DOMAIN layers : j # k => layers[j] \intersect layers[k] = {}

Built == /\ BuiltGraph /\ Counters /\ JustReleased /\ Disjoint
         /\ DepsInEarlierLayers /\ NoLaterThanNeeded

SortInv ==
  /\ pc \in {"idle", "checking", "layering", "accepted", "rejected"}
  /\ nodes \in Request
  /\ pc \in {"idle", "checking"} => Unbuilt
  /\ pc \in {"layering", "accepted"} => Built
  /\ pc = "accepted" => frontier = {} /\ processed = Len(nodes)
  /\ pc = "rejected" => \/ Unbuilt /\ ~ WellFormed(nodes)
                        \/ Built /\ frontier = {} /\ processed # Len(nodes)

-----------------------------------------------------------------------------
(* The graph of a well-formed request.                                     *)

LEMMA GraphShape ==
  ASSUME NEW request \in Request, UniqueIds(request)
  PROVE  /\ DOMAIN AsGraph(request) = Ids(request)
         /\ Ids(request) \subseteq Id
         /\ \A k \in DOMAIN request :
              /\ request[k].id \in Ids(request)
              /\ AsGraph(request)[request[k].id] = request[k].dependsOn
         /\ \A n \in Ids(request) : \E k \in DOMAIN request : request[k].id = n
         /\ \A n \in Ids(request) :
              /\ AsGraph(request)[n] \in Seq(Id)
              /\ DOMAIN AsGraph(request)[n] = 1..Len(AsGraph(request)[n])
              /\ Len(AsGraph(request)[n]) \in Nat
         /\ IsFiniteSet(Ids(request)) /\ Cardinality(Ids(request)) = Len(request)
<1>1. \A k \in DOMAIN request : /\ request[k].id \in Id
                                /\ request[k].dependsOn \in Seq(Id)
  <2> DEFINE Entry == [id : Id, dependsOn : Seq(Id)]
  <2>1. \A k \in DOMAIN request : request[k] \in Entry
    <3> HIDE DEF Entry
    <3>1. request \in Seq(Entry)
      BY DEF Request, Entry
    <3> QED
      BY <3>1
  <2>2. \A e \in Entry : e.id \in Id /\ e.dependsOn \in Seq(Id)
    OBVIOUS
  <2> HIDE DEF Entry
  <2> QED
    BY <2>1, <2>2
<1>2. DOMAIN AsGraph(request) = Ids(request)
  BY DEF AsGraph
<1>3. Ids(request) \subseteq Id
  BY <1>1 DEF Ids
<1>4. \A k \in DOMAIN request : request[k].id \in Ids(request)
  BY DEF Ids
<1>5. \A n \in Ids(request) : \E k \in DOMAIN request : request[k].id = n
  BY DEF Ids
<1>6. ASSUME NEW k \in DOMAIN request
      PROVE  AsGraph(request)[request[k].id] = request[k].dependsOn
  <2> DEFINE j == CHOOSE l \in DOMAIN request : request[l].id = request[k].id
  <2>1. j \in DOMAIN request /\ request[j].id = request[k].id
    OBVIOUS
  <2>2. j = k
    BY <2>1 DEF UniqueIds
  <2>3. AsGraph(request)[request[k].id] = request[j].dependsOn
    BY <1>4 DEF AsGraph
  <2> QED
    BY <2>2, <2>3
<1>7. \A n \in Ids(request) : AsGraph(request)[n] \in Seq(Id)
  BY <1>1, <1>5, <1>6
<1>8. IsFiniteSet(Ids(request)) /\ Cardinality(Ids(request)) = Len(request)
  <2> DEFINE f == [k \in 1..Len(request) |-> request[k].id]
  <2>1. Len(request) \in Nat /\ DOMAIN request = 1..Len(request)
    BY DEF Request
  <2>2. f \in Bijection(1..Len(request), Ids(request))
    BY <1>4, <1>5, <2>1
    DEF Bijection, Injection, Surjection, IsInjective, UniqueIds
  <2>3. ExistsBijection(1..Len(request), Ids(request))
    BY <2>2 DEF ExistsBijection
  <2> QED
    BY <2>1, <2>3, FS_CountingElements, FS_NatBijection
<1> QED
  BY <1>2, <1>3, <1>4, <1>5, <1>6, <1>7, <1>8

(* Known dependencies, of the graph.                                       *)
LEMMA KnownDepsOfGraph ==
  ASSUME NEW request \in Request, UniqueIds(request)
  PROVE  KnownDeps(request) <=>
           \A n \in Ids(request) : Deps(AsGraph(request), n) \subseteq Ids(request) \ {n}
<1>1. \A k \in DOMAIN request :
        Deps(AsGraph(request), request[k].id)
          = {request[k].dependsOn[i] : i \in DOMAIN request[k].dependsOn}
  BY GraphShape DEF Deps
<1>2. \A n \in Ids(request) : \E k \in DOMAIN request : request[k].id = n
  BY GraphShape
<1>3. \A k \in DOMAIN request : request[k].id \in Ids(request)
  BY GraphShape
<1>4. KnownDeps(request) <=>
        \A k \in DOMAIN request :
          Deps(AsGraph(request), request[k].id)
            \subseteq Ids(request) \ {request[k].id}
  <2>1. ASSUME NEW k \in DOMAIN request
        PROVE  Deps(AsGraph(request), request[k].id)
                 \subseteq Ids(request) \ {request[k].id}
               <=> \A i \in DOMAIN request[k].dependsOn :
                     request[k].dependsOn[i] \in Ids(request) \ {request[k].id}
    <3> DEFINE S == Ids(request) \ {request[k].id}
    <3>1. Deps(AsGraph(request), request[k].id)
            = {request[k].dependsOn[i] : i \in DOMAIN request[k].dependsOn}
      BY <1>1
    <3> HIDE DEF S
    <3>2. Deps(AsGraph(request), request[k].id) \subseteq S
            <=> \A i \in DOMAIN request[k].dependsOn :
                  request[k].dependsOn[i] \in S
      BY <3>1
    <3> QED
      BY <3>2 DEF S
  <2> QED
    BY <2>1 DEF KnownDeps
<1> QED
  BY <1>2, <1>3, <1>4

(* Sets of naturals have a least element.                                  *)
LEMMA LeastExists ==
  ASSUME NEW T \in SUBSET Nat, T # {}
  PROVE  \E x \in T : \A y \in T : x <= y
<1>1. PICK x \in T : \A y \in T : ~ (<<y, x>> \in OpToRel(<, Nat))
  BY NatLessThanWellFounded, WFMin
<1>2. \A y \in T : y < x => <<y, x>> \in OpToRel(<, Nat)
  BY DEF OpToRel
<1>3. \A y \in T : ~ (y < x)
  BY <1>1, <1>2, Zenon
<1> QED
  BY <1>3

(* What the algorithm relies on of a graph it has built.                   *)
LEMMA BuiltShape ==
  ASSUME nodes \in Request, BuiltGraph
  PROVE  /\ DOMAIN graph = Ids(nodes) /\ DOMAIN graph \subseteq Id
         /\ IsFiniteSet(DOMAIN graph) /\ Cardinality(DOMAIN graph) = Len(nodes)
         /\ Len(nodes) \in Nat
         /\ \A n \in DOMAIN graph : /\ DOMAIN graph[n] = 1..Len(graph[n])
                                    /\ Len(graph[n]) \in Nat
                                    /\ Deps(graph, n) \subseteq DOMAIN graph \ {n}
         /\ Len(layers) \in Nat /\ DOMAIN layers = 1..Len(layers)
         /\ Placed \subseteq DOMAIN graph
         /\ IsFiniteSet(Placed)
<1>1. UniqueIds(nodes) /\ KnownDeps(nodes) /\ graph = AsGraph(nodes)
  BY DEF BuiltGraph, WellFormed
<1>2. /\ Len(layers) \in Nat /\ DOMAIN layers = 1..Len(layers)
      /\ \A k \in DOMAIN layers : layers[k] \subseteq DOMAIN graph
  BY DEF BuiltGraph
<1>3. Placed \subseteq DOMAIN graph
  BY <1>2 DEF Placed
<1>4. /\ DOMAIN graph = Ids(nodes) /\ DOMAIN graph \subseteq Id
      /\ IsFiniteSet(DOMAIN graph) /\ Cardinality(DOMAIN graph) = Len(nodes)
  BY <1>1, GraphShape
<1>5. IsFiniteSet(Placed)
  BY <1>3, <1>4, FS_Subset
<1>6. Len(nodes) \in Nat
  BY DEF Request
<1>7. \A n \in DOMAIN graph : Deps(graph, n) \subseteq DOMAIN graph \ {n}
  BY <1>1, <1>4, KnownDepsOfGraph
<1>8. \A n \in DOMAIN graph : /\ DOMAIN graph[n] = 1..Len(graph[n])
                              /\ Len(graph[n]) \in Nat
  BY <1>1, GraphShape
<1> QED
  BY <1>2, <1>3, <1>4, <1>5, <1>6, <1>7, <1>8

-----------------------------------------------------------------------------
(* Prepare: nothing is placed, so all of a node's list is owed.            *)

LEMMA PrepareStep ==
  ASSUME SortInv, Prepare
  PROVE  SortInv'
<1>1. /\ nodes \in Request /\ WellFormed(nodes) /\ layers = <<>> /\ processed = 0
      /\ nodes' = nodes /\ layers' = layers /\ processed' = processed
      /\ graph' = AsGraph(nodes) /\ pc' = "layering"
      /\ inDegree' = [n \in Ids(nodes) |-> Len(graph'[n])]
      /\ frontier' = {n \in Ids(nodes) : inDegree'[n] = 0}
  BY DEF Prepare, SortInv, Unbuilt
<1>2. /\ DOMAIN graph' = Ids(nodes)
      /\ \A n \in Ids(nodes) : /\ DOMAIN graph'[n] = 1..Len(graph'[n])
                               /\ Len(graph'[n]) \in Nat
  BY <1>1, GraphShape DEF WellFormed
<1>3. Placed' = {} /\ DOMAIN layers' = {} /\ Len(layers') = 0
  BY <1>1 DEF Placed
<1>4. BuiltGraph'
  BY <1>1 DEF BuiltGraph
<1>5. \A n \in Ids(nodes) : Owed(n)' = 1..Len(graph'[n])
  BY <1>2, <1>3 DEF Owed
<1>6. Counters'
  <2>1. ASSUME NEW n \in Ids(nodes)
        PROVE  /\ inDegree'[n] = Cardinality(Owed(n)') /\ inDegree'[n] \in Nat
               /\ inDegree'[n] = 0 <=> Owed(n)' = {}
    <3> DEFINE l == Len(graph'[n])
    <3>1. l \in Nat /\ inDegree'[n] = l /\ Owed(n)' = 1..l
      BY <1>1, <1>2, <1>5
    <3> HIDE DEF l
    <3>2. Cardinality(1..l) = l
      BY <3>1, FS_Interval
    <3>3. l = 0 <=> 1..l = {}
      BY <3>1
    <3> QED
      BY <3>1, <3>2, <3>3
  <2>2. inDegree' \in [DOMAIN graph' -> Nat]
    BY <1>1, <1>2, <2>1
  <2>3. \A n \in DOMAIN graph' : inDegree'[n] = Cardinality(Owed(n)')
    BY <1>2, <2>1
  <2>4. frontier' = {n \in DOMAIN graph' : n \notin Placed' /\ Owed(n)' = {}}
    BY <1>1, <1>2, <1>3, <2>1
  <2>5. processed' = Cardinality(Placed') /\ Len(layers') <= processed'
    BY <1>1, <1>3, FS_EmptySet
  <2>6. \A n \in Placed' : Owed(n)' = {}
    BY <1>3
  <2> QED
    BY <2>2, <2>3, <2>4, <2>5, <2>6 DEF Counters
<1>7. JustReleased' /\ Disjoint' /\ DepsInEarlierLayers' /\ NoLaterThanNeeded'
  BY <1>1, <1>3 DEF JustReleased, Disjoint, DepsInEarlierLayers,
     NoLaterThanNeeded
<1> QED
  BY <1>1, <1>4, <1>6, <1>7 DEF SortInv, Built

-----------------------------------------------------------------------------
(* Round.                                                                  *)

(* The frontier becomes the last layer.                                    *)
LEMMA RoundLayers ==
  ASSUME nodes \in Request, Built, Round
  PROVE  /\ layers' \in Seq(SUBSET DOMAIN graph)
         /\ DOMAIN layers' = 1..(Len(layers) + 1) /\ Len(layers') = Len(layers) + 1
         /\ \A k \in 1..Len(layers) : layers'[k] = layers[k]
         /\ layers'[Len(layers) + 1] = frontier
         /\ Placed' = Placed \union frontier
         /\ Placed \intersect frontier = {}
         /\ frontier \subseteq DOMAIN graph
<1>1. frontier \subseteq DOMAIN graph /\ Placed \intersect frontier = {}
  BY DEF Built, Counters
<1>2. /\ layers' = Append(layers, frontier) /\ layers \in Seq(SUBSET DOMAIN graph)
      /\ Len(layers) \in Nat /\ DOMAIN layers = 1..Len(layers)
  BY DEF Round, Built, BuiltGraph
<1>3. /\ layers' \in Seq(SUBSET DOMAIN graph)
      /\ DOMAIN layers' = 1..(Len(layers) + 1) /\ Len(layers') = Len(layers) + 1
      /\ \A k \in 1..Len(layers) : layers'[k] = layers[k]
      /\ layers'[Len(layers) + 1] = frontier
  BY <1>1, <1>2
<1>4. Placed' = Placed \union frontier
  <2>1. ASSUME NEW n PROVE n \in Placed' <=> n \in Placed \union frontier
    BY <1>2, <1>3 DEF Placed
  <2> QED
    BY <2>1
<1> QED
  BY <1>1, <1>3, <1>4

(* What a node waits for shrinks by what the frontier satisfies.           *)
LEMMA RoundOwed ==
  ASSUME nodes \in Request, Built, Round, NEW n \in DOMAIN graph
  PROVE  /\ FromFrontier(n) \subseteq Owed(n)
         /\ Owed(n)' = Owed(n) \ FromFrontier(n)
         /\ IsFiniteSet(Owed(n))
         /\ Cardinality(Owed(n)') = Cardinality(Owed(n)) - Cardinality(FromFrontier(n))
         /\ Cardinality(Owed(n)') \in Nat
<1>1. graph' = graph
  BY DEF Round
<1>2. FromFrontier(n) \subseteq Owed(n)
  BY RoundLayers DEF FromFrontier, Owed
<1>3. Owed(n)' = Owed(n) \ FromFrontier(n)
  BY <1>1, RoundLayers DEF FromFrontier, Owed
<1>4. IsFiniteSet(Owed(n))
  <2>1. /\ DOMAIN graph[n] = 1..Len(graph[n]) /\ Len(graph[n]) \in Nat
    BY BuiltShape DEF Built
  <2>2. IsFiniteSet(1..Len(graph[n])) /\ Owed(n) \in SUBSET (1..Len(graph[n]))
    BY <2>1, FS_Interval DEF Owed
  <2> QED
    BY <2>2, FS_Subset
<1>5. Owed(n) \intersect FromFrontier(n) = FromFrontier(n)
  BY <1>2
<1>6. Cardinality(Owed(n)') = Cardinality(Owed(n)) - Cardinality(FromFrontier(n))
  BY <1>3, <1>4, <1>5, FS_Difference
<1>7. Cardinality(Owed(n)') \in Nat
  BY <1>3, <1>4, FS_Difference, FS_CardinalityType
<1> QED
  BY <1>2, <1>3, <1>4, <1>6, <1>7

LEMMA RoundCounters ==
  ASSUME nodes \in Request, Built, Round
  PROVE  Counters'
<1>1. /\ graph' = graph /\ processed' = processed + Cardinality(frontier)
      /\ inDegree' = [n \in DOMAIN graph |->
                        inDegree[n] - Cardinality(FromFrontier(n))]
      /\ frontier' = {n \in DOMAIN graph : FromFrontier(n) # {} /\ inDegree'[n] = 0}
      /\ frontier # {}
  BY DEF Round
<1>2. /\ inDegree \in [DOMAIN graph -> Nat]
      /\ \A n \in DOMAIN graph : inDegree[n] = Cardinality(Owed(n))
      /\ frontier = {n \in DOMAIN graph : n \notin Placed /\ Owed(n) = {}}
      /\ \A n \in Placed : Owed(n) = {}
      /\ processed = Cardinality(Placed) /\ Len(layers) <= processed
  BY DEF Built, Counters
<1>3. \A n \in DOMAIN graph : inDegree'[n] = Cardinality(Owed(n)')
  BY <1>1, <1>2, RoundOwed
<1>4. inDegree' \in [DOMAIN graph -> Nat]
  <2>1. \A n \in DOMAIN graph : inDegree'[n] \in Nat
    BY <1>3, RoundOwed
  <2> QED
    BY <1>1, <2>1
<1>5. \A n \in DOMAIN graph : Owed(n)' = {} <=> inDegree'[n] = 0
  <2> SUFFICES ASSUME NEW n \in DOMAIN graph
               PROVE  Owed(n)' = {} <=> Cardinality(Owed(n)') = 0
    BY <1>3
  <2>1. IsFiniteSet(Owed(n)')
    BY RoundOwed, FS_Difference
  <2> QED
    BY <2>1, FS_EmptySet
<1>6. ASSUME NEW n \in Placed' PROVE Owed(n)' = {}
  <2>1. n \in DOMAIN graph /\ Owed(n) = {}
    BY <1>2, <1>6, RoundLayers, BuiltShape DEF Built
  <2> QED
    BY <2>1, RoundOwed
<1>7. frontier' = {n \in DOMAIN graph : n \notin Placed' /\ Owed(n)' = {}}
  <2>1. ASSUME NEW n \in DOMAIN graph, FromFrontier(n) # {}
        PROVE  n \notin Placed'
    <3>1. Owed(n) # {}
      BY <2>1, RoundOwed
    <3> QED
      BY <1>2, <3>1, RoundLayers
  <2>2. ASSUME NEW n \in DOMAIN graph, FromFrontier(n) = {}, Owed(n)' = {}
        PROVE  n \in Placed'
    <3>1. Owed(n) = {}
      BY <2>2, RoundOwed
    <3> QED
      BY <1>2, <3>1, RoundLayers
  <2> QED
    BY <1>1, <1>5, <2>1, <2>2
<1>8. processed' = Cardinality(Placed') /\ Len(layers') <= processed'
  <2>1. /\ IsFiniteSet(Placed) /\ Len(layers) \in Nat
        /\ IsFiniteSet(frontier)
    BY BuiltShape, RoundLayers, FS_Subset DEF Built
  <2>2. /\ Cardinality(Placed) \in Nat /\ Cardinality(frontier) \in Nat
        /\ Cardinality(frontier) # 0
    BY <1>1, <2>1, FS_CardinalityType, FS_EmptySet
  <2>3. Cardinality(Placed') = Cardinality(Placed) + Cardinality(frontier)
    <3>1. Placed' = Placed \union frontier /\ Placed \intersect frontier = {}
      BY RoundLayers
    <3>2. Cardinality(Placed \union frontier)
            = Cardinality(Placed) + Cardinality(frontier) - Cardinality({})
      BY <2>1, <3>1, FS_Union
    <3> QED
      BY <2>2, <3>1, <3>2, FS_EmptySet
  <2>4. Len(layers') = Len(layers) + 1
    BY RoundLayers
  <2> QED
    BY <1>1, <1>2, <2>1, <2>2, <2>3, <2>4
<1> QED
  BY <1>1, <1>3, <1>4, <1>6, <1>7, <1>8 DEF Counters

LEMMA RoundStep ==
  ASSUME SortInv, Round
  PROVE  SortInv'
<1>1. /\ nodes \in Request /\ Built /\ UNCHANGED <<pc, nodes, graph>>
      /\ pc = "layering"
  BY DEF SortInv, Round
<1>2. BuiltGraph'
  BY <1>1, RoundLayers DEF Built, BuiltGraph
<1>3. Counters'
  BY <1>1, RoundCounters
<1>l. Len(layers) \in Nat /\ DOMAIN layers = 1..Len(layers)
  BY <1>1, BuiltShape DEF Built
<1>4. JustReleased'
  <2>1. ASSUME NEW n \in frontier' PROVE Deps(graph, n) \intersect frontier # {}
    BY <2>1 DEF Round, FromFrontier, Deps
  <2> QED
    BY <1>1, <1>l, <2>1, RoundLayers DEF JustReleased, Deps
<1>5. Disjoint'
  <2>1. \A k \in 1..Len(layers) : layers[k] \subseteq Placed
    BY <1>l DEF Placed
  <2>2. \A k \in 1..Len(layers) : layers[k] \intersect frontier = {}
    BY <1>1, <2>1, RoundLayers
  <2> SUFFICES ASSUME NEW j \in DOMAIN layers', NEW k \in DOMAIN layers', j # k
               PROVE  layers'[j] \intersect layers'[k] = {}
    BY DEF Disjoint
  <2>3. CASE j \in 1..Len(layers) /\ k \in 1..Len(layers)
    BY <1>1, <1>l, <2>3, RoundLayers DEF Built, Disjoint
  <2>4. CASE j = Len(layers) + 1 /\ k \in 1..Len(layers)
    BY <1>1, <2>2, <2>4, RoundLayers
  <2>5. CASE k = Len(layers) + 1 /\ j \in 1..Len(layers)
    BY <1>1, <2>2, <2>5, RoundLayers
  <2> QED
    BY <1>1, <1>l, <2>3, <2>4, <2>5, RoundLayers
<1>6. DepsInEarlierLayers'
  <2> SUFFICES ASSUME NEW k \in DOMAIN layers', NEW n \in layers'[k],
                      NEW d \in Deps(graph, n)
               PROVE  \E j \in 1..(k - 1) : d \in layers'[j]
    BY <1>1 DEF DepsInEarlierLayers, Deps
  <2>1. CASE k \in 1..Len(layers)
    <3>1. PICK j \in 1..(k - 1) : d \in layers[j]
      BY <1>1, <1>l, <2>1, RoundLayers DEF Built, DepsInEarlierLayers
    <3>2. j \in 1..Len(layers)
      BY <1>l, <2>1
    <3> QED
      BY <1>1, <3>1, <3>2, RoundLayers
  <2>2. CASE k = Len(layers) + 1
    <3>1. n \in frontier
      BY <1>1, <2>2, RoundLayers
    <3>2. Owed(n) = {}
      BY <1>1, <3>1 DEF Built, Counters
    <3>3. d \in Placed
      BY <3>2 DEF Owed, Deps
    <3>4. PICK j \in 1..Len(layers) : d \in layers[j]
      BY <1>l, <3>3 DEF Placed
    <3>5. j \in 1..(k - 1) /\ layers'[j] = layers[j]
      BY <1>1, <1>l, <2>2, <3>4, RoundLayers
    <3> QED
      BY <3>4, <3>5
  <2> QED
    BY <1>1, <1>l, <2>1, <2>2, RoundLayers
<1>7. NoLaterThanNeeded'
  <2> SUFFICES ASSUME NEW k \in DOMAIN layers', k > 1, NEW n \in layers'[k]
               PROVE  Deps(graph, n) \intersect layers'[k - 1] # {}
    BY <1>1 DEF NoLaterThanNeeded, Deps
  <2>1. CASE k \in 1..Len(layers)
    <3>1. k - 1 \in 1..Len(layers)
      BY <1>l, <2>1
    <3>2. layers'[k - 1] = layers[k - 1] /\ layers'[k] = layers[k]
      BY <1>1, <2>1, <3>1, RoundLayers
    <3> QED
      BY <1>1, <1>l, <2>1, <3>2 DEF Built, NoLaterThanNeeded
  <2>2. CASE k = Len(layers) + 1
    <3>1. Len(layers) \in 1..Len(layers) /\ k - 1 = Len(layers) /\ layers # <<>>
      BY <1>l, <2>2
    <3>2. n \in frontier /\ layers'[k - 1] = layers[Len(layers)]
      BY <1>1, <2>2, <3>1, RoundLayers
    <3> QED
      BY <1>1, <3>1, <3>2 DEF Built, JustReleased
  <2> QED
    BY <1>1, <1>l, <2>1, <2>2, RoundLayers
<1> QED
  BY <1>1, <1>2, <1>3, <1>4, <1>5, <1>6, <1>7 DEF SortInv, Built

-----------------------------------------------------------------------------
(* The invariant.                                                          *)

LEMMA SortSame ==
  ASSUME UNCHANGED <<nodes, graph, inDegree, frontier, layers, processed>>
  PROVE  Built' = Built /\ Unbuilt' = Unbuilt
BY DEF Built, BuiltGraph, Counters, JustReleased, Disjoint, DepsInEarlierLayers,
   NoLaterThanNeeded, Placed, Owed, Unbuilt

LEMMA SortInitInv == SortInit => SortInv
BY DEF SortInit, SortInv, Unbuilt, Request

LEMMA SortNextInv ==
  ASSUME SortInv,
         [SortStep \/ \E request \in Request : Call(request)]_sortVars
  PROVE  SortInv'
<1>1. ASSUME NEW request \in Request, Call(request) PROVE SortInv'
  BY <1>1 DEF Call, SortInv, Unbuilt
<1>2. CASE Reject
  BY <1>2 DEF Reject, SortInv, Unbuilt
<1>3. CASE Finish
  BY <1>3, SortSame DEF Finish, SortInv
<1>4. CASE UNCHANGED sortVars
  BY <1>4, SortSame DEF sortVars, SortInv
<1> QED
  BY <1>1, <1>2, <1>3, <1>4, PrepareStep, RoundStep DEF SortStep

THEOREM SortInvariance == SortSpec => []SortInv
BY SortInitInv, SortNextInv, PTL DEF SortSpec

-----------------------------------------------------------------------------
(* The theorems.                                                           *)

(* Every variable of the algorithm stays in its domain.                    *)
THEOREM SortTypeCorrect == SortSpec => []SortTypeOK
<1>1. SortInv => SortTypeOK
  <2> SUFFICES ASSUME SortInv PROVE SortTypeOK
    OBVIOUS
  <2>1. CASE ~ Built
    <3>1. /\ DOMAIN graph = {} /\ layers = <<>> /\ processed = 0
          /\ pc \in {"idle", "checking", "rejected"} /\ nodes \in Request
      BY <2>1 DEF SortInv, Unbuilt, NoDag
    <3>2. layers \in Seq(SUBSET DOMAIN graph)
      BY <3>1
    <3> QED
      BY <3>1, <3>2 DEF SortTypeOK
  <2>2. CASE Built
    <3>1. nodes \in Request /\ DOMAIN graph \subseteq Id
      BY <2>2, BuiltShape DEF SortInv, Built
    <3>2. \A n \in DOMAIN graph : graph[n] \in Seq(Id)
      BY <2>2, <3>1, GraphShape DEF Built, BuiltGraph, WellFormed
    <3>3. /\ layers \in Seq(SUBSET DOMAIN graph)
          /\ inDegree \in [DOMAIN graph -> Nat] /\ frontier \subseteq DOMAIN graph
      BY <2>2 DEF Built, BuiltGraph, Counters
    <3>4. processed \in Nat
      BY <2>2, <3>1, BuiltShape, FS_CardinalityType DEF Built, Counters
    <3> QED
      BY <3>1, <3>2, <3>3, <3>4 DEF SortInv, SortTypeOK
  <2> QED
    BY <2>1, <2>2 DEF SortInv
<1> QED
  BY <1>1, SortInvariance, PTL

(* A layer can run in parallel once the ones before it have completed, for *)
(* every request.                                                          *)
THEOREM LayersRespectDeps == SortSpec => []DepsInEarlierLayers
<1>1. SortInv => DepsInEarlierLayers
  BY DEF SortInv, Built, Unbuilt, DepsInEarlierLayers
<1> QED
  BY <1>1, SortInvariance, PTL

(* No node is in a later layer than it needs to be: parallelism is maximal *)
(* for every request.                                                      *)
THEOREM LayersAreTight == SortSpec => []NoLaterThanNeeded
<1>1. SortInv => NoLaterThanNeeded
  BY DEF SortInv, Built, Unbuilt, NoLaterThanNeeded
<1> QED
  BY <1>1, SortInvariance, PTL

(* An accepted request's layers hold each of its nodes exactly once.       *)
THEOREM LayersHoldAll == SortSpec => []LayersPartition
<1>1. SortInv => LayersPartition
  <2> SUFFICES ASSUME SortInv PROVE LayersPartition
    OBVIOUS
  <2>1. \A j, k \in DOMAIN layers : j # k => layers[j] \intersect layers[k] = {}
    BY DEF SortInv, Built, Unbuilt, Disjoint
  <2>2. ASSUME pc = "accepted" PROVE Placed = Ids(nodes)
    BY <2>2, BuiltShape, FS_Subset DEF SortInv, Built, Counters
  <2> QED
    BY <2>1, <2>2 DEF LayersPartition, Placed
<1> QED
  BY <1>1, SortInvariance, PTL

(* Each node is in the layer of its longest path from a root.              *)
THEOREM LayersAreLongestPaths == SortSpec => []Layered
<1>1. DepsInEarlierLayers /\ NoLaterThanNeeded /\ LayersPartition <=> Layered
  BY DEF Layered
<1> QED
  BY <1>1, LayersRespectDeps, LayersAreTight, LayersHoldAll, PTL

(* Of an acyclic graph, a set of nodes that each need another one of the   *)
(* set is empty.                                                           *)
LEMMA NothingStuck ==
  ASSUME NEW g, Acyclic(g), IsFiniteSet(DOMAIN g), NEW S \in SUBSET DOMAIN g,
         \A n \in S : Deps(g, n) \intersect S # {}
  PROVE  S = {}
<1> SUFFICES ASSUME S # {} PROVE FALSE
  OBVIOUS
<1>1. PICK rank \in [DOMAIN g -> 1..Cardinality(DOMAIN g)] :
        \A n \in DOMAIN g : \A d \in Deps(g, n) : rank[d] < rank[n]
  BY DEF Acyclic
<1>2. Cardinality(DOMAIN g) \in Nat
  BY FS_CardinalityType
<1> DEFINE T == {rank[n] : n \in S}
<1>3. \A n \in S : rank[n] \in Nat
  BY <1>1, <1>2
<1>4. T \in SUBSET Nat /\ T # {}
  BY <1>3
<1> HIDE DEF T
<1>5. PICK x \in T : \A y \in T : x <= y
  BY <1>4, LeastExists
<1>6. PICK n \in S : x = rank[n]
  BY <1>5 DEF T
<1>7. PICK d \in S : d \in Deps(g, n)
  BY <1>6
<1>8. rank[d] \in T /\ rank[d] < rank[n]
  BY <1>1, <1>6, <1>7 DEF T
<1> QED
  BY <1>3, <1>5, <1>6, <1>7, <1>8

(* The index of its layer ranks the nodes of an accepted request.          *)
LEMMA LayersRank ==
  ASSUME SortInv, pc = "accepted"
  PROVE  Acyclic(graph)
<1>1. /\ nodes \in Request /\ Built /\ frontier = {} /\ processed = Len(nodes)
  BY DEF SortInv
<1>2. /\ Placed \subseteq DOMAIN graph /\ IsFiniteSet(DOMAIN graph)
      /\ Cardinality(DOMAIN graph) = Len(nodes)
      /\ Len(layers) \in Nat /\ DOMAIN layers = 1..Len(layers)
      /\ Len(nodes) \in Nat
  BY <1>1, BuiltShape DEF Built
<1>3. Placed = DOMAIN graph /\ Len(layers) <= Cardinality(DOMAIN graph)
  BY <1>1, <1>2, FS_Subset DEF Built, Counters
<1> DEFINE rank == [n \in DOMAIN graph |->
                      CHOOSE k \in 1..Len(layers) : n \in layers[k]]
<1>4. ASSUME NEW n \in DOMAIN graph
      PROVE  rank[n] \in 1..Len(layers) /\ n \in layers[rank[n]]
  <2>1. \E k \in 1..Len(layers) : n \in layers[k]
    BY <1>2, <1>3 DEF Placed
  <2> QED
    BY <2>1
<1>5. rank \in [DOMAIN graph -> 1..Cardinality(DOMAIN graph)]
  <2>1. ASSUME NEW n \in DOMAIN graph
        PROVE  rank[n] \in 1..Cardinality(DOMAIN graph)
    <3> HIDE DEF rank
    <3>1. rank[n] \in 1..Len(layers)
      BY <1>4
    <3> QED
      BY <1>2, <1>3, <3>1
  <2> QED
    BY <2>1
<1>6. ASSUME NEW n \in DOMAIN graph, NEW d \in Deps(graph, n)
      PROVE  rank[d] < rank[n]
  <2> HIDE DEF rank
  <2>1. d \in DOMAIN graph
    BY <1>1, <1>6, BuiltShape DEF Built
  <2>2. PICK j \in 1..(rank[n] - 1) : d \in layers[j]
    BY <1>1, <1>2, <1>4, <1>6 DEF Built, DepsInEarlierLayers
  <2>3. j \in 1..Len(layers) /\ j < rank[n]
    BY <1>2, <1>4, <2>2
  <2>4. rank[d] = j
    <3>1. rank[d] \in DOMAIN layers /\ j \in DOMAIN layers
      BY <1>2, <1>4, <2>1, <2>3
    <3>2. d \in layers[rank[d]] /\ d \in layers[j]
      BY <1>4, <2>1, <2>2
    <3> QED
      BY <1>1, <3>1, <3>2 DEF Built, Disjoint
  <2> QED
    BY <2>3, <2>4
<1> HIDE DEF rank
<1> QED
  BY <1>5, <1>6 DEF Acyclic

(* What is left when the frontier is empty: nodes that each need another   *)
(* one of them.                                                            *)
LEMMA StuckSet ==
  ASSUME nodes \in Request, Built, frontier = {}, processed # Len(nodes)
  PROVE  LET S == DOMAIN graph \ Placed IN
         S # {} /\ \A n \in S : Deps(graph, n) \intersect S # {}
<1>1. /\ Placed \subseteq DOMAIN graph
      /\ Cardinality(DOMAIN graph) = Len(nodes)
      /\ \A n \in DOMAIN graph : Deps(graph, n) \subseteq DOMAIN graph
  BY BuiltShape DEF Built
<1> DEFINE S == DOMAIN graph \ Placed
<1>2. ASSUME NEW n \in S PROVE Deps(graph, n) \intersect S # {}
  <2>1. Owed(n) # {}
    BY <1>2 DEF Built, Counters
  <2>2. PICK i \in DOMAIN graph[n] : graph[n][i] \notin Placed
    BY <2>1 DEF Owed
  <2>3. graph[n][i] \in Deps(graph, n)
    BY DEF Deps
  <2> QED
    BY <1>1, <1>2, <2>2, <2>3
<1>3. S # {}
  <2>1. Placed # DOMAIN graph
    BY <1>1 DEF Built, Counters
  <2> QED
    BY <1>1, <2>1
<1> QED
  BY <1>2, <1>3

LEMMA LeftIsCyclic ==
  ASSUME nodes \in Request, Built, frontier = {}, processed # Len(nodes)
  PROVE  ~ Acyclic(graph)
<1>1. IsFiniteSet(DOMAIN graph)
  BY BuiltShape DEF Built
<1> QED
  BY <1>1, StuckSet, NothingStuck

(* topologicalLayers accepts a request exactly if its ids are unique and   *)
(* its graph is closed and acyclic, for every request.                     *)
THEOREM VerdictIsExact == SortSpec => []AcceptsExactlyValid
<1>1. SortInv => AcceptsExactlyValid
  <2> SUFFICES ASSUME SortInv PROVE AcceptsExactlyValid
    OBVIOUS
  <2>1. nodes \in Request
    BY DEF SortInv
  <2>2. ASSUME Built
        PROVE  /\ UniqueIds(nodes) /\ graph = AsGraph(nodes)
               /\ DOMAIN graph # {}
               /\ \A n \in DOMAIN graph : Deps(graph, n) \subseteq DOMAIN graph \ {n}
    <3>1. /\ UniqueIds(nodes) /\ graph = AsGraph(nodes) /\ nodes # <<>>
      BY <2>2 DEF Built, BuiltGraph, WellFormed
    <3>2. /\ Cardinality(DOMAIN graph) = Len(nodes)
          /\ \A n \in DOMAIN graph : Deps(graph, n) \subseteq DOMAIN graph \ {n}
      BY <2>1, <2>2, BuiltShape DEF Built
    <3>3. Len(nodes) # 0
      BY <2>1, <3>1 DEF Request
    <3> QED
      BY <3>1, <3>2, <3>3, FS_EmptySet
  <2>3. ASSUME pc = "accepted"
        PROVE  UniqueIds(nodes) /\ Valid(AsGraph(nodes))
    BY <2>2, <2>3, LayersRank DEF SortInv, Valid
  <2>4. ASSUME pc = "rejected", UniqueIds(nodes), Valid(AsGraph(nodes))
        PROVE  FALSE
    <3>1. CASE ~ WellFormed(nodes)
      <4>1. KnownDeps(nodes)
        BY <2>1, <2>4, GraphShape, KnownDepsOfGraph DEF Valid
      <4>2. nodes # <<>>
        BY <2>4 DEF Valid, AsGraph, Ids
      <4> QED
        BY <2>4, <3>1, <4>1, <4>2 DEF WellFormed
    <3>2. CASE Built /\ frontier = {} /\ processed # Len(nodes)
      BY <2>1, <2>2, <2>4, <3>2, LeftIsCyclic DEF Valid
    <3> QED
      BY <2>4, <3>1, <3>2 DEF SortInv
  <2> QED
    BY <2>3, <2>4 DEF AcceptsExactlyValid
<1> QED
  BY <1>1, SortInvariance, PTL

-----------------------------------------------------------------------------
(* The editor's invariant: the canvas, and what was sent.                  *)

(* No set of nodes in which each has an edge from another one of the set.  *)
NoCycle(E, N) ==
  \A S \in SUBSET N : S # {} => \E n \in S : \A m \in S : <<m, n>> \notin E

CanvasOK ==
  /\ drawn \in Seq(Id) /\ edges \in Seq(Drawn \X Drawn)
  /\ counter \in 1..(Len(IdNumber) + 1)
  /\ \A k \in DOMAIN drawn : \E j \in 1..(counter - 1) : drawn[k] = IdNumber[j]
  /\ \A j, k \in DOMAIN drawn : drawn[j] = drawn[k] => j = k
  /\ \A j, k \in DOMAIN edges : edges[j] = edges[k] => j = k
  /\ NoCycle(Edges, Drawn)

SentOK ==
  /\ sender \in {"page", "sample", "client"}
  /\ pc # "idle" /\ sender = "page" => drawn # <<>> /\ nodes = Payload
  /\ pc # "idle" /\ sender = "sample" => nodes = FanNodes(SampleIds)

EInv == CanvasOK /\ SentOK

-----------------------------------------------------------------------------
(* The filter.                                                             *)

Kept(s, S) == {i \in DOMAIN s : s[i] \in S}
At(s, S, i) == Cardinality({j \in Kept(s, S) : j <= i})

(* The place of a kept entry in the result: the places of all are 1, 2 ... *)
LEMMA PlaceOfKept ==
  ASSUME NEW T, NEW s \in Seq(T), NEW S
  PROVE  /\ IsFiniteSet(Kept(s, S)) /\ Cardinality(Kept(s, S)) \in Nat
         /\ \A i \in Kept(s, S) : At(s, S, i) \in 1..Cardinality(Kept(s, S))
         /\ \A i, j \in Kept(s, S) : At(s, S, i) = At(s, S, j) => i = j
         /\ \A k \in 1..Cardinality(Kept(s, S)) :
              \E i \in Kept(s, S) : At(s, S, i) = k
<1> DEFINE P == Kept(s, S)
           B(i) == {j \in P : j <= i}
<1>1. P \subseteq 1..Len(s) /\ Len(s) \in Nat
  BY DEF Kept
<1>2. IsFiniteSet(1..Len(s))
  BY <1>1, FS_Interval
<1>3. IsFiniteSet(P) /\ Cardinality(P) \in Nat
  BY <1>1, <1>2, FS_Subset, FS_CardinalityType
<1>4. \A i \in P : IsFiniteSet(B(i)) /\ Cardinality(B(i)) \in Nat
                   /\ Cardinality(B(i)) <= Cardinality(P)
  <2> SUFFICES ASSUME NEW i \in P
               PROVE  IsFiniteSet(B(i)) /\ Cardinality(B(i)) \in Nat
                      /\ Cardinality(B(i)) <= Cardinality(P)
    OBVIOUS
  <2> B(i) \subseteq P
    OBVIOUS
  <2> HIDE DEF P, B
  <2> QED
    BY <1>3, FS_Subset, FS_CardinalityType
<1>5. \A i \in P : At(s, S, i) = Cardinality(B(i))
  BY DEF At
<1>6. \A i \in P : At(s, S, i) \in 1..Cardinality(P)
  <2> SUFFICES ASSUME NEW i \in P PROVE Cardinality(B(i)) \in 1..Cardinality(P)
    BY <1>5
  <2>1. i \in B(i)
    <3>1. i \in Nat
      BY <1>1
    <3> QED
      BY <3>1
  <2>2. Cardinality(B(i)) # 0
    <3> HIDE DEF B
    <3> QED
      BY <1>4, <2>1, FS_EmptySet
  <2> QED
    BY <1>3, <1>4, <2>2
<1>7. \A i, j \in P : At(s, S, i) = At(s, S, j) => i = j
  <2>1. ASSUME NEW i \in P, NEW j \in P, i < j
        PROVE  Cardinality(B(i)) < Cardinality(B(j))
    <3>1. i \in Nat /\ j \in Nat
      BY <1>1
    <3>2. B(i) \subseteq B(j) /\ j \in B(j) /\ j \notin B(i)
      BY <1>1, <2>1, <3>1
    <3> HIDE DEF B
    <3> QED
      BY <1>4, <3>2, FS_Subset
  <2> SUFFICES ASSUME NEW i \in P, NEW j \in P,
                      Cardinality(B(i)) = Cardinality(B(j))
               PROVE  i = j
    BY <1>5
  <2>2. i \in Nat /\ j \in Nat
    BY <1>1
  <2>3. ~ (i < j) /\ ~ (j < i)
    <3>1. Cardinality(B(i)) \in Nat /\ Cardinality(B(j)) \in Nat
      BY <1>4
    <3> HIDE DEF P, B
    <3> QED
      BY <2>1, <3>1
  <2> QED
    BY <2>2, <2>3
<1>8. ASSUME NEW k \in 1..Cardinality(P)
      PROVE  \E i \in P : At(s, S, i) = k
  <2> DEFINE K == 1..Cardinality(P)
             f == [i \in P |-> At(s, S, i)]
  <2>1. IsFiniteSet(K) /\ Cardinality(K) = Cardinality(P)
    BY <1>3, FS_Interval
  <2>2. f \in Injection(P, K)
    BY <1>6, <1>7 DEF Injection, IsInjective
  <2>3. f \in Surjection(P, K)
    <3> HIDE DEF f, K, P
    <3> QED
      BY <2>1, <2>2, FS_Injection
  <2>4. \E i \in P : f[i] = k
    BY <2>3 DEF Surjection
  <2> QED
    BY <2>4
<1> QED
  BY <1>3, <1>6, <1>7, <1>8

LEMMA FilteredProperties ==
  ASSUME NEW T, NEW s \in Seq(T), NEW S, NEW r, r = Filtered(s, S)
  PROVE  /\ r \in Seq(T) /\ DOMAIN r = 1..Len(r) /\ Len(r) \in Nat
         /\ \A k \in DOMAIN r : r[k] \in S /\ \E i \in DOMAIN s : s[i] = r[k]
         /\ \A i \in DOMAIN s : s[i] \in S => \E k \in DOMAIN r : r[k] = s[i]
         /\ (\A i, j \in DOMAIN s : s[i] = s[j] => i = j) =>
              \A k, l \in DOMAIN r : r[k] = r[l] => k = l
<1> DEFINE P == Kept(s, S)
           n == Cardinality(P)
           pos(k) == CHOOSE i \in P : At(s, S, i) = k
<1>1. r = [k \in 1..n |-> s[pos(k)]]
  BY DEF Filtered, Kept, At
<1>2. n \in Nat
  BY PlaceOfKept
<1>3. \A k \in 1..n : pos(k) \in P /\ At(s, S, pos(k)) = k
  <2> SUFFICES ASSUME NEW k \in 1..n PROVE pos(k) \in P /\ At(s, S, pos(k)) = k
    OBVIOUS
  <2>1. \E i \in P : At(s, S, i) = k
    BY PlaceOfKept
  <2> HIDE DEF P
  <2> QED
    BY <2>1
<1>4. \A i \in P : At(s, S, i) \in 1..n /\ pos(At(s, S, i)) = i
  <2> SUFFICES ASSUME NEW i \in P
               PROVE  At(s, S, i) \in 1..n /\ pos(At(s, S, i)) = i
    OBVIOUS
  <2>1. At(s, S, i) \in 1..n /\ \A j \in P : At(s, S, j) = At(s, S, i) => j = i
    BY PlaceOfKept
  <2> QED
    BY <1>3, <2>1
<1>5. \A i \in P : i \in DOMAIN s /\ s[i] \in S /\ s[i] \in T
  BY DEF Kept
<1>6. \A i \in DOMAIN s : s[i] \in S => i \in P
  BY DEF Kept
<1> HIDE DEF P, pos, n
<1>7. r \in [1..n -> T]
  BY <1>1, <1>3, <1>5
<1>8. r \in Seq(T) /\ DOMAIN r = 1..n /\ Len(r) = n
  BY <1>2, <1>7
<1>9. \A k \in 1..n : r[k] = s[pos(k)]
  BY <1>1
<1>a. \A k \in DOMAIN r : r[k] \in S /\ \E i \in DOMAIN s : s[i] = r[k]
  BY <1>3, <1>5, <1>8, <1>9
<1>b. \A i \in DOMAIN s : s[i] \in S => \E k \in DOMAIN r : r[k] = s[i]
  BY <1>4, <1>6, <1>8, <1>9
<1>c. ASSUME \A i, j \in DOMAIN s : s[i] = s[j] => i = j,
             NEW k \in DOMAIN r, NEW l \in DOMAIN r, r[k] = r[l]
      PROVE  k = l
  <2>1. pos(k) = pos(l)
    BY <1>3, <1>5, <1>8, <1>9, <1>c
  <2> QED
    BY <1>3, <1>8, <2>1
<1> QED
  BY <1>2, <1>8, <1>a, <1>b, <1>c

LEMMA FunctionIsSeq ==
  ASSUME NEW T, NEW n \in Nat, NEW f \in [1..n -> T]
  PROVE  f \in Seq(T)
OBVIOUS

(* A sequence of what is in U is a sequence over U.                        *)
LEMMA SeqOver ==
  ASSUME NEW T, NEW U, NEW s \in Seq(T), \A k \in DOMAIN s : s[k] \in U
  PROVE  s \in Seq(U)
<1>1. Len(s) \in Nat /\ DOMAIN s = 1..Len(s) /\ s = [k \in 1..Len(s) |-> s[k]]
  OBVIOUS
<1>2. s \in [1..Len(s) -> U]
  BY <1>1
<1> QED
  BY <1>1, <1>2

-----------------------------------------------------------------------------
(* Edits keep the canvas without cycles.                                   *)

LEMMA NoCycleFewer ==
  ASSUME NEW E, NEW N, NEW F \in SUBSET E, NEW M \in SUBSET N, NoCycle(E, N)
  PROVE  NoCycle(F, M)
BY DEF NoCycle

(* A new node has no edges yet.                                            *)
LEMMA NoCycleWithNode ==
  ASSUME NEW N, NEW E \in SUBSET (N \X N), NEW x, x \notin N, NoCycle(E, N)
  PROVE  NoCycle(E, N \union {x})
<1> SUFFICES ASSUME NEW S \in SUBSET (N \union {x}), S # {}
             PROVE  \E n \in S : \A m \in S : <<m, n>> \notin E
  BY DEF NoCycle
<1>1. \A m : <<m, x>> \notin E /\ <<x, m>> \notin E
  OBVIOUS
<1>2. CASE S \ {x} = {}
  BY <1>1, <1>2
<1>3. CASE S \ {x} # {}
  <2>1. PICK n \in S \ {x} : \A m \in S \ {x} : <<m, n>> \notin E
    BY <1>3 DEF NoCycle
  <2> QED
    BY <1>1, <2>1
<1> QED
  BY <1>2, <1>3

(* An edge s to t closes no cycle if t is in a set that no edge leaves and *)
(* s is not: of a set of nodes, the ones outside are looked at first.      *)
LEMMA NoCycleWithEdge ==
  ASSUME NEW N, NEW E, NEW C \in SUBSET N, NEW s \in N, NEW t \in C, s \notin C,
         \A m \in C, n \in N : <<m, n>> \in E => n \in C,
         NoCycle(E, N)
  PROVE  NoCycle(E \union {<<s, t>>}, N)
<1> SUFFICES ASSUME NEW S \in SUBSET N, S # {}
             PROVE  \E n \in S : \A m \in S : <<m, n>> \notin E \union {<<s, t>>}
  BY DEF NoCycle
<1>1. CASE S \ C # {}
  <2>1. PICK n \in S \ C : \A m \in S \ C : <<m, n>> \notin E
    <3>1. S \ C \in SUBSET N
      OBVIOUS
    <3> QED
      BY <1>1, <3>1 DEF NoCycle
  <2>2. ASSUME NEW m \in S PROVE <<m, n>> \notin E /\ <<m, n>> # <<s, t>>
    BY <2>1
  <2> QED
    BY <2>1, <2>2
<1>2. CASE S \subseteq C
  <2>1. PICK n \in S : \A m \in S : <<m, n>> \notin E
    BY DEF NoCycle
  <2>2. \A m \in S : <<m, n>> # <<s, t>>
    BY <1>2
  <2> QED
    BY <2>1, <2>2
<1> QED
  BY <1>1, <1>2

LEMMA CanvasInit == Init => CanvasOK
<1> SUFFICES ASSUME Init PROVE CanvasOK
  OBVIOUS
<1>1. drawn = <<IdNumber[1]>> /\ edges = <<>> /\ counter = 2
  BY DEF Init
<1>2. IdNumber[1] \in Id /\ Len(IdNumber) \in Nat /\ Len(IdNumber) >= 1
  BY EditorAssumption
<1>3. DOMAIN drawn = {1} /\ drawn[1] = IdNumber[1] /\ drawn \in Seq(Id)
  BY <1>1, <1>2
<1>4. Edges = {} /\ edges \in Seq(Drawn \X Drawn) /\ DOMAIN edges = {}
  BY <1>1 DEF Edges
<1>5. counter \in 1..(Len(IdNumber) + 1) /\ 1 \in 1..(counter - 1)
  BY <1>1, <1>2
<1> QED
  BY <1>3, <1>4, <1>5 DEF CanvasOK, NoCycle

LEMMA CanvasAddNode ==
  ASSUME CanvasOK, AddNode
  PROVE  CanvasOK'
<1> DEFINE x == IdNumber[counter]
<1>1. /\ drawn \in Seq(Id) /\ Len(drawn) \in Nat /\ DOMAIN drawn = 1..Len(drawn)
      /\ counter \in Nat /\ counter >= 1 /\ Len(IdNumber) \in Nat
      /\ counter <= Len(IdNumber) /\ counter' = counter + 1
      /\ drawn' = Append(drawn, x) /\ edges' = edges
  BY EditorAssumption DEF CanvasOK, AddNode
<1>2. counter \in DOMAIN IdNumber /\ x \in Id
  BY <1>1, EditorAssumption
<1>3. \A k \in DOMAIN drawn : \E j \in 1..(counter - 1) : drawn[k] = IdNumber[j]
  BY DEF CanvasOK
<1>4. ASSUME NEW k \in DOMAIN drawn PROVE drawn[k] # x
  <2>1. PICK j \in 1..(counter - 1) : drawn[k] = IdNumber[j]
    BY <1>3
  <2>2. j \in DOMAIN IdNumber /\ j # counter
    BY <1>1, EditorAssumption
  <2> QED
    BY <1>2, <2>1, <2>2, EditorAssumption
<1> HIDE DEF x
<1>5. /\ drawn' \in Seq(Id) /\ DOMAIN drawn' = 1..(Len(drawn) + 1)
      /\ \A k \in DOMAIN drawn : k \in DOMAIN drawn' /\ drawn'[k] = drawn[k]
      /\ drawn'[Len(drawn) + 1] = x
      /\ \A k \in DOMAIN drawn' : k \in DOMAIN drawn \/ k = Len(drawn) + 1
  BY <1>1, <1>2
<1>6. Drawn' = Drawn \union {x} /\ x \notin Drawn
  <2>1. Len(drawn) + 1 \in DOMAIN drawn'
    BY <1>1, <1>5
  <2> QED
    BY <1>4, <1>5, <2>1 DEF Drawn
<1>7. Edges' = Edges /\ Edges \in SUBSET (Drawn \X Drawn)
  BY <1>1 DEF Edges, CanvasOK
<1>8. edges' \in Seq(Drawn' \X Drawn')
  <2>1. edges \in Seq(Drawn \X Drawn)
    BY DEF CanvasOK
  <2>2. \A k \in DOMAIN edges : edges[k] \in Drawn' \X Drawn'
    BY <1>6, <2>1
  <2> QED
    BY <1>1, <2>1, <2>2, SeqOver
<1>9. NoCycle(Edges', Drawn')
  BY <1>6, <1>7, NoCycleWithNode DEF CanvasOK
<1>a. ASSUME NEW k \in DOMAIN drawn'
      PROVE  \E j \in 1..(counter' - 1) : drawn'[k] = IdNumber[j]
  <2>1. CASE k \in DOMAIN drawn
    <3>1. PICK j \in 1..(counter - 1) : drawn[k] = IdNumber[j]
      BY <1>3, <2>1
    <3>2. j \in 1..(counter' - 1)
      BY <1>1
    <3> QED
      BY <1>5, <2>1, <3>1, <3>2
  <2>2. CASE k = Len(drawn) + 1
    <3>1. counter \in 1..(counter' - 1)
      BY <1>1
    <3> QED
      BY <1>5, <2>2, <3>1 DEF x
  <2> QED
    BY <1>5, <2>1, <2>2
<1>b. \A j, k \in DOMAIN drawn' : drawn'[j] = drawn'[k] => j = k
  BY <1>4, <1>5 DEF CanvasOK
<1>c. counter' \in 1..(Len(IdNumber) + 1)
  BY <1>1
<1>d. \A j, k \in DOMAIN edges' : edges'[j] = edges'[k] => j = k
  BY <1>1 DEF CanvasOK
<1> QED
  BY <1>5, <1>8, <1>9, <1>a, <1>b, <1>c, <1>d DEF CanvasOK

LEMMA CanvasConnect ==
  ASSUME CanvasOK, NEW s \in Drawn, NEW t \in Drawn, Connect(s, t)
  PROVE  CanvasOK'
<1>1. /\ edges' = Append(edges, <<s, t>>) /\ drawn' = drawn /\ counter' = counter
      /\ edges \in Seq(Drawn \X Drawn) /\ Len(edges) \in Nat
      /\ DOMAIN edges = 1..Len(edges)
      /\ t \notin Targets(edges, s) /\ ~ WouldCreateCycle(edges, s, t)
  BY DEF CanvasOK, Connect
<1>2. Drawn' = Drawn
  BY <1>1 DEF Drawn
<1>3. /\ edges' \in Seq(Drawn \X Drawn) /\ DOMAIN edges' = 1..(Len(edges) + 1)
      /\ \A k \in DOMAIN edges : k \in DOMAIN edges' /\ edges'[k] = edges[k]
      /\ edges'[Len(edges) + 1] = <<s, t>>
      /\ \A k \in DOMAIN edges' : k \in DOMAIN edges \/ k = Len(edges) + 1
  <2>1. <<s, t>> \in Drawn \X Drawn
    OBVIOUS
  <2> QED
    BY <1>1, <2>1
<1>4. Edges' = Edges \union {<<s, t>>}
  <2>1. Len(edges) + 1 \in DOMAIN edges'
    BY <1>1, <1>3
  <2> QED
    BY <1>3, <2>1 DEF Edges
<1>5. \A k \in DOMAIN edges : edges[k] # <<s, t>>
  BY <1>1 DEF Targets
<1>6. PICK C \in SUBSET Drawn :
        t \in C /\ s \notin C /\ \A n \in C : Targets(edges, n) \subseteq C
  BY <1>1 DEF WouldCreateCycle
<1>7. \A m \in C, n \in Drawn : <<m, n>> \in Edges => n \in C
  <2> SUFFICES ASSUME NEW m \in C, NEW k \in DOMAIN edges, NEW n \in Drawn,
                      edges[k] = <<m, n>>
               PROVE  n \in C
    BY DEF Edges
  <2>1. n \in Targets(edges, m)
    BY DEF Targets
  <2> QED
    BY <1>6, <2>1
<1>8. NoCycle(Edges', Drawn')
  BY <1>2, <1>4, <1>6, <1>7, NoCycleWithEdge DEF CanvasOK
<1>9. \A j, k \in DOMAIN edges' : edges'[j] = edges'[k] => j = k
  BY <1>3, <1>5 DEF CanvasOK
<1>a. edges' \in Seq(Drawn' \X Drawn')
  BY <1>2, <1>3
<1>b. /\ drawn' \in Seq(Id) /\ counter' \in 1..(Len(IdNumber) + 1)
      /\ \A k \in DOMAIN drawn' : \E j \in 1..(counter' - 1) : drawn'[k] = IdNumber[j]
      /\ \A j, k \in DOMAIN drawn' : drawn'[j] = drawn'[k] => j = k
  BY <1>1 DEF CanvasOK
<1> QED
  BY <1>8, <1>9, <1>a, <1>b DEF CanvasOK

LEMMA CanvasDeleteNode ==
  ASSUME CanvasOK, NEW n \in Drawn, DeleteNode(n)
  PROVE  CanvasOK'
<1> DEFINE K == {e \in Edges : n \notin {e[1], e[2]}}
<1>1. /\ drawn \in Seq(Id) /\ edges \in Seq(Drawn \X Drawn) /\ counter' = counter
      /\ drawn' = Filtered(drawn, Drawn \ {n}) /\ edges' = Filtered(edges, K)
  BY DEF CanvasOK, DeleteNode
<1>2. /\ drawn' \in Seq(Id)
      /\ \A k \in DOMAIN drawn' : /\ drawn'[k] \in Drawn \ {n}
                                  /\ \E i \in DOMAIN drawn : drawn[i] = drawn'[k]
      /\ \A i \in DOMAIN drawn :
           drawn[i] \in Drawn \ {n} => \E k \in DOMAIN drawn' : drawn'[k] = drawn[i]
      /\ \A j, k \in DOMAIN drawn' : drawn'[j] = drawn'[k] => j = k
  <2>1. \A i, j \in DOMAIN drawn : drawn[i] = drawn[j] => i = j
    BY DEF CanvasOK
  <2> DEFINE S == Drawn \ {n}
             T == Id
  <2>2. drawn \in Seq(T) /\ drawn' = Filtered(drawn, S)
    BY <1>1
  <2> HIDE DEF S, T
  <2>3. /\ drawn' \in Seq(T)
        /\ \A k \in DOMAIN drawn' : /\ drawn'[k] \in S
                                    /\ \E i \in DOMAIN drawn : drawn[i] = drawn'[k]
        /\ \A i \in DOMAIN drawn :
             drawn[i] \in S => \E k \in DOMAIN drawn' : drawn'[k] = drawn[i]
        /\ \A j, k \in DOMAIN drawn' : drawn'[j] = drawn'[k] => j = k
    BY <2>1, <2>2, FilteredProperties
  <2> QED
    BY <2>3 DEF S, T
<1>3. Drawn' = Drawn \ {n}
  BY <1>2 DEF Drawn
<1>4. /\ edges' \in Seq(Drawn \X Drawn)
      /\ \A k \in DOMAIN edges' : edges'[k] \in K
      /\ \A j, k \in DOMAIN edges' : edges'[j] = edges'[k] => j = k
  <2>1. \A i, j \in DOMAIN edges : edges[i] = edges[j] => i = j
    BY DEF CanvasOK
  <2> DEFINE S == K
             T == Drawn \X Drawn
  <2>2. edges \in Seq(T) /\ edges' = Filtered(edges, S)
    BY <1>1
  <2> HIDE DEF S, T
  <2>3. /\ edges' \in Seq(T)
        /\ \A k \in DOMAIN edges' : /\ edges'[k] \in S
                                    /\ \E i \in DOMAIN edges : edges[i] = edges'[k]
        /\ \A i \in DOMAIN edges :
             edges[i] \in S => \E k \in DOMAIN edges' : edges'[k] = edges[i]
        /\ \A j, k \in DOMAIN edges' : edges'[j] = edges'[k] => j = k
    BY <2>1, <2>2, FilteredProperties
  <2> QED
    BY <2>3 DEF S, T
<1>5. Edges \subseteq Drawn \X Drawn
  BY <1>1 DEF Edges
<1>6. \A k \in DOMAIN edges' : edges'[k] \in Drawn' \X Drawn'
  BY <1>3, <1>4, <1>5
<1>7. edges' \in Seq(Drawn' \X Drawn')
  BY <1>4, <1>6, SeqOver
<1>8. NoCycle(Edges', Drawn')
  <2>1. Edges' \in SUBSET Edges /\ Drawn' \in SUBSET Drawn
    BY <1>3, <1>4 DEF Edges
  <2> QED
    BY <2>1, NoCycleFewer DEF CanvasOK
<1>9. \A k \in DOMAIN drawn' : \E j \in 1..(counter - 1) : drawn'[k] = IdNumber[j]
  BY <1>2 DEF CanvasOK
<1> QED
  BY <1>1, <1>2, <1>4, <1>7, <1>8, <1>9 DEF CanvasOK

LEMMA CanvasDeleteEdge ==
  ASSUME CanvasOK, NEW e \in Edges, DeleteEdge(e)
  PROVE  CanvasOK'
<1>1. /\ edges \in Seq(Drawn \X Drawn) /\ drawn' = drawn /\ counter' = counter
      /\ edges' = Filtered(edges, Edges \ {e})
  BY DEF CanvasOK, DeleteEdge
<1>2. Drawn' = Drawn
  BY <1>1 DEF Drawn
<1>3. /\ edges' \in Seq(Drawn \X Drawn)
      /\ \A k \in DOMAIN edges' : edges'[k] \in Edges \ {e}
      /\ \A j, k \in DOMAIN edges' : edges'[j] = edges'[k] => j = k
  <2>1. \A i, j \in DOMAIN edges : edges[i] = edges[j] => i = j
    BY DEF CanvasOK
  <2> DEFINE S == Edges \ {e}
             T == Drawn \X Drawn
  <2>2. edges \in Seq(T) /\ edges' = Filtered(edges, S)
    BY <1>1
  <2> HIDE DEF S, T
  <2>3. /\ edges' \in Seq(T)
        /\ \A k \in DOMAIN edges' : /\ edges'[k] \in S
                                    /\ \E i \in DOMAIN edges : edges[i] = edges'[k]
        /\ \A i \in DOMAIN edges :
             edges[i] \in S => \E k \in DOMAIN edges' : edges'[k] = edges[i]
        /\ \A j, k \in DOMAIN edges' : edges'[j] = edges'[k] => j = k
    BY <2>1, <2>2, FilteredProperties
  <2> QED
    BY <2>3 DEF S, T
<1>4. NoCycle(Edges', Drawn')
  <2>1. Edges' \in SUBSET Edges /\ Drawn' \in SUBSET Drawn
    BY <1>2, <1>3 DEF Edges
  <2> QED
    BY <2>1, NoCycleFewer DEF CanvasOK
<1> QED
  BY <1>1, <1>2, <1>3, <1>4 DEF CanvasOK

(* Steps that leave the page alone.                                        *)
LEMMA CanvasSame ==
  ASSUME CanvasOK, UNCHANGED pageVars
  PROVE  CanvasOK' /\ Payload' = Payload
<1>1. drawn' = drawn /\ edges' = edges /\ counter' = counter
  BY DEF pageVars
<1>2. Drawn' = Drawn /\ Edges' = Edges
  BY <1>1 DEF Drawn, Edges
<1>3. CanvasOK'
  BY <1>1, <1>2 DEF CanvasOK
<1>4. Payload' = Payload
  BY <1>1, <1>2 DEF Payload
<1> QED
  BY <1>3, <1>4

-----------------------------------------------------------------------------
(* What the page and the sample send.                                      *)

LEMMA PayloadShape ==
  ASSUME CanvasOK
  PROVE  /\ Payload \in Request /\ DOMAIN Payload = DOMAIN drawn
         /\ \A k \in DOMAIN drawn :
              /\ Payload[k].id = drawn[k]
              /\ \A i \in DOMAIN Payload[k].dependsOn :
                   <<Payload[k].dependsOn[i], drawn[k]>> \in Edges
              /\ \A m : <<m, drawn[k]>> \in Edges =>
                   \E i \in DOMAIN Payload[k].dependsOn :
                     Payload[k].dependsOn[i] = m
              /\ \A i, j \in DOMAIN Payload[k].dependsOn :
                   Payload[k].dependsOn[i] = Payload[k].dependsOn[j] => i = j
<1>1. /\ drawn \in Seq(Id) /\ Len(drawn) \in Nat /\ DOMAIN drawn = 1..Len(drawn)
      /\ edges \in Seq(Drawn \X Drawn) /\ Drawn \subseteq Id
  BY DEF CanvasOK, Drawn
<1>2. ASSUME NEW k \in DOMAIN drawn
      PROVE  /\ Payload[k] \in [id : Id, dependsOn : Seq(Id)]
             /\ \A i \in DOMAIN Payload[k].dependsOn :
                  <<Payload[k].dependsOn[i], drawn[k]>> \in Edges
             /\ \A m : <<m, drawn[k]>> \in Edges =>
                  \E i \in DOMAIN Payload[k].dependsOn :
                    Payload[k].dependsOn[i] = m
             /\ \A i, j \in DOMAIN Payload[k].dependsOn :
                  Payload[k].dependsOn[i] = Payload[k].dependsOn[j] => i = j
  <2> DEFINE S == {e \in Edges : e[2] = drawn[k]}
             T == Drawn \X Drawn
             r == Filtered(edges, S)
             d == [i \in DOMAIN r |-> r[i][1]]
  <2>1. Payload[k] = [id |-> drawn[k], dependsOn |-> d]
    BY DEF Payload
  <2>2. edges \in Seq(T) /\ \A i, j \in DOMAIN edges : edges[i] = edges[j] => i = j
    BY <1>1 DEF CanvasOK
  <2>3. /\ r \in Seq(T) /\ DOMAIN r = 1..Len(r) /\ Len(r) \in Nat
        /\ \A i \in DOMAIN r : r[i] \in S /\ r[i] \in T
        /\ \A i \in DOMAIN edges : edges[i] \in S => \E j \in DOMAIN r : r[j] = edges[i]
        /\ \A i, j \in DOMAIN r : r[i] = r[j] => i = j
    <3>1. r = Filtered(edges, S)
      OBVIOUS
    <3> HIDE DEF S, T, r
    <3>2. /\ r \in Seq(T) /\ DOMAIN r = 1..Len(r) /\ Len(r) \in Nat
          /\ \A i \in DOMAIN r : r[i] \in S
          /\ \A i \in DOMAIN edges : edges[i] \in S => \E j \in DOMAIN r : r[j] = edges[i]
          /\ \A i, j \in DOMAIN r : r[i] = r[j] => i = j
      BY <2>2, <3>1, FilteredProperties
    <3> QED
      BY <3>2
  <2> HIDE DEF r
  <2>4. \A i \in DOMAIN r : /\ d[i] = r[i][1] /\ d[i] \in Drawn
                            /\ r[i] = <<d[i], drawn[k]>> /\ r[i] \in Edges
    BY <2>3
  <2>5. DOMAIN d = DOMAIN r
    OBVIOUS
  <2>6. d \in Seq(Id)
    <3>1. d \in [1..Len(r) -> Id]
      BY <1>1, <2>3, <2>4
    <3> HIDE DEF d
    <3> QED
      BY <2>3, <3>1, FunctionIsSeq
  <2> HIDE DEF d
  <2>7. ASSUME NEW m, <<m, drawn[k]>> \in Edges
        PROVE  \E i \in DOMAIN d : d[i] = m
    <3>1. PICK j \in DOMAIN edges : edges[j] = <<m, drawn[k]>>
      BY <2>7 DEF Edges
    <3>2. edges[j] \in S
      BY <2>7, <3>1
    <3>3. PICK i \in DOMAIN r : r[i] = edges[j]
      <4> HIDE DEF S, T
      <4> QED
        BY <2>3, <3>2
    <3> QED
      BY <2>4, <2>5, <3>1, <3>3
  <2>8. \A i, j \in DOMAIN d : d[i] = d[j] => i = j
    <3>1. \A i, j \in DOMAIN r : d[i] = d[j] => r[i] = r[j]
      BY <2>4
    <3> QED
      BY <2>3, <2>5, <3>1
  <2>9. Payload[k].dependsOn = d
    BY <2>1
  <2>a. Payload[k] \in [id : Id, dependsOn : Seq(Id)]
    BY <1>1, <2>1, <2>6
  <2>b. \A i \in DOMAIN d : <<d[i], drawn[k]>> \in Edges
    BY <2>4, <2>5
  <2>c. \A m : <<m, drawn[k]>> \in Edges => \E i \in DOMAIN d : d[i] = m
    BY <2>7
  <2> HIDE DEF S, T
  <2> QED
    BY <2>8, <2>9, <2>a, <2>b, <2>c, Zenon
<1>3. DOMAIN Payload = DOMAIN drawn
  BY DEF Payload
<1>4. Payload \in Request
  <2>1. \A k \in DOMAIN drawn : Payload[k] \in [id : Id, dependsOn : Seq(Id)]
    BY <1>2
  <2>2. Payload \in [1..Len(drawn) -> [id : Id, dependsOn : Seq(Id)]]
    <3>1. Payload = [k \in 1..Len(drawn) |-> Payload[k]]
      BY <1>1 DEF Payload
    <3> QED
      BY <1>1, <2>1, <3>1
  <2> QED
    BY <1>1, <2>2, FunctionIsSeq DEF Request
<1>5. \A k \in DOMAIN drawn : Payload[k].id = drawn[k]
  BY DEF Payload
<1> QED
  BY <1>2, <1>3, <1>4, <1>5

LEMMA PayloadWellFormed ==
  ASSUME CanvasOK, drawn # <<>>
  PROVE  WellFormed(Payload) /\ Ids(Payload) = Drawn
<1>1. Ids(Payload) = Drawn
  BY PayloadShape DEF Ids, Drawn
<1>2. UniqueIds(Payload)
  BY PayloadShape DEF UniqueIds, CanvasOK
<1>3. Edges \subseteq Drawn \X Drawn
  BY DEF CanvasOK, Edges
<1>4. \A n \in Drawn : <<n, n>> \notin Edges
  <2> SUFFICES ASSUME NEW n \in Drawn PROVE <<n, n>> \notin Edges
    OBVIOUS
  <2>1. {n} \in SUBSET Drawn /\ {n} # {}
    OBVIOUS
  <2> QED
    BY <2>1 DEF CanvasOK, NoCycle
<1>5. KnownDeps(Payload)
  <2> SUFFICES ASSUME NEW k \in DOMAIN drawn,
                      NEW i \in DOMAIN Payload[k].dependsOn
               PROVE  Payload[k].dependsOn[i] \in Drawn \ {drawn[k]}
    BY <1>1, PayloadShape DEF KnownDeps
  <2>1. <<Payload[k].dependsOn[i], drawn[k]>> \in Edges
    BY PayloadShape
  <2> QED
    BY <1>3, <1>4, <2>1
<1>6. Payload # <<>>
  <2>1. DOMAIN drawn # {}
    BY DEF CanvasOK
  <2> QED
    BY <2>1, PayloadShape
<1> QED
  BY <1>1, <1>2, <1>5, <1>6 DEF WellFormed

LEMMA FanShape ==
  /\ FanNodes(SampleIds) \in Request /\ WellFormed(FanNodes(SampleIds))
  /\ Len(SampleIds) \in Nat /\ Len(SampleIds) >= 2
  /\ DOMAIN FanNodes(SampleIds) = 1..Len(SampleIds)
  /\ \A k \in 1..Len(SampleIds) :
       /\ FanNodes(SampleIds)[k].id = SampleIds[k]
       /\ \A i \in DOMAIN FanNodes(SampleIds)[k].dependsOn :
            \E j \in 1..Len(SampleIds) :
              /\ FanNodes(SampleIds)[k].dependsOn[i] = SampleIds[j]
              /\ k # 1
              /\ k # Len(SampleIds) => j = 1
              /\ k = Len(SampleIds) => j > 1 /\ j < k
<1> DEFINE ids == SampleIds
           L == Len(ids)
           fan == FanNodes(ids)
           dep(k) == CASE k = 1 -> <<>>
                       [] k = L -> SubSeq(ids, 2, k - 1)
                       [] OTHER -> <<ids[1]>>
<1>1. /\ ids \in Seq(Id) /\ L \in Nat /\ L >= 2 /\ DOMAIN ids = 1..L
      /\ \A j, k \in 1..L : ids[j] = ids[k] => j = k
      /\ \A k \in 1..L : ids[k] \in Id
  BY EditorAssumption
<1>2. DOMAIN fan = 1..L /\ \A k \in 1..L : fan[k] = [id |-> ids[k], dependsOn |-> dep(k)]
  BY <1>1 DEF FanNodes
<1>3. ASSUME NEW k \in 1..L
      PROVE  /\ dep(k) \in Seq(Id)
             /\ \A i \in DOMAIN dep(k) :
                  \E j \in 1..L : /\ dep(k)[i] = ids[j] /\ k # 1
                                  /\ k # L => j = 1
                                  /\ k = L => j > 1 /\ j < k
  <2> HIDE DEF ids, L
  <2>1. CASE k = 1
    BY <2>1
  <2>2. CASE k # 1 /\ k = L
    <3>1. dep(k) = SubSeq(ids, 2, L - 1)
      BY <2>2
    <3>2. /\ dep(k) \in Seq(Id)
          /\ DOMAIN dep(k) = 1..(L - 2)
          /\ \A i \in 1..(L - 2) : dep(k)[i] = ids[i + 1]
      <4> DEFINE l == L - 1
                 mid == SubSeq(ids, 2, l)
      <4>1. l \in Int /\ l + 1 >= 2 /\ \A i \in 2..l : ids[i] \in Id
        BY <1>1
      <4>2. l - 2 + 1 = L - 2 /\ L - 2 \in Nat
            /\ (2 <= l \/ L - 2 = 0)
            /\ \A i \in 1..(L - 2) : 2 + i - 1 = i + 1
        BY <1>1
      <4> HIDE DEF l
      <4>3. /\ mid \in Seq(Id)
            /\ Len(mid) = IF 2 <= l THEN l - 2 + 1 ELSE 0
            /\ \A i \in 1..(l - 2 + 1) : mid[i] = ids[2 + i - 1]
        BY <1>1, <4>1, SubSeqProperties
      <4>4. dep(k) = mid
        BY <3>1 DEF l
      <4> HIDE DEF mid
      <4>5. /\ mid \in Seq(Id) /\ Len(mid) = L - 2 /\ DOMAIN mid = 1..Len(mid)
            /\ \A i \in 1..(L - 2) : mid[i] = ids[i + 1]
        BY <4>2, <4>3
      <4> QED
        BY <4>4, <4>5
    <3>3. \A i \in 1..(L - 2) : i + 1 \in 1..L /\ i + 1 > 1 /\ i + 1 < L
      BY <1>1
    <3> QED
      BY <2>2, <3>2, <3>3
  <2>3. CASE k # 1 /\ k # L
    <3>1. dep(k) = <<ids[1]>> /\ 1 \in 1..L
      BY <1>1, <2>3
    <3>2. ids[1] \in Id
      BY <1>1, <3>1
    <3>3. <<ids[1]>> \in Seq(Id) /\ DOMAIN <<ids[1]>> = {1} /\ <<ids[1]>>[1] = ids[1]
      BY <3>2
    <3> QED
      BY <2>3, <3>1, <3>3
  <2> QED
    BY <2>1, <2>2, <2>3
<1> HIDE DEF dep, fan, L, ids
<1>4. fan \in Request
  <2>1. \A k \in 1..L : fan[k] \in [id : Id, dependsOn : Seq(Id)]
    BY <1>1, <1>2, <1>3
  <2>2. fan = [k \in 1..L |-> fan[k]]
    BY <1>2 DEF fan, FanNodes
  <2>3. fan \in [1..L -> [id : Id, dependsOn : Seq(Id)]]
    BY <2>1, <2>2
  <2> QED
    BY <1>1, <2>3, FunctionIsSeq DEF Request
<1>5. UniqueIds(fan)
  BY <1>1, <1>2 DEF UniqueIds
<1>6. Ids(fan) = {ids[k] : k \in 1..L}
  BY <1>2 DEF Ids
<1>7. KnownDeps(fan)
  <2> SUFFICES ASSUME NEW k \in 1..L, NEW i \in DOMAIN dep(k)
               PROVE  dep(k)[i] \in Ids(fan) \ {ids[k]}
    BY <1>2 DEF KnownDeps
  <2>1. PICK j \in 1..L : /\ dep(k)[i] = ids[j] /\ k # 1
                          /\ k # L => j = 1
                          /\ k = L => j > 1 /\ j < k
    BY <1>3
  <2>2. j # k
    BY <1>1, <2>1
  <2> QED
    BY <1>1, <1>6, <2>1, <2>2
<1>8. fan # <<>>
  <2>1. 1 \in DOMAIN fan
    BY <1>1, <1>2
  <2> QED
    BY <2>1
<1>9. WellFormed(fan)
  BY <1>5, <1>7, <1>8 DEF WellFormed
<1>a. \A k \in 1..L : fan[k].id = ids[k] /\ fan[k].dependsOn = dep(k)
  BY <1>2
<1>b. /\ L \in Nat /\ L >= 2 /\ DOMAIN fan = 1..L
      /\ \A k \in 1..L :
           /\ fan[k].id = ids[k]
           /\ \A i \in DOMAIN fan[k].dependsOn :
                \E j \in 1..L : /\ fan[k].dependsOn[i] = ids[j] /\ k # 1
                                /\ k # L => j = 1
                                /\ k = L => j > 1 /\ j < k
  BY <1>1, <1>2, <1>3, <1>a
<1> QED
  BY <1>4, <1>9, <1>b DEF fan, ids, L

-----------------------------------------------------------------------------
(* The invariant of the editor and the algorithm together.                 *)

LEMMA EditorInit == Init => SortInv /\ EInv
<1> SUFFICES ASSUME Init PROVE SortInv /\ EInv
  OBVIOUS
<1>1. SortInv
  BY SortInitInv DEF Init
<1>2. SentOK
  BY DEF Init, SortInit, SentOK
<1> QED
  BY <1>1, <1>2, CanvasInit DEF EInv

(* Each step of the editor is a call or a step of the algorithm, or leaves *)
(* the algorithm alone.                                                    *)
LEMMA EditorStepIsSortStep ==
  ASSUME CanvasOK, [Next]_vars
  PROVE  [SortStep \/ \E request \in Request : Call(request)]_sortVars
<1>1. CASE AddNode
  BY <1>1 DEF AddNode, Editing
<1>2. CASE \E m, n \in Drawn : Connect(m, n)
  BY <1>2 DEF Connect, Editing
<1>3. CASE \E n \in Drawn : DeleteNode(n)
  BY <1>3 DEF DeleteNode, Editing
<1>4. CASE \E e \in Edges : DeleteEdge(e)
  BY <1>4 DEF DeleteEdge, Editing
<1>5. CASE Submit
  BY <1>5, PayloadShape DEF Submit
<1>6. CASE Spawn
  BY <1>6, FanShape DEF Spawn
<1>7. CASE OtherRequest
  BY <1>7, EditorAssumption DEF OtherRequest
<1>8. CASE Layering
  BY <1>8 DEF Layering
<1>9. CASE UNCHANGED vars
  BY <1>9 DEF vars
<1> QED
  BY <1>1, <1>2, <1>3, <1>4, <1>5, <1>6, <1>7, <1>8, <1>9 DEF Next

(* Edits leave the request alone; it is sent once.                         *)
LEMMA EditsBeforeSending ==
  ASSUME SentOK, Editing
  PROVE  SentOK'
BY DEF SentOK, Editing, sortVars

LEMMA EditorNext ==
  ASSUME SortInv, EInv, [Next]_vars
  PROVE  EInv'
<1>0. CanvasOK /\ SentOK
  BY DEF EInv
<1>1. CASE AddNode
  BY <1>0, <1>1, CanvasAddNode, EditsBeforeSending DEF AddNode, EInv
<1>2. CASE \E m, n \in Drawn : Connect(m, n)
  <2>1. PICK m, n \in Drawn : Connect(m, n)
    BY <1>2
  <2>2. CanvasOK'
    BY <1>0, <2>1, CanvasConnect
  <2>3. SentOK'
    BY <1>0, <2>1, EditsBeforeSending DEF Connect
  <2> QED
    BY <2>2, <2>3 DEF EInv
<1>3. CASE \E n \in Drawn : DeleteNode(n)
  <2>1. PICK n \in Drawn : DeleteNode(n)
    BY <1>3
  <2>2. CanvasOK'
    BY <1>0, <2>1, CanvasDeleteNode
  <2>3. SentOK'
    BY <1>0, <2>1, EditsBeforeSending DEF DeleteNode
  <2> QED
    BY <2>2, <2>3 DEF EInv
<1>4. CASE \E e \in Edges : DeleteEdge(e)
  <2>1. PICK e \in Edges : DeleteEdge(e)
    BY <1>4
  <2>2. CanvasOK'
    BY <1>0, <2>1, CanvasDeleteEdge
  <2>3. SentOK'
    BY <1>0, <2>1, EditsBeforeSending DEF DeleteEdge
  <2> QED
    BY <2>2, <2>3 DEF EInv
<1>5. CASE Submit
  <2>1. UNCHANGED <<pageVars, sender>> /\ sender = "page"
    BY <1>5 DEF Submit
  <2>2. CanvasOK' /\ Payload' = Payload /\ drawn' = drawn
    BY <1>0, <2>1, CanvasSame DEF pageVars
  <2>3. nodes' = Payload /\ drawn # <<>>
    BY <1>5 DEF Submit, Call, LocallyValid
  <2>4. SentOK'
    BY <2>1, <2>2, <2>3 DEF SentOK
  <2> QED
    BY <2>2, <2>4 DEF EInv
<1>6. CASE Spawn
  <2>1. UNCHANGED <<pageVars, sender>> /\ sender = "sample"
    BY <1>6 DEF Spawn
  <2>2. nodes' = FanNodes(SampleIds)
    BY <1>6 DEF Spawn, Call
  <2>3. SentOK'
    BY <2>1, <2>2 DEF SentOK
  <2> QED
    BY <1>0, <2>1, <2>3, CanvasSame DEF EInv
<1>7. CASE OtherRequest
  <2>1. UNCHANGED <<pageVars, sender>> /\ sender = "client"
    BY <1>7 DEF OtherRequest
  <2>2. SentOK'
    BY <2>1 DEF SentOK
  <2> QED
    BY <1>0, <2>1, <2>2, CanvasSame DEF EInv
<1>8. CASE Layering
  <2>1. UNCHANGED <<pageVars, sender>> /\ nodes' = nodes /\ pc # "idle"
    BY <1>8 DEF Layering, SortStep, Reject, Prepare, Round, Finish
  <2>2. CanvasOK' /\ Payload' = Payload /\ drawn' = drawn
    BY <1>0, <2>1, CanvasSame DEF pageVars
  <2>3. SentOK'
    BY <1>0, <2>1, <2>2 DEF SentOK
  <2> QED
    BY <2>2, <2>3 DEF EInv
<1>9. CASE UNCHANGED vars
  <2>1. UNCHANGED <<pageVars, sender>> /\ nodes' = nodes /\ pc' = pc
    BY <1>9 DEF vars, sortVars, pageVars
  <2>2. CanvasOK' /\ Payload' = Payload /\ drawn' = drawn
    BY <1>0, <2>1, CanvasSame DEF pageVars
  <2>3. SentOK'
    BY <1>0, <2>1, <2>2 DEF SentOK
  <2> QED
    BY <2>2, <2>3 DEF EInv
<1> QED
  BY <1>1, <1>2, <1>3, <1>4, <1>5, <1>6, <1>7, <1>8, <1>9 DEF Next

LEMMA EditorInvariance == Spec => [](SortInv /\ EInv)
<1>1. SortInv /\ EInv /\ [Next]_vars => (SortInv /\ EInv)'
  <2> SUFFICES ASSUME SortInv, EInv, [Next]_vars PROVE SortInv' /\ EInv'
    OBVIOUS
  <2>1. [SortStep \/ \E request \in Request : Call(request)]_sortVars
    BY EditorStepIsSortStep DEF EInv
  <2> QED
    BY <2>1, SortNextInv, EditorNext
<1> QED
  BY <1>1, EditorInit, PTL DEF Spec

(* The editor, the samples and the other clients use topologicalLayers as  *)
(* it is specified: all that is proved of SortSpec holds of the whole.     *)
THEOREM PagesUseSort == Spec => SortSpec
<1>1. Init => SortInit
  BY DEF Init
<1>2. SortInv /\ EInv /\ [Next]_vars
        => [SortStep \/ \E request \in Request : Call(request)]_sortVars
  BY EditorStepIsSortStep DEF EInv
<1> QED
  BY <1>1, <1>2, EditorInvariance, PTL DEF Spec, SortSpec

(* So whatever the pages send is judged exactly, and layered by longest    *)
(* paths.                                                                  *)
THEOREM PagesAreJudgedExactly ==
  Spec => [](SortTypeOK /\ Layered /\ AcceptsExactlyValid)
BY PagesUseSort, SortTypeCorrect, LayersAreLongestPaths, VerdictIsExact, PTL

(* What passes the editor's own check, and each sample, is accepted, for   *)
(* any number of nodes and edits.                                          *)
THEOREM PreflightIsEnough == Spec => []EditorAccepted
<1>1. ASSUME SortInv, EInv, sender # "client", pc = "rejected"
      PROVE  FALSE
  <2>1. /\ CanvasOK /\ nodes \in Request
        /\ \/ sender = "page" /\ drawn # <<>> /\ nodes = Payload
           \/ sender = "sample" /\ nodes = FanNodes(SampleIds)
    BY <1>1 DEF SortInv, EInv, SentOK
  <2>2. WellFormed(nodes)
    BY <2>1, PayloadWellFormed, FanShape
  <2>3. Built /\ frontier = {} /\ processed # Len(nodes)
    BY <1>1, <2>2 DEF SortInv
  <2> DEFINE S == DOMAIN graph \ Placed
  <2>4. /\ S # {} /\ S \subseteq Ids(nodes)
        /\ \A n \in S : \E d \in S : d \in Deps(graph, n)
    BY <2>1, <2>3, StuckSet, BuiltShape DEF Built
  <2>5. /\ \A k \in DOMAIN nodes : graph[nodes[k].id] = nodes[k].dependsOn
        /\ \A n \in Ids(nodes) : \E k \in DOMAIN nodes : nodes[k].id = n
    BY <2>1, <2>2, <2>3, GraphShape DEF Built, BuiltGraph, WellFormed
  <2> HIDE DEF S
  <2>6. \A n \in S : \E d \in S : \E k \in DOMAIN nodes :
          /\ nodes[k].id = n
          /\ \E i \in DOMAIN nodes[k].dependsOn : nodes[k].dependsOn[i] = d
    BY <2>4, <2>5 DEF Deps
  <2>7. CASE sender = "page"
    <3>1. nodes = Payload /\ S \in SUBSET Drawn
      BY <2>1, <2>4, <2>7, PayloadWellFormed
    <3>2. PICK n \in S : \A m \in S : <<m, n>> \notin Edges
      BY <2>1, <2>4, <3>1 DEF CanvasOK, NoCycle
    <3>3. PICK d \in S, k \in DOMAIN nodes :
            /\ nodes[k].id = n
            /\ \E i \in DOMAIN nodes[k].dependsOn : nodes[k].dependsOn[i] = d
      BY <2>6
    <3>4. <<d, n>> \in Edges
      BY <2>1, <3>1, <3>3, PayloadShape
    <3> QED
      BY <3>2, <3>4
  <2>8. CASE sender = "sample"
    <3> DEFINE L == Len(SampleIds)
               fan == FanNodes(SampleIds)
               Need(j, k) == /\ k # 1
                             /\ k # L => j = 1
                             /\ k = L => j > 1 /\ j < k
    <3>1. nodes = fan /\ L \in Nat /\ L >= 2 /\ DOMAIN fan = 1..L
          /\ \A k \in 1..L :
               /\ fan[k].id = SampleIds[k]
               /\ \A i \in DOMAIN fan[k].dependsOn :
                    \E j \in 1..L : fan[k].dependsOn[i] = SampleIds[j] /\ Need(j, k)
      BY <2>1, <2>8, FanShape
    <3> HIDE DEF fan, Need, L
    <3>2. ASSUME NEW n \in S
          PROVE  \E j, k \in 1..L : SampleIds[j] \in S /\ SampleIds[k] = n /\ Need(j, k)
      BY <2>6, <3>1
    <3>3. \A j, k \in 1..L : SampleIds[j] = SampleIds[k] => j = k
      BY EditorAssumption DEF L
    <3>4. ASSUME NEW k \in 1..L, SampleIds[k] \in S
          PROVE  \E j \in 1..L : SampleIds[j] \in S /\ Need(j, k)
      BY <3>2, <3>3, <3>4
    <3>5. SampleIds[1] \notin S
      BY <3>1, <3>4 DEF Need
    <3>6. \A k \in 1..L : k # L => SampleIds[k] \notin S
      BY <3>4, <3>5 DEF Need
    <3>7. SampleIds[L] \notin S
      <4>1. ASSUME NEW j \in 1..L, j < L PROVE SampleIds[j] \notin S
        BY <3>1, <3>6, <4>1
      <4>2. L \in 1..L
        BY <3>1
      <4> QED
        BY <3>4, <4>1, <4>2 DEF Need
    <3>8. \A k \in 1..L : SampleIds[k] \notin S
      BY <3>6, <3>7
    <3> QED
      BY <2>4, <3>2, <3>8
  <2> QED
    BY <2>1, <2>7, <2>8
<1>2. SortInv /\ EInv => EditorAccepted
  BY <1>1 DEF EditorAccepted
<1> QED
  BY <1>2, EditorInvariance, PTL

-----------------------------------------------------------------------------
(* The drawing.                                                            *)

(* The rows of a column hold the ids of its layer, each once.              *)
LEMMA RowsOfLayer ==
  ASSUME NEW S, IsFiniteSet(S), NEW rows, rows = SetToSeq(S)
  PROVE  /\ DOMAIN rows = 1..Cardinality(S)
         /\ \A r \in DOMAIN rows : rows[r] \in S
         /\ \A q, r \in DOMAIN rows : rows[q] = rows[r] => q = r
         /\ \A n \in S : \E r \in DOMAIN rows : rows[r] = n
<1> DEFINE K == 1..Cardinality(S)
<1>1. Cardinality(S) \in Nat /\ IsFiniteSet(K) /\ Cardinality(K) = Cardinality(S)
  BY FS_CardinalityType, FS_Interval
<1>2. \E f \in [K -> S] : IsInjective(f)
  <2>1. PICK n \in Nat : ExistsBijection(1..n, S)
    BY FS_NatBijection
  <2>2. Cardinality(S) = n
    BY <2>1, FS_CountingElements
  <2>3. PICK f \in Bijection(1..n, S) : TRUE
    BY <2>1 DEF ExistsBijection
  <2> QED
    BY <2>2, <2>3 DEF Bijection, Injection, IsInjective
<1>3. rows \in [K -> S] /\ IsInjective(rows)
  BY <1>2 DEF SetToSeq
<1> HIDE DEF K
<1>4. rows \in Injection(K, S)
  BY <1>3 DEF Injection, IsInjective
<1>5. rows \in Surjection(K, S)
  BY <1>1, <1>4, FS_Injection
<1>6. \A n \in S : \E r \in K : rows[r] = n
  BY <1>5 DEF Surjection
<1>7. \A q, r \in K : rows[q] = rows[r] => q = r
  BY <1>3 DEF IsInjective
<1> QED
  BY <1>3, <1>6, <1>7 DEF K

(* A bounded set of numbers with a member has a greatest one.              *)
LEMMA GreatestIsMax ==
  ASSUME NEW T \in SUBSET Nat, T # {}, NEW b \in Nat, \A x \in T : x <= b
  PROVE  Max(T) \in T /\ \A x \in T : x <= Max(T)
<1> DEFINE U == {x \in Nat : \A y \in T : y <= x}
<1>1. U \in SUBSET Nat /\ b \in U
  OBVIOUS
<1>2. PICK m \in U : \A x \in U : m <= x
  <2> HIDE DEF U
  <2> QED
    BY <1>1, LeastExists
<1>3. m \in Nat /\ \A y \in T : y <= m
  BY <1>2
<1>4. m \in T
  <2> SUFFICES ASSUME m \notin T PROVE FALSE
    OBVIOUS
  <2>1. \A y \in T : y \in Nat /\ y < m
    BY <1>3
  <2>2. m - 1 \in Nat
    <3>1. PICK y : y \in T
      OBVIOUS
    <3>2. y \in Nat /\ y < m
      BY <2>1, <3>1
    <3> QED
      BY <1>3, <3>2
  <2>3. \A y \in T : y <= m - 1
    BY <1>3, <2>1
  <2>4. m - 1 \in U
    BY <2>2, <2>3
  <2> QED
    BY <1>2, <1>3, <2>4
<1> HIDE DEF U
<1>5. \E x \in T : \A y \in T : x >= y
  BY <1>3, <1>4
<1>6. Max(T) \in T /\ \A y \in T : Max(T) >= y
  BY <1>5 DEF Max
<1> QED
  BY <1>6

(* What an accepted request leaves.                                        *)
LEMMA AcceptedLayers ==
  ASSUME SortInv, pc = "accepted"
  PROVE  /\ nodes \in Request /\ Built /\ WellFormed(nodes)
         /\ DOMAIN layers = 1..Len(layers) /\ Len(layers) \in Nat
         /\ Cardinality(DOMAIN graph) \in Nat
         /\ \A k \in DOMAIN layers :
              /\ IsFiniteSet(layers[k]) /\ Cardinality(layers[k]) \in Nat
              /\ Cardinality(layers[k]) <= Cardinality(DOMAIN graph)
         /\ \A j, k \in DOMAIN layers : \A n :
              n \in layers[j] /\ n \in layers[k] => j = k
         /\ Placed = Ids(nodes)
<1>1. /\ nodes \in Request /\ Built /\ frontier = {} /\ processed = Len(nodes)
  BY DEF SortInv
<1>2. /\ Placed \subseteq DOMAIN graph /\ IsFiniteSet(DOMAIN graph)
      /\ Cardinality(DOMAIN graph) = Len(nodes) /\ DOMAIN graph = Ids(nodes)
      /\ Len(layers) \in Nat /\ DOMAIN layers = 1..Len(layers)
  BY <1>1, BuiltShape DEF Built
<1>3. Placed = Ids(nodes)
  BY <1>1, <1>2, FS_Subset DEF Built, Counters
<1>4. \A k \in DOMAIN layers : layers[k] \in SUBSET DOMAIN graph
  BY <1>1 DEF Built, BuiltGraph
<1>5. \A k \in DOMAIN layers :
        /\ IsFiniteSet(layers[k]) /\ Cardinality(layers[k]) \in Nat
        /\ Cardinality(layers[k]) <= Cardinality(DOMAIN graph)
  BY <1>2, <1>4, FS_Subset, FS_CardinalityType
<1>6. \A j, k \in DOMAIN layers : \A n :
        n \in layers[j] /\ n \in layers[k] => j = k
  BY <1>1 DEF Built, Disjoint
<1>7. WellFormed(nodes) /\ Cardinality(DOMAIN graph) \in Nat
  BY <1>1, <1>2, FS_CardinalityType DEF Built, BuiltGraph
<1> QED
  BY <1>1, <1>2, <1>3, <1>5, <1>6, <1>7

LEMMA TallestBound ==
  ASSUME SortInv, pc = "accepted"
  PROVE  Tallest \in Nat /\ \A k \in DOMAIN layers : Cardinality(layers[k]) <= Tallest
<1> DEFINE T == {1} \union {Cardinality(layers[k]) : k \in DOMAIN layers}
           c == Cardinality(DOMAIN graph)
<1>1. c \in Nat /\ \A k \in DOMAIN layers :
        Cardinality(layers[k]) \in Nat /\ Cardinality(layers[k]) <= c
  BY AcceptedLayers
<1> HIDE DEF c
<1>2. T \in SUBSET Nat /\ T # {} /\ c + 1 \in Nat /\ \A x \in T : x <= c + 1
  BY <1>1
<1>3. Tallest = Max(T)
  BY DEF Tallest
<1>4. \A k \in DOMAIN layers : Cardinality(layers[k]) \in T
  OBVIOUS
<1> HIDE DEF T
<1> QED
  BY <1>2, <1>3, <1>4, GreatestIsMax

(* The boxes, each with its column and row.                                *)
LEMMA BoxShape ==
  ASSUME SortInv, pc = "accepted"
  PROVE  /\ \A b \in Boxes : \E col \in DOMAIN layers :
              \E row \in 1..Cardinality(layers[col]) :
                /\ b.id = SetToSeq(layers[col])[row] /\ b.id \in layers[col]
                /\ b.at = Place(col, row)
         /\ \A col \in DOMAIN layers : \A n \in layers[col] : \E b \in Boxes :
              b.id = n /\ b.at.x = col - 1
<1>1. ASSUME NEW col \in DOMAIN layers
      PROVE  LET rows == SetToSeq(layers[col]) IN
             /\ DOMAIN rows = 1..Cardinality(layers[col])
             /\ \A r \in DOMAIN rows : rows[r] \in layers[col]
             /\ \A n \in layers[col] : \E r \in DOMAIN rows : rows[r] = n
  BY AcceptedLayers, RowsOfLayer
<1>2. ASSUME NEW b \in Boxes
      PROVE  \E col \in DOMAIN layers : \E row \in 1..Cardinality(layers[col]) :
                /\ b.id = SetToSeq(layers[col])[row] /\ b.id \in layers[col]
                /\ b.at = Place(col, row)
  <2>0. PICK col \in DOMAIN layers : \E r \in DOMAIN SetToSeq(layers[col]) :
          b = [id |-> SetToSeq(layers[col])[r], at |-> Place(col, r)]
    BY DEF Boxes
  <2>1. PICK r \in DOMAIN SetToSeq(layers[col]) :
          b = [id |-> SetToSeq(layers[col])[r], at |-> Place(col, r)]
    BY <2>0
  <2>2. b.id = SetToSeq(layers[col])[r] /\ b.at = Place(col, r)
    BY <2>1
  <2> QED
    BY <1>1, <2>2
<1>3. ASSUME NEW col \in DOMAIN layers, NEW n \in layers[col]
      PROVE  \E b \in Boxes : b.id = n /\ b.at.x = col - 1
  <2>1. PICK r \in DOMAIN SetToSeq(layers[col]) : SetToSeq(layers[col])[r] = n
    BY <1>1
  <2> DEFINE b == [id |-> SetToSeq(layers[col])[r], at |-> Place(col, r)]
  <2>2. b \in Boxes
    BY DEF Boxes
  <2>3. b.id = n /\ b.at.x = col - 1
    BY <2>1 DEF Place
  <2> QED
    BY <2>2, <2>3
<1> QED
  BY <1>2, <1>3

(* Two boxes with the same id are one, and so are two at the same place.   *)
LEMMA AcceptedIsReadable ==
  ASSUME SortInv, pc = "accepted"
  PROVE  Readable
<1>1. /\ nodes \in Request /\ Built /\ WellFormed(nodes)
      /\ DOMAIN layers = 1..Len(layers) /\ Len(layers) \in Nat
      /\ \A k \in DOMAIN layers :
           IsFiniteSet(layers[k]) /\ Cardinality(layers[k]) \in Nat
      /\ \A j, k \in DOMAIN layers : \A n :
           n \in layers[j] /\ n \in layers[k] => j = k
      /\ Placed = Ids(nodes)
  BY AcceptedLayers
<1>2. Tallest \in Nat /\ \A k \in DOMAIN layers : Cardinality(layers[k]) <= Tallest
  BY TallestBound
<1>3. ASSUME NEW b \in Boxes, NEW c \in Boxes
      PROVE  b.id = c.id <=> b.at = c.at
  <2>1. PICK col \in DOMAIN layers : \E row \in 1..Cardinality(layers[col]) :
          /\ b.id = SetToSeq(layers[col])[row] /\ b.id \in layers[col]
          /\ b.at = Place(col, row)
    BY BoxShape
  <2>2. PICK row \in 1..Cardinality(layers[col]) :
          /\ b.id = SetToSeq(layers[col])[row] /\ b.id \in layers[col]
          /\ b.at = Place(col, row)
    BY <2>1
  <2>3. PICK col2 \in DOMAIN layers : \E row2 \in 1..Cardinality(layers[col2]) :
          /\ c.id = SetToSeq(layers[col2])[row2] /\ c.id \in layers[col2]
          /\ c.at = Place(col2, row2)
    BY BoxShape
  <2>4. PICK row2 \in 1..Cardinality(layers[col2]) :
          /\ c.id = SetToSeq(layers[col2])[row2] /\ c.id \in layers[col2]
          /\ c.at = Place(col2, row2)
    BY <2>3
  <2>5. ASSUME b.id = c.id PROVE b.at = c.at
    <3>1. col = col2
      BY <1>1, <2>2, <2>4, <2>5
    <3>2. \A q, r \in 1..Cardinality(layers[col]) :
            SetToSeq(layers[col])[q] = SetToSeq(layers[col])[r] => q = r
      BY <1>1, RowsOfLayer
    <3>3. row = row2
      BY <2>2, <2>4, <2>5, <3>1, <3>2
    <3> QED
      BY <2>2, <2>4, <3>1, <3>3
  <2>6. ASSUME b.at = c.at PROVE b.id = c.id
    <3> DEFINE h(k) == Cardinality(layers[k])
    <3>1. /\ col - 1 = col2 - 1
          /\ (Tallest - h(col)) + 2 * (row - 1) = (Tallest - h(col2)) + 2 * (row2 - 1)
      BY <2>2, <2>4, <2>6 DEF Place
    <3>2. col \in Nat /\ col2 \in Nat
      BY <1>1
    <3>3. col = col2
      BY <3>1, <3>2
    <3>4. h(col) \in Nat /\ row \in Nat /\ row2 \in Nat /\ h(col2) = h(col)
      BY <1>1, <3>3
    <3> HIDE DEF h
    <3>5. row = row2
      BY <1>2, <3>1, <3>4
    <3> QED
      BY <2>2, <2>4, <3>3, <3>5
  <2> QED
    BY <2>5, <2>6
<1>4. ASSUME NEW b \in Boxes PROVE b.at.y >= 0
  <2>1. PICK col \in DOMAIN layers : \E row \in 1..Cardinality(layers[col]) :
          b.at = Place(col, row)
    BY BoxShape
  <2>2. PICK row \in 1..Cardinality(layers[col]) : b.at = Place(col, row)
    BY <2>1
  <2> DEFINE h == Cardinality(layers[col])
  <2>3. b.at.y = (Tallest - h) + 2 * (row - 1)
    BY <2>2 DEF Place
  <2>4. h \in Nat /\ h <= Tallest /\ row \in Nat /\ row >= 1
    BY <1>1, <1>2
  <2> HIDE DEF h
  <2> QED
    BY <1>2, <2>3, <2>4
<1>5. ASSUME NEW p \in Places
      PROVE  \E b, c \in Boxes :
               b.id = Arrows[p][1] /\ c.id = Arrows[p][2] /\ b.at.x < c.at.x
  <2>1. PICK k \in DOMAIN nodes : \E i \in DOMAIN nodes[k].dependsOn : p = <<k, i>>
    BY DEF Places
  <2>2. PICK i \in DOMAIN nodes[k].dependsOn : p = <<k, i>>
    BY <2>1
  <2> DEFINE d == nodes[k].dependsOn[i]
             n == nodes[k].id
  <2>3. Arrows[p] = <<d, n>>
    BY <2>2 DEF Arrows
  <2>4. n \in Ids(nodes) /\ d \in Deps(graph, n)
    BY <1>1, <2>2, GraphShape DEF Built, BuiltGraph, WellFormed, Deps
  <2> HIDE DEF d, n
  <2>5. PICK col \in DOMAIN layers : n \in layers[col]
    BY <1>1, <2>4 DEF Placed
  <2>6. PICK j \in 1..(col - 1) : d \in layers[j]
    BY <1>1, <2>4, <2>5 DEF Built, DepsInEarlierLayers
  <2>7. j \in DOMAIN layers /\ j < col /\ j \in Nat /\ col \in Nat
    BY <1>1, <2>6
  <2>8. PICK c \in Boxes : c.id = n /\ c.at.x = col - 1
    BY <2>5, BoxShape
  <2>9. PICK b \in Boxes : b.id = d /\ b.at.x = j - 1
    BY <2>6, <2>7, BoxShape
  <2>a. b.at.x < c.at.x
    BY <2>7, <2>8, <2>9
  <2>b. Arrows[p][1] = d /\ Arrows[p][2] = n
    BY <2>3
  <2> QED
    BY <2>8, <2>9, <2>a, <2>b
<1> QED
  BY <1>3, <1>4, <1>5 DEF Readable

(* The boxes are the nodes of the request.                                 *)
LEMMA BoxesAreNodes ==
  ASSUME SortInv, pc = "accepted"
  PROVE  {b.id : b \in Boxes} = Ids(nodes)
<1>1. Placed = Ids(nodes)
  BY AcceptedLayers
<1>2. \A b \in Boxes : b.id \in Placed
  BY BoxShape DEF Placed
<1>3. \A n \in Placed : \E b \in Boxes : b.id = n
  BY BoxShape DEF Placed
<1> QED
  BY <1>1, <1>2, <1>3

(* The arrows are the edges on the canvas.                                 *)
LEMMA ArrowsAreEdges ==
  ASSUME CanvasOK, nodes = Payload
  PROVE  /\ {Arrows[p] : p \in Places} = Edges
         /\ \A p, q \in Places : Arrows[p] = Arrows[q] => p = q
<1>1. \A p \in Places : \E k \in DOMAIN drawn : \E i \in DOMAIN nodes[k].dependsOn :
        p = <<k, i>> /\ Arrows[p] = <<nodes[k].dependsOn[i], drawn[k]>>
  <2> SUFFICES ASSUME NEW p \in Places
               PROVE  \E k \in DOMAIN drawn : \E i \in DOMAIN nodes[k].dependsOn :
                        /\ p = <<k, i>>
                        /\ Arrows[p] = <<nodes[k].dependsOn[i], drawn[k]>>
    OBVIOUS
  <2>1. PICK k \in DOMAIN nodes : \E i \in DOMAIN nodes[k].dependsOn : p = <<k, i>>
    BY DEF Places
  <2>2. PICK i \in DOMAIN nodes[k].dependsOn : p = <<k, i>>
    BY <2>1
  <2>3. k \in DOMAIN drawn /\ nodes[k].id = drawn[k]
    BY PayloadShape
  <2>4. Arrows[p] = <<nodes[k].dependsOn[i], nodes[k].id>>
    BY <2>2 DEF Arrows
  <2> QED
    BY <2>2, <2>3, <2>4
<1>2. \A p \in Places : Arrows[p] \in Edges
  BY <1>1, PayloadShape
<1>3. ASSUME NEW e \in Edges PROVE \E p \in Places : Arrows[p] = e
  <2>1. PICK m \in Drawn, n \in Drawn : e = <<m, n>>
    <3>1. e \in Drawn \X Drawn
      BY DEF CanvasOK, Edges
    <3> QED
      BY <3>1
  <2>2. PICK k \in DOMAIN drawn : drawn[k] = n
    BY DEF Drawn
  <2>3. PICK i \in DOMAIN nodes[k].dependsOn : nodes[k].dependsOn[i] = m
    BY <2>1, <2>2, PayloadShape
  <2>4. k \in DOMAIN nodes /\ nodes[k].id = n
    BY <2>2, PayloadShape
  <2>5. <<k, i>> \in Places
    BY <2>4 DEF Places
  <2>6. Arrows[<<k, i>>] = <<m, n>>
    BY <2>3, <2>4, <2>5 DEF Arrows
  <2> QED
    BY <2>1, <2>5, <2>6
<1>4. ASSUME NEW p \in Places, NEW q \in Places, Arrows[p] = Arrows[q]
      PROVE  p = q
  <2>1. PICK k \in DOMAIN drawn : \E i \in DOMAIN nodes[k].dependsOn :
          p = <<k, i>> /\ Arrows[p] = <<nodes[k].dependsOn[i], drawn[k]>>
    BY <1>1
  <2>2. PICK i \in DOMAIN nodes[k].dependsOn :
          p = <<k, i>> /\ Arrows[p] = <<nodes[k].dependsOn[i], drawn[k]>>
    BY <2>1
  <2>3. PICK l \in DOMAIN drawn : \E j \in DOMAIN nodes[l].dependsOn :
          q = <<l, j>> /\ Arrows[q] = <<nodes[l].dependsOn[j], drawn[l]>>
    BY <1>1
  <2>4. PICK j \in DOMAIN nodes[l].dependsOn :
          q = <<l, j>> /\ Arrows[q] = <<nodes[l].dependsOn[j], drawn[l]>>
    BY <2>3
  <2>5. drawn[k] = drawn[l] /\ nodes[k].dependsOn[i] = nodes[l].dependsOn[j]
    BY <1>4, <2>2, <2>4
  <2>6. k = l
    BY <2>5 DEF CanvasOK
  <2>7. i = j
    BY <2>5, <2>6, PayloadShape
  <2> QED
    BY <2>2, <2>4, <2>6, <2>7
<1> QED
  BY <1>2, <1>3, <1>4

(* Whatever is accepted is drawn readably, and a graph from the editor     *)
(* comes back with its nodes and edges, for any number of them.            *)
THEOREM RoundTrip == Spec => []DrawnBack
<1>1. ASSUME SortInv, EInv, pc = "accepted", sender = "page"
      PROVE  /\ {b.id : b \in Boxes} = Drawn
             /\ {Arrows[p] : p \in Places} = Edges
             /\ \A p, q \in Places : Arrows[p] = Arrows[q] => p = q
  <2>1. CanvasOK /\ drawn # <<>> /\ nodes = Payload
    BY <1>1 DEF EInv, SentOK
  <2> QED
    BY <1>1, <2>1, BoxesAreNodes, PayloadWellFormed, ArrowsAreEdges
<1>2. SortInv /\ EInv => DrawnBack
  BY <1>1, AcceptedIsReadable DEF DrawnBack
<1> QED
  BY <1>2, EditorInvariance, PTL

=============================================================================
