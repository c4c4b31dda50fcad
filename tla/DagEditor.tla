----------------------------- MODULE DagEditor -----------------------------
(***************************************************************************)
(* The web page that draws a DAG (DagEditor.tsx over dagValidation.ts) in  *)
(* front of topologicalLayers, which also gets the samples of the page     *)
(* Workflows.tsx and requests from any other client.  The editor checks on *)
(* its side what the API checks again.                                     *)
(***************************************************************************)
EXTENDS TopologicalSort

CONSTANTS
  IdNumber,     \* the ids N1, N2, ... that makeNode builds from a number
  SampleIds,    \* the ids of a sample, its root first and its sink last
  ApiRequests   \* what other clients send

(* Bound: the page adds at most Len(IdNumber) nodes.  The ids of a sample  *)
(* are literals, a client's request has passed the DTO's validation.       *)
ASSUME EditorAssumption ==
  /\ IdNumber \in Seq(Id) /\ Len(IdNumber) >= 1
  /\ \A j, k \in DOMAIN IdNumber : IdNumber[j] = IdNumber[k] => j = k
  /\ SampleIds \in Seq(Id) /\ Len(SampleIds) >= 2
  /\ \A j, k \in DOMAIN SampleIds : SampleIds[j] = SampleIds[k] => j = k
  /\ ApiRequests \subseteq Request

VARIABLES
  drawn,        \* the nodes on the canvas: a sequence of ids
  edges,        \* a sequence of pairs <<source, target>>
  counter,      \* the number of the next node
  sender        \* whose request this is about: "page", "sample" or "client"

pageVars == <<drawn, edges, counter>>
vars     == <<drawn, edges, counter, sender, sortVars>>

Init ==
  /\ SortInit
  /\ drawn = <<IdNumber[1]>>
  /\ edges = <<>>
  /\ counter = 2
  /\ sender \in {"page", "sample", "client"}

-----------------------------------------------------------------------------
Drawn == {drawn[k] : k \in DOMAIN drawn}
Edges == {edges[k] : k \in DOMAIN edges}

(* Array.filter: the entries of s that are in S, in their order (SelectSeq *)
(* in a form that the proofs can expand).                                  *)
Filtered(s, S) ==
  LET kept  == {i \in DOMAIN s : s[i] \in S}
      at(i) == Cardinality({j \in kept : j <= i})
  IN [k \in 1..Cardinality(kept) |-> s[CHOOSE i \in kept : at(i) = k]]

Targets(es, n) == {es[k][2] : k \in {j \in DOMAIN es : es[j][1] = n}}

(* The search along the edges from target: source is found if it is in     *)
(* every set that holds target and is closed under the edges.              *)
WouldCreateCycle(es, source, target) ==
  \A S \in SUBSET Drawn :
    (target \in S /\ \A n \in S : Targets(es, n) \subseteq S) => source \in S

(* The user edits until a request is on its way.                           *)
Editing ==
  /\ sender = "page"
  /\ pc = "idle"
  /\ UNCHANGED <<sender, sortVars>>

AddNode ==
  /\ Editing
  /\ counter <= Len(IdNumber)
  /\ drawn' = Append(drawn, IdNumber[counter])
  /\ counter' = counter + 1
  /\ UNCHANGED edges

(* onConnect: a cycle is refused with a notice, a duplicate silently.      *)
Connect(source, target) ==
  /\ Editing
  /\ ~ WouldCreateCycle(edges, source, target)
  /\ target \notin Targets(edges, source)
  /\ edges' = Append(edges, <<source, target>>)
  /\ UNCHANGED <<drawn, counter>>

(* Mutant of DeleteNode: dangling edges are not pruned.                    *)
DeleteNodeOnly(n) ==
  /\ Editing
  /\ drawn' = Filtered(drawn, Drawn \ {n})
  /\ UNCHANGED <<edges, counter>>

(* onNodesDelete prunes the edges of the node that the canvas removes.     *)
DeleteNode(n) ==
  /\ Editing
  /\ drawn' = Filtered(drawn, Drawn \ {n})
  /\ edges' = Filtered(edges, {e \in Edges : n \notin {e[1], e[2]}})
  /\ UNCHANGED counter

DeleteEdge(e) ==
  /\ Editing
  /\ edges' = Filtered(edges, Edges \ {e})
  /\ UNCHANGED <<drawn, counter>>

-----------------------------------------------------------------------------
(* validateDag: no edge closes a cycle of the others.                      *)
LocallyValid ==
  /\ drawn # <<>>
  /\ \A k \in DOMAIN edges :
       ~ WouldCreateCycle(Filtered(edges, Edges \ {edges[k]}),
                          edges[k][1], edges[k][2])

(* Mutant of Payload: an edge makes its source depend on its target.       *)
PayloadReversed ==
  [k \in DOMAIN drawn |->
     LET from == Filtered(edges, {e \in Edges : e[1] = drawn[k]})
     IN [id |-> drawn[k], dependsOn |-> [i \in DOMAIN from |-> from[i][2]]]]

(* buildDagPayload.                                                        *)
Payload ==
  [k \in DOMAIN drawn |->
     LET into == Filtered(edges, {e \in Edges : e[2] = drawn[k]})
     IN [id |-> drawn[k], dependsOn |-> [i \in DOMAIN into |-> into[i][1]]]]

Submit ==
  /\ sender = "page"
  /\ LocallyValid
  /\ Call(Payload)
  /\ UNCHANGED <<pageVars, sender>>

(* fanNodes: a root, nodes beside each other, a sink; diamondNodes is the  *)
(* one with two nodes in the middle.                                       *)
FanNodes(ids) ==
  [k \in DOMAIN ids |->
     [id |-> ids[k], dependsOn |->
        CASE k = 1        -> <<>>
          [] k = Len(ids) -> SubSeq(ids, 2, k - 1)
          [] OTHER        -> <<ids[1]>>]]

Spawn ==
  /\ sender = "sample"
  /\ Call(FanNodes(SampleIds))
  /\ UNCHANGED <<pageVars, sender>>

OtherRequest ==
  /\ sender = "client"
  /\ pc = "idle"
  /\ \E request \in ApiRequests : Call(request)
  /\ UNCHANGED <<pageVars, sender>>

Layering == SortStep /\ UNCHANGED <<pageVars, sender>>

Next ==
  \/ AddNode
  \/ \E m, n \in Drawn : Connect(m, n)
  \/ \E n \in Drawn : DeleteNode(n)
  \/ \E e \in Edges : DeleteEdge(e)
  \/ Submit
  \/ Spawn
  \/ OtherRequest
  \/ Layering

Spec == Init /\ [][Next]_vars

-----------------------------------------------------------------------------
(* What passes the page's own check is never refused by the API: its       *)
(* pre-flight mirrors the backend's rules (dagValidation.ts), also those   *)
(* it does not test, unique ids and known dependencies.  Neither is a      *)
(* sample.                                                                 *)
EditorAccepted == sender # "client" => pc # "rejected"

=============================================================================
