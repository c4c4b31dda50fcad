------------------------------ MODULE DagGraph ------------------------------
(***************************************************************************)
(* The graphs of DAG workflows: functions from node ids to dependsOn lists *)
(* (DagNodeInput with the payload left out), and which of them are valid.  *)
(***************************************************************************)
EXTENDS Naturals, Sequences, FiniteSets

(* Before there is a graph.                                                *)
NoDag == <<>>

Deps(g, n) == {g[n][i] : i \in DOMAIN g[n]}
Roots(g)   == {n \in DOMAIN g : g[n] = <<>>}

Acyclic(g) ==
  \E rank \in [DOMAIN g -> 1..Cardinality(DOMAIN g)] :
    \A n \in DOMAIN g : \A d \in Deps(g, n) : rank[d] < rank[n]

(* What topologicalLayers accepts (TopologicalSort shows that it does).    *)
Valid(g) ==
  /\ DOMAIN g # {}
  /\ \A n \in DOMAIN g : Deps(g, n) \subseteq DOMAIN g \ {n}
  /\ Acyclic(g)

=============================================================================
