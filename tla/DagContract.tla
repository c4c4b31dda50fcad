---------------------------- MODULE DagContract ----------------------------
(***************************************************************************)
(* What POST /workflows/dag promises, whatever processes, queues and Redis *)
(* keys implement it: an accepted graph is fixed from then on; a node is   *)
(* released to the queue at most once, and only when the output of every   *)
(* dependency can be read; a released node ends with an output or failed.  *)
(* DagExecution is shown to implement this module.                         *)
(***************************************************************************)
EXTENDS DagGraph

CONSTANTS
  Node,       \* node ids a request may use
  Requests    \* the request bodies: functions from node ids to dependsOn lists

VARIABLES
  dag,        \* the accepted graph, or NoDag
  phase       \* per node: "blocked", "released", "done" or "failed"

vars == <<dag, phase>>

TypeOK ==
  /\ dag \in Requests \union {NoDag}
  /\ phase \in [Node -> {"blocked", "released", "done", "failed"}]

Init ==
  /\ dag = NoDag
  /\ phase = [n \in Node |-> "blocked"]

Accept ==
  /\ dag = NoDag
  /\ dag' \in Requests
  /\ UNCHANGED phase

(* Released exactly when every dependency has published its output.        *)
Release(n) ==
  /\ n \in DOMAIN dag
  /\ phase[n] = "blocked"
  /\ \A d \in Deps(dag, n) : phase[d] = "done"
  /\ phase' = [phase EXCEPT ![n] = "released"]
  /\ UNCHANGED dag

Publish(n) ==
  /\ phase[n] = "released"
  /\ phase' = [phase EXCEPT ![n] = "done"]
  /\ UNCHANGED dag

Fail(n) ==
  /\ phase[n] = "released"
  /\ phase' = [phase EXCEPT ![n] = "failed"]
  /\ UNCHANGED dag

Next ==
  \/ Accept
  \/ \E n \in Node : Release(n) \/ Publish(n) \/ Fail(n)

Spec == Init /\ [][Next]_vars

(* The promise of progress: nobody has to ask again for a node whose       *)
(* inputs are there, and a released node is decided.                       *)
LiveSpec ==
  /\ Spec
  /\ \A n \in Node : WF_vars(Release(n)) /\ WF_vars(Publish(n) \/ Fail(n))

=============================================================================
