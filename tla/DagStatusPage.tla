--------------------------- MODULE DagStatusPage ---------------------------
(***************************************************************************)
(* The web page that follows a DAG while it runs: useDagStatus polls GET   *)
(* /workflows/dag/:id, and findDag answers from separate Redis reads, with *)
(* steps of DagExecution between any two of them.                          *)
(***************************************************************************)
EXTENDS DagExecution

CONSTANTS
  MaxErrors   \* bound: how many polls fail

ASSUME ErrorsAssumption == MaxErrors \in Nat

VARIABLES
  page,       \* useDagStatus: its program counter and the failed polls so far
  answer,     \* findDag: what it has read so far
  shown       \* the answer on the screen

pageVars   == <<page, answer, shown>>
followVars == <<vars, pageVars>>

(* Per node: status, whether a jobId, whether a result is in the answer.   *)
NoAnswer == [statuses |-> [n \in Node |-> "none"], jobIds |-> {},
             results |-> {}]

FollowInit ==
  /\ Init
  /\ page = [pc |-> "closed", errors |-> 0]
  /\ answer = NoAnswer
  /\ shown = NoAnswer

Goto(pc) == page' = [page EXCEPT !.pc = pc]

(* The editor navigates to the page when createDag has answered.           *)
Open ==
  /\ page.pc = "closed"
  /\ api.pc = "enqueueing"
  /\ api.roots = {}
  /\ Goto("statuses")
  /\ UNCHANGED <<answer, shown>>

-----------------------------------------------------------------------------
(* findDag: getAllStatuses, getJobIds and getResults, in this order.       *)
ReadStatuses ==
  /\ page.pc = "statuses"
  /\ answer' = [answer EXCEPT !.statuses = status]
  /\ Goto("jobIds")
  /\ UNCHANGED shown

ReadJobIds ==
  /\ page.pc = "jobIds"
  /\ answer' = [answer EXCEPT !.jobIds = jobIds]
  /\ Goto("results")
  /\ UNCHANGED shown

ReadResults ==
  /\ page.pc = "results"
  /\ answer' = [answer EXCEPT !.results = results]
  /\ Goto("render")
  /\ UNCHANGED shown

-----------------------------------------------------------------------------
(* Mutant of IsTerminal: a pending node keeps the page polling.            *)
IsTerminalSettled(a) ==
  \A n \in DOMAIN dag : a.statuses[n] \notin {"active", "ready", "pending"}

(* tick.                                                                   *)
IsTerminal(a) ==
  \A n \in DOMAIN dag : a.statuses[n] \notin {"active", "ready"}

Render ==
  /\ page.pc = "render"
  /\ shown' = answer
  /\ answer' = NoAnswer
  /\ Goto(IF IsTerminal(answer) THEN "stopped" ELSE "waiting")

(* The request failed: the screen stays as it is until the next tick.      *)
PollFails ==
  /\ page.pc \in {"statuses", "jobIds", "results", "render"}
  /\ page.errors < MaxErrors
  /\ page' = [pc |-> "waiting", errors |-> page.errors + 1]
  /\ answer' = NoAnswer
  /\ UNCHANGED shown

Tick ==
  /\ page.pc = "waiting"
  /\ Goto("statuses")
  /\ UNCHANGED <<answer, shown>>

PageStep ==
  /\ \/ Open \/ ReadStatuses \/ ReadJobIds \/ ReadResults
     \/ Render \/ PollFails \/ Tick
  /\ UNCHANGED vars

FollowNext == (Next /\ UNCHANGED pageVars) \/ PageStep

FollowSpec == FollowInit /\ [][FollowNext]_followVars /\ Fairness
                /\ WF_followVars(PageStep)

-----------------------------------------------------------------------------
(* Correctness.                                                            *)

(* The five reads of findDag are not one snapshot, but no screen shows an  *)
(* effect without its cause: a node that has started is shown with its     *)
(* jobId and with the result of each of its dependencies, and a completed  *)
(* one with its own result.                                                *)
ScreenCoherent ==
  \A n \in Node : shown.statuses[n] \in {"active", "completed", "failed"} =>
    /\ n \in shown.jobIds
    /\ Deps(dag, n) \subseteq shown.results
    /\ shown.statuses[n] = "completed" => n \in shown.results

(* The page does not poll for ever: without faults, it stops.              *)
PollingEnds == (page.pc # "closed") ~> (page.pc = "stopped")

(* "Once both counts hit zero the graph can no longer progress", so the    *)
(* page stops (useDagStatus.ts:7-9): what a stopped page shows is final.   *)
StoppedIsFinal ==
  page.pc = "stopped" => \A n \in DOMAIN dag : shown.statuses[n] = status[n]

=============================================================================
