---------------------------- MODULE DagExecution ----------------------------
(***************************************************************************)
(* One DAG workflow from POST /workflows/dag to its last node, at the      *)
(* granularity of Redis commands: WorkflowsService.createDag in the API,   *)
(* BullMQ's job states (external), FairScheduler.processJob and its        *)
(* 'completed' and 'failed' handlers in every worker process, and the      *)
(* DagCoordinator keys they share.  DAGs do not interact: every key holds  *)
(* the dagId, so one DAG is modelled.                                      *)
(***************************************************************************)
EXTENDS DagGraph, Integers

CONSTANTS
  Node,         \* node ids
  Worker,       \* worker processes
  NoWorker,     \* nobody
  Requests,     \* request bodies: functions from node ids to dependsOn lists
  Attempts,     \* the attempts option of queue.add (3 in the code)
  MaxStalled,   \* BullMQ's maxStalledCount (external, 1 by default)
  Concurrency,  \* MAX_CONCURRENCY_PER_USER
  FaultKinds,   \* which of AllFaults may happen
  MaxFaults     \* bound: how many of them may happen

AllFaults == {"apiCrash", "workerCrash", "lockLoss", "shutdown"}

ASSUME WorkerAssumption == NoWorker \notin Worker

ASSUME RequestsAssumption ==
  \A g \in Requests : /\ DOMAIN g \subseteq Node
                      /\ \A n \in DOMAIN g : g[n] \in Seq(Node)

ASSUME BoundsAssumption ==
  /\ Attempts \in Nat \ {0}
  /\ MaxStalled \in Nat
  /\ Concurrency \in Nat \ {0}
  /\ FaultKinds \subseteq AllFaults
  /\ MaxFaults \in Nat

VARIABLES
  api,          \* createDag: program counter and root nodes still to enqueue
  dag,          \* dag:{id}:nodes (and, reversed, dag:{id}:dependents)
  remaining,    \* dag:{id}:deps-remaining:{nodeId}
  status,       \* dag:{id}:status
  results,      \* the fields of dag:{id}:results
  jobIds,       \* the fields of dag:{id}:jobIds
  job,          \* BullMQ: per node, its job
  adds,         \* per node, how many times queue.add was called for it
  dlq,          \* per node, how many dead letters were added for it
  attempt,      \* per worker and node: where its run of processJob is
  handler,      \* per node: the event handler of its job's last event
  up,           \* workers that take jobs (the others run onModuleDestroy)
  faults        \* faults so far

redisVars   == <<dag, remaining, status, results, jobIds>>
bullVars    == <<job, adds, dlq>>
processVars == <<api, attempt, handler, up, faults>>
vars        == <<api, dag, remaining, status, results, jobIds, job, adds, dlq,
                 attempt, handler, up, faults>>

-----------------------------------------------------------------------------
(* buildDependents: one entry per occurrence of d in a dependsOn list, so  *)
(* a list that names d twice gives two entries, <<n, i>> and <<n, j>>.     *)
Dependents(d) ==
  UNION {{<<n, i>> : i \in {k \in DOMAIN dag[n] : dag[n][k] = d}}
           : n \in DOMAIN dag}

-----------------------------------------------------------------------------
NoJob == [state |-> "absent", attemptsMade |-> 0, stalled |-> 0,
          owner |-> NoWorker]

NoHandler == [pc |-> "idle", host |-> NoWorker, todo |-> {}, zero |-> {},
              ready |-> {}]

JobStates     == {"absent", "waiting", "active", "completed", "failed"}
StatusValues  == {"none", "pending", "ready", "active", "completed", "failed"}
AttemptPhases == {"none", "started", "marked", "calling"}
HandlerPcs    == {"idle", "completed", "stored", "decrementing", "exhausted",
                  "deadLettered", "failureMarked"}
ApiPcs        == {"idle", "rejected", "enqueueing", "crashed"}

Init ==
  /\ api = [pc |-> "idle", roots |-> {}]
  /\ dag = NoDag
  /\ remaining = [n \in Node |-> 0]
  /\ status = [n \in Node |-> "none"]
  /\ results = {}
  /\ jobIds = {}
  /\ job = [n \in Node |-> NoJob]
  /\ adds = [n \in Node |-> 0]
  /\ dlq = [n \in Node |-> 0]
  /\ attempt = [w \in Worker |-> [n \in Node |-> "none"]]
  /\ handler = [n \in Node |-> NoHandler]
  /\ up = Worker
  /\ faults = 0

-----------------------------------------------------------------------------
(* WorkflowsService.createDag.                                             *)

(* DagValidationError becomes a 400: nothing is written.                   *)
RejectDag(g) ==
  /\ api.pc = "idle"
  /\ ~ Valid(g)
  /\ api' = [api EXCEPT !.pc = "rejected"]
  /\ UNCHANGED <<redisVars, bullVars, attempt, handler, up, faults>>

(* Mutants of InitialRemaining: a dependency named twice counts once; one  *)
(* too few.                                                                *)
RemainingOnce(g) ==
  [n \in Node |-> IF n \in DOMAIN g THEN Cardinality(Deps(g, n)) ELSE 0]

RemainingShort(g) ==
  [n \in Node |-> IF n \in DOMAIN g THEN Len(g[n]) - 1 ELSE 0]

(* deps-remaining starts at dependsOn.length.                              *)
InitialRemaining(g) ==
  [n \in Node |-> IF n \in DOMAIN g THEN Len(g[n]) ELSE 0]

(* Mutant of CreateDag: every node is enqueued, not only the roots.        *)
CreateDagAllRoots(g) ==
  /\ api.pc = "idle"
  /\ Valid(g)
  /\ api' = [pc |-> "enqueueing", roots |-> DOMAIN g]
  /\ dag' = g
  /\ remaining' = InitialRemaining(g)
  /\ status' = [n \in Node |-> IF n \in DOMAIN g THEN "ready" ELSE "none"]
  /\ UNCHANGED <<results, jobIds, bullVars, attempt, handler, up, faults>>

(* Validation and DagCoordinator.persist: one pipeline, and no reader      *)
(* knows the dagId before it ends.                                         *)
CreateDag(g) ==
  /\ api.pc = "idle"
  /\ Valid(g)
  /\ api' = [pc |-> "enqueueing", roots |-> Roots(g)]
  /\ dag' = g
  /\ remaining' = InitialRemaining(g)
  /\ status' = [n \in Node |-> IF n \notin DOMAIN g THEN "none"
                               ELSE IF g[n] = <<>> THEN "ready"
                               ELSE "pending"]
  /\ UNCHANGED <<results, jobIds, bullVars, attempt, handler, up, faults>>

(* queue.add (external): a new job, waiting for a worker.                  *)
QueueAdd(n) ==
  /\ job' = [job EXCEPT ![n] = [NoJob EXCEPT !.state = "waiting"]]
  /\ adds' = [adds EXCEPT ![n] = @ + 1]

(* The loop over the roots: setJobId, then add.                            *)
SetRootJobId(n) ==
  /\ api.pc = "enqueueing"
  /\ n \in api.roots
  /\ api.roots \intersect jobIds = {}
  /\ jobIds' = jobIds \union {n}
  /\ UNCHANGED <<dag, remaining, status, results, bullVars, processVars>>

AddRoot(n) ==
  /\ api.pc = "enqueueing"
  /\ n \in api.roots \intersect jobIds
  /\ QueueAdd(n)
  /\ api' = [api EXCEPT !.roots = @ \ {n}]
  /\ UNCHANGED <<redisVars, dlq, attempt, handler, up, faults>>

-----------------------------------------------------------------------------
(* BullMQ and FairScheduler.processJob.                                    *)

Running(w) == {n \in Node : attempt[w][n] # "none"}

(* The worker's slot fetches a job and locks it.  Delayed (backoff) and    *)
(* prioritized jobs are both "waiting" here.                               *)
TakeJob(w, n) ==
  /\ w \in up
  /\ Cardinality(Running(w)) < Concurrency
  /\ job[n].state = "waiting"
  /\ attempt[w][n] = "none"
  /\ job' = [job EXCEPT ![n].state = "active", ![n].owner = w]
  /\ attempt' = [attempt EXCEPT ![w][n] = "started"]
  /\ UNCHANGED <<redisVars, adds, dlq, api, handler, up, faults>>

(* markActive overwrites whatever the status is.                           *)
MarkActive(w, n) ==
  /\ attempt[w][n] = "started"
  /\ status' = [status EXCEPT ![n] = "active"]
  /\ attempt' = [attempt EXCEPT ![w][n] = "marked"]
  /\ UNCHANGED <<dag, remaining, results, jobIds, bullVars, api, handler, up,
                 faults>>

(* getNode and getResults of its dependsOn, then the call is made.         *)
ReadDependencies(w, n) ==
  /\ attempt[w][n] = "marked"
  /\ attempt' = [attempt EXCEPT ![w][n] = "calling"]
  /\ UNCHANGED <<redisVars, bullVars, api, handler, up, faults>>

EndAttempt(w, n) == attempt' = [attempt EXCEPT ![w][n] = "none"]

(* processJob returned and BullMQ moved the job to completed: it emits     *)
(* 'completed' in this process and does not wait for the handler.          *)
CompleteJob(w, n) ==
  /\ attempt[w][n] = "calling"
  /\ job[n].state = "active"
  /\ job[n].owner = w
  /\ EndAttempt(w, n)
  /\ job' = [job EXCEPT ![n].state = "completed", ![n].owner = NoWorker]
  /\ handler' = [handler EXCEPT
                   ![n] = [NoHandler EXCEPT !.pc = "completed", !.host = w]]
  /\ UNCHANGED <<redisVars, adds, dlq, api, up, faults>>

(* Mutants of RetryJob: the 'failed' handler does not test the limit; the  *)
(* job is not given back.                                                  *)
RetryJobAsExhausted(w, n) ==
  /\ attempt[w][n] # "none"
  /\ job[n].state = "active"
  /\ job[n].owner = w
  /\ job[n].attemptsMade + 1 < Attempts
  /\ EndAttempt(w, n)
  /\ job' = [job EXCEPT ![n].state = "waiting", ![n].owner = NoWorker,
                        ![n].attemptsMade = @ + 1]
  /\ handler' = [handler EXCEPT
                   ![n] = [NoHandler EXCEPT !.pc = "exhausted", !.host = w]]
  /\ UNCHANGED <<redisVars, adds, dlq, api, up, faults>>

RetryJobKept(w, n) ==
  /\ attempt[w][n] # "none"
  /\ job[n].state = "active"
  /\ job[n].owner = w
  /\ job[n].attemptsMade + 1 < Attempts
  /\ EndAttempt(w, n)
  /\ job' = [job EXCEPT ![n].attemptsMade = @ + 1]
  /\ UNCHANGED <<redisVars, adds, dlq, api, handler, up, faults>>

(* processJob threw (simulated failure, provider error, hard timeout).     *)
(* Under the limit the job is tried again and the handler only logs.       *)
RetryJob(w, n) ==
  /\ attempt[w][n] # "none"
  /\ job[n].state = "active"
  /\ job[n].owner = w
  /\ job[n].attemptsMade + 1 < Attempts
  /\ EndAttempt(w, n)
  /\ job' = [job EXCEPT ![n].state = "waiting", ![n].owner = NoWorker,
                        ![n].attemptsMade = @ + 1]
  /\ UNCHANGED <<redisVars, adds, dlq, api, handler, up, faults>>

ExhaustJob(w, n) ==
  /\ attempt[w][n] # "none"
  /\ job[n].state = "active"
  /\ job[n].owner = w
  /\ job[n].attemptsMade + 1 >= Attempts
  /\ EndAttempt(w, n)
  /\ job' = [job EXCEPT ![n].state = "failed", ![n].owner = NoWorker,
                        ![n].attemptsMade = @ + 1]
  /\ handler' = [handler EXCEPT
                   ![n] = [NoHandler EXCEPT !.pc = "exhausted", !.host = w]]
  /\ UNCHANGED <<redisVars, adds, dlq, api, up, faults>>

(* The lock is gone: BullMQ refuses the outcome and emits only 'error'.    *)
DiscardAttempt(w, n) ==
  /\ attempt[w][n] # "none"
  /\ job[n].owner # w
  /\ EndAttempt(w, n)
  /\ UNCHANGED <<redisVars, bullVars, api, handler, up, faults>>

(* BullMQ's stalled check: an active job nobody locks goes back to the     *)
(* queue, MaxStalled times.                                                *)
RecoverStalled(n) ==
  /\ job[n].state = "active"
  /\ job[n].owner = NoWorker
  /\ job[n].stalled < MaxStalled
  /\ job' = [job EXCEPT ![n].state = "waiting", ![n].stalled = @ + 1]
  /\ UNCHANGED <<redisVars, adds, dlq, processVars>>

(* Beyond that it fails at once, whatever attempts are left; the 'failed'  *)
(* handler of the worker w that finds it compares attemptsMade.            *)
FailStalled(w, n) ==
  /\ w \in up
  /\ job[n].state = "active"
  /\ job[n].owner = NoWorker
  /\ job[n].stalled >= MaxStalled
  /\ job' = [job EXCEPT ![n].state = "failed", ![n].attemptsMade = @ + 1]
  /\ handler' = IF job[n].attemptsMade + 1 >= Attempts
                THEN [handler EXCEPT ![n] = [NoHandler EXCEPT
                                       !.pc = "exhausted", !.host = w]]
                ELSE handler
  /\ UNCHANGED <<redisVars, adds, dlq, api, attempt, up, faults>>

-----------------------------------------------------------------------------
(* The 'completed' handler: onDagNodeCompleted over                        *)
(* markCompleteAndFindReady.  Only a live host runs a handler.             *)

Hosted(n, pc) == handler[n].pc = pc /\ handler[n].host \in Worker

StoreResult(n) ==
  /\ Hosted(n, "completed")
  /\ results' = results \union {n}
  /\ handler' = [handler EXCEPT ![n].pc = "stored"]
  /\ UNCHANGED <<dag, remaining, status, jobIds, bullVars, api, attempt, up,
                 faults>>

(* Mutant of MarkCompleted: it does not wait for the result to be stored.  *)
MarkCompletedFirst(n) ==
  /\ Hosted(n, "completed")
  /\ status' = [status EXCEPT ![n] = "completed"]
  /\ handler' = [handler EXCEPT ![n].pc = "decrementing",
                                ![n].todo = Dependents(n)]
  /\ UNCHANGED <<dag, remaining, results, jobIds, bullVars, api, attempt, up,
                 faults>>

(* hset 'completed', then hget of the dependents the loop goes over.       *)
MarkCompleted(n) ==
  /\ Hosted(n, "stored")
  /\ status' = [status EXCEPT ![n] = "completed"]
  /\ handler' = [handler EXCEPT ![n].pc = "decrementing",
                                ![n].todo = Dependents(n)]
  /\ UNCHANGED <<dag, remaining, results, jobIds, bullVars, api, attempt, up,
                 faults>>

(* Mutant of Decrement: remaining <= 1 instead of remaining === 0.         *)
DecrementLoose(n, e) ==
  /\ Hosted(n, "decrementing")
  /\ handler[n].zero = {}
  /\ e \in handler[n].todo
  /\ remaining' = [remaining EXCEPT ![e[1]] = @ - 1]
  /\ handler' = [handler EXCEPT
                   ![n].todo = @ \ {e},
                   ![n].zero = IF remaining[e[1]] <= 2 THEN {e[1]} ELSE {}]
  /\ UNCHANGED <<dag, status, results, jobIds, bullVars, api, attempt, up,
                 faults>>

(* DECR, whose answer only this handler sees.                              *)
Decrement(n, e) ==
  /\ Hosted(n, "decrementing")
  /\ handler[n].zero = {}
  /\ e \in handler[n].todo
  /\ remaining' = [remaining EXCEPT ![e[1]] = @ - 1]
  /\ handler' = [handler EXCEPT
                   ![n].todo = @ \ {e},
                   ![n].zero = IF remaining[e[1]] = 1 THEN {e[1]} ELSE {}]
  /\ UNCHANGED <<dag, status, results, jobIds, bullVars, api, attempt, up,
                 faults>>

(* remaining === 0: getNode, hset 'ready', ready.push.                     *)
MarkReady(n, m) ==
  /\ Hosted(n, "decrementing")
  /\ m \in handler[n].zero
  /\ status' = [status EXCEPT ![m] = "ready"]
  /\ handler' = [handler EXCEPT ![n].zero = {}, ![n].ready = @ \union {m}]
  /\ UNCHANGED <<dag, remaining, results, jobIds, bullVars, api, attempt, up,
                 faults>>

(* The loop over readyNodes starts when the one over dependents is over.   *)
Enqueueing(n) ==
  /\ Hosted(n, "decrementing")
  /\ handler[n].todo = {}
  /\ handler[n].zero = {}

SetJobId(n, m) ==
  /\ Enqueueing(n)
  /\ m \in handler[n].ready
  /\ handler[n].ready \intersect jobIds = {}
  /\ jobIds' = jobIds \union {m}
  /\ UNCHANGED <<dag, remaining, status, results, bullVars, processVars>>

AddReady(n, m) ==
  /\ Enqueueing(n)
  /\ m \in handler[n].ready \intersect jobIds
  /\ QueueAdd(m)
  /\ handler' = [handler EXCEPT ![n].ready = @ \ {m}]
  /\ UNCHANGED <<redisVars, dlq, api, attempt, up, faults>>

-----------------------------------------------------------------------------
(* The 'failed' handler of a job whose attempts are exhausted.             *)

DeadLetter(n) ==
  /\ Hosted(n, "exhausted")
  /\ dlq' = [dlq EXCEPT ![n] = @ + 1]
  /\ handler' = [handler EXCEPT ![n].pc = "deadLettered"]
  /\ UNCHANGED <<redisVars, job, adds, api, attempt, up, faults>>

(* Mutant of MarkFailed: dependents are released as after a completion.    *)
MarkFailedReleases(n) ==
  /\ Hosted(n, "deadLettered")
  /\ status' = [status EXCEPT ![n] = "failed"]
  /\ handler' = [handler EXCEPT ![n].pc = "decrementing",
                                ![n].todo = Dependents(n)]
  /\ UNCHANGED <<dag, remaining, results, jobIds, bullVars, api, attempt, up,
                 faults>>

MarkFailed(n) ==
  /\ Hosted(n, "deadLettered")
  /\ status' = [status EXCEPT ![n] = "failed"]
  /\ handler' = [handler EXCEPT ![n].pc = "failureMarked"]
  /\ UNCHANGED <<dag, remaining, results, jobIds, bullVars, api, attempt, up,
                 faults>>

-----------------------------------------------------------------------------
(* Faults.                                                                 *)

Fault(kind) ==
  /\ kind \in FaultKinds
  /\ faults < MaxFaults
  /\ faults' = faults + 1

(* A handler in memory ends with its process, wherever it was.             *)
WithoutHost(w) ==
  [n \in Node |-> IF handler[n].host = w
                  THEN [handler[n] EXCEPT !.host = NoWorker]
                  ELSE handler[n]]

ApiCrash ==
  /\ Fault("apiCrash")
  /\ api.pc = "enqueueing"
  /\ api.roots # {}
  /\ api' = [api EXCEPT !.pc = "crashed"]
  /\ UNCHANGED <<redisVars, bullVars, attempt, handler, up>>

(* The process dies and is started again; its locks expire.                *)
WorkerCrash(w) ==
  /\ Fault("workerCrash")
  /\ attempt' = [attempt EXCEPT ![w] = [n \in Node |-> "none"]]
  /\ handler' = WithoutHost(w)
  /\ job' = [n \in Node |-> IF job[n].owner = w
                            THEN [job[n] EXCEPT !.owner = NoWorker]
                            ELSE job[n]]
  /\ up' = up \union {w}
  /\ UNCHANGED <<redisVars, adds, dlq, api>>

(* The lock is not renewed in time, the attempt goes on.                   *)
LoseLock(w, n) ==
  /\ Fault("lockLoss")
  /\ job[n].state = "active"
  /\ job[n].owner = w
  /\ job' = [job EXCEPT ![n].owner = NoWorker]
  /\ UNCHANGED <<redisVars, adds, dlq, api, attempt, handler, up>>

(* SIGTERM: onModuleDestroy closes the workers, which take no more jobs    *)
(* and wait for the attempts in progress, not for the event handlers.      *)
BeginShutdown(w) ==
  /\ Fault("shutdown")
  /\ w \in up
  /\ up' = up \ {w}
  /\ UNCHANGED <<redisVars, bullVars, api, attempt, handler>>

(* ... then redis.quit(): the commands of handlers in flight are refused.  *)
(* The process is started again.                                           *)
QuitRedis(w) ==
  /\ w \notin up
  /\ Running(w) = {}
  /\ handler' = WithoutHost(w)
  /\ up' = up \union {w}
  /\ UNCHANGED <<redisVars, bullVars, api, attempt, faults>>

-----------------------------------------------------------------------------
(* The next-state relation.                                                *)

ApiStep == \E n \in Node : SetRootJobId(n) \/ AddRoot(n)

EndStep(w, n) == \/ CompleteJob(w, n) \/ RetryJob(w, n) \/ ExhaustJob(w, n)
                 \/ DiscardAttempt(w, n)

AttemptStep(w, n) == MarkActive(w, n) \/ ReadDependencies(w, n) \/ EndStep(w, n)

HandlerStep(n) ==
  \/ StoreResult(n) \/ MarkCompleted(n) \/ DeadLetter(n) \/ MarkFailed(n)
  \/ \E e \in handler[n].todo : Decrement(n, e)
  \/ \E m \in Node : MarkReady(n, m) \/ SetJobId(n, m) \/ AddReady(n, m)

StalledStep(n) == RecoverStalled(n) \/ \E w \in Worker : FailStalled(w, n)

FaultStep ==
  \/ ApiCrash
  \/ \E w \in Worker : \/ WorkerCrash(w) \/ BeginShutdown(w)
                       \/ \E n \in Node : LoseLock(w, n)

Next ==
  \/ \E g \in Requests : CreateDag(g) \/ RejectDag(g)
  \/ ApiStep
  \/ \E w \in Worker, n \in Node : TakeJob(w, n) \/ AttemptStep(w, n)
  \/ \E n \in Node : HandlerStep(n) \/ StalledStep(n)
  \/ \E w \in Worker : QuitRedis(w)
  \/ FaultStep

Spec == Init /\ [][Next]_vars

(* Processes keep going: the API runs its loop, each handler and attempt   *)
(* goes on (the hard timeout ends every call), idle slots fetch jobs and   *)
(* the stalled check is periodic.  Nothing forces a fault, or a request.   *)
Fairness ==
  /\ WF_vars(ApiStep)
  /\ \A n \in Node : /\ WF_vars(HandlerStep(n))
                     /\ WF_vars(StalledStep(n))
                     /\ WF_vars(\E w \in Worker : TakeJob(w, n))
  /\ \A w \in Worker : /\ WF_vars(QuitRedis(w))
                       /\ \A n \in Node : WF_vars(AttemptStep(w, n))

FairSpec == Spec /\ Fairness

-----------------------------------------------------------------------------
(* Correctness.                                                            *)

JobType == [state : JobStates, attemptsMade : Nat, stalled : Nat,
            owner : Worker \union {NoWorker}]

HandlerType == [pc : HandlerPcs, host : Worker \union {NoWorker},
                todo : SUBSET (Node \X Nat), zero : SUBSET Node,
                ready : SUBSET Node]

(* Every variable stays in its domain; marks and counters belong to nodes. *)
TypeOK ==
  /\ api \in [pc : ApiPcs, roots : SUBSET Node]
  /\ dag \in Requests \union {NoDag}
  /\ remaining \in [Node -> Nat]
  /\ status \in [Node -> StatusValues]
  /\ results \subseteq Node
  /\ jobIds \subseteq Node
  /\ job \in [Node -> JobType]
  /\ adds \in [Node -> Nat]
  /\ dlq \in [Node -> Nat]
  /\ attempt \in [Worker -> [Node -> AttemptPhases]]
  /\ handler \in [Node -> HandlerType]
  /\ up \subseteq Worker
  /\ faults \in 0..MaxFaults

(* The positions of n's dependsOn list whose DECR has not happened.        *)
Owed(n) ==
  {i \in DOMAIN dag[n] : LET h == handler[dag[n][i]]
                         IN h.pc # "decrementing" \/ <<n, i>> \in h.todo}

(* deps-remaining counts exactly the DECRs still owed, one per entry of    *)
(* the dependsOn list, crash or not: it cannot reach 0 early, twice or     *)
(* below (markCompleteAndFindReady over buildDependents).                  *)
CounterExact == \A n \in DOMAIN dag : remaining[n] = Cardinality(Owed(n))

(* A node is never enqueued twice, by whichever of its dependencies'       *)
(* handlers, workers or the API ("no double-enqueue", ADR-006).            *)
EnqueuedOnce == \A n \in Node : adds[n] <= 1

(* When a node's job exists, so when processJob reads its dependencies,    *)
(* the output of each of them is stored: getResults never yields null.     *)
InputsReadable ==
  \A n \in DOMAIN dag : adds[n] > 0 => Deps(dag, n) \subseteq results

(* The nodes that need n, directly or not.                                 *)
Below(n) ==
  {m \in DOMAIN dag \ {n} :
     \A S \in SUBSET DOMAIN dag :
       (/\ n \in S
        /\ \A k \in DOMAIN dag : Deps(dag, k) \intersect S # {} => k \in S)
       => m \in S}

(* A failed node blocks all that is below it: no job, and status pending   *)
(* for ever ("B never runs, status=pending", ADR-006's test table).        *)
FailureBlocks ==
  \A n \in DOMAIN dag : job[n].state = "failed" =>
    \A m \in Below(n) : adds[m] = 0 /\ status[m] = "pending"

(* A dead letter is added at most once per job, and only for one that no   *)
(* output was stored for: the DLQ never asks to redo what is done.         *)
DeadLetteredOnce ==
  \A n \in Node : /\ dlq[n] <= 1
                  /\ dlq[n] > 0 => job[n].state = "failed" /\ n \notin results

(* What the promise of DagContract is about.                               *)
Phase(n) == CASE n \in results            -> "done"
              [] job[n].state = "failed"  -> "failed"
              [] job[n].state = "absent"  -> "blocked"
              [] OTHER                    -> "released"

Contract == INSTANCE DagContract WITH
              Requests <- {g \in Requests : Valid(g)},
              phase    <- [n \in Node |-> Phase(n)]

(* Every step of the code is a step of the contract or changes nothing the *)
(* contract speaks of, whatever faults happen.                             *)
ImplementsContract == Contract!Spec

(* A decided status is taken back only by markActive of an attempt that    *)
(* has lost the job's lock, never by another handler or a current attempt. *)
TakenBackOnlyByStale ==
  [][\A n \in Node :
       status[n] \in {"completed", "failed"} /\ status'[n] # status[n]
         => \E w \in Worker : attempt[w][n] = "started" /\ job[n].owner # w]_vars

(* Whatever faults happen, BullMQ and the workers decide every job.        *)
JobsDecided ==
  \A n \in Node : (job[n].state \in {"waiting", "active"})
                    ~> (job[n].state \in {"completed", "failed"})

(* What GET /workflows/dag/:id should show in the end.                     *)
Settled(n) ==
  \/ status[n] \in {"completed", "failed"}
  \/ /\ status[n] = "pending"
     /\ \E m \in DOMAIN dag : status[m] = "failed" /\ n \in Below(m)

Handling(n) ==
  \/ handler[n].pc \in {"completed", "stored", "exhausted", "deadLettered"}
  \/ handler[n].todo # {}
  \/ handler[n].zero \union handler[n].ready # {}

(* The ways in which work is forgotten: a handler whose process ended, an  *)
(* API that stopped between two roots, a stalled job that failed with      *)
(* attempts left, and a stale attempt that marked a decided job active.    *)
Forgotten ==
  \/ api.pc = "crashed"
  \/ \E n \in Node :
       \/ Handling(n) /\ handler[n].host = NoWorker
       \/ job[n].state = "failed" /\ handler[n].pc = "idle"
       \/ /\ job[n].state \in {"completed", "failed"}
          /\ status[n] = "active"
          /\ ~ Handling(n)

(* A DAG is decided to its last node unless work was forgotten in one of   *)
(* these ways: nothing else (order of completions, retries, recovered      *)
(* stalls, interleaved DECRs) can strand it.                               *)
SettlesUnlessForgotten ==
  (dag # NoDag) ~> (Forgotten \/ \A n \in DOMAIN dag : Settled(n))

(* Both: what may be forgotten is steps of a DAG, never a job.             *)
Progress == JobsDecided /\ SettlesUnlessForgotten

=============================================================================
