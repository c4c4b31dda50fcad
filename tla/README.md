# AI Task Orchestrator: TLA+ specifications

TLA+ models of the task orchestrator in `src/` (NestJS API, BullMQ worker, React
pages, all meeting in Redis), checked with TLC and, where a result matters for
every instance, proved with TLAPS.

A reader in a hurry: `DagExecution.tla` is the core. Its headline facts
(counters are exact, nothing is enqueued twice, inputs are there when a node
starts, the code implements the three-action contract of `DagContract.tla`) are
checked on small instances and proved for all of them, with worker crashes, lost
locks, shutdowns and an API crash at any point. What is *not* true, although the
documents say so, is shown by three runs that end in a counterexample and listed in section 3.

## 1. Inventory

| Component | State | Operations | Speaks to |
|---|---|---|---|
| DAG workflows (`workflows.service.ts`, `libs/workflow`) | Redis `dag:{id}:*`: nodes, dependents, deps-remaining, status, results, jobIds, failures | createDag, findDag; persist, markActive, markCompleteAndFindReady, markFailed, setJobId | user queues; the worker calls the same coordinator |
| Worker (`fair-scheduler.service.ts`) | map of BullMQ workers, chaos timestamps | processJob, 'completed' and 'failed' handlers, discoverQueues, pollChaos, onModuleDestroy | Redis, LLM, DLQ |
| BullMQ (external) | jobs: waiting, prioritized, active, completed, failed; locks | add, fetch, complete, retry, stalled check | everything |
| Task admission (`apps/api/src/tasks`, `libs/idempotency`) | `idempotency:{key}`; per-user queue | POST /tasks through guard, interceptor, pipe, service | user queue |
| Dead letters | DLQ queue | GET /tasks/dlq, POST /tasks/dlq/:id/retry | user queue |
| Chains | BullMQ flow, `workflow:{id}` metadata | createChain, findOne | user queue |
| Chaos control | `chaos:directive` with an expiry | trigger, status; polled by the worker every second | worker |
| Rate limiter, LLM | `ratelimit:{provider}` token bucket | acquire (Lua), waitForToken, call | worker, hard timeout |
| Event stream | ring buffer of 50 events, a cursor per SSE client | recordEvent, tick; useQueueStream in the page | BullMQ events, browser |
| Router, cost tracker, metrics, cost summary | routing table, Prometheus counters | resolve, record, text parsing | worker, LLM service |
| Web pages | React state | DagEditor, useDagStatus, dashboards | API |

Behaviour that is hard here, and that a unit test hardly reaches:

* Several workers complete the dependencies of one node at once; the release of
  a node hangs on the answer of one `DECR`.
* BullMQ commits a job *before* the 'completed' handler starts and waits for
  nobody: everything the handler does is lost if the process ends.
* A lock may expire under a running attempt, so two attempts of one job overlap.
* Answers to the page are put together from several reads.
* Requests are repeated, concurrently and after lost answers; keys expire; the
  answer to store leaves in a `SET` that nobody waits for.
* Event loops interleave: a poll overtakes an earlier one that still awaits.
* A promise that lost its race goes on, and so does a run that lost its lock: it
  still takes a token and calls the provider, beside the next run of its task.
* Operators retry a dead letter in three commands, at the same time and with
  crashes in between.

`PROJECT.json` lists every such hazard at its line, with the properties that
cover it or the reason why none does.

## 2. Modules

| Module | Models | Checked with |
|---|---|---|
| `DagGraph` | a request as a function from ids to dependsOn lists; when it is valid | all below |
| `DagContract` | abstract specification: accept a graph, release a node when its dependencies are done, publish, fail | refinement in `dag_safety` |
| `DagExecution` | createDag, the coordinator, processJob and the event handlers, at the granularity of Redis commands, over BullMQ's job states; faults | `dag_safety`, `dag_progress` |
| `DagExecution_proofs` | proofs about it: counters, inputs, refinement, failures, dead letters, stale attempts | tlapm |
| `TopologicalSort` | topologicalLayers, a round per step | `editor` |
| `DagEditor` | the page that draws a DAG and the samples, in front of `TopologicalSort` (EXTENDS) | `editor` |
| `DagDrawing` | how an accepted DAG is placed on the screen (EXTENDS `DagEditor`) | `editor` |
| `DagEditor_proofs` | proofs about the three | tlapm |
| `DagStatusPage` | findDag's reads and the polling page, composed with `DagExecution` (EXTENDS) | `status_page`, `status_page_stops` |
| `DagStatusPage_proofs` | proofs about it (EXTENDS `DagExecution_proofs`) | tlapm |
| `TaskAdmission` | POST /tasks: backpressure, idempotency, validation, create; the user's queue | `admission` |
| `TaskAdmission_proofs` | proofs about it | tlapm |
| `ChaosControl` | the directive key, pollChaos, discoverQueues and the map of workers, in poll periods | `chaos`, `chaos_pause_sticks` |
| `ChaosControl_proofs` | proofs about it | tlapm |
| `EventFeed` | StreamService's ring buffer, StreamController's cursor, useQueueStream | `feed`, `feed_stalls` |
| `EventFeed_proofs` | proofs about it | tlapm |
| `DeadLetters` | a job up to its dead letter, and retryFromDlq | `chain` |
| `Chain` | createChain, findOne and the parents that wait (EXTENDS `DeadLetters`) | `chain` |
| `Chain_proofs` | proofs about both | tlapm |
| `TokenBucket` | the Lua script of the rate limiter | `attempts` |
| `Router` | registry, routing table, resolve (pure operators) | `attempts` |
| `LlmAttempt` | the runs of a task: route, race of work and timeout, lock, stalls, tokens, bill, counters (EXTENDS both) | `attempts` |
| `LlmAttempt_proofs` | proofs about it and the bucket | tlapm |
| `MC*` | instances: graphs, requests, symmetry | |

### DagExecution and the code

One DAG is modelled: every key holds the dagId, so DAGs do not interact.

* `dag`, `remaining`, `status`, `results`, `jobIds` are the Redis keys.
  `persist` is one pipeline that nobody reads before it ends (no one knows the
  dagId), hence one action, `CreateDag`. Every other Redis write is an action of
  its own: `SetRootJobId`/`AddRoot`, `MarkActive`, `StoreResult`,
  `MarkCompleted`, `Decrement`, `MarkReady`, `SetJobId`, `AddReady`,
  `DeadLetter`, `MarkFailed`. A pure read whose result nobody can change
  (`getNode`, the dependents) is folded into the step before it.
* `attempt[w][n]` is where worker process `w` is in `processJob` for the job of
  node `n`. Two workers may both be in it: a lost lock leaves the first attempt
  running. BullMQ accepts an outcome only from the lock's owner (`CompleteJob`,
  `RetryJob`, `ExhaustJob`), otherwise `DiscardAttempt`.
* `handler[n]` is the event handler of the last event of `n`'s job, with the
  worker that hosts it. `todo`, `zero` and `ready` are its loop variables:
  decrements still to do, a dependent whose counter was answered 0, the list
  `ready`. A handler dies with its host; nothing starts it again, because BullMQ
  emits the event once.
* Backoff delays and priorities only choose the order of jobs: a job that may be
  fetched is `waiting`, and `TakeJob` picks any.
* External (modelled from how `src/` uses it): BullMQ's add, lock check, stalled
  check with `maxStalledCount`, Redis, process exit and restart.
* Not modelled: the 7-day TTL of the keys, `removeOnComplete/removeOnFail`
  retention, the failures hash (only displayed), the LLM call itself (one step
  that may fail), priorities.

### TopologicalSort, DagEditor

`Prepare`, `Round`, `Finish` are the phases of Kahn's algorithm with the same
counters as the code; a client's request is a sequence, so duplicate ids are
expressible. The order of ids inside a layer is not modelled (a layer is a set):
no reader depends on it. The page's `WouldCreateCycle` is the depth-first search
stated as reachability, computed over the drawn nodes. `Spawn` is the sample of
the workflows page. `Filtered` is Array.filter, by the rank of an entry among those
kept: the form of SelectSeq that a proof can expand. `EditorAssumption` says that
the ids `N1, N2, ...` of `makeNode` differ, as do those of a sample.
`DagDrawing` has no state: `Boxes` and `Arrows` are what `buildGraph` makes of an
accepted request and its layers, in any order of ids within a layer; an arrow
belongs to a place in the dependsOn lists (`Places`).

### DagStatusPage

`findDag` is three reads in the code's order (status, jobIds, results); failures
and nodes add nothing that the properties distinguish. Between any two reads,
any step of `DagExecution` may happen.

### TaskAdmission

One user, since queue, depth and worker are per user, and any number of API
processes. `call[r]` is a request on its way through NestJS: guard (two counts),
interceptor (SET NX, GET), pipe, handler, reply. A request without `userId` passes
the guard and is refused by the pipe, after it has acquired its key.

The reply and the storing of the response are two steps. `tap(async ...)` is not
awaited: with `Respond` the 201 leaves and the `SET` of `complete` is `"sent"`,
`Complete` is Redis doing it, at any time later and after any retry that overtook it.
That `SET` may also be refused or lost: nothing catches the rejection, so the process
ends with all it has under way (`ApiCrash`, of any set of requests: those of one
process). The client then has its 201, the key says "processing" until its TTL and
every retry gets 409. Every other command may be refused too, before or after Redis
has done it where that matters: `CountFails`, `AcquireFails`, `LookupFails`,
`AddFails`, each a 500. A command that ioredis sends a second time by itself, because
the connection broke before its answer, is not modelled.

### ChaosControl

One worker process. An action is what the event loop runs between two awaits:
`StartPoll` and `HandleReply` are the two halves of a poll, `StartScan` and
`FinishScan` those of discoverQueues, `PauseNext` one turn of the pauseRedis
loop. The GET of a poll is read by Redis and handled in one step: what it could
miss in between the next poll sees. `worker` holds the BullMQ objects by number
of creation, which is the order of the map `workers`; `inMap` are its members.
The loop's iterator is live, so `After` looks at the map of the moment.

External: a paused or closing worker takes no new job, `pause()` and `close()`
wait for the running one, `resume()` takes effect at once. Timers and loops that
wait for no job are served within a poll period (`Tick`); Redis may answer later
than that. A directive is told from another by its number, which stands for
`issuedAt` (two directives in one millisecond are not modelled). What
`injectLatency` does to an attempt is in `LlmAttempt`, onModuleDestroy in
`DagExecution`.

chaos.interface.ts:41 says that jobs in progress become stalled by killWorker;
`close()` without force waits for them, as docs/project-status.md:401 says, and
so does `KillWorkers`.

### EventFeed

An event is its number in the order of recording. `FirstTick` is the tick that
`streamQueues` awaits before it sets the intervals and the 'close' listener: a
client that has left by then leaves the handler `leaked`. In the other ticks
nothing older than the await is used, so `Tick` is one step. The server notices
a lost connection later than the page (`Disconnect`, `Close`); what it wrote in
between is lost. An API restart is not modelled: it empties the ring buffer and
ends the connections.

`page.shown` is a history: all that was ever put in the list, of which `flow`
holds the last entries and `seen` what the truncation left. `FeedAssumption`
relates the sizes: what the page keeps of `seen` (200) covers two rings (50), as a
tick that skips an event when the ring rotates lets an older event be shown after a
newer one. To keep one ring is not enough: shown 1, 3, then 2 and 4 after
reconnections, a `seen` of the last two no longer has 3, which a fourth connection
replays.

### DeadLetters, Chain

`job` is the user's queue, by job id; `child` is the one child a chain step can
have, `origin` the letter of which a job is a copy. What a job returns is the
sequence of jobs whose outputs went into it (`Output`, from `previousResult`).
The 'failed' handler is a step after BullMQ's commit: `event` is `"due"` until
the letter is written. `retryFromDlq` is `FindLetter`, `AddCopy`,
`RemoveLetter`, with `RetryCutOff` anywhere between. The copy has no parent,
whatever its letter had.

A flow is added in one transaction (`AddFlow`), its metadata in a second command.
`findOne` is one action per Redis command: `getJob` brings the return value,
`getState` the state. External: BullMQ's job states, flows, stalled check. Not
modelled: retention (the newest 1000 completed and 5000 failed jobs are kept; a
step beyond that is shown as pending), the metadata's 7 days, backoff, and a
`previousResult` of a step whose child was evicted.

### TokenBucket, Router, LlmAttempt

The bucket is counted in ticks of refill, so that fractions of a token are exact;
Redis runs the script atomically, so a request is one action. `watch` is a
history variable: an observer counts one provider's grants from any request on.
Clocks of several worker processes are taken to agree.

`LlmAttempt` is one worker process. `task` is what BullMQ knows; `work[t][i]` is run
`i` of task `t` in the worker. A run ends with an attempt made, with a stall or with
the task, so `attemptsMade + stalled + 1` numbers the current one (`Current`). `race`
says whether processJob still awaits the work, `pc` where the work is, which nothing
cancels. BullMQ takes an outcome only from the run that holds the lock (`Owns`):
`LoseLock` may strike at any moment and the run does not notice, so it goes on beside
the next one, its answer is billed (`Answer`) and then refused (`Complete` without the
lock). `RecoverStalled` and `FailStalled` are BullMQ's check for active jobs without
a lock, as in `DagExecution`.

A tick is the second that waitForToken sleeps; timers fire on time
(`Tick` waits for what is due), but what is due at the same tick comes in any
order. A simulated failure, a provider's failure (its message may say 'timed
out', which the handler counts as a timeout) and a missing key end an attempt.
Not modelled: prices and token counts, a refused Redis command in `acquire`,
`taskRateLimited`, and the slots of a user (every run has one, also beside one that
lost its lock and still occupies its own).

## 3. Runs

| Run | Bounds | Shows |
|---|---|---|
| `dag_safety` | 2 workers, one job each; triangle (two levels), fan-in with a repeated dependency, cyclic, dangling and self-loop requests; 2 attempts; 1 recovered stall; 2 faults of any kind | type correctness, `CounterExact`, `EnqueuedOnce`, `InputsReadable`, `FailureBlocks`, `DeadLetteredOnce`, `TakenBackOnlyByStale`, refinement of `DagContract` |
| `dag_progress` | triangle (two levels, two handlers of one counter), a repeated dependency, a cycle; 2 workers; 2 attempts; 2 faults; 1 recovered stall (a stalled job runs again; one that stalls a second time fails with attempts left) | `Progress` (`JobsDecided` and `SettlesUnlessForgotten`) |
| `editor` | all requests of up to 3 nodes with up to 2 dependencies each; all drawings of up to 4 nodes; the diamond | the algorithm's invariants, `AcceptsExactlyValid` against the definition of `DagGraph`, `EditorAccepted`, `DrawnBack` |
| `status_page` | fan-in and chain, 2 workers, no fault, one failed poll | `ScreenCoherent`, `PollingEnds` |
| `status_page_stops` | same, no failed poll | **violation** of `StoppedIsFinal` |
| `admission` | 3 requests, at once or in turn, with one key or none; crashes and refused commands any time, also between the 201 and its `SET`; one expiry, one stall | `OneTaskPerKey`, `OriginalResponse`, `ProcessingOwned` |
| `chaos` | 2 queues, 2 directives of 1 or 2 periods, 3 periods then open end, 2 polls and 2 scans in flight, 6 worker objects | `OneWorkerPerQueue`, `ActsOnce`, `PausedIsKnown`, `QueuesServedAgain` |
| `chaos_pause_sticks` | same, 1 directive, 1 poll and 1 scan in flight | **violation** of `PausesEnd` |
| `feed` | ring of 2, seen set of 3, screen of 2, 4 events, 3 connections, 1 failed snapshot, 2 discovery rounds | `ShownOnce`, `CatchesUp`, `EarlyEventsArrive` |
| `feed_stalls` | same, 3 events, 1 connection, no failure | **violation** of `EveryEventArrives` |
| `chain` | a chain of 2 steps, 2 other job ids for tasks or copies, 2 operators, 1 attempt (the retry of a job is that of a stall: it waits again), 1 recovered stall, 2 faults | `NothingLost`, `CopiesExplained`, `StepsInOrder`, `ShownChain` |
| `attempts` | 1 task (model named without a key, or routed past the first candidate), 2 attempts, 1 recovered stall (3 runs), bucket of 1 token refilled in 2 ticks, timeout 1, backoff 1, latency 2, one directive or crash, locks lost at any time | `RateBound`, `BilledOnce`, `UnconfiguredOnlyIfNamed`, `CountsAgree`, `EveryoneServed` |

Why the bounds are enough. The coordinator is symmetric in nodes and workers; a
race needs two handlers that share a dependent (the fan-in), a level below (the
triangle), a repeated entry and a request of each invalid kind. A four-node
diamond with the same faults passes too (966 000 states) but takes too long to be
kept as a run. Two faults
allow a fault during the recovery from another. For the safety of the
DAG the bounds do not matter at all: it is proved. For
admission three requests give a holder, a concurrent duplicate and a later retry.
Two directives are enough for one to replace or overlap another; the clock stops
when every window is over and the timers go on, so liveness is not cut short.
In `chain`, two copies of one letter need two operators or a
cut-off retry, and two job ids; the second fault may hit the recovery from the
first. In `attempts`, the abandoned work of the first run is itself the
concurrent actor; since a token takes longer than the timeout, it waits, asks and
answers during and after the runs that follow. Three runs are an attempt, a retry and
a stall in any order; locks need no bound of their own, as each run can lose its lock
once. More tasks or attempts repeat the same pairs (and exceed 10^7 states). The
model a run gets is fixed when it starts, so two requests with one set of keys each
(`MCInit`) show both ways to a provider; the router's part of
`UnconfiguredOnlyIfNamed` goes over all requests and all sets of keys.
With a ring of 2, three events rotate it and a fourth truncates the page's memory;
three connections give a replay before and after. The code's sizes (50, 200, 500,
80) satisfy `FeedAssumption` too. For the safety of the feed the bounds do not matter:
it is proved for all of them.

Deadlock is checked in the two chaos runs, where timers never stop, and not in
the others: a settled DAG, an answered request, a stopped page and a feed without
events are final states.

### What the violations say

1. `status_page_stops`: `useDagStatus.ts:7-9` takes "no active and no ready
   node" for the end. Without any fault, the statuses may be read between
   'completed' of the last dependency and 'ready' of the next node.
2. `chaos_pause_sticks`: "Every effect auto-expires at `until`"
   (`chaos.interface.ts:6`). The pauseRedis loop waits for the running job of one
   worker before it pauses the next; when the window ends during that wait, the
   loop goes on after the resume and pauses a worker for good. With the defaults
   a job may run for 30 s and the window is 15 s.
3. `feed_stalls`: "ring buffer rotated — replay all" (`stream.controller.ts:35`).
   The cursor is the buffer's length, which never changes again once the buffer
   is full: the feed falls silent after 50 events until the page reconnects. The
   quoted branch is unreachable. Also, events are not always shown in order: what
   a tick skipped in a rotation comes with the replay after a reconnection.

### Other statements that the models do not bear out

No run is spent on these; they follow from actions or exceptions that the
properties name.

* "No race, no duplication, no omission" (`docs/articles/04-dag-workflows.md:119`):
  no race and no duplication are proved; omission happens when a worker dies in
  its 'completed' handler (`Forgotten` in `SettlesUnlessForgotten`).
* "0 jobs lost" (`docs/articles/05`): the exceptions of `NothingLost`. A job that
  BullMQ fails as stalled, or whose worker dies before the letter is written, is
  failed without a letter.
* The sixth of seven tasks is refused at a threshold of 5
  (`docs/articles/01:314-321`): `CountWaiting` leaves out prioritized jobs, which
  all tasks are, so the backlog has no bound.
* Rate-limited "jobs wait (not fail)" (`README.md:135`): they wait inside the race
  with the hard timeout (`AskForToken`, `HardTimeout`), so a wait longer than
  TASK_TIMEOUT_MS is a failed attempt.
* "Sending the same key twice returns the original response" (`README.md:172`): not
  while the `SET` of `complete` is on its way, and not at all when it is refused or
  lost after the 201 (`OriginalResponse` says what remains: 409 until the key
  expires, and never a second task).
* Every call is recorded with its cost (`docs/articles/03:128-130`, "每次呼叫都記錄"):
  `processJob` records the answer that wins its race. The call of abandoned work is
  paid for and not recorded; the answer of a run that has lost its lock is recorded
  and thrown away, so a task may have several records (`BilledOnce` says which runs
  have one).
* The provider never gets more than its limit (`docs/articles/03`): a minute may
  see up to twice the limit, and no more (`RateBound`).
* A job that exceeds the SLA is "terminated" (`README.md`): its promise is, its
  work goes on and takes tokens (`AskForToken`).
* POST /tasks/dlq/:id/retry re-queues a bare task: without its DAG (ADR-006:144
  says so), its chain, its model and its taskType (`NewTask`).

### Fairness

`Fairness` of `DagExecution` is weak fairness of: the API's loop, each handler,
each attempt, each job's being fetched, each stalled check, each restart. It is
what the code's scheduling gives: Node's event loop runs every continuation,
`Promise.race` with the hard timeout ends every attempt, BullMQ's slots fetch
while there are jobs and its stalled check is periodic. Nothing is assumed about
faults, clients, or which of two ready steps comes first. `TakeJob` is fair per
job, not per worker: prioritized jobs of one user could starve a low one under
an endless stream, but a DAG is finite. The page's fairness is its timer.
`ChaosControl` and `EventFeed` assume that the event loop runs what is ready, that
time passes, that attempts end and that delivered messages are read; nothing about
directives, new events or connections. `LlmAttempt` assumes that due continuations
run, that time passes, that every call to a provider ends (the SDKs have timeouts)
and that the check for stalled jobs is repeated; nothing about crashes, lost locks or
latency.

## 4. Proofs

`DagExecution_proofs` proves, for every set of nodes, workers and requests and
all limits (assumptions: `WorkerAssumption`, `RequestsAssumption`,
`BoundsAssumption`, stated in the module and evaluated by TLC):

* `TypeCorrect`, `CounterIsExact`, `NoDoubleEnqueue`, `InputsAreReadable`
* `ContractHolds`: `Spec => Contract!Spec`.

The argument. `EnqueuedOnce` is not inductive: to know that a second `AddReady`
cannot happen one must know that two handlers never hold the same node. That
follows from the counter: `CounterExact` says `remaining[m]` is the number of
entries of `m`'s dependsOn list still owed, so exactly one `DECR` answers 0, and
the node is *claimed* by that handler alone. `IInv` is the conjunction of the
type, `GraphOK` (dependencies are nodes), `ApiOK` (what the API still has to
enqueue are roots without a job), `JobOK` (a job exists iff it was added once;
nothing is published by an undecided job), `HandlerOK` (a handler's program
counter tells what is stored), `CounterExact`, and `ClaimOK` (a claimed node owes
nothing, has no job, has one claimant). `InputsReadable` and the refinement
follow from it: a node with a job owes nothing, so every dependency's handler is
in its decrement loop, after `StoreResult`. Type correctness itself needs
`CounterExact`: `remaining` stays natural because an owed entry is counted.

The second half of the module adds `FailureIsContained`, `OneDeadLetter`
and `OnlyStaleTakesBack`. `FailureBlocks` needs that a node nobody has released is
pending (`PendingOK`) and that only a node with a job is attempted (`AttemptOK`);
`DeadLetteredOnce` that the letter is written by the handler of a *failed* job,
which then goes on (`DeadLetterOK`), while an output is stored by that of a
completed one.

`DagStatusPage_proofs` proves `ScreensAreCoherent`. The reads of `findDag` are at
different moments, so the invariant is about what has been read *and* what is still
to be read: `AnswerOK` says, at each read, that the statuses already in the answer
are backed by the jobIds and results that are in Redis now. Since those only grow
(`Grows`), the later reads find them. That `findDag` reads the statuses first is what
makes it true.

`DagEditor_proofs` begins with `SortSpec`, which takes any request of unbounded
size. `SortInv` says that the counters count: `inDegree` is the number of
entries not yet placed, the frontier what owes nothing, `processed` the number of
nodes placed. An accepted graph is acyclic because the layer is a rank
(`LayersRank`); a rejected one is not, because of a rank of its nodes the least
stuck one would owe nothing (`NothingStuck`, by `NatLessThanWellFounded`).
`PagesUseSort` is `Spec => SortSpec`: the page, the samples and other clients
only send requests of the type that the sort is specified for, so all of this
holds of the whole (`PagesAreJudgedExactly`).

`PreflightIsEnough` and `RoundTrip` follow the graph from the canvas to the screen
(from `EditorAssumption`), for any number of nodes and any order of edits. The
editor never computes a rank, so `CanvasOK` states the absence of cycles in the
form that its edits preserve: of every non-empty set of drawn nodes, one has no
edge from the set (`NoCycle`). A refused search gives a set of nodes that no edge
leaves, with the target in it and the source outside; of a set of nodes, those outside
are looked at first, so the new edge closes nothing (`NoCycleWithEdge`). What a
rejected request leaves over is a set that contradicts `NoCycle` (`StuckSet`).
`FilteredProperties` (a filter keeps order, entries and distinctness) rests on the
places of the kept entries being a bijection (`PlaceOfKept`). For the drawing, the
rows of a layer are a bijection too (`RowsOfLayer`), no layer is taller than
`Tallest` (`GreatestIsMax`), and a dependency is in an earlier layer, so its arrow
leads to the right.

`EventFeed_proofs` proves `FeedTypeCorrect` and `NoEventTwice` (from
`FeedAssumption`), for any numbers of sources, events, connections, discovery
rounds and failures. A source has one QueueEvents object whatever rounds overlap
(`SubsOK`), so an event is recorded once and the ring holds consecutive numbers
(`RingOK`). The server does not know what the page has shown; the key is that
whatever is in the ring, on its way or shown is *in reach*: it was sent when it was
in the ring, so it is less than a ring's length older than anything shown or sent
before it (`ShownInReach`, `WireInReach`). If an event came back that `seen` had
lost, all `SeenKeep` members of `seen` would have been shown after it and be within
reach of it on both sides; being distinct, there are fewer than twice the ring of
them, by the pigeonhole principle, against `FeedAssumption`.

`TaskAdmission_proofs` proves `AdmissionTypeCorrect` and `OneTask` (from
`KeyAssumption`, `AdmissionBounds`). `OneTaskPerKey` needs to know who may still
create a task: while a key has not expired, at most one request is in the handler
with it, that one has made no task yet, and an absent key means that nobody has
got past the guard with it (`KeyInv`). `OriginalAnswer` and `ProcessingIsOwned`
prove the other two: while it has not expired a key belongs to at most one request
in the handler, answered or about to be, and is "processing" until the `SET` of that
one is done (`AnswerInv`), so a `SET` that arrives late can only be the owner's; an
owner that ends otherwise stays visible as a 400, an error, a crash or a `SET` on its
way or lost.

`LlmAttempt_proofs` proves all safety properties of the runs (from
`BucketAssumption` and `AttemptAssumption`), for any number of tasks, attempts,
stalls, lost locks, crashes and tokens and any durations: `TypesCorrect`,
`RateBounded`, `Billed`, `RoutedToConfigured`, `Counted`. `RateBound` is not
inductive: what was granted says nothing of what can still be granted. `RateInv` adds
the level of the bucket to the left side, `granted * Unit + Level <= Cap + age`: a
grant moves a token from the level to what was granted, a tick adds at most one to
both sides, and at the first request that is counted the level is at most `Cap`. The
bucket is proved apart from the rest (`BucketFollows`): any step is a request for some
provider, a tick, or leaves it alone. `BilledOnce` needs what `Bill` says of one run:
an awaited run has no record and an answered one has one; who is in the race holds
the lock or is known to have lost it; and a run that is still to come has neither
raced nor been billed, so that counting on (`BillNextRun`) brings a fresh one. Each
way to change a run is a lemma about values, used for every action of that kind.
`Counted` uses that an attempt that fails adds one element, not there before, to the
set of attempts made, and its task to the dead ones if it was the last
(`FailureAdded`); the type invariant needs that a task that has not failed has an
attempt left and that only an active one is locked (`TaskInv`).

`ChaosControl_proofs` proves all safety properties of the worker's map and the
directives (from `ChaosAssumption`), for any queues, windows, periods and numbers
of directives and workers: `ChaosTypeCorrect`, `NeverTwoWorkers`,
`DirectivesActOnce`, `PausesAreKnown`. `WorkersOK` says that the worker objects
are numbered up to `made` and that the map holds some of them: a scan makes its
workers under new numbers (`NumberingOK`: the queues it lacks are as many as the
numbers it takes) and only for queues the map has no worker for. That a paused
worker is known needs `OneWorkerPerQueue` (the loop that resumes goes over the map,
so every live worker must be in it). That a directive acts once needs the order of ids
(`DirectiveOK`): only ids up to `lastDirectiveId` have acted, and a loop that
acts has just found a larger one.

`Chain_proofs` proves all properties of `DeadLetters` and `Chain` (from
`DeadLettersAssumption` and `ChainAssumption`) for any number of jobs, operators,
attempts, stalls and faults and any length of the chain: `ChainTypeCorrect`,
`NoTaskLost`, `CopiesAreExplained`, `ChainRunsInOrder`, `FindOneIsCoherent`.
`Moves` states once what a step of the queue can do to a job; every action is shown
to be such a step, and the chain follows from `Moves` alone. `NothingLost` needs
that an operator removes a letter only when its copy exists (`RetryOK`), and that
a letter is written for a failed job only, once (`LetterOK`: a job without a
letter has no copies, so a new letter starts the count of `CopiesExplained` at
zero). `OrderOK` says that a step which no longer waits is behind
completed ones, with the outputs in order; so a step behind a failed one waits for
ever, and `FindOK` that what findOne has read of decided steps is still true.

Every invariant and every safety property that a run checks is proved. Only
model-checked is what is about liveness: `Progress`, `PollingEnds`,
`QueuesServedAgain`, `CatchesUp`, `EarlyEventsArrive`, `EveryoneServed` (fairness and
ENABLED are outside the prover's reach, as are induction over data and RECURSIVE
operators; none of the modules uses RECURSIVE).

## 5. Plan

Done: all modules of section 2, and the proofs of every safety property. Left:
several worker processes in `ChaosControl` and `LlmAttempt`; in `TaskAdmission`,
commands that ioredis sends again by itself.

Not modelled, and why: prices and cost sums (float
arithmetic), the cost summary (string parsing), Bull Board and the admin
token (third party, one comparison), the dashboards (rendering), module wiring,
and the out-of-band chaos scripts.
