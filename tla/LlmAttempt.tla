----------------------------- MODULE LlmAttempt -----------------------------
(***************************************************************************)
(* What the worker does in a run of a task: the router picks a model; the  *)
(* work (injected latency, a token of the provider's bucket, the call)     *)
(* races with the hard timeout; the answer that wins is billed and         *)
(* returned, and BullMQ takes what the run returns only while the run      *)
(* holds the task's lock.                                                  *)
(*                                                                         *)
(* A promise that loses a race is not stopped, nor is a run that has lost  *)
(* its lock: both go on beside the task's next run, compete with it for    *)
(* tokens and call the provider.                                           *)
(*                                                                         *)
(* Timers hold the ticks that are left and fire on time; a tick is the     *)
(* second that waitForToken sleeps.                                        *)
(***************************************************************************)
EXTENDS TokenBucket, Router, FiniteSets

CONSTANTS
  Task,         \* tasks; the worker has a slot for each of their runs
  Requests,     \* [model, taskType] of a task
  Attempts,     \* attempts of a task
  MaxStalled,   \* BullMQ's maxStalledCount
  Timeout,      \* TASK_TIMEOUT_MS, in ticks
  Backoff,      \* delay of a retry, in ticks
  Latency,      \* latencyMs of a directive, in ticks
  Window,       \* its duration, in ticks
  MaxFaults     \* bound: injectLatency directives and crashes of the worker

ASSUME AttemptAssumption ==
  /\ Providers = Provider /\ IsFiniteSet(Task)
  /\ {Attempts, Timeout, Latency, Window} \subseteq Nat \ {0}
  /\ {MaxStalled, Backoff, MaxFaults} \subseteq Nat

VARIABLES
  configured,  \* remote providers with an API key
  task,        \* the tasks in BullMQ: their state, whether the current run has
               \* the lock, attempts made, times stalled, what is left of the
               \* backoff; and which runs have lost the lock so far
  work,        \* the runs in the worker: their race and its deadline; their
               \* work, abandoned or not
  latency,     \* ticks for which latency is still injected
  counts,      \* metrics of the worker process
  billed,      \* how many cost records each run has made
  faults       \* directives and crashes so far

attemptVars == <<configured, task, work, latency, counts, billed, faults>>
vars == <<bucketVars, attemptVars>>

Run == 1..(Attempts + MaxStalled)
Ticks == 0..(Timeout + Backoff + Latency)

TaskRecord ==
  [state : {"queued", "active", "completed", "failed"}, request : Requests,
   locked : BOOLEAN, attemptsMade : 0..Attempts, stalled : 0..MaxStalled,
   timer : Ticks, lost : SUBSET Run]

WorkRecord ==
  [race : {"none", "awaited", "answered"}, deadline : Ticks,
   pc : {"none", "latency", "first", "again", "sleep", "calling"}, timer : Ticks,
   model : Model]

AttemptTypeOK ==
  /\ BucketTypeOK
  /\ configured \subseteq Provider \ {"ollama"}
  /\ task \in [Task -> TaskRecord]
  /\ work \in [Task -> [Run -> WorkRecord]]
  /\ latency \in 0..Window
  /\ counts \in [failed : Nat, timeout : Nat, dlq : Nat]
  /\ billed \in [Task -> [Run -> Nat]]
  /\ faults \in [injected : 0..MaxFaults, restarts : 0..MaxFaults]

NoWork == [race |-> "none", deadline |-> 0, pc |-> "none", timer |-> 0,
           model |-> DefaultModel]
NoCounts == [failed |-> 0, timeout |-> 0, dlq |-> 0]

Init ==
  /\ BucketInit
  /\ configured \in SUBSET (Provider \ {"ollama"})
  /\ \E r \in [Task -> Requests] :
       task = [t \in Task |->
                 [state |-> "queued", request |-> r[t], locked |-> FALSE,
                  attemptsMade |-> 0, stalled |-> 0, timer |-> 0, lost |-> {}]]
  /\ work = [t \in Task |-> [i \in Run |-> NoWork]]
  /\ latency = 0
  /\ counts = NoCounts
  /\ billed = [t \in Task |-> [i \in Run |-> 0]]
  /\ faults = [injected |-> 0, restarts |-> 0]

-----------------------------------------------------------------------------
(* Runs of a task.  Each ends with an attempt made, with a stall or with   *)
(* the task, which numbers them.                                           *)

Current(t) == task[t].attemptsMade + task[t].stalled + 1

\* BullMQ takes what run i says of task t.
Owns(t, i) == task[t].state = "active" /\ task[t].locked /\ i = Current(t)

\* processJob up to Promise.race: the route, the timeout, the work's first step.
Start(t) ==
  /\ task[t].state = "queued" /\ task[t].timer = 0
  /\ task' = [task EXCEPT ![t].state = "active", ![t].locked = TRUE]
  /\ work' = [work EXCEPT ![t][Current(t)] =
       [race |-> "awaited", deadline |-> Timeout,
        pc |-> IF latency > 0 THEN "latency" ELSE "first",
        timer |-> IF latency > 0 THEN Latency ELSE 0,
        model |-> Resolve(task[t].request.model, task[t].request.taskType, configured)]]
  /\ UNCHANGED <<bucketVars, configured, latency, counts, billed, faults>>

LastAttempt(t) == task[t].attemptsMade + 1 = Attempts

\* The run throws: BullMQ retries the task after the backoff or fails it.
Throw(t) ==
  task' = [task EXCEPT ![t].state = IF LastAttempt(t) THEN "failed" ELSE "queued",
                       ![t].locked = FALSE,
                       ![t].attemptsMade = @ + 1,
                       ![t].timer = IF LastAttempt(t) THEN 0 ELSE Backoff]

\* Mutant: the limit is compared with the attempts before this one.
CountFailureEarly(t, timedOut) ==
  counts' = [failed  |-> counts.failed + 1,
             timeout |-> counts.timeout + IF timedOut THEN 1 ELSE 0,
             dlq     |-> counts.dlq + IF task[t].attemptsMade + 1 >= Attempts - 1 THEN 1 ELSE 0]

\* The 'failed' handler.
CountFailure(t, timedOut) ==
  counts' = [failed  |-> counts.failed + 1,
             timeout |-> counts.timeout + IF timedOut THEN 1 ELSE 0,
             dlq     |-> counts.dlq + IF LastAttempt(t) THEN 1 ELSE 0]

FailAttempt(t, timedOut) == Throw(t) /\ CountFailure(t, timedOut)

\* Run i throws; without the lock nothing comes of it but an 'error' event.
RunThrows(t, i, timedOut) ==
  IF Owns(t, i) THEN FailAttempt(t, timedOut) ELSE UNCHANGED <<task, counts>>

\* TASK_FAILURE_RATE: the attempt ends before it has begun.
SimulateFailure(t) ==
  /\ task[t].state = "queued" /\ task[t].timer = 0
  /\ FailAttempt(t, FALSE)
  /\ UNCHANGED <<bucketVars, configured, work, latency, billed, faults>>

\* The timeout wins the race.  The work is left as it is.
HardTimeout(t, i) ==
  /\ work[t][i].race = "awaited" /\ work[t][i].deadline = 0
  /\ work' = [work EXCEPT ![t][i].race = "none"]
  /\ RunThrows(t, i, TRUE)
  /\ UNCHANGED <<bucketVars, configured, latency, billed, faults>>

\* What processJob returned is stored, and the 'completed' handler follows, or
\* it is refused: another run has the lock, or none.
Complete(t, i) ==
  /\ work[t][i].race = "answered"
  /\ work' = [work EXCEPT ![t][i] = NoWork]
  /\ task' = IF Owns(t, i)
             THEN [task EXCEPT ![t].state = "completed", ![t].locked = FALSE]
             ELSE task
  /\ UNCHANGED <<bucketVars, configured, latency, counts, billed, faults>>

-----------------------------------------------------------------------------
(* The work of run i of task t, whether or not it is still awaited.        *)

LatencyOver(t, i) ==
  /\ work[t][i].pc = "latency" /\ work[t][i].timer = 0
  /\ work' = [work EXCEPT ![t][i].pc = "first"]
  /\ UNCHANGED <<bucketVars, configured, task, latency, counts, billed, faults>>

\* waitForToken: a request, another one at once if it is refused, and then one
\* after each sleep.
AskForToken(t, i) ==
  /\ \/ work[t][i].pc \in {"first", "again"}
     \/ work[t][i].pc = "sleep" /\ work[t][i].timer = 0
  /\ LET p == Registry[work[t][i].model] IN
     /\ Request(p)
     /\ work' = [work EXCEPT ![t][i] =
          IF Granted(p) THEN [@ EXCEPT !.pc = "calling"]
          ELSE IF @.pc = "first" THEN [@ EXCEPT !.pc = "again"]
          ELSE [@ EXCEPT !.pc = "sleep", !.timer = 1]]
  /\ UNCHANGED <<configured, task, latency, counts, billed, faults>>

Answers(t, i) == work[t][i].pc = "calling" /\ IsAvailable(work[t][i].model, configured)

Answered == [NoWork EXCEPT !.race = "answered"]

\* Mutant: the cost is recorded with the answer, before the race.
AnswerBilledAtOnce(t, i) ==
  /\ Answers(t, i)
  /\ work' = [work EXCEPT ![t][i] = IF @.race = "awaited" THEN Answered ELSE NoWork]
  /\ billed' = [billed EXCEPT ![t][i] = @ + 1]
  /\ UNCHANGED <<bucketVars, configured, task, latency, counts, faults>>

\* The provider answers.  An answer that is still awaited is billed, lock or no
\* lock, any other is dropped.
Answer(t, i) ==
  /\ Answers(t, i)
  /\ IF work[t][i].race = "awaited"
     THEN /\ work' = [work EXCEPT ![t][i] = Answered]
          /\ billed' = [billed EXCEPT ![t][i] = @ + 1]
     ELSE /\ work' = [work EXCEPT ![t][i] = NoWork]
          /\ UNCHANGED billed
  /\ UNCHANGED <<bucketVars, configured, task, latency, counts, faults>>

\* It fails, in words that may say 'timed out', or there is no key for it.
ProviderFails(t, i) ==
  /\ work[t][i].pc = "calling"
  /\ work' = [work EXCEPT ![t][i] = NoWork]
  /\ IF work[t][i].race = "awaited"
     THEN \E timedOut \in BOOLEAN :
            (timedOut => IsAvailable(work[t][i].model, configured)) /\ RunThrows(t, i, timedOut)
     ELSE UNCHANGED <<task, counts>>
  /\ UNCHANGED <<bucketVars, configured, latency, billed, faults>>

-----------------------------------------------------------------------------
(* The surroundings.                                                       *)

FaultLeft == faults.injected + faults.restarts < MaxFaults

InjectLatency ==
  /\ FaultLeft
  /\ faults' = [faults EXCEPT !.injected = @ + 1]
  /\ latency' = Window
  /\ UNCHANGED <<bucketVars, configured, task, work, counts, billed>>

\* The lock of task t expires or goes with its holder.
Unlocked(t) == [task[t] EXCEPT !.locked = FALSE, !.lost = @ \cup {Current(t)}]

\* The lock is not renewed in time.  The run does not notice.
LoseLock(t) ==
  /\ task[t].locked
  /\ task' = [task EXCEPT ![t] = Unlocked(t)]
  /\ UNCHANGED <<bucketVars, configured, work, latency, counts, billed, faults>>

\* The process ends with all its promises and metrics, and starts again.
WorkerCrash ==
  /\ FaultLeft
  /\ faults' = [faults EXCEPT !.restarts = @ + 1]
  /\ work' = [t \in Task |-> [i \in Run |-> NoWork]]
  /\ task' = [t \in Task |-> IF task[t].locked THEN Unlocked(t) ELSE task[t]]
  /\ counts' = NoCounts /\ latency' = 0
  /\ UNCHANGED <<bucketVars, configured, billed>>

Stalls(t) == task[t].state = "active" /\ ~task[t].locked

\* BullMQ's check for stalled jobs: one without a lock waits again.
RecoverStalled(t) ==
  /\ Stalls(t) /\ task[t].stalled < MaxStalled
  /\ task' = [task EXCEPT ![t].state = "queued", ![t].stalled = @ + 1]
  /\ UNCHANGED <<bucketVars, configured, work, latency, counts, billed, faults>>

\* One that stalled too often fails, with an attempt made; the 'failed' handler follows.
FailStalled(t) ==
  /\ Stalls(t) /\ task[t].stalled = MaxStalled
  /\ task' = [task EXCEPT ![t].state = "failed", ![t].attemptsMade = @ + 1]
  /\ CountFailure(t, FALSE)
  /\ UNCHANGED <<bucketVars, configured, work, latency, billed, faults>>

Less(n) == IF n = 0 THEN 0 ELSE n - 1

Overdue ==
  \E t \in Task, i \in Run :
    \/ work[t][i].race = "awaited" /\ work[t][i].deadline = 0
    \/ work[t][i].pc \in {"latency", "sleep"} /\ work[t][i].timer = 0

Tick ==
  /\ ~Overdue
  /\ Elapse
  /\ task' = [t \in Task |-> [task[t] EXCEPT !.timer = Less(@)]]
  /\ work' = [t \in Task |-> [i \in Run |->
       [work[t][i] EXCEPT !.timer = Less(@), !.deadline = Less(@)]]]
  /\ latency' = Less(latency)
  /\ UNCHANGED <<configured, counts, billed, faults>>

TaskStep(t) == Start(t) \/ SimulateFailure(t) \/ RecoverStalled(t) \/ FailStalled(t)
RaceStep(t, i) == HardTimeout(t, i) \/ Complete(t, i)
WorkStep(t, i) == LatencyOver(t, i) \/ AskForToken(t, i) \/ Answer(t, i) \/ ProviderFails(t, i)

Next ==
  \/ Tick \/ InjectLatency \/ WorkerCrash
  \/ \E t \in Task :
       TaskStep(t) \/ LoseLock(t) \/ \E i \in Run : RaceStep(t, i) \/ WorkStep(t, i)

Spec == Init /\ [][Next]_vars

\* The event loop runs what is due, time passes, BullMQ looks for stalled jobs
\* again and again, and each call to a provider ends: the SDKs have timeouts of
\* their own.
Fairness ==
  /\ WF_vars(Tick)
  /\ \A t \in Task : WF_vars(TaskStep(t))
  /\ \A t \in Task, i \in Run : WF_vars(RaceStep(t, i) \/ WorkStep(t, i))

FairSpec == Spec /\ Fairness

-----------------------------------------------------------------------------
(* Properties.                                                             *)

\* Whatever goes on after its run was given up, a run makes one cost record at most,
\* and only if its answer won its race: there is one for the run that completes a
\* task, and any other is of a run that lost the task's lock, to a crash or while it
\* ran, whose answer is billed although BullMQ refuses it.
BilledOnce ==
  \A t \in Task, i \in Run :
    /\ billed[t][i] <= 1
    /\ billed[t][i] = 1 =>
         \/ i \in task[t].lost
         \/ i = Current(t) /\ task[t].state = "completed"
         \/ Owns(t, i) /\ work[t][i].race = "answered"
    /\ task[t].state = "completed" /\ i = Current(t) => billed[t][i] = 1

\* A task runs on a model without a key only if its request names that model: so
\* the router decides for every set of keys, and no retry, late answer or crash
\* leaves a run with another model.
UnconfiguredOnlyIfNamed ==
  /\ OnlyNamedUnavailable
  /\ \A t \in Task, i \in Run :
       \/ IsAvailable(work[t][i].model, configured)
       \/ work[t][i].model = task[t].request.model

\* The failure counters are those of the tasks, whatever raced or lost its lock:
\* failed counts the attempts that are made and not completed, a stall that fails
\* its task among them, timeout no more than these, and dlq the tasks that failed
\* with no attempt left: one that stalled too often before has no dead letter.
CountsAgree ==
  faults.restarts = 0 =>
    /\ counts.dlq = Cardinality({t \in Task :
         task[t].state = "failed" /\ task[t].attemptsMade = Attempts})
    /\ counts.failed = Cardinality({x \in Task \X (1..Attempts) :
         x[2] <= task[x[1]].attemptsMade})
    /\ counts.timeout <= counts.failed

\* Every task is decided, and no work waits for a token for ever, also when work
\* that was given up asks for the same tokens.
EveryoneServed ==
  <>(\A t \in Task : /\ task[t].state \in {"completed", "failed"}
                     /\ \A i \in Run : work[t][i].pc = "none")

=============================================================================
