---------------------------- MODULE ChaosControl ----------------------------
(***************************************************************************)
(* The chaos control channel: the API writes a time-boxed directive to a   *)
(* Redis key, the worker process polls the key every second and applies    *)
(* the directive to its BullMQ workers, which discoverQueues makes and     *)
(* rebuilds.  All of it runs on one event loop, so what interleaves are    *)
(* the parts between two awaits: polls that wait for Redis, loops that     *)
(* wait for workers to pause, scans that wait for the queue names.         *)
(*                                                                         *)
(* Time is counted in poll periods.  At Horizon, when every window is      *)
(* over, the clock stands still and the timers go on.                      *)
(***************************************************************************)
EXTENDS Naturals, Sequences, FiniteSets

CONSTANTS
  Queues,         \* user queues with a meta key in Redis
  NoQueue,        \* no queue: a worker object not made yet
  Windows,        \* durations of directives
  Grace,          \* what the key's PX adds to the duration
  ScanEvery,      \* poll periods between two scans
  Horizon,        \* bound: end of time
  MaxDirectives,  \* bound: directives issued
  MaxWorkers,     \* bound: worker objects made
  MaxGets,        \* bound: polls waiting for Redis at once
  MaxScans        \* bound: scans waiting for Redis at once

ASSUME ChaosAssumption ==
  /\ Queues # {} /\ IsFiniteSet(Queues) /\ NoQueue \notin Queues
  /\ Windows \subseteq Nat \ {0}
  /\ {Grace, Horizon, MaxDirectives, MaxWorkers} \subseteq Nat
  /\ {ScanEvery, MaxGets, MaxScans} \subseteq Nat \ {0}

VARIABLES
  now,         \* the clock
  pollDue,     \* chaosInterval has fired
  scanDue,     \* scanInterval has fired
  directive,   \* the value of CHAOS_KEY, expired or not
  issued,      \* directives issued so far; the number stands for issuedAt
  gets,        \* polls that wait for GET: the `now` of each
  loops,       \* pauseRedis loops: the directive and the worker waited for
  scans,       \* scans that wait for KEYS
  worker,      \* BullMQ worker objects, by number of creation
  made,        \* worker objects made so far
  inMap,       \* members of the map `workers`; its order is that of creation
  chaos,       \* the chaos fields of FairSchedulerService
  acted,       \* history: how often each directive was acted on
  late         \* history: workers paused when workersPaused was false

timers  == <<now, pollDue, scanDue>>
redis   == <<directive, issued>>
pending == <<gets, loops, scans>>
objects == <<worker, made, inMap>>
history == <<acted, late>>
vars    == <<timers, redis, pending, objects, chaos, history>>

Time       == 0..Horizon
Actions    == {"killWorker", "pauseRedis", "injectLatency"}
DirectiveId == 1..MaxDirectives
WorkerId   == 1..MaxWorkers
NoDirective == [id |-> 0, action |-> "none", until |-> 0]

Directive == [id : DirectiveId, action : Actions, until : Time]
Worker    == [queue : Queues, state : {"live", "closing", "closed"},
              paused : BOOLEAN, busy : BOOLEAN]
NoWorker  == [queue |-> NoQueue, state |-> "none", paused |-> FALSE, busy |-> FALSE]
Chaos     == [suppressedUntil : Time, pausedUntil : Time, paused : BOOLEAN,
              latencyUntil : Time, last : 0..MaxDirectives]

ChaosTypeOK ==
  /\ now \in Time /\ pollDue \in BOOLEAN /\ scanDue \in BOOLEAN
  /\ directive \in Directive \cup {NoDirective}
  /\ issued \in 0..MaxDirectives
  /\ gets \in Seq(Time) /\ Len(gets) <= MaxGets
  /\ loops \subseteq [id : DirectiveId, at : WorkerId]
  /\ scans \in 0..MaxScans
  /\ worker \in [WorkerId -> Worker \cup {NoWorker}]
  /\ made \in 0..MaxWorkers
  /\ inMap \subseteq 1..made
  /\ chaos \in Chaos
  /\ acted \in [DirectiveId -> Nat]
  /\ late \subseteq 1..made

\* onModuleInit waits for the first scan; the timers come after it.
Init ==
  /\ now = 0 /\ pollDue = FALSE /\ scanDue = TRUE
  /\ directive = NoDirective /\ issued = 0
  /\ gets = << >> /\ loops = {} /\ scans = 0
  /\ worker = [w \in WorkerId |-> NoWorker] /\ made = 0 /\ inMap = {}
  /\ chaos = [suppressedUntil |-> 0, pausedUntil |-> 0, paused |-> FALSE,
              latencyUntil |-> 0, last |-> 0]
  /\ acted = [d \in DirectiveId |-> 0] /\ late = {}

-----------------------------------------------------------------------------
(* The clock and the API.                                                  *)

\* Timers that have fired, and loops that wait for no job, are served within
\* their period.
Tick ==
  /\ ~pollDue /\ ~scanDue /\ Len(gets) < MaxGets
  /\ \A l \in loops : worker[l.at].busy
  /\ now' = IF now < Horizon THEN now + 1 ELSE now
  /\ pollDue' = TRUE
  /\ scanDue' = (now' % ScanEvery = 0 \/ now = Horizon)
  /\ UNCHANGED <<redis, pending, objects, chaos, history>>

\* ChaosService.trigger: a later directive takes the place of an earlier one.
Trigger(action, window) ==
  /\ issued < MaxDirectives /\ now + window <= Horizon
  /\ issued' = issued + 1
  /\ directive' = [id |-> issued + 1, action |-> action, until |-> now + window]
  /\ UNCHANGED <<timers, pending, objects, chaos, history>>

-----------------------------------------------------------------------------
(* The workers, as BullMQ runs them.  There are always jobs.               *)

Live(w) == worker[w].state = "live"

TakeJob(w) ==
  /\ Live(w) /\ ~worker[w].paused /\ ~worker[w].busy
  /\ worker' = [worker EXCEPT ![w].busy = TRUE]
  /\ UNCHANGED <<timers, redis, pending, made, inMap, chaos, history>>

\* An attempt ends, at the latest with its hard timeout; a worker that is
\* being closed has waited for it.
FinishJob(w) ==
  /\ worker[w].busy
  /\ worker' = [worker EXCEPT ![w].busy = FALSE,
                              ![w].state = IF @ = "closing" THEN "closed" ELSE @]
  /\ UNCHANGED <<timers, redis, pending, made, inMap, chaos, history>>

-----------------------------------------------------------------------------
(* discoverQueues.                                                         *)

\* The kill window is tested here, before the await.
StartScan ==
  /\ scanDue /\ scans < MaxScans
  /\ scanDue' = FALSE
  /\ scans' = IF now < chaos.suppressedUntil THEN scans ELSE scans + 1
  /\ UNCHANGED <<now, pollDue, redis, gets, loops, objects, chaos, history>>

HasWorker(q) == \E w \in inMap : worker[w].queue = q

\* Mutant of Unserved: the map is not tested after the await.
UnservedUntested == Queues

\* The queues that a finished scan makes workers for.
Unserved == {q \in Queues : ~HasWorker(q)}

\* New numbers for a set of queues, one each.
Numbering(qs) ==
  {f \in [(made + 1)..(made + Cardinality(qs)) -> qs] :
     \A q \in qs : \E w \in DOMAIN f : f[w] = q}

\* After the await; nothing but the map is tested.
FinishScan ==
  /\ scans > 0
  /\ scans' = scans - 1
  /\ made + Cardinality(Unserved) <= MaxWorkers
  /\ \E f \in Numbering(Unserved) :
       /\ worker' = [w \in WorkerId |->
            IF w \in DOMAIN f
            THEN [queue |-> f[w], state |-> "live", paused |-> FALSE, busy |-> FALSE]
            ELSE worker[w]]
       /\ made' = made + Cardinality(Unserved)
       /\ inMap' = inMap \cup DOMAIN f
  /\ UNCHANGED <<timers, redis, gets, loops, chaos, history>>

-----------------------------------------------------------------------------
(* pollChaos.                                                              *)

\* Up to `await redis.get`.  resume() settles at once, so the loop over the
\* workers runs without a gap.
StartPoll ==
  LET ends == chaos.paused /\ now >= chaos.pausedUntil IN
  /\ pollDue /\ Len(gets) < MaxGets
  /\ pollDue' = FALSE
  /\ gets' = Append(gets, now)
  /\ worker' = IF ends THEN [w \in WorkerId |-> IF w \in inMap
                               THEN [worker[w] EXCEPT !.paused = FALSE] ELSE worker[w]]
                       ELSE worker
  /\ chaos' = IF ends THEN [chaos EXCEPT !.paused = FALSE] ELSE chaos
  /\ UNCHANGED <<now, scanDue, redis, loops, scans, made, inMap, history>>

\* The next worker a loop finds in the live map, in the order of creation.
After(w) == {v \in inMap : v > w /\ \A u \in inMap : u > w => v <= u}

\* pause() forbids new jobs at once; the loop then waits for the running one.
PauseFrom(id, w, others) ==
  /\ worker' = [v \in WorkerId |-> IF v \in After(w)
                  THEN [worker[v] EXCEPT !.paused = TRUE] ELSE worker[v]]
  /\ loops' = others \cup {[id |-> id, at |-> v] : v \in After(w)}

Act(d) == acted' = [acted EXCEPT ![d.id] = @ + 1]

\* Mutants of KillWorkers: the window lasts as long as the key; the map keeps
\* the closed workers.
KillWorkersLonger(d) ==
  /\ chaos' = [chaos EXCEPT !.last = d.id, !.suppressedUntil = d.until + Grace]
  /\ worker' = [w \in WorkerId |-> IF w \in inMap
                  THEN [worker[w] EXCEPT !.state = "closed"] ELSE worker[w]]
  /\ inMap' = {}
  /\ Act(d)
  /\ UNCHANGED <<loops, late>>

KillWorkersKept(d) ==
  /\ chaos' = [chaos EXCEPT !.last = d.id, !.suppressedUntil = d.until]
  /\ worker' = [w \in WorkerId |-> IF w \in inMap
                  THEN [worker[w] EXCEPT !.state = "closed"] ELSE worker[w]]
  /\ Act(d)
  /\ UNCHANGED <<inMap, loops, late>>

KillWorkers(d) ==
  /\ chaos' = [chaos EXCEPT !.last = d.id, !.suppressedUntil = d.until]
  /\ worker' = [w \in WorkerId |-> IF w \in inMap
                  THEN [worker[w] EXCEPT !.state = IF worker[w].busy THEN "closing"
                                                   ELSE "closed"]
                  ELSE worker[w]]
  /\ inMap' = {}
  /\ Act(d)
  /\ UNCHANGED <<loops, late>>

\* Mutants of PauseWorkers: workersPaused is set after the loop, here never,
\* since the loop has not ended; lastChaosIssuedAt is set after it.
PauseWorkersUnmarked(d) ==
  /\ chaos' = [chaos EXCEPT !.last = d.id, !.pausedUntil = d.until]
  /\ PauseFrom(d.id, 0, loops)
  /\ Act(d)
  /\ UNCHANGED <<inMap, late>>

PauseWorkersUnrecorded(d) ==
  /\ chaos' = [chaos EXCEPT !.paused = TRUE, !.pausedUntil = d.until]
  /\ PauseFrom(d.id, 0, loops)
  /\ Act(d)
  /\ UNCHANGED <<inMap, late>>

PauseWorkers(d) ==
  /\ chaos' = [chaos EXCEPT !.last = d.id, !.paused = TRUE, !.pausedUntil = d.until]
  /\ PauseFrom(d.id, 0, loops)
  /\ Act(d)
  /\ UNCHANGED <<inMap, late>>

\* Armed again by every poll of the window.
InjectLatency(d) ==
  /\ chaos' = [chaos EXCEPT !.last = d.id, !.latencyUntil = d.until]
  /\ UNCHANGED <<worker, inMap, loops, history>>

\* CHAOS_KEY has not expired, and the directive's window had not ended when
\* the poll started.
InForce(d, at) == d # NoDirective /\ now < d.until + Grace /\ at < d.until

Fresh(d) == d.id # chaos.last

\* The reply of the oldest GET: one connection answers in order.
HandleReply ==
  LET d == directive IN
  /\ gets # << >>
  /\ gets' = Tail(gets)
  /\ IF ~InForce(d, Head(gets)) THEN UNCHANGED <<worker, inMap, loops, chaos, history>>
     ELSE \/ d.action = "injectLatency" /\ InjectLatency(d)
          \/ d.action = "killWorker" /\ Fresh(d) /\ KillWorkers(d)
          \/ d.action = "pauseRedis" /\ Fresh(d) /\ PauseWorkers(d)
          \/ /\ d.action # "injectLatency" /\ ~Fresh(d)
             /\ UNCHANGED <<worker, inMap, loops, chaos, history>>
  /\ UNCHANGED <<timers, redis, scans, made>>

\* The job that a pauseRedis loop waits for is over: the loop goes on,
\* whatever other polls have done in the meantime.
PauseNext(l) ==
  /\ l \in loops /\ ~worker[l.at].busy
  /\ PauseFrom(l.id, l.at, loops \ {l})
  /\ late' = IF chaos.paused THEN late ELSE late \cup After(l.at)
  /\ UNCHANGED <<timers, redis, gets, scans, made, inMap, chaos, acted>>

-----------------------------------------------------------------------------
Next ==
  \/ Tick \/ StartScan \/ FinishScan \/ StartPoll \/ HandleReply
  \/ \E a \in Actions, w \in Windows : Trigger(a, w)
  \/ \E w \in WorkerId : TakeJob(w) \/ FinishJob(w)
  \/ \E l \in loops : PauseNext(l)

\* The event loop runs what is ready, time passes, attempts end.
Fairness ==
  /\ WF_vars(Tick) /\ WF_vars(StartScan) /\ WF_vars(FinishScan)
  /\ WF_vars(StartPoll) /\ WF_vars(HandleReply)
  /\ \A w \in WorkerId : WF_vars(FinishJob(w))
  /\ \A d \in DirectiveId, w \in WorkerId : WF_vars(PauseNext([id |-> d, at |-> w]))

Spec     == Init /\ [][Next]_vars
FairSpec == Spec /\ Fairness

-----------------------------------------------------------------------------
\* Scans and kills overlap, yet no queue has two workers that take jobs, and
\* the one it has is in the map: nothing else could pause or close it
\* (the test of the map after the await in discoverQueues).
OneWorkerPerQueue ==
  \A v, w \in 1..made :
    Live(v) => /\ v \in inMap
               /\ (Live(w) /\ worker[v].queue = worker[w].queue) => v = w

\* Polls overlap and directives replace each other, yet a directive closes or
\* pauses the workers at most once (lastChaosIssuedAt).
ActsOnce == \A d \in DirectiveId : acted[d] <= 1

\* A worker that is paused will be resumed: workersPaused is set.  The one
\* exception is a worker paused by a loop that outlived its window.
PausedIsKnown ==
  \A w \in 1..made : (Live(w) /\ worker[w].paused /\ w \notin late) => chaos.paused

\* killWorker is reversible: a queue always gets a live worker again.
QueuesServedAgain == \A q \in Queues : []<>(\E w \in inMap : Live(w) /\ worker[w].queue = q)

\* pauseRedis is reversible: no live worker stays paused for ever.
PausesEnd ==
  \A w \in WorkerId : (Live(w) /\ worker[w].paused) ~> ~(Live(w) /\ worker[w].paused)
=============================================================================
