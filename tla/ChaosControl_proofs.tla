------------------------ MODULE ChaosControl_proofs ------------------------
(***************************************************************************)
(* A queue never has two workers that take jobs, a directive acts once,    *)
(* and no worker is paused unknown to the service, for any queues, windows,*)
(* periods, directives and workers.                                        *)
(***************************************************************************)
EXTENDS ChaosControl, FiniteSetTheorems, TLAPS

(* Worker objects that were made; the numbers above are free.              *)
WorkersOK ==
  /\ made \in 0..MaxWorkers
  /\ worker \in [WorkerId -> Worker \cup {NoWorker}]
  /\ \A w \in WorkerId : worker[w] \in Worker <=> w <= made
  /\ inMap \subseteq 1..made

(* Ids of directives grow, and only the latest one can act.                *)
DirectiveOK ==
  /\ directive.id = issued /\ chaos.last <= issued
  /\ \A d \in DirectiveId : acted[d] > 0 => d <= chaos.last

\* The parts of ChaosTypeOK that are not about workers.
Rest ==
  /\ now \in Time /\ pollDue \in BOOLEAN /\ scanDue \in BOOLEAN
  /\ directive \in Directive \cup {NoDirective}
  /\ issued \in 0..MaxDirectives
  /\ gets \in Seq(Time) /\ Len(gets) <= MaxGets
  /\ loops \subseteq [id : DirectiveId, at : WorkerId]
  /\ scans \in 0..MaxScans
  /\ chaos \in Chaos
  /\ acted \in [DirectiveId -> Nat]
  /\ late \subseteq 1..made

IInv == /\ Rest /\ WorkersOK /\ DirectiveOK
        /\ OneWorkerPerQueue /\ ActsOnce /\ PausedIsKnown

-----------------------------------------------------------------------------
(* Worker objects.                                                         *)

LEMMA Known ==
  /\ MaxWorkers \in Nat /\ Horizon \in Nat /\ MaxDirectives \in Nat /\ Grace \in Nat
  /\ MaxGets \in Nat \ {0} /\ MaxScans \in Nat \ {0} /\ ScanEvery \in Nat \ {0}
  /\ Windows \subseteq Nat \ {0}
BY ChaosAssumption

LEMMA MadeWorkers ==
  ASSUME WorkersOK, NEW w \in 1..made
  PROVE  w \in WorkerId /\ worker[w] \in Worker
BY Known DEF WorkersOK, WorkerId

(* A step that makes no worker and sends none back to live.                *)
Touches(m) ==
  /\ made' = made /\ inMap' = m
  /\ worker' \in [WorkerId -> Worker \cup {NoWorker}]
  /\ \A w \in WorkerId : /\ worker'[w] \in Worker <=> worker[w] \in Worker
                         /\ worker'[w].queue = worker[w].queue
                         /\ worker'[w].state = "live" => worker[w].state = "live"

LEMMA TouchesOK ==
  ASSUME WorkersOK, OneWorkerPerQueue, Touches(inMap)
  PROVE  WorkersOK' /\ OneWorkerPerQueue'
<1>1. WorkersOK'
  BY DEF WorkersOK, Touches
<1>2. ASSUME NEW v \in 1..made, worker'[v].state = "live"
      PROVE  v \in inMap /\ \A w \in 1..made :
               worker'[w].state = "live" /\ worker'[v].queue = worker'[w].queue => v = w
  <2>1. \A w \in 1..made : w \in WorkerId
    BY MadeWorkers
  <2> QED
    BY <1>2, <2>1 DEF OneWorkerPerQueue, Live, Touches
<1> QED
  BY <1>1, <1>2 DEF OneWorkerPerQueue, Live, Touches

LEMMA QueuesFinite ==
  ASSUME NEW qs \in SUBSET Queues
  PROVE  IsFiniteSet(qs) /\ Cardinality(qs) \in Nat
BY ChaosAssumption, FS_Subset, FS_CardinalityType

(* The numbers of new workers are above the old ones, one for each queue.  *)
LEMMA NumberingOK ==
  ASSUME made \in Nat, NEW qs \in SUBSET Queues, NEW f \in Numbering(qs)
  PROVE  /\ DOMAIN f = (made + 1)..(made + Cardinality(qs))
         /\ \A w \in DOMAIN f : f[w] \in qs
         /\ \A v, w \in DOMAIN f : f[v] = f[w] => v = w
<1> DEFINE S == (made + 1)..(made + Cardinality(qs))
<1>1. IsFiniteSet(qs) /\ Cardinality(qs) \in Nat
  BY QueuesFinite
<1>2. IsFiniteSet(S) /\ Cardinality(S) = Cardinality(qs)
  <2> DEFINE a == made + 1  b == made + Cardinality(qs)
  <2>1. a \in Int /\ b \in Int /\ (IF a > b THEN 0 ELSE b - a + 1) = Cardinality(qs)
    BY <1>1
  <2> HIDE DEF a, b
  <2>2. IsFiniteSet(a..b) /\ Cardinality(a..b) = IF a > b THEN 0 ELSE b - a + 1
    BY <2>1, FS_Interval
  <2>3. IsFiniteSet(a..b) /\ Cardinality(a..b) = Cardinality(qs)
    BY <2>1, <2>2
  <2> QED
    BY <2>3 DEF a, b
<1>4. f \in [S -> qs] /\ \A q \in qs : \E w \in S : f[w] = q
  BY DEF Numbering
<1>5. f \in Surjection(S, qs)
  BY <1>4 DEF Surjection
<1>6. f \in Injection(S, qs)
  BY <1>2, <1>5, FS_SurjSameCardinalityImpliesInj
<1> QED
  BY <1>4, <1>6 DEF Injection, IsInjective

LEMMA ScanOK ==
  ASSUME WorkersOK, OneWorkerPerQueue, FinishScan
  PROVE  /\ WorkersOK' /\ OneWorkerPerQueue'
         /\ made' >= made
         /\ \A w \in 1..made' : worker'[w].paused => w \in 1..made /\ worker'[w] = worker[w]
<1>1. PICK f \in Numbering(Unserved) :
        /\ worker' = [w \in WorkerId |->
             IF w \in DOMAIN f
             THEN [queue |-> f[w], state |-> "live", paused |-> FALSE, busy |-> FALSE]
             ELSE worker[w]]
        /\ made' = made + Cardinality(Unserved)
        /\ inMap' = inMap \cup DOMAIN f
  BY DEF FinishScan
<1>2. Unserved \in SUBSET Queues /\ made \in Nat /\ made <= MaxWorkers
  BY Known DEF Unserved, WorkersOK
<1>3. /\ DOMAIN f = (made + 1)..made'
      /\ \A w \in DOMAIN f : f[w] \in Unserved
      /\ \A v, w \in DOMAIN f : f[v] = f[w] => v = w
  BY <1>1, <1>2, NumberingOK
<1>4. made' \in Nat /\ made' >= made /\ made' <= MaxWorkers
  BY <1>1, <1>2, QueuesFinite DEF FinishScan
<1>5. ASSUME NEW w \in DOMAIN f
      PROVE  /\ w \in WorkerId /\ worker'[w] \in Worker /\ worker'[w].queue = f[w]
             /\ ~worker'[w].paused
  <2>1. w \in WorkerId
    BY <1>2, <1>3, <1>4, Known DEF WorkerId
  <2>2. worker'[w] = [queue |-> f[w], state |-> "live", paused |-> FALSE, busy |-> FALSE]
    BY <1>1, <2>1
  <2> QED
    BY <1>2, <1>3, <2>1, <2>2 DEF Worker
<1>6. \A w \in WorkerId : w \notin DOMAIN f => worker'[w] = worker[w]
  BY <1>1
<1>7. \A w \in WorkerId : w <= made' <=> w <= made \/ w \in DOMAIN f
  BY <1>2, <1>3, <1>4 DEF WorkerId
<1>8. worker' \in [WorkerId -> Worker \cup {NoWorker}]
  <2>1. \A w \in WorkerId : worker'[w] \in Worker \cup {NoWorker}
    BY <1>5, <1>6 DEF WorkersOK
  <2> QED
    BY <1>1, <2>1
<1>9. WorkersOK'
  <2>1. \A w \in WorkerId : worker'[w] \in Worker <=> w <= made'
    <3>1. \A w \in DOMAIN f : ~(w <= made)
      BY <1>2, <1>3
    <3> QED
      BY <1>5, <1>6, <1>7, <3>1 DEF WorkersOK
  <2>2. inMap' \subseteq 1..made'
    <3>1. inMap \subseteq 1..made'
      BY <1>2, <1>4 DEF WorkersOK
    <3>2. DOMAIN f \subseteq 1..made'
      BY <1>2, <1>3, <1>4
    <3> QED
      BY <1>1, <3>1, <3>2
  <2>3. made' \in 0..MaxWorkers
    BY <1>4, Known
  <2> QED
    BY <1>8, <2>1, <2>2, <2>3 DEF WorkersOK
<1>10. \A w \in 1..made' : w \in WorkerId /\ (w \in 1..made \/ w \in DOMAIN f)
  BY <1>2, <1>3, <1>4, Known DEF WorkerId
<1>11. \A w \in 1..made : w \in WorkerId /\ w \notin DOMAIN f
  BY <1>2, <1>3, Known DEF WorkerId
<1>12. OneWorkerPerQueue'
  <2> SUFFICES ASSUME NEW v \in 1..made', Live(v)'
               PROVE  /\ v \in inMap'
                      /\ \A w \in 1..made' :
                           Live(w)' /\ worker'[v].queue = worker'[w].queue => v = w
    BY DEF OneWorkerPerQueue
  <2>1. v \in inMap'
    BY <1>1, <1>6, <1>10, <1>11 DEF OneWorkerPerQueue, Live
  <2>2. ASSUME NEW w \in 1..made', Live(w)', worker'[v].queue = worker'[w].queue
        PROVE  v = w
    <3>1. CASE v \in DOMAIN f /\ w \in DOMAIN f
      BY <1>3, <1>5, <2>2, <3>1
    <3>2. ASSUME NEW x \in DOMAIN f, NEW y \in 1..made, Live(y)',
                 worker'[x].queue = worker'[y].queue
          PROVE  FALSE
      <4>1. y \in inMap /\ worker'[y] = worker[y]
        BY <1>6, <1>11, <3>2 DEF OneWorkerPerQueue, Live
      <4>2. worker[y].queue \in Unserved
        BY <1>3, <1>5, <3>2, <4>1
      <4> QED
        BY <4>1, <4>2 DEF Unserved, HasWorker
    <3>3. CASE v \in 1..made /\ w \in 1..made
      BY <1>6, <1>11, <2>2, <3>3 DEF OneWorkerPerQueue, Live
    <3> QED
      BY <1>10, <2>2, <3>1, <3>2, <3>3
  <2> QED
    BY <2>1, <2>2
<1>13. \A w \in 1..made' : worker'[w].paused => w \in 1..made /\ worker'[w] = worker[w]
  BY <1>5, <1>6, <1>10, <1>11
<1> QED
  BY <1>4, <1>9, <1>12, <1>13

LEMMA LiveIsWorker ==
  ASSUME WorkersOK, NEW w \in WorkerId, worker[w] # NoWorker
  PROVE  worker[w] \in Worker /\ w \in 1..made
BY Known DEF WorkersOK, WorkerId

\* One worker changes, and is not sent back to live.
LEMMA OneTouched ==
  ASSUME WorkersOK, NEW w \in WorkerId, worker[w] \in Worker, NEW r \in Worker,
         r.queue = worker[w].queue, r.state = "live" => worker[w].state = "live",
         worker' = [worker EXCEPT ![w] = r], UNCHANGED <<made, inMap>>
  PROVE  Touches(inMap)
<1>1. worker' \in [WorkerId -> Worker \cup {NoWorker}]
  BY DEF WorkersOK
<1>2. \A v \in WorkerId : worker'[v] = IF v = w THEN r ELSE worker[v]
  BY DEF WorkersOK
<1> QED
  BY <1>1, <1>2 DEF Touches

\* A set of workers in the map is paused or resumed.
LEMMA PausedTouched ==
  ASSUME WorkersOK, NEW S \in SUBSET inMap, NEW b \in BOOLEAN,
         worker' = [w \in WorkerId |-> IF w \in S THEN [worker[w] EXCEPT !.paused = b]
                                       ELSE worker[w]],
         UNCHANGED <<made, inMap>>
  PROVE  /\ Touches(inMap)
         /\ \A w \in WorkerId : IF w \in S THEN worker'[w].paused = b ELSE worker'[w] = worker[w]
<1>1. ASSUME NEW w \in S
      PROVE  /\ w \in WorkerId /\ worker[w] \in Worker /\ worker'[w] \in Worker
             /\ worker'[w].queue = worker[w].queue /\ worker'[w].state = worker[w].state
             /\ worker'[w].paused = b
  <2>1. w \in WorkerId /\ worker[w] \in Worker
    BY MadeWorkers DEF WorkersOK
  <2>2. worker'[w] = [worker[w] EXCEPT !.paused = b]
    BY <2>1
  <2> QED
    BY <2>1, <2>2 DEF Worker
<1>2. \A w \in WorkerId : w \notin S => worker'[w] = worker[w]
  OBVIOUS
<1>3. worker' \in [WorkerId -> Worker \cup {NoWorker}]
  <2>1. \A w \in WorkerId : worker'[w] \in Worker \cup {NoWorker}
    BY <1>1, <1>2 DEF WorkersOK
  <2> QED
    BY <2>1
<1> QED
  BY <1>1, <1>2, <1>3 DEF Touches

LEMMA JobTouches ==
  ASSUME WorkersOK, NEW w \in WorkerId, TakeJob(w) \/ FinishJob(w)
  PROVE  Touches(inMap) /\ \A v \in WorkerId : worker'[v].paused = worker[v].paused
<1>1. worker[w] \in Worker
  BY LiveIsWorker DEF TakeJob, FinishJob, Live, NoWorker
<1>2. CASE TakeJob(w)
  <2> DEFINE r == [worker[w] EXCEPT !.busy = TRUE]
  <2>1. worker' = [worker EXCEPT ![w] = r] /\ UNCHANGED <<made, inMap>>
    BY <1>2 DEF TakeJob, WorkersOK
  <2>2. r \in Worker /\ r.queue = worker[w].queue /\ r.state = worker[w].state
        /\ r.paused = worker[w].paused
    BY <1>1 DEF Worker
  <2> HIDE DEF r
  <2> QED
    BY <1>1, <2>1, <2>2, OneTouched DEF WorkersOK
<1>3. CASE FinishJob(w)
  <2> DEFINE st == IF worker[w].state = "closing" THEN "closed" ELSE worker[w].state
             r == [worker[w] EXCEPT !.busy = FALSE, !.state = st]
  <2>1. worker' = [worker EXCEPT ![w] = r] /\ UNCHANGED <<made, inMap>>
    BY <1>3 DEF FinishJob, WorkersOK
  <2>2. r \in Worker /\ r.queue = worker[w].queue /\ r.state = st
        /\ r.paused = worker[w].paused
    BY <1>1 DEF Worker
  <2> HIDE DEF r
  <2> QED
    BY <1>1, <2>1, <2>2, OneTouched DEF WorkersOK
<1> QED
  BY <1>2, <1>3

\* The map is emptied and what was in it closed: nothing is live.
LEMMA KillOK ==
  ASSUME WorkersOK, OneWorkerPerQueue, NEW d, KillWorkers(d), made' = made
  PROVE  WorkersOK' /\ \A w \in 1..made : ~Live(w)'
<1>1. ASSUME NEW w \in inMap
      PROVE  w \in WorkerId /\ worker'[w] \in Worker /\ worker[w] \in Worker
             /\ worker'[w].state # "live"
  <2>1. w \in WorkerId /\ worker[w] \in Worker
    BY MadeWorkers DEF WorkersOK
  <2>2. worker'[w] = [worker[w] EXCEPT !.state = IF worker[w].busy THEN "closing" ELSE "closed"]
    BY <2>1 DEF KillWorkers
  <2> QED
    BY <2>1, <2>2 DEF Worker
<1>2. \A w \in WorkerId : w \notin inMap => worker'[w] = worker[w]
  BY DEF KillWorkers
<1>3. worker' \in [WorkerId -> Worker \cup {NoWorker}]
  <2>1. \A w \in WorkerId : worker'[w] \in Worker \cup {NoWorker}
    BY <1>1, <1>2 DEF WorkersOK
  <2> QED
    BY <2>1 DEF KillWorkers
<1>4. WorkersOK'
  BY <1>1, <1>2, <1>3 DEF WorkersOK, KillWorkers
<1>5. \A w \in 1..made : ~Live(w)'
  BY <1>1, <1>2, MadeWorkers DEF OneWorkerPerQueue, Live
<1> QED
  BY <1>4, <1>5

-----------------------------------------------------------------------------
(* The steps.                                                              *)

LEMMA PauseLoop ==
  ASSUME WorkersOK, loops \subseteq [id : DirectiveId, at : WorkerId],
         NEW d \in DirectiveId, NEW w, NEW others \in SUBSET loops,
         PauseFrom(d, w, others), UNCHANGED <<made, inMap>>
  PROVE  /\ Touches(inMap)
         /\ loops' \subseteq [id : DirectiveId, at : WorkerId]
         /\ After(w) \subseteq 1..made
         /\ \A v \in WorkerId : v \notin After(w) => worker'[v] = worker[v]
<1>1. After(w) \subseteq inMap
  BY DEF After
<1>2. After(w) \subseteq WorkerId /\ After(w) \subseteq 1..made
  BY <1>1, MadeWorkers DEF WorkersOK
<1>3. loops' \subseteq [id : DirectiveId, at : WorkerId]
  BY <1>2 DEF PauseFrom
<1>4. worker' = [v \in WorkerId |-> IF v \in After(w) THEN [worker[v] EXCEPT !.paused = TRUE]
                                   ELSE worker[v]]
  BY DEF PauseFrom
<1> HIDE DEF PauseFrom
<1> QED
  BY <1>1, <1>2, <1>3, <1>4, PausedTouched

\* A reply that acts on a directive acts on the latest, which is new.
LEMMA InForceDirective ==
  ASSUME Rest, DirectiveOK, NEW at, InForce(directive, at)
  PROVE  /\ directive \in Directive /\ directive.id = issued
         /\ Fresh(directive) => acted[directive.id] = 0
<1>1. directive \in Directive
  BY DEF Rest, InForce
<1>2. directive.id \in DirectiveId /\ directive.id = issued
  BY <1>1 DEF Directive, DirectiveOK
<1>3. chaos.last \in Nat /\ issued \in Nat /\ acted[directive.id] \in Nat
  BY <1>2 DEF Rest, Chaos
<1>4. Fresh(directive) => ~(directive.id <= chaos.last)
  BY <1>2, <1>3 DEF Fresh, DirectiveOK
<1>5. Fresh(directive) => ~(acted[directive.id] > 0)
  BY <1>2, <1>4 DEF DirectiveOK
<1> QED
  BY <1>1, <1>2, <1>3, <1>5

LEMMA ActedOnce ==
  ASSUME Rest, DirectiveOK, ActsOnce, NEW at, InForce(directive, at),
         UNCHANGED <<directive, issued>>, chaos'.last = directive.id,
         \/ acted' = acted
         \/ Fresh(directive) /\ acted' = [acted EXCEPT ![directive.id] = @ + 1]
  PROVE  DirectiveOK' /\ ActsOnce' /\ acted' \in [DirectiveId -> Nat]
<1>1. /\ directive.id \in DirectiveId /\ directive.id = issued
      /\ Fresh(directive) => acted[directive.id] = 0
  BY InForceDirective DEF Directive
<1>2. acted \in [DirectiveId -> Nat] /\ chaos.last \in Nat /\ issued \in Nat
      /\ chaos.last <= issued /\ \A d \in DirectiveId : acted[d] > 0 => d <= chaos.last
  BY DEF Rest, Chaos, DirectiveOK
<1>3. \A d \in DirectiveId : d \in Nat
  BY DEF DirectiveId
<1>4. CASE acted' = acted
  BY <1>1, <1>2, <1>3, <1>4 DEF DirectiveOK, ActsOnce
<1>5. CASE Fresh(directive) /\ acted' = [acted EXCEPT ![directive.id] = @ + 1]
  <2>1. acted'[directive.id] = 1 /\ acted' \in [DirectiveId -> Nat]
    BY <1>1, <1>2, <1>5
  <2>2. \A d \in DirectiveId : d # directive.id => acted'[d] = acted[d]
    BY <1>2, <1>5
  <2> QED
    BY <1>1, <1>2, <1>3, <2>1, <2>2 DEF DirectiveOK, ActsOnce
<1> QED
  BY <1>4, <1>5

LEMMA SameWorkers ==
  ASSUME WorkersOK, OneWorkerPerQueue, PausedIsKnown, UNCHANGED objects,
         UNCHANGED late, chaos'.paused = chaos.paused
  PROVE  WorkersOK' /\ OneWorkerPerQueue' /\ PausedIsKnown'
BY DEF objects, WorkersOK, OneWorkerPerQueue, PausedIsKnown, Live

LEMMA SameDirective ==
  ASSUME DirectiveOK, ActsOnce, UNCHANGED <<directive, issued, acted>>, chaos'.last = chaos.last
  PROVE  DirectiveOK' /\ ActsOnce'
BY DEF DirectiveOK, ActsOnce

LEMMA TimerStep ==
  ASSUME IInv,
         \/ Tick \/ StartScan \/ \E a \in Actions, w \in Windows : Trigger(a, w)
  PROVE  IInv'
<1>1. UNCHANGED <<objects, late, acted, chaos>>
  BY DEF Tick, StartScan, Trigger, objects, history
<1>2. WorkersOK' /\ OneWorkerPerQueue' /\ PausedIsKnown'
  BY <1>1, SameWorkers DEF IInv
<1>3. CASE Tick
  <2>1. now' \in Time /\ pollDue' \in BOOLEAN /\ scanDue' \in BOOLEAN
    BY <1>3, Known DEF Tick, IInv, Rest, Time
  <2>2. Rest'
    BY <1>3, <2>1 DEF Tick, IInv, Rest, redis, pending, objects, history
  <2> QED
    BY <1>2, <1>3, <2>2, SameDirective DEF Tick, IInv, redis, history
<1>4. CASE StartScan
  <2>1. scans' \in 0..MaxScans
    BY <1>4, Known DEF StartScan, IInv, Rest
  <2>2. Rest'
    BY <1>4, <2>1 DEF StartScan, IInv, Rest, redis, objects, history
  <2> QED
    BY <1>2, <1>4, <2>2, SameDirective DEF StartScan, IInv, redis, history
<1>5. ASSUME NEW a \in Actions, NEW w \in Windows, Trigger(a, w) PROVE IInv'
  <2>1. issued' = issued + 1 /\ issued' \in DirectiveId /\ issued \in Nat
    BY <1>5, Known DEF Trigger, IInv, Rest, DirectiveId
  <2>2. now + w \in Time
    BY <1>5, Known DEF Trigger, IInv, Rest, Time
  <2>3. directive' = [id |-> issued', action |-> a, until |-> now + w]
    BY <1>5, <2>1 DEF Trigger
  <2>4. directive' \in Directive /\ directive'.id = issued'
    BY <2>1, <2>2, <2>3 DEF Directive
  <2>5. Rest'
    BY <1>5, <2>1, <2>4 DEF Trigger, IInv, Rest, DirectiveId, timers, pending,
       objects, history
  <2>6. DirectiveOK' /\ ActsOnce'
    <3>1. chaos.last \in Nat
      BY DEF IInv, Rest, Chaos
    <3> QED
      BY <1>1, <2>1, <2>4, <3>1 DEF IInv, DirectiveOK, ActsOnce
  <2> QED
    BY <1>2, <2>5, <2>6 DEF IInv
<1> QED
  BY <1>3, <1>4, <1>5

LEMMA WorkerStep ==
  ASSUME IInv,
         FinishScan \/ \E w \in WorkerId : TakeJob(w) \/ FinishJob(w)
  PROVE  IInv'
<1>1. CASE FinishScan
  <2>1. WorkersOK' /\ OneWorkerPerQueue' /\ made' >= made
        /\ \A w \in 1..made' : worker'[w].paused => w \in 1..made /\ worker'[w] = worker[w]
    BY <1>1, ScanOK DEF IInv
  <2>2. late' = late /\ chaos' = chaos
    BY <1>1 DEF FinishScan, history
  <2>3. PausedIsKnown'
    BY <2>1, <2>2 DEF IInv, PausedIsKnown, Live
  <2>4. scans' \in 0..MaxScans
    BY <1>1, Known DEF FinishScan, IInv, Rest
  <2>5. late' \subseteq 1..made'
    BY <2>1, <2>2 DEF IInv, Rest, WorkersOK
  <2>6. Rest'
    BY <1>1, <2>4, <2>5 DEF FinishScan, IInv, Rest, timers, redis, history
  <2> QED
    BY <1>1, <2>1, <2>3, <2>6, SameDirective DEF FinishScan, IInv, redis, history
<1>2. ASSUME NEW w \in WorkerId, TakeJob(w) \/ FinishJob(w) PROVE IInv'
  <2>1. Touches(inMap) /\ \A v \in WorkerId : worker'[v].paused = worker[v].paused
    BY <1>2, JobTouches DEF IInv
  <2>2. UNCHANGED <<timers, redis, pending, made, inMap, chaos, history>>
    BY <1>2 DEF TakeJob, FinishJob
  <2>3. WorkersOK' /\ OneWorkerPerQueue'
    BY <2>1, TouchesOK DEF IInv
  <2>4. PausedIsKnown'
    <3>1. \A v \in 1..made : v \in WorkerId
      BY MadeWorkers DEF IInv
    <3> QED
      BY <2>1, <2>2, <3>1 DEF IInv, PausedIsKnown, Live, Touches, history
  <2>5. Rest'
    BY <2>2 DEF IInv, Rest, timers, redis, pending, history
  <2> QED
    BY <2>2, <2>3, <2>4, <2>5, SameDirective DEF IInv, redis, history
<1> QED
  BY <1>1, <1>2

LEMMA PollStep ==
  ASSUME IInv, StartPoll PROVE IInv'
<1> DEFINE ends == chaos.paused /\ now >= chaos.pausedUntil
<1>1. gets' \in Seq(Time) /\ Len(gets') <= MaxGets
  <2>1. gets \in Seq(Time) /\ now \in Time /\ gets' = Append(gets, now) /\ Len(gets) < MaxGets
    BY DEF StartPoll, IInv, Rest
  <2>2. Len(gets') = Len(gets) + 1 /\ gets' \in Seq(Time) /\ Len(gets) \in Nat
    BY <2>1
  <2> QED
    BY <2>1, <2>2, Known
<1>2. chaos' \in Chaos /\ chaos'.last = chaos.last /\ (ends <=> chaos' # chaos)
      /\ (ends => ~chaos'.paused)
  BY DEF StartPoll, IInv, Rest, Chaos
<1>3. WorkersOK' /\ OneWorkerPerQueue' /\ PausedIsKnown'
  <2>1. CASE ~ends
    BY <2>1, <1>2, SameWorkers DEF StartPoll, IInv, objects, history
  <2>2. CASE ends
    <3>1. worker' = [w \in WorkerId |-> IF w \in inMap THEN [worker[w] EXCEPT !.paused = FALSE]
                                        ELSE worker[w]]
          /\ UNCHANGED <<made, inMap>>
      BY <2>2 DEF StartPoll
    <3>2. Touches(inMap) /\ \A w \in WorkerId : w \in inMap => worker'[w].paused = FALSE
      BY <3>1, PausedTouched DEF IInv
    <3>3. WorkersOK' /\ OneWorkerPerQueue'
      BY <3>2, TouchesOK DEF IInv
    <3>4. \A w \in 1..made' : Live(w)' => w \in WorkerId /\ w \in inMap
      BY <3>1, <3>3, MadeWorkers DEF OneWorkerPerQueue, IInv
    <3> QED
      BY <3>2, <3>3, <3>4 DEF PausedIsKnown
  <2> QED
    BY <2>1, <2>2
<1>4. Rest'
  BY <1>1, <1>2 DEF StartPoll, IInv, Rest, redis, history
<1> QED
  BY <1>2, <1>3, <1>4, SameDirective DEF StartPoll, IInv, redis, history

LEMMA ReplyStep ==
  ASSUME IInv, HandleReply PROVE IInv'
<1> DEFINE d == directive
<1>1. gets' \in Seq(Time) /\ Len(gets') <= MaxGets
  <2>1. gets \in Seq(Time) /\ gets # << >> /\ gets' = Tail(gets) /\ Len(gets) <= MaxGets
    BY DEF HandleReply, IInv, Rest
  <2>2. Len(gets') = Len(gets) - 1 /\ gets' \in Seq(Time) /\ Len(gets) \in Nat
    BY <2>1
  <2> QED
    BY <2>1, <2>2, Known
<1>2. UNCHANGED <<timers, redis, scans, made>>
  BY DEF HandleReply
<1>3. ASSUME UNCHANGED <<worker, inMap, loops, chaos, history>> PROVE IInv'
  <2>1. WorkersOK' /\ OneWorkerPerQueue' /\ PausedIsKnown'
    BY <1>2, <1>3, SameWorkers DEF IInv, objects, history
  <2>2. Rest'
    BY <1>1, <1>2, <1>3 DEF IInv, Rest, timers, redis, history
  <2> QED
    BY <1>2, <1>3, <2>1, <2>2, SameDirective DEF IInv, redis, history
<1>4. ASSUME InForce(d, Head(gets)),
             \/ InjectLatency(d)
             \/ Fresh(d) /\ (KillWorkers(d) \/ PauseWorkers(d))
      PROVE  IInv'
  <2>1. d \in Directive /\ d.id \in DirectiveId /\ d.until \in Time
    BY <1>4, InForceDirective DEF IInv, Directive
  <2>2. chaos'.last = d.id /\ chaos' \in Chaos
    <3>1. d.id \in 0..MaxDirectives /\ chaos \in Chaos
      BY <2>1, Known DEF DirectiveId, IInv, Rest
    <3>2. CASE InjectLatency(d)
      BY <2>1, <3>1, <3>2 DEF InjectLatency, Chaos
    <3>3. CASE KillWorkers(d)
      BY <2>1, <3>1, <3>3 DEF KillWorkers, Chaos
    <3>4. CASE PauseWorkers(d)
      BY <2>1, <3>1, <3>4 DEF PauseWorkers, Chaos
    <3> QED
      BY <1>4, <3>2, <3>3, <3>4
  <2>3. acted' = acted \/ (Fresh(d) /\ acted' = [acted EXCEPT ![d.id] = @ + 1])
    BY <1>4 DEF InjectLatency, KillWorkers, PauseWorkers, Act, history
  <2>4. DirectiveOK' /\ ActsOnce' /\ acted' \in [DirectiveId -> Nat]
    BY <1>2, <1>4, <2>2, <2>3, ActedOnce DEF IInv, redis
  <2>5. late' = late
    BY <1>4 DEF InjectLatency, KillWorkers, PauseWorkers, history
  <2>6. /\ WorkersOK' /\ OneWorkerPerQueue' /\ PausedIsKnown'
        /\ loops' \subseteq [id : DirectiveId, at : WorkerId]
    <3>1. CASE InjectLatency(d)
      <4>1. UNCHANGED <<worker, inMap, loops>> /\ chaos'.paused = chaos.paused
        BY <3>1 DEF InjectLatency, IInv, Rest, Chaos
      <4> QED
        BY <1>2, <2>5, <4>1, SameWorkers DEF IInv, Rest, objects
    <3>2. CASE KillWorkers(d)
      <4>1. WorkersOK' /\ \A w \in 1..made : ~Live(w)'
        BY <1>2, <3>2, KillOK DEF IInv
      <4>2. OneWorkerPerQueue' /\ PausedIsKnown'
        BY <1>2, <4>1 DEF OneWorkerPerQueue, PausedIsKnown
      <4> QED
        BY <3>2, <4>1, <4>2 DEF KillWorkers, IInv, Rest
    <3>3. CASE PauseWorkers(d)
      <4>1. chaos'.paused
        BY <3>3 DEF PauseWorkers, IInv, Rest, Chaos
      <4>2. PauseFrom(d.id, 0, loops) /\ inMap' = inMap
        BY <3>3 DEF PauseWorkers
      <4>3. Touches(inMap) /\ loops' \subseteq [id : DirectiveId, at : WorkerId]
        BY <1>2, <2>1, <4>2, PauseLoop DEF IInv, Rest
      <4> QED
        BY <4>1, <4>3, TouchesOK DEF IInv, PausedIsKnown
    <3> QED
      BY <1>4, <3>1, <3>2, <3>3
  <2>7. Rest'
    BY <1>1, <1>2, <2>2, <2>4, <2>5, <2>6 DEF IInv, Rest, timers, redis
  <2> QED
    BY <2>4, <2>6, <2>7 DEF IInv
<1> QED
  BY <1>3, <1>4 DEF HandleReply

LEMMA PauseNextStep ==
  ASSUME IInv, NEW l \in loops, PauseNext(l) PROVE IInv'
<1>1. l.id \in DirectiveId /\ loops \ {l} \in SUBSET loops
  BY DEF IInv, Rest
<1>2. PauseFrom(l.id, l.at, loops \ {l})
      /\ UNCHANGED <<timers, redis, gets, scans, made, inMap, chaos, acted>>
      /\ late' = IF chaos.paused THEN late ELSE late \cup After(l.at)
  BY DEF PauseNext
<1>3. /\ Touches(inMap)
      /\ loops' \subseteq [id : DirectiveId, at : WorkerId]
      /\ After(l.at) \subseteq 1..made
      /\ \A v \in WorkerId : v \notin After(l.at) => worker'[v] = worker[v]
  BY <1>1, <1>2, PauseLoop DEF IInv, Rest
<1>4. WorkersOK' /\ OneWorkerPerQueue'
  BY <1>3, TouchesOK DEF IInv
<1>5. late' \subseteq 1..made'
  BY <1>2, <1>3 DEF IInv, Rest
<1>6. PausedIsKnown'
  <2> SUFFICES ASSUME NEW w \in 1..made, worker'[w].state = "live", worker'[w].paused,
                      w \notin late', ~chaos.paused
               PROVE  FALSE
    BY <1>2 DEF PausedIsKnown, Live
  <2>1. w \notin After(l.at) /\ w \notin late
    BY <1>2
  <2>2. worker'[w] = worker[w]
    BY <1>3, <2>1, MadeWorkers DEF IInv
  <2> QED
    BY <2>1, <2>2 DEF IInv, PausedIsKnown, Live
<1>7. Rest'
  BY <1>2, <1>3, <1>5 DEF IInv, Rest, timers, redis
<1> QED
  BY <1>2, <1>4, <1>6, <1>7, SameDirective DEF IInv, redis

\* The inductive invariant.
THEOREM ChaosInvariance == Spec => []IInv
<1>1. Init => IInv
  <2> SUFFICES ASSUME Init PROVE IInv
    OBVIOUS
  <2>1. made = 0 /\ inMap = {} /\ \A w \in WorkerId : worker[w] = NoWorker
    BY DEF Init
  <2>2. NoWorker \notin Worker
    BY DEF NoWorker, Worker
  <2>3. WorkersOK
    BY <2>1, <2>2, Known DEF Init, WorkersOK, WorkerId
  <2>4. << >> \in Seq(Time) /\ Len(<< >>) = 0
    OBVIOUS
  <2>5. Rest
    <3>1. 0 \in Time /\ 0 \in 0..MaxDirectives /\ 0 \in 0..MaxScans /\ 0 <= MaxGets
      BY Known DEF Time
    <3>2. chaos \in Chaos
      BY <3>1 DEF Init, Chaos
    <3>3. acted \in [DirectiveId -> Nat]
      BY DEF Init
    <3> QED
      BY <2>4, <3>1, <3>2, <3>3 DEF Init, Rest
  <2>6. OneWorkerPerQueue /\ PausedIsKnown
    BY <2>1 DEF OneWorkerPerQueue, PausedIsKnown
  <2>7. DirectiveOK /\ ActsOnce
    BY DEF Init, DirectiveOK, ActsOnce, NoDirective
  <2> QED
    BY <2>3, <2>5, <2>6, <2>7 DEF IInv
<1>2. IInv /\ [Next]_vars => IInv'
  <2> SUFFICES ASSUME IInv, [Next]_vars PROVE IInv'
    OBVIOUS
  <2>1. CASE UNCHANGED vars
    <3>1. WorkersOK' /\ OneWorkerPerQueue' /\ PausedIsKnown'
      BY <2>1, SameWorkers DEF IInv, vars, objects, history
    <3>2. DirectiveOK' /\ ActsOnce'
      BY <2>1, SameDirective DEF IInv, vars, redis, history
    <3>3. Rest'
      BY <2>1 DEF IInv, Rest, vars, timers, redis, pending, objects, history
    <3> QED
      BY <3>1, <3>2, <3>3 DEF IInv
  <2> QED
    BY <2>1, TimerStep, WorkerStep, PollStep, ReplyStep, PauseNextStep DEF Next
<1> QED
  BY <1>1, <1>2, PTL DEF Spec

\* The state of clock, timers, directives and workers is well-formed.
THEOREM ChaosTypeCorrect == Spec => []ChaosTypeOK
<1>1. IInv => ChaosTypeOK
  BY DEF IInv, Rest, WorkersOK, ChaosTypeOK
<1> QED
  BY <1>1, ChaosInvariance, PTL

\* However scans and kill windows overlap, no queue has two workers that take jobs,
\* and the one it has is in the map.
THEOREM NeverTwoWorkers == Spec => []OneWorkerPerQueue
<1>1. IInv => OneWorkerPerQueue
  BY DEF IInv
<1> QED
  BY <1>1, ChaosInvariance, PTL

\* However many polls see a directive, it closes or pauses the workers once.
THEOREM DirectivesActOnce == Spec => []ActsOnce
<1>1. IInv => ActsOnce
  BY DEF IInv
<1> QED
  BY <1>1, ChaosInvariance, PTL

\* A paused worker that nobody is going to resume was paused by a loop that
\* outlived its window, and in no other way.
THEOREM PausesAreKnown == Spec => []PausedIsKnown
<1>1. IInv => PausedIsKnown
  BY DEF IInv
<1> QED
  BY <1>1, ChaosInvariance, PTL

=============================================================================
