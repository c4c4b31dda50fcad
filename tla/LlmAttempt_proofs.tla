------------------------- MODULE LlmAttempt_proofs -------------------------
(***************************************************************************)
(* The rate of granted tokens, the bill and the counters of the runs, for  *)
(* any number of tasks, attempts, stalls, providers and any durations.     *)
(***************************************************************************)
EXTENDS LlmAttempt, FiniteSetTheorems, TLAPS

(* What the bucket still holds is part of what it may grant: RateBound is  *)
(* not inductive without the level.                                        *)
RateInv ==
  watch.on => watch.granted * Unit + Level(watch.provider) <= Cap + watch.age

BucketInv == BucketTypeOK /\ RateInv

-----------------------------------------------------------------------------
(* The bucket.                                                             *)

LEMMA CapType == Cap \in Nat /\ Unit \in Nat /\ Unit > 0 /\ Unit <= Cap
<1> DEFINE U == Unit  M == Max
<1>1. M \in Nat /\ U \in Nat /\ M >= 1 /\ U >= 1
  BY BucketAssumption
<1>2. M * U \in Nat /\ U <= M * U
  <2> HIDE DEF U, M
  <2> QED
    BY <1>1
<1> QED
  BY <1>1, <1>2 DEF Cap

LEMMA LevelType ==
  ASSUME BucketTypeOK, NEW p \in Providers
  PROVE  Level(p) \in 0..Cap
BY CapType DEF BucketTypeOK, Level, MinOf

LEMMA OneMore ==
  ASSUME NEW g \in Nat PROVE (g + 1) * Unit = g * Unit + Unit /\ g * Unit \in Nat
BY CapType

(* A request takes from the level what it grants, and leaves other buckets *)
(* as they are.                                                            *)
LEMMA RequestLevel ==
  ASSUME BucketTypeOK, NEW p \in Providers, Request(p)
  PROVE  /\ bucket' \in [Providers -> [tokens : 0..Cap, idle : 0..Cap]]
         /\ Level(p)' = IF Granted(p) THEN Level(p) - Unit ELSE Level(p)
         /\ \A q \in Providers : q # p => Level(q)' = Level(q)
<1>1. Level(p) \in 0..Cap
  BY LevelType
<1> DEFINE l == IF Granted(p) THEN Level(p) - Unit ELSE Level(p)
<1>2. l \in 0..Cap
  BY <1>1, CapType DEF Granted
<1>3. bucket' = [bucket EXCEPT ![p] = [tokens |-> l, idle |-> 0]]
  BY DEF Request
<1> HIDE DEF l
<1>4. bucket' \in [Providers -> [tokens : 0..Cap, idle : 0..Cap]]
  BY <1>2, <1>3, CapType DEF BucketTypeOK
<1>5. bucket'[p] = [tokens |-> l, idle |-> 0]
  BY <1>3 DEF BucketTypeOK
<1>6. Level(p)' = l
  BY <1>2, <1>5, CapType DEF Level, MinOf, Cap
<1>7. ASSUME NEW q \in Providers, q # p PROVE Level(q)' = Level(q)
  BY <1>3, <1>7 DEF Level, Cap, BucketTypeOK
<1> QED
  BY <1>4, <1>6, <1>7 DEF l

LEMMA RequestStep ==
  ASSUME BucketInv, NEW p \in Providers, Request(p) PROVE BucketInv'
<1> USE CapType DEF BucketInv
<1> DEFINE one == IF Granted(p) THEN 1 ELSE 0
           W == [provider : Providers, on : BOOLEAN, granted : Nat, age : 0..Span]
<1>1. watch \in W /\ 0 \in 0..Span
  BY BucketAssumption DEF BucketTypeOK
<1>2. Level(p) \in 0..Cap /\ (Granted(p) <=> Level(p) >= Unit)
  BY LevelType DEF Granted
<1>3. CASE watch.on /\ p = watch.provider /\ watch' = [watch EXCEPT !.granted = @ + one]
  <2>1. watch' \in W
    BY <1>1, <1>3
  <2>2. watch'.granted * Unit + Level(p)' = watch.granted * Unit + Level(p)
    BY <1>1, <1>2, <1>3, RequestLevel, OneMore
  <2>3. watch'.provider = p /\ watch'.age = watch.age
    BY <1>1, <1>3
  <2>4. RateInv'
    BY <1>3, <2>2, <2>3 DEF RateInv, Cap
  <2> QED
    BY <2>1, <2>4, RequestLevel DEF BucketTypeOK, Cap
<1>4. CASE p # watch.provider /\ watch' = watch
  BY <1>1, <1>4, RequestLevel DEF BucketTypeOK, RateInv, Cap
<1>5. CASE ~watch.on /\ watch' = watch
  BY <1>1, <1>5, RequestLevel DEF BucketTypeOK, RateInv, Cap
<1>6. CASE watch' = [provider |-> p, on |-> TRUE, granted |-> one, age |-> 0]
  <2>1. one * Unit + Level(p)' <= Cap
    BY <1>2, RequestLevel
  <2>2. watch' \in W
    BY <1>1, <1>6
  <2> QED
    BY <1>6, <2>1, <2>2, RequestLevel DEF BucketTypeOK, RateInv, Cap
<1> QED
  BY <1>3, <1>4, <1>5, <1>6 DEF Request, Observe

LEMMA UnwatchedType ==
  /\ Unwatched \in [provider : Providers, on : BOOLEAN, granted : Nat, age : 0..Span]
  /\ ~Unwatched.on
<1> DEFINE p == CHOOSE q \in Providers : TRUE
<1>1. p \in Providers /\ 0 \in 0..Span
  BY BucketAssumption
<1> HIDE DEF p
<1>2. Unwatched = [provider |-> p, on |-> FALSE, granted |-> 0, age |-> 0]
  BY DEF Unwatched, p
<1> QED
  BY <1>1, <1>2

LEMMA ElapseStep ==
  ASSUME BucketInv, Elapse PROVE BucketInv'
<1> DEFINE W == [provider : Providers, on : BOOLEAN, granted : Nat, age : 0..Span]
<1>1. bucket' \in [Providers -> [tokens : 0..Cap, idle : 0..Cap]]
  BY CapType DEF Elapse, BucketInv, BucketTypeOK, MinOf
<1>2. \A p \in Providers : Level(p)' \in Nat /\ Level(p)' <= Level(p) + 1
  <2> SUFFICES ASSUME NEW p \in Providers
               PROVE  Level(p)' \in Nat /\ Level(p)' <= Level(p) + 1
    OBVIOUS
  <2>1. bucket[p].tokens \in 0..Cap /\ bucket[p].idle \in 0..Cap
    BY DEF BucketInv, BucketTypeOK
  <2>2. /\ bucket'[p].tokens = bucket[p].tokens
        /\ bucket'[p].idle = MinOf(Cap, bucket[p].idle + 1)
    BY DEF Elapse, BucketInv, BucketTypeOK
  <2>3. Cap' = Cap
    BY DEF Cap
  <2> HIDE DEF Cap
  <2> QED
    BY <2>1, <2>2, <2>3, CapType DEF Level, MinOf
<1>3. watch \in W /\ Span \in Nat
  BY BucketAssumption DEF BucketInv, BucketTypeOK
<1>4. CASE watch' = watch /\ ~watch.on
  BY <1>1, <1>3, <1>4 DEF BucketInv, BucketTypeOK, RateInv, Cap
<1>5. CASE watch.on /\ watch.age < Span /\ watch' = [watch EXCEPT !.age = @ + 1]
  <2> DEFINE p == watch.provider
  <2>1. watch' \in W /\ watch'.granted = watch.granted /\ watch'.age = watch.age + 1
        /\ watch'.provider = p
    BY <1>3, <1>5
  <2>2. p \in Providers /\ watch.granted \in Nat /\ watch.age \in Nat
    BY <1>3
  <2>3. watch.granted * Unit + Level(p) <= Cap + watch.age
    BY <1>5 DEF BucketInv, RateInv
  <2>4. Level(p) \in Nat /\ Level(watch.provider)' \in Nat
        /\ Level(watch.provider)' <= Level(p) + 1
    <3>1. Level(p) \in Nat
      BY <2>2, LevelType DEF BucketInv
    <3>2. \A q \in Providers : q = watch'.provider
            => Level(q)' \in Nat /\ Level(q)' <= Level(p) + 1
      BY <1>2, <2>1
    <3> QED
      BY <2>1, <2>2, <3>1, <3>2 DEF Level
  <2>5. RateInv'
    BY <2>1, <2>2, <2>3, <2>4, OneMore, CapType DEF RateInv, Cap
  <2> QED
    BY <1>1, <2>1, <2>5 DEF BucketInv, BucketTypeOK, Cap
<1>6. CASE watch' = Unwatched
  <2>1. watch' \in W /\ watch'.on = FALSE
    BY <1>6, UnwatchedType
  <2> QED
    BY <1>1, <2>1 DEF BucketInv, BucketTypeOK, RateInv, Cap
<1> QED
  BY <1>4, <1>5, <1>6 DEF Elapse

LEMMA BucketStart == BucketInit => BucketInv
<1> SUFFICES ASSUME BucketInit PROVE BucketInv
  OBVIOUS
<1>1. Cap \in 0..Cap /\ 0 \in 0..Span
  BY CapType, BucketAssumption
<1>2. bucket \in [Providers -> [tokens : 0..Cap, idle : 0..Cap]]
  BY <1>1 DEF BucketInit
<1>3. watch = Unwatched
  BY DEF BucketInit
<1> QED
  BY <1>2, <1>3, UnwatchedType DEF BucketInv, BucketTypeOK, RateInv

-----------------------------------------------------------------------------
(* The route.                                                              *)

LEMMA FirstAvailableType ==
  ASSUME NEW c, NEW k \in DOMAIN Candidates
  PROVE  FirstAvailable(k, c) \in Model /\ IsAvailable(FirstAvailable(k, c), c)
<1> DEFINE list == Candidates[k]
           Able(i) == IsAvailable(list[i], c)
           P(i) == Able(i) /\ \A n \in 1..i - 1 : ~Able(n)
<1>1. \E i \in 1..3 : IsAvailable(list[i], c)
  <2>1. PICK i \in 1..3 : list[i] = "llama3.2"
    BY DEF Candidates
  <2> QED
    BY <2>1 DEF IsAvailable, Registry
<1>2. \A i \in 1..3 : list[i] \in Model
  BY DEF Candidates, Model, Registry
<1>3. \E i \in 1..3 : P(i)
  <2> HIDE DEF Able
  <2>1. Able(1) \/ Able(2) \/ Able(3)
    BY <1>1 DEF Able
  <2>2. CASE Able(1)
    BY <2>2
  <2>3. CASE ~Able(1) /\ Able(2)
    BY <2>3
  <2>4. CASE ~Able(1) /\ ~Able(2) /\ Able(3)
    BY <2>4
  <2> QED
    BY <2>1, <2>2, <2>3, <2>4
<1>4. PICK j \in 1..3 : P(j) /\ FirstAvailable(k, c) = list[j]
  <2> DEFINE j == CHOOSE i \in 1..3 : P(i)
  <2>1. j \in 1..3 /\ P(j)
    <3> HIDE DEF P
    <3> QED
      BY <1>3
  <2>2. FirstAvailable(k, c) = list[j]
    BY DEF FirstAvailable
  <2> HIDE DEF j
  <2> QED
    BY <2>1, <2>2
<1> QED
  BY <1>2, <1>4

LEMMA ResolveType ==
  ASSUME NEW m, NEW k, NEW c
  PROVE  /\ Resolve(m, k, c) \in Model
         /\ IsAvailable(Resolve(m, k, c), c) \/ Resolve(m, k, c) = m
<1>1. DefaultModel \in Model /\ IsAvailable(DefaultModel, c)
  BY DEF DefaultModel, Model, IsAvailable, Registry
<1> QED
  BY <1>1, FirstAvailableType DEF Resolve

-----------------------------------------------------------------------------
(* Type correctness.  A task that has not failed has an attempt left.      *)

Fits(r) ==
  /\ r \in TaskRecord
  /\ r.state # "failed" => r.attemptsMade < Attempts
  /\ r.locked => r.state = "active"

TaskInv ==
  /\ task \in [Task -> TaskRecord]
  /\ \A t \in Task : Fits(task[t])

WorkType == work \in [Task -> [Run -> WorkRecord]]

CountsType == counts \in [failed : Nat, timeout : Nat, dlq : Nat]

TypeInv == AttemptTypeOK /\ TaskInv

LEMMA TickTypes ==
  /\ {0, 1, Timeout, Backoff, Latency} \subseteq Ticks
  /\ \A n \in Ticks : Less(n) \in Ticks
  /\ \A n \in 0..Window : Less(n) \in 0..Window
  /\ Window \in 0..Window /\ 0 \in 0..Window
BY AttemptAssumption DEF Ticks, Less

LEMMA NewTaskRecord ==
  ASSUME TaskInv, NEW t \in Task, NEW r, Fits(r), task' = [task EXCEPT ![t] = r]
  PROVE  TaskInv'
<1>1. \A u \in Task : task'[u] = IF u = t THEN r ELSE task[u]
  BY DEF TaskInv
<1>2. task' \in [Task -> TaskRecord]
  BY DEF TaskInv, Fits
<1>3. \A u \in Task : Fits(task'[u])
  BY <1>1 DEF TaskInv
<1> QED
  BY <1>2, <1>3 DEF TaskInv

LEMMA NewWorkRecord ==
  ASSUME WorkType, NEW t \in Task, NEW i \in Run, NEW r \in WorkRecord,
         work' = [work EXCEPT ![t][i] = r]
  PROVE  WorkType'
BY DEF WorkType

LEMMA NoWorkType ==
  /\ NoWork \in WorkRecord /\ NoWork.race = "none" /\ NoWork.pc = "none"
  /\ Answered \in WorkRecord /\ Answered.race = "answered" /\ Answered.pc = "none"
  /\ NoWork.model = DefaultModel /\ Answered.model = DefaultModel
BY TickTypes DEF NoWork, Answered, WorkRecord, DefaultModel, Model, Registry

LEMMA CurrentType ==
  ASSUME TaskInv, NEW t \in Task, task[t].state # "failed"
  PROVE  Current(t) \in Run
BY AttemptAssumption DEF TaskInv, Fits, TaskRecord, Run, Current

LEMMA TypeStart == Init => TypeInv
<1> SUFFICES ASSUME Init PROVE TypeInv
  OBVIOUS
<1>1. BucketTypeOK
  BY BucketStart DEF Init, BucketInv
<1>2. PICK q \in [Task -> Requests] :
        task = [t \in Task |->
                 [state |-> "queued", request |-> q[t], locked |-> FALSE,
                  attemptsMade |-> 0, stalled |-> 0, timer |-> 0, lost |-> {}]]
  BY DEF Init
<1>3. \A t \in Task : Fits(task[t])
  <2>1. 0 \in 0..Attempts /\ 0 \in 0..MaxStalled /\ 0 < Attempts /\ {} \in SUBSET Run
    BY AttemptAssumption
  <2> QED
    BY <1>2, <2>1, TickTypes DEF Fits, TaskRecord
<1>4. task \in [Task -> TaskRecord]
  BY <1>2, <1>3 DEF Fits
<1>5. work \in [Task -> [Run -> WorkRecord]]
  BY NoWorkType DEF Init
<1>6. counts \in [failed : Nat, timeout : Nat, dlq : Nat]
  BY DEF Init, NoCounts
<1>7. faults \in [injected : 0..MaxFaults, restarts : 0..MaxFaults]
  BY AttemptAssumption DEF Init
<1> QED
  BY <1>1, <1>3, <1>4, <1>5, <1>6, <1>7, TickTypes
  DEF Init, TypeInv, TaskInv, AttemptTypeOK

(* What a step does to the bucket, apart from the rest.                    *)
LEMMA BucketFollows ==
  ASSUME BucketInv, TypeInv, [Next]_vars PROVE BucketInv'
<1>1. ASSUME UNCHANGED bucketVars PROVE BucketInv'
  <2>1. bucket' = bucket /\ watch' = watch
    BY <1>1 DEF bucketVars
  <2> QED
    BY <2>1 DEF BucketInv, BucketTypeOK, RateInv, Level, Cap
<1>2. ASSUME NEW t \in Task, NEW i \in Run, AskForToken(t, i) PROVE BucketInv'
  <2>1. Registry[work[t][i].model] \in Providers
    BY AttemptAssumption DEF TypeInv, AttemptTypeOK, WorkRecord, Model, Registry, Provider
  <2> QED
    BY <1>2, <2>1, RequestStep DEF AskForToken
<1>3. CASE Tick
  BY <1>3, ElapseStep DEF Tick
<1>4. CASE InjectLatency \/ WorkerCrash
  BY <1>1, <1>4 DEF InjectLatency, WorkerCrash
<1>5. ASSUME NEW t \in Task, TaskStep(t) \/ LoseLock(t) PROVE BucketInv'
  BY <1>1, <1>5 DEF TaskStep, Start, SimulateFailure, RecoverStalled, FailStalled, LoseLock
<1>6. ASSUME NEW t \in Task, NEW i \in Run, RaceStep(t, i) \/ WorkStep(t, i) PROVE BucketInv'
  BY <1>1, <1>2, <1>6
  DEF RaceStep, HardTimeout, Complete, WorkStep, LatencyOver, Answer, ProviderFails
<1>7. CASE UNCHANGED vars
  BY <1>1, <1>7 DEF vars
<1> QED
  BY <1>3, <1>4, <1>5, <1>6, <1>7 DEF Next

(* What becomes of a task's record: one lemma for each way it is written.  *)
LEMMA ThrowTask ==
  ASSUME TaskInv, NEW t \in Task, task[t].state # "failed", Throw(t)
  PROVE  /\ TaskInv'
         /\ task'[t].state = IF LastAttempt(t) THEN "failed" ELSE "queued"
         /\ task'[t].attemptsMade = task[t].attemptsMade + 1
         /\ task'[t].stalled = task[t].stalled /\ task'[t].lost = task[t].lost
         /\ task'[t].request = task[t].request /\ ~task'[t].locked
         /\ \A u \in Task \ {t} : task'[u] = task[u]
<1> DEFINE r == [task[t] EXCEPT !.state = IF LastAttempt(t) THEN "failed" ELSE "queued",
                                !.locked = FALSE,
                                !.attemptsMade = task[t].attemptsMade + 1,
                                !.timer = IF LastAttempt(t) THEN 0 ELSE Backoff]
<1>1. task[t] \in TaskRecord /\ task[t].attemptsMade < Attempts /\ Attempts \in Nat
      /\ task[t].attemptsMade \in Nat
  BY AttemptAssumption DEF TaskInv, Fits, TaskRecord
<1>2. task[t].attemptsMade + 1 \in 0..Attempts
  BY <1>1
<1>3. /\ r.state = (IF LastAttempt(t) THEN "failed" ELSE "queued") /\ ~r.locked
      /\ r.attemptsMade = task[t].attemptsMade + 1
      /\ r.stalled = task[t].stalled /\ r.lost = task[t].lost /\ r.request = task[t].request
  BY <1>1 DEF TaskRecord
<1>4. r \in TaskRecord
  BY <1>1, <1>2, TickTypes DEF TaskRecord
<1>5. task' = [task EXCEPT ![t] = r] /\ task \in [Task -> TaskRecord]
  BY <1>1 DEF Throw, TaskInv
<1> HIDE DEF r
<1>6. Fits(r)
  BY <1>1, <1>3, <1>4 DEF Fits, LastAttempt
<1> QED
  BY <1>3, <1>5, <1>6, NewTaskRecord

LEMMA StartTask ==
  ASSUME TaskInv, NEW t \in Task, Start(t)
  PROVE  /\ TaskInv'
         /\ task'[t].state = "active" /\ task'[t].locked
         /\ task'[t].attemptsMade = task[t].attemptsMade
         /\ task'[t].stalled = task[t].stalled /\ task'[t].lost = task[t].lost
         /\ task'[t].request = task[t].request
         /\ \A u \in Task \ {t} : task'[u] = task[u]
<1> DEFINE r == [task[t] EXCEPT !.state = "active", !.locked = TRUE]
<1>1. task[t] \in TaskRecord /\ task[t].attemptsMade < Attempts
  BY DEF TaskInv, Fits, Start
<1>2. /\ r \in TaskRecord /\ r.state = "active" /\ r.locked
      /\ r.attemptsMade = task[t].attemptsMade
      /\ r.stalled = task[t].stalled /\ r.lost = task[t].lost /\ r.request = task[t].request
  BY <1>1 DEF TaskRecord
<1>3. task' = [task EXCEPT ![t] = r] /\ task \in [Task -> TaskRecord]
  BY <1>1 DEF Start, TaskInv
<1> HIDE DEF r
<1> QED
  BY <1>1, <1>2, <1>3, NewTaskRecord DEF Fits

LEMMA CompleteTask ==
  ASSUME TaskInv, NEW t \in Task, NEW i \in Run, Complete(t, i)
  PROVE  \/ ~Owns(t, i) /\ task' = task
         \/ /\ Owns(t, i) /\ TaskInv'
            /\ task'[t].state = "completed" /\ ~task'[t].locked
            /\ task'[t].attemptsMade = task[t].attemptsMade
            /\ task'[t].stalled = task[t].stalled /\ task'[t].lost = task[t].lost
            /\ task'[t].request = task[t].request
            /\ \A u \in Task \ {t} : task'[u] = task[u]
<1> DEFINE r == [task[t] EXCEPT !.state = "completed", !.locked = FALSE]
<1>1. CASE ~Owns(t, i)
  BY <1>1 DEF Complete
<1>2. CASE Owns(t, i)
  <2>1. task[t] \in TaskRecord /\ task[t].attemptsMade < Attempts
    BY <1>2 DEF TaskInv, Fits, Owns
  <2>2. /\ r \in TaskRecord /\ r.state = "completed" /\ ~r.locked
        /\ r.attemptsMade = task[t].attemptsMade
        /\ r.stalled = task[t].stalled /\ r.lost = task[t].lost /\ r.request = task[t].request
    BY <2>1 DEF TaskRecord
  <2>3. task' = [task EXCEPT ![t] = r] /\ task \in [Task -> TaskRecord]
    BY <1>2, <2>1 DEF Complete, TaskInv
  <2> HIDE DEF r
  <2> QED
    BY <1>2, <2>1, <2>2, <2>3, NewTaskRecord DEF Fits
<1> QED
  BY <1>1, <1>2

LEMMA UnlockedTask ==
  ASSUME TaskInv, NEW t \in Task, task[t].locked
  PROVE  /\ Fits(Unlocked(t))
         /\ Unlocked(t).state = "active" /\ ~Unlocked(t).locked
         /\ Unlocked(t).attemptsMade = task[t].attemptsMade
         /\ Unlocked(t).stalled = task[t].stalled
         /\ Unlocked(t).lost = task[t].lost \cup {Current(t)}
         /\ Unlocked(t).request = task[t].request
<1> DEFINE l == task[t].lost \cup {Current(t)}
<1>1. task[t] \in TaskRecord /\ task[t].state = "active" /\ task[t].attemptsMade < Attempts
  BY DEF TaskInv, Fits
<1>2. l \in SUBSET Run
  BY <1>1, CurrentType DEF TaskRecord
<1>3. Unlocked(t) = [task[t] EXCEPT !.locked = FALSE, !.lost = l]
  BY <1>1 DEF Unlocked, TaskRecord
<1> HIDE DEF l
<1>4. /\ Unlocked(t) \in TaskRecord
      /\ Unlocked(t).state = "active" /\ ~Unlocked(t).locked
      /\ Unlocked(t).attemptsMade = task[t].attemptsMade
      /\ Unlocked(t).stalled = task[t].stalled
      /\ Unlocked(t).lost = l
      /\ Unlocked(t).request = task[t].request
  BY <1>1, <1>2, <1>3 DEF TaskRecord
<1> QED
  BY <1>1, <1>4 DEF Fits, l

LEMMA StalledTask ==
  ASSUME TaskInv, NEW t \in Task, RecoverStalled(t) \/ FailStalled(t)
  PROVE  /\ TaskInv'
         /\ RecoverStalled(t) => /\ task'[t].state = "queued"
                                 /\ task'[t].attemptsMade = task[t].attemptsMade
                                 /\ task'[t].stalled = task[t].stalled + 1
         /\ FailStalled(t) => /\ task'[t].state = "failed"
                              /\ task'[t].attemptsMade = task[t].attemptsMade + 1
                              /\ task'[t].stalled = task[t].stalled
         /\ task'[t].lost = task[t].lost /\ ~task'[t].locked
         /\ task'[t].request = task[t].request
         /\ \A u \in Task \ {t} : task'[u] = task[u]
<1> DEFINE again == [task[t] EXCEPT !.state = "queued", !.stalled = task[t].stalled + 1]
           over  == [task[t] EXCEPT !.state = "failed",
                                    !.attemptsMade = task[t].attemptsMade + 1]
<1>1. /\ task[t] \in TaskRecord /\ task[t].attemptsMade < Attempts /\ ~task[t].locked
      /\ Attempts \in Nat /\ MaxStalled \in Nat
  BY AttemptAssumption DEF TaskInv, Fits, RecoverStalled, FailStalled, Stalls
<1>2. CASE RecoverStalled(t)
  <2>1. task[t].stalled + 1 \in 0..MaxStalled
    BY <1>1, <1>2 DEF RecoverStalled, TaskRecord
  <2>2. /\ again \in TaskRecord /\ again.state = "queued" /\ ~again.locked
        /\ again.attemptsMade = task[t].attemptsMade
        /\ again.stalled = task[t].stalled + 1
        /\ again.lost = task[t].lost /\ again.request = task[t].request
    BY <1>1, <2>1 DEF TaskRecord
  <2>3. task' = [task EXCEPT ![t] = again] /\ task \in [Task -> TaskRecord]
    BY <1>1, <1>2 DEF RecoverStalled, TaskInv
  <2>4. ~FailStalled(t)
    <3>1. task[t].stalled # MaxStalled
      BY <1>1, <1>2 DEF RecoverStalled, TaskRecord
    <3> QED
      BY <3>1 DEF FailStalled
  <2> HIDE DEF again
  <2> QED
    BY <1>1, <2>2, <2>3, <2>4, NewTaskRecord DEF Fits
<1>3. CASE FailStalled(t)
  <2>1. task[t].attemptsMade + 1 \in 0..Attempts
    BY <1>1 DEF TaskRecord
  <2>2. /\ over \in TaskRecord /\ over.state = "failed" /\ ~over.locked
        /\ over.attemptsMade = task[t].attemptsMade + 1
        /\ over.stalled = task[t].stalled
        /\ over.lost = task[t].lost /\ over.request = task[t].request
    BY <1>1, <2>1 DEF TaskRecord
  <2>3. task' = [task EXCEPT ![t] = over] /\ task \in [Task -> TaskRecord]
    BY <1>1, <1>3 DEF FailStalled, TaskInv
  <2>4. ~RecoverStalled(t)
    BY <1>1, <1>3 DEF RecoverStalled, FailStalled, TaskRecord
  <2> HIDE DEF over
  <2> QED
    BY <1>1, <2>2, <2>3, <2>4, NewTaskRecord DEF Fits
<1> QED
  BY <1>2, <1>3

LEMMA LoseLockTask ==
  ASSUME TaskInv, NEW t \in Task, LoseLock(t)
  PROVE  TaskInv' /\ task'[t] = Unlocked(t) /\ \A u \in Task \ {t} : task'[u] = task[u]
BY UnlockedTask, NewTaskRecord DEF LoseLock, TaskInv

LEMMA CrashTask ==
  ASSUME TaskInv, WorkerCrash
  PROVE  /\ TaskInv'
         /\ \A t \in Task : task'[t] = IF task[t].locked THEN Unlocked(t) ELSE task[t]
<1>1. \A t \in Task : task'[t] = IF task[t].locked THEN Unlocked(t) ELSE task[t]
  BY DEF WorkerCrash
<1>2. \A t \in Task : Fits(task'[t])
  BY <1>1, UnlockedTask DEF TaskInv
<1> QED
  BY <1>1, <1>2 DEF TaskInv, Fits, WorkerCrash

LEMMA TickTask ==
  ASSUME TaskInv, Tick
  PROVE  /\ TaskInv'
         /\ \A t \in Task : \E n \in Ticks : task'[t] = [task[t] EXCEPT !.timer = n]
<1>1. ASSUME NEW t \in Task
      PROVE  /\ Fits(task'[t])
             /\ \E n \in Ticks : task'[t] = [task[t] EXCEPT !.timer = n]
  <2>1. Fits(task[t]) /\ Less(task[t].timer) \in Ticks
    BY TickTypes DEF TaskInv, TaskRecord
  <2>2. task'[t] = [task[t] EXCEPT !.timer = Less(task[t].timer)]
    BY DEF Tick
  <2> QED
    BY <2>1, <2>2 DEF Fits, TaskRecord
<1> QED
  BY <1>1 DEF TaskInv, Fits, Tick

(* What becomes of the record of a run: one lemma for each way it is       *)
(* written.                                                                *)
LEMMA StartWork ==
  ASSUME TypeInv, NEW t \in Task, Start(t)
  PROVE  \E r \in WorkRecord :
           /\ work' = [work EXCEPT ![t][Current(t)] = r] /\ Current(t) \in Run
           /\ r.race = "awaited"
           /\ r.model = Resolve(task[t].request.model, task[t].request.taskType, configured)
<1> DEFINE m == Resolve(task[t].request.model, task[t].request.taskType, configured)
           r == [race |-> "awaited", deadline |-> Timeout,
                 pc |-> IF latency > 0 THEN "latency" ELSE "first",
                 timer |-> IF latency > 0 THEN Latency ELSE 0, model |-> m]
<1>1. m \in Model
  BY ResolveType
<1>2. work' = [work EXCEPT ![t][Current(t)] = r]
  BY DEF Start
<1>3. Current(t) \in Run
  BY CurrentType DEF TypeInv, Start
<1> HIDE DEF m
<1>4. r \in WorkRecord /\ r.race = "awaited" /\ r.model = m
  BY <1>1, TickTypes DEF WorkRecord
<1> HIDE DEF r
<1> QED
  BY <1>2, <1>3, <1>4 DEF m

(* The work goes on: neither the race nor the model changes.               *)
LEMMA WorkGoesOn ==
  ASSUME TypeInv, NEW t \in Task, NEW i \in Run, LatencyOver(t, i) \/ AskForToken(t, i)
  PROVE  /\ work[t][i].pc # "none"
         /\ \E r \in WorkRecord :
              /\ work' = [work EXCEPT ![t][i] = r]
              /\ r.race = work[t][i].race /\ r.model = work[t][i].model
<1> DEFINE w == work[t][i]
           over == [w EXCEPT !.pc = "first"]
           asked == IF Granted(Registry[w.model]) THEN [w EXCEPT !.pc = "calling"]
                    ELSE IF w.pc = "first" THEN [w EXCEPT !.pc = "again"]
                    ELSE [w EXCEPT !.pc = "sleep", !.timer = 1]
<1>1. w \in WorkRecord /\ WorkType
  BY DEF TypeInv, AttemptTypeOK, WorkType
<1>2. over \in WorkRecord /\ over.race = w.race /\ over.model = w.model
  BY <1>1 DEF WorkRecord
<1>3. asked \in WorkRecord /\ asked.race = w.race /\ asked.model = w.model
  BY <1>1, TickTypes DEF WorkRecord
<1>4. work' = [work EXCEPT ![t][i] = over] \/ work' = [work EXCEPT ![t][i] = asked]
  BY <1>1 DEF LatencyOver, AskForToken, WorkType
<1>5. w.pc # "none"
  BY DEF LatencyOver, AskForToken
<1> HIDE DEF over, asked
<1> QED
  BY <1>2, <1>3, <1>4, <1>5

LEMMA TimeoutWork ==
  ASSUME TypeInv, NEW t \in Task, NEW i \in Run, HardTimeout(t, i)
  PROVE  \E r \in WorkRecord :
           /\ work' = [work EXCEPT ![t][i] = r]
           /\ r.race = "none" /\ r.model = work[t][i].model
<1> DEFINE r == [work[t][i] EXCEPT !.race = "none"]
<1>1. work[t][i] \in WorkRecord /\ WorkType
  BY DEF TypeInv, AttemptTypeOK, WorkType
<1>2. r \in WorkRecord /\ r.race = "none" /\ r.model = work[t][i].model
  BY <1>1 DEF WorkRecord
<1>3. work' = [work EXCEPT ![t][i] = r]
  BY <1>1 DEF HardTimeout, WorkType
<1> HIDE DEF r
<1> QED
  BY <1>2, <1>3

LEMMA TickWork ==
  ASSUME TypeInv, Tick
  PROVE  /\ WorkType'
         /\ \A t \in Task, i \in Run : /\ work'[t][i].race = work[t][i].race
                                       /\ work'[t][i].pc = work[t][i].pc
                                       /\ work'[t][i].model = work[t][i].model
<1>1. ASSUME NEW t \in Task, NEW i \in Run
      PROVE  /\ work'[t][i] \in WorkRecord
             /\ work'[t][i].race = work[t][i].race
             /\ work'[t][i].pc = work[t][i].pc
             /\ work'[t][i].model = work[t][i].model
  <2>1. work'[t][i] = [work[t][i] EXCEPT !.timer = Less(work[t][i].timer),
                                         !.deadline = Less(work[t][i].deadline)]
    BY DEF Tick
  <2>2. work[t][i] \in WorkRecord
    BY DEF TypeInv, AttemptTypeOK
  <2>3. Less(work[t][i].timer) \in Ticks /\ Less(work[t][i].deadline) \in Ticks
    BY <2>2, TickTypes DEF WorkRecord
  <2> QED
    BY <2>1, <2>2, <2>3 DEF WorkRecord
<1>2. WorkType'
  <2>1. work' = [t \in Task |-> [i \in Run |-> work'[t][i]]]
    BY DEF Tick
  <2> QED
    BY <1>1, <2>1 DEF WorkType
<1> QED
  BY <1>1, <1>2

LEMMA CountFailureType ==
  ASSUME CountsType, NEW t \in Task, NEW timedOut \in BOOLEAN, CountFailure(t, timedOut)
  PROVE  CountsType'
BY DEF CountsType, CountFailure

LEMMA RunThrowsType ==
  ASSUME TypeInv, NEW t \in Task, NEW i \in Run, NEW timedOut \in BOOLEAN,
         RunThrows(t, i, timedOut)
  PROVE  TaskInv' /\ CountsType'
<1>1. CASE Owns(t, i)
  BY <1>1, ThrowTask, CountFailureType
  DEF RunThrows, FailAttempt, Owns, TypeInv, AttemptTypeOK, CountsType
<1>2. CASE ~Owns(t, i)
  BY <1>2 DEF RunThrows, TypeInv, AttemptTypeOK, CountsType, TaskInv
<1> QED
  BY <1>1, <1>2

LEMMA FaultType ==
  ASSUME TypeInv, FaultLeft
  PROVE  faults.injected + 1 \in 0..MaxFaults /\ faults.restarts + 1 \in 0..MaxFaults
<1>1. faults.injected \in 0..MaxFaults /\ faults.restarts \in 0..MaxFaults /\ MaxFaults \in Nat
  BY AttemptAssumption DEF TypeInv, AttemptTypeOK
<1> QED
  BY <1>1 DEF FaultLeft

(* The parts of the type that a step may change.                           *)
Parts ==
  /\ TaskInv /\ WorkType /\ CountsType
  /\ latency \in 0..Window
  /\ billed \in [Task -> [Run -> Nat]]
  /\ faults \in [injected : 0..MaxFaults, restarts : 0..MaxFaults]

LEMMA TypeParts ==
  /\ TypeInv => Parts
  /\ BucketInv /\ Parts /\ configured \subseteq Provider \ {"ollama"} => TypeInv
BY DEF TypeInv, AttemptTypeOK, Parts, WorkType, CountsType, BucketInv, TaskInv

LEMMA ConfiguredKept == ASSUME [Next]_vars PROVE configured' = configured
<1>1. ASSUME NEW t \in Task, TaskStep(t) \/ LoseLock(t) PROVE configured' = configured
  BY <1>1 DEF TaskStep, Start, SimulateFailure, RecoverStalled, FailStalled, LoseLock
<1>2. ASSUME NEW t \in Task, NEW i \in Run, RaceStep(t, i) PROVE configured' = configured
  BY <1>2 DEF RaceStep, HardTimeout, Complete
<1>3. ASSUME NEW t \in Task, NEW i \in Run, WorkStep(t, i) PROVE configured' = configured
  BY <1>3 DEF WorkStep, LatencyOver, AskForToken, Answer, ProviderFails
<1>4. CASE Tick \/ InjectLatency \/ WorkerCrash \/ UNCHANGED vars
  BY <1>4 DEF Tick, InjectLatency, WorkerCrash, vars, attemptVars
<1> QED
  BY <1>1, <1>2, <1>3, <1>4 DEF Next

LEMMA TypeStep ==
  ASSUME BucketInv, TypeInv, [Next]_vars PROVE BucketInv' /\ TypeInv'
<1>0. Parts /\ configured \subseteq Provider \ {"ollama"}
  BY TypeParts DEF TypeInv, AttemptTypeOK
<1>1. SUFFICES Parts'
  <2>1. BucketInv' /\ configured' \subseteq Provider \ {"ollama"}
    BY <1>0, BucketFollows, ConfiguredKept
  <2> QED
    BY <2>1, TypeParts DEF TypeInv, AttemptTypeOK, Parts, WorkType, CountsType, BucketInv,
       TaskInv, BucketTypeOK, Cap
<1> USE <1>0
<1>2. ASSUME NEW t \in Task, TaskStep(t) \/ LoseLock(t) PROVE Parts'
  <2>1. CASE Start(t)
    <3>1. WorkType'
      BY <2>1, StartWork, NewWorkRecord DEF Parts
    <3> QED
      BY <2>1, <3>1, StartTask DEF Start, Parts, CountsType
  <2>2. CASE SimulateFailure(t)
    <3>1. TaskInv' /\ CountsType'
      BY <2>2, ThrowTask, CountFailureType DEF SimulateFailure, FailAttempt, Parts
    <3> QED
      BY <2>2, <3>1 DEF SimulateFailure, Parts, WorkType
  <2>3. CASE RecoverStalled(t)
    BY <2>3, StalledTask DEF RecoverStalled, Parts, WorkType, CountsType
  <2>4. CASE FailStalled(t)
    <3>1. TaskInv' /\ CountsType'
      BY <2>4, StalledTask, CountFailureType DEF FailStalled, Parts
    <3> QED
      BY <2>4, <3>1 DEF FailStalled, Parts, WorkType
  <2>5. CASE LoseLock(t)
    BY <2>5, LoseLockTask DEF LoseLock, Parts, WorkType, CountsType
  <2> QED
    BY <1>2, <2>1, <2>2, <2>3, <2>4, <2>5 DEF TaskStep
<1>3. ASSUME NEW t \in Task, NEW i \in Run, RaceStep(t, i) \/ WorkStep(t, i) PROVE Parts'
  <2>1. CASE LatencyOver(t, i) \/ AskForToken(t, i)
    <3>1. WorkType'
      BY <2>1, WorkGoesOn, NewWorkRecord DEF Parts
    <3> QED
      BY <2>1, <3>1 DEF LatencyOver, AskForToken, Parts, CountsType, TaskInv
  <2>2. ASSUME NEW r \in WorkRecord, work' = [work EXCEPT ![t][i] = r] PROVE WorkType'
    BY <2>2, NewWorkRecord DEF Parts
  <2>3. CASE HardTimeout(t, i)
    <3>1. WorkType'
      BY <2>2, <2>3, TimeoutWork
    <3>2. TaskInv' /\ CountsType'
      BY <2>3, RunThrowsType DEF HardTimeout
    <3> QED
      BY <2>3, <3>1, <3>2 DEF HardTimeout, Parts
  <2>4. CASE Complete(t, i)
    <3>1. WorkType'
      BY <2>2, <2>4, NoWorkType DEF Complete
    <3>2. TaskInv'
      BY <2>4, CompleteTask DEF Parts, TaskInv
    <3> QED
      BY <2>4, <3>1, <3>2 DEF Complete, Parts, CountsType
  <2>5. CASE Answer(t, i)
    <3>1. WorkType'
      BY <2>2, <2>5, NoWorkType DEF Answer
    <3>2. billed' \in [Task -> [Run -> Nat]]
      BY <2>5 DEF Answer, Parts
    <3> QED
      BY <2>5, <3>1, <3>2 DEF Answer, Parts, CountsType, TaskInv
  <2>6. CASE ProviderFails(t, i)
    <3>1. WorkType'
      BY <2>2, <2>6, NoWorkType DEF ProviderFails
    <3>2. TaskInv' /\ CountsType'
      <4>1. CASE work[t][i].race = "awaited"
        BY <2>6, <4>1, RunThrowsType DEF ProviderFails
      <4>2. CASE work[t][i].race # "awaited"
        BY <2>6, <4>2 DEF ProviderFails, Parts, CountsType, TaskInv
      <4> QED
        BY <4>1, <4>2
    <3> QED
      BY <2>6, <3>1, <3>2 DEF ProviderFails, Parts
  <2> QED
    BY <1>3, <2>1, <2>3, <2>4, <2>5, <2>6 DEF RaceStep, WorkStep
<1>4. CASE Tick
  BY <1>4, TickTask, TickWork, TickTypes DEF Tick, Parts, CountsType
<1>5. CASE InjectLatency
  <2>1. faults' \in [injected : 0..MaxFaults, restarts : 0..MaxFaults]
    BY <1>5, FaultType DEF InjectLatency, Parts
  <2> QED
    BY <1>5, <2>1, TickTypes DEF InjectLatency, Parts, WorkType, CountsType, TaskInv
<1>6. CASE WorkerCrash
  <2>1. faults' \in [injected : 0..MaxFaults, restarts : 0..MaxFaults]
    BY <1>6, FaultType DEF WorkerCrash, Parts
  <2>2. WorkType' /\ CountsType' /\ latency' \in 0..Window
    BY <1>6, NoWorkType, TickTypes DEF WorkerCrash, WorkType, CountsType, NoCounts
  <2> QED
    BY <1>6, <2>1, <2>2, CrashTask DEF WorkerCrash, Parts
<1>7. CASE UNCHANGED vars
  BY <1>7 DEF vars, attemptVars, Parts, WorkType, CountsType, TaskInv
<1> QED
  BY <1>2, <1>3, <1>4, <1>5, <1>6, <1>7 DEF Next

\* The types are kept, and with them that no bucket goes below zero, no counter of a
\* task beyond its limit, and that a task has the lock only while it is active.
THEOREM TypesCorrect == Spec => [](AttemptTypeOK /\ BucketInv /\ TaskInv)
<1>1. Init => TypeInv /\ BucketInv
  BY TypeStart, BucketStart DEF Init
<1>2. TypeInv /\ BucketInv /\ [Next]_vars => TypeInv' /\ BucketInv'
  BY TypeStep
<1> QED
  BY <1>1, <1>2, PTL DEF Spec, TypeInv

\* No schedule of the runs, nor work that goes on after its run was given up, takes
\* more tokens from a provider in any stretch of time than a full bucket and its refill.
THEOREM RateBounded == Spec => []RateBound
<1>1. BucketInv => RateBound
  <2> SUFFICES ASSUME BucketInv, watch.on PROVE watch.granted * Unit <= Cap + watch.age
    BY DEF RateBound
  <2>1. watch.provider \in Providers /\ watch.granted \in Nat /\ watch.age \in Nat
    BY BucketAssumption DEF BucketInv, BucketTypeOK
  <2>2. Level(watch.provider) \in 0..Cap
    BY <2>1, LevelType DEF BucketInv
  <2> QED
    BY <2>1, <2>2, OneMore, CapType DEF BucketInv, RateInv
<1> QED
  BY <1>1, TypesCorrect, PTL

-----------------------------------------------------------------------------
(* The bill.  What is known of run i of a task with record r, of which n   *)
(* cost records were made: BilledOnce, and why it stays true.  An answer   *)
(* is billed when it wins; who is still racing has the lock or lost it;    *)
(* and nothing has raced yet in a run that is still to come.               *)

Number(r) == r.attemptsMade + r.stalled + 1
Holds(r, i) == r.state = "active" /\ r.locked /\ i = Number(r)

Bill(r, i, race, pc, n) ==
  /\ race \in {"none", "awaited", "answered"} /\ n \in {0, 1}
  /\ race = "awaited" => n = 0
  /\ race = "answered" => n = 1 /\ pc = "none"
  /\ n = 1 => \/ i \in r.lost
              \/ i = Number(r) /\ r.state = "completed"
              \/ Holds(r, i) /\ race = "answered"
  /\ race # "none" => i \in r.lost \/ Holds(r, i)
  /\ i > Number(r) \/ (i = Number(r) /\ r.state = "queued") => race = "none" /\ n = 0
  /\ r.state = "completed" /\ i = Number(r) => n = 1

BillOf(t, i) == Bill(task[t], i, work[t][i].race, work[t][i].pc, billed[t][i])
BillInv == \A t \in Task, i \in Run : BillOf(t, i)

LEMMA BillIsBilledOnce == BillInv => BilledOnce
BY DEF BillInv, BillOf, Bill, BilledOnce, Number, Holds, Owns, Current

(* Nothing that matters to the bill has changed.                           *)
LEMMA BillKept ==
  ASSUME NEW r, NEW s, NEW i, NEW race, NEW pc, NEW pc2, NEW n, Bill(r, i, race, pc, n),
         s.state = r.state, s.locked = r.locked, s.attemptsMade = r.attemptsMade,
         s.stalled = r.stalled, s.lost = r.lost,
         race = "answered" => pc2 = pc
  PROVE  Bill(s, i, race, pc2, n)
BY DEF Bill, Number, Holds

(* The run is no longer in the race, and had no answer to return.          *)
LEMMA BillDropped ==
  ASSUME NEW r, NEW i, NEW race, NEW pc, NEW pc2, NEW n, Bill(r, i, race, pc, n),
         ~(Holds(r, i) /\ race = "answered")
  PROVE  Bill(r, i, "none", pc2, n)
BY DEF Bill

(* The next run is to come, or there is none.                              *)
LEMMA BillNextRun ==
  ASSUME NEW r \in TaskRecord, NEW s, NEW i \in Run, NEW race, NEW pc, NEW pc2, NEW n,
         NEW race2 \in {race, "none"}, Bill(r, i, race, pc, n),
         s.state \in {"queued", "failed"}, s.lost = r.lost, Number(s) = Number(r) + 1,
         r.state # "completed", race2 = "answered" => pc2 = pc,
         Holds(r, i) => race2 = "none" /\ n = 0
  PROVE  Bill(s, i, race2, pc2, n)
<1>1. Number(r) \in Nat /\ i \in Nat
  BY AttemptAssumption DEF Number, TaskRecord, Run
<1> QED
  BY <1>1 DEF Bill, Holds

(* A run starts, and the other runs of its task stay as they are.          *)
LEMMA BillStarts ==
  ASSUME NEW r \in TaskRecord, NEW s, NEW i \in Run, NEW race, NEW pc, NEW pc2, NEW n,
         Bill(r, i, race, pc, n), r.state = "queued",
         s.state = "active", s.locked, s.lost = r.lost, Number(s) = Number(r)
  PROVE  /\ i # Number(r) => Bill(s, i, race, pc, n)
         /\ i = Number(r) => Bill(s, i, "awaited", pc2, n)
<1>1. Number(r) \in Nat /\ i \in Nat
  BY AttemptAssumption DEF Number, TaskRecord, Run
<1> QED
  BY <1>1 DEF Bill, Holds

(* The task is completed by run j.                                         *)
LEMMA BillCompleted ==
  ASSUME NEW r \in TaskRecord, NEW s, NEW i \in Run, NEW j, NEW race, NEW pc, NEW pc2, NEW n,
         Bill(r, i, race, pc, n), Holds(r, j), i = j => race = "answered",
         s.state = "completed", s.lost = r.lost, Number(s) = Number(r)
  PROVE  /\ i # j => Bill(s, i, race, pc, n)
         /\ i = j => Bill(s, i, "none", pc2, n)
BY DEF Bill, Holds

(* The lock goes, with the promises or without.                            *)
LEMMA BillUnlocked ==
  ASSUME NEW r \in TaskRecord, NEW s, NEW i \in Run, NEW race, NEW pc, NEW pc2, NEW n,
         NEW race2 \in {race, "none"}, Bill(r, i, race, pc, n), r.state = "active",
         race2 = "answered" => pc2 = pc,
         s.state = "active", s.lost = r.lost \cup {Number(r)}, Number(s) = Number(r)
  PROVE  Bill(s, i, race2, pc2, n)
BY DEF Bill, Holds

(* The answer of an awaited call wins.                                     *)
LEMMA BillAnswered ==
  ASSUME NEW r, NEW i, NEW pc, NEW n, Bill(r, i, "awaited", pc, n)
  PROVE  Bill(r, i, "answered", "none", n + 1)
BY DEF Bill

LEMMA NumberIsCurrent ==
  \A t \in Task, i \in Run : Number(task[t]) = Current(t) /\ (Holds(task[t], i) <=> Owns(t, i))
BY DEF Number, Holds, Current, Owns

(* Only the record of task t and of its run i change, and the bill is      *)
(* fine for that task.                                                     *)
LEMMA BillLocal ==
  ASSUME BillInv, NEW t \in Task, \A u \in Task \ {t} : task'[u] = task[u],
         \A u \in Task \ {t}, i \in Run : work'[u][i] = work[u][i] /\ billed'[u][i] = billed[u][i],
         \A i \in Run : BillOf(t, i)'
  PROVE  BillInv'
<1> SUFFICES ASSUME NEW u \in Task, NEW i \in Run PROVE BillOf(u, i)'
  BY DEF BillInv
<1>1. CASE u = t
  BY <1>1
<1>2. CASE u # t
  BY <1>2 DEF BillInv, BillOf
<1> QED
  BY <1>1, <1>2

LEMMA OneWork ==
  ASSUME WorkType, NEW t \in Task, NEW i \in Run, NEW r, work' = [work EXCEPT ![t][i] = r]
  PROVE  /\ work'[t][i] = r
         /\ \A j \in Run \ {i} : work'[t][j] = work[t][j]
         /\ \A u \in Task \ {t}, j \in Run : work'[u][j] = work[u][j]
BY DEF WorkType

(* Run i throws when its call failed or its time is up.                    *)
LEMMA BillThrown ==
  ASSUME TypeInv, BillInv, NEW t \in Task, NEW i \in Run, NEW timedOut \in BOOLEAN,
         NEW r \in WorkRecord, r.race = "none", work' = [work EXCEPT ![t][i] = r],
         work[t][i].race = "awaited", billed' = billed, RunThrows(t, i, timedOut)
  PROVE  BillInv'
<1>0. WorkType /\ TaskInv /\ task[t] \in TaskRecord
  BY DEF TypeInv, AttemptTypeOK, WorkType, TaskInv
<1>1. CASE Owns(t, i)
  <2>1. Throw(t) /\ task[t].state = "active"
    BY <1>1 DEF RunThrows, FailAttempt, Owns
  <2>2. /\ task'[t].state \in {"queued", "failed"} /\ task'[t].lost = task[t].lost
        /\ Number(task'[t]) = Number(task[t]) + 1
    <3>1. /\ task'[t].state \in {"queued", "failed"} /\ task'[t].lost = task[t].lost
          /\ task'[t].attemptsMade = task[t].attemptsMade + 1
          /\ task'[t].stalled = task[t].stalled
      BY <1>0, <2>1, ThrowTask
    <3>2. task[t].attemptsMade \in Nat /\ task[t].stalled \in Nat
      BY <1>0, AttemptAssumption DEF TaskRecord
    <3> QED
      BY <3>1, <3>2 DEF Number
  <2>3. ASSUME NEW j \in Run PROVE BillOf(t, j)'
    <3>1. BillOf(t, j)
      BY DEF BillInv
    <3>2. CASE j = i
      <4>1. billed[t][i] = 0
        BY <3>1, <3>2 DEF BillOf, Bill
      <4>2. work'[t][i] = r
        BY <1>0 DEF WorkType
      <4> QED
        BY <1>0, <2>1, <2>2, <3>1, <3>2, <4>1, <4>2, BillNextRun DEF BillOf
    <3>3. CASE j # i
      <4>1. work'[t][j] = work[t][j]
        BY <1>0, <3>3, OneWork
      <4>2. ~Holds(task[t], j)
        BY <1>1, <3>3 DEF Owns, Holds, Number, Current
      <4> QED
        BY <1>0, <2>1, <2>2, <3>1, <4>1, <4>2, BillNextRun DEF BillOf
    <3> QED
      BY <3>2, <3>3
  <2> QED
    BY <1>0, <2>1, <2>3, ThrowTask, OneWork, BillLocal
<1>2. CASE ~Owns(t, i)
  <2>1. task' = task
    BY <1>2 DEF RunThrows
  <2>2. ASSUME NEW j \in Run PROVE BillOf(t, j)'
    <3>1. BillOf(t, j)
      BY DEF BillInv
    <3> QED
      BY <1>0, <2>1, <3>1, OneWork, BillDropped DEF BillOf
  <2> QED
    BY <1>0, <2>1, <2>2, OneWork, BillLocal
<1> QED
  BY <1>1, <1>2

(* The run of a task ends with a failed attempt or a stall that no run     *)
(* holds the lock for.                                                     *)
LEMMA BillRequeued ==
  ASSUME TypeInv, BillInv, NEW t \in Task,
         SimulateFailure(t) \/ RecoverStalled(t) \/ FailStalled(t)
  PROVE  BillInv'
<1>0. TaskInv /\ task[t] \in TaskRecord
  BY DEF TypeInv, TaskInv
<1>1. work' = work /\ billed' = billed
  BY DEF SimulateFailure, RecoverStalled, FailStalled
<1>2. task[t].state # "completed" /\ \A i \in Run : ~Holds(task[t], i)
  BY DEF SimulateFailure, RecoverStalled, FailStalled, Stalls, Holds
<1>3. /\ task'[t].state \in {"queued", "failed"} /\ task'[t].lost = task[t].lost
      /\ Number(task'[t]) = Number(task[t]) + 1
      /\ \A u \in Task \ {t} : task'[u] = task[u]
  <2>1. task[t].attemptsMade \in Nat /\ task[t].stalled \in Nat
    BY <1>0, AttemptAssumption DEF TaskRecord
  <2>2. CASE SimulateFailure(t)
    <3>1. /\ task'[t].state \in {"queued", "failed"} /\ task'[t].lost = task[t].lost
          /\ task'[t].attemptsMade = task[t].attemptsMade + 1
          /\ task'[t].stalled = task[t].stalled
          /\ \A u \in Task \ {t} : task'[u] = task[u]
      BY <1>0, <2>2, ThrowTask DEF SimulateFailure, FailAttempt
    <3> QED
      BY <2>1, <3>1 DEF Number
  <2>3. CASE RecoverStalled(t)
    BY <1>0, <2>1, <2>3, StalledTask DEF Number
  <2>4. CASE FailStalled(t)
    BY <1>0, <2>1, <2>4, StalledTask DEF Number
  <2> QED
    BY <2>2, <2>3, <2>4
<1>4. ASSUME NEW i \in Run PROVE BillOf(t, i)'
  <2>1. BillOf(t, i)
    BY DEF BillInv
  <2> QED
    BY <1>0, <1>1, <1>2, <1>3, <2>1, BillNextRun DEF BillOf
<1> QED
  BY <1>1, <1>3, <1>4, BillLocal

LEMMA BillStart ==
  ASSUME TypeInv, BillInv, NEW t \in Task, Start(t) PROVE BillInv'
<1>0. WorkType /\ TaskInv /\ task[t] \in TaskRecord
  BY DEF TypeInv, AttemptTypeOK, WorkType, TaskInv
<1>1. PICK r \in WorkRecord :
        work' = [work EXCEPT ![t][Current(t)] = r] /\ Current(t) \in Run /\ r.race = "awaited"
  BY StartWork
<1>2. /\ task'[t].state = "active" /\ task'[t].locked /\ task'[t].lost = task[t].lost
      /\ Number(task'[t]) = Number(task[t])
      /\ \A u \in Task \ {t} : task'[u] = task[u]
  BY <1>0, StartTask DEF Number
<1>3. billed' = billed /\ task[t].state = "queued"
  BY DEF Start
<1>4. ASSUME NEW i \in Run PROVE BillOf(t, i)'
  <2>1. BillOf(t, i)
    BY DEF BillInv
  <2>2. CASE i = Current(t)
    <3>1. work'[t][Current(t)] = r
      BY <1>0, <1>1 DEF WorkType
    <3> QED
      BY <1>0, <1>1, <1>2, <1>3, <2>1, <2>2, <3>1, BillStarts, NumberIsCurrent DEF BillOf
  <2>3. CASE i # Current(t)
    <3>1. work'[t][i] = work[t][i]
      BY <1>0, <1>1, <2>3, OneWork
    <3> QED
      BY <1>0, <1>2, <1>3, <2>1, <2>3, <3>1, BillStarts, NumberIsCurrent DEF BillOf
  <2> QED
    BY <2>2, <2>3
<1> QED
  BY <1>0, <1>1, <1>2, <1>3, <1>4, OneWork, BillLocal

LEMMA BillComplete ==
  ASSUME TypeInv, BillInv, NEW t \in Task, NEW j \in Run, Complete(t, j) PROVE BillInv'
<1>0. WorkType /\ TaskInv /\ task[t] \in TaskRecord
  BY DEF TypeInv, AttemptTypeOK, WorkType, TaskInv
<1>1. work' = [work EXCEPT ![t][j] = NoWork] /\ billed' = billed
      /\ work[t][j].race = "answered"
  BY DEF Complete
<1>2. CASE ~Owns(t, j) /\ task' = task
  <2>1. ASSUME NEW i \in Run PROVE BillOf(t, i)'
    <3>1. BillOf(t, i)
      BY DEF BillInv
    <3>2. ~Holds(task[t], j)
      BY <1>2, NumberIsCurrent
    <3> QED
      BY <1>0, <1>1, <1>2, <3>1, <3>2, OneWork, NoWorkType, BillDropped DEF BillOf
  <2> QED
    BY <1>0, <1>1, <1>2, <2>1, OneWork, BillLocal
<1>3. CASE Owns(t, j) /\ task' # task
  <2>1. /\ task'[t].state = "completed" /\ task'[t].lost = task[t].lost
        /\ Number(task'[t]) = Number(task[t])
        /\ \A u \in Task \ {t} : task'[u] = task[u]
    BY <1>0, <1>3, CompleteTask DEF Number
  <2>2. Holds(task[t], j)
    BY <1>3, NumberIsCurrent
  <2>3. ASSUME NEW i \in Run PROVE BillOf(t, i)'
    <3>1. BillOf(t, i)
      BY DEF BillInv
    <3>2. CASE i = j
      <4>1. work'[t][j] = NoWork
        BY <1>0, <1>1 DEF WorkType
      <4> QED
        BY <1>0, <1>1, <2>1, <2>2, <3>1, <3>2, <4>1, NoWorkType, BillCompleted DEF BillOf
    <3>3. CASE i # j
      <4>1. work'[t][i] = work[t][i]
        BY <1>0, <1>1, <3>3, OneWork
      <4> QED
        BY <1>0, <1>1, <2>1, <2>2, <3>1, <3>3, <4>1, BillCompleted DEF BillOf
    <3> QED
      BY <3>2, <3>3
  <2> QED
    BY <1>0, <1>1, <2>1, <2>3, OneWork, BillLocal
<1>4. Owns(t, j) => task' # task
  <2>1. ASSUME Owns(t, j), task' = task PROVE FALSE
    <3>1. task'[t].state = "completed"
      BY <1>0, <2>1, CompleteTask
    <3> QED
      BY <2>1, <3>1 DEF Owns
  <2> QED
    BY <2>1
<1> QED
  BY <1>0, <1>2, <1>3, <1>4, CompleteTask

LEMMA BillWork ==
  ASSUME TypeInv, BillInv, NEW t \in Task, NEW i \in Run, WorkStep(t, i) PROVE BillInv'
<1>0. WorkType /\ work[t][i] \in WorkRecord /\ billed \in [Task -> [Run -> Nat]] /\ BillOf(t, i)
  BY DEF TypeInv, AttemptTypeOK, WorkType, BillInv
<1>1. ASSUME NEW r, work' = [work EXCEPT ![t][i] = r], task' = task,
             \A u \in Task, j \in Run : (u # t \/ j # i) => billed'[u][j] = billed[u][j],
             Bill(task[t], i, r.race, r.pc, billed'[t][i])
      PROVE  BillInv'
  <2> SUFFICES ASSUME NEW u \in Task, NEW j \in Run PROVE BillOf(u, j)'
    BY DEF BillInv
  <2>1. CASE u = t /\ j = i
    <3>1. work'[t][i] = r
      BY <1>0, <1>1 DEF WorkType
    <3> QED
      BY <1>1, <2>1, <3>1 DEF BillOf
  <2>2. CASE u # t \/ j # i
    <3>1. work'[u][j] = work[u][j]
      BY <1>0, <1>1, <2>2, OneWork
    <3> QED
      BY <1>1, <2>2, <3>1 DEF BillInv, BillOf
  <2> QED
    BY <2>1, <2>2
<1>2. CASE LatencyOver(t, i) \/ AskForToken(t, i)
  <2>1. PICK r \in WorkRecord : work' = [work EXCEPT ![t][i] = r] /\ r.race = work[t][i].race
    BY <1>2, WorkGoesOn
  <2>2. work[t][i].race # "answered" /\ task' = task /\ billed' = billed
    BY <1>0, <1>2, WorkGoesOn DEF BillOf, Bill, LatencyOver, AskForToken
  <2>3. Bill(task[t], i, r.race, r.pc, billed'[t][i])
    BY <1>0, <2>1, <2>2, BillKept DEF BillOf
  <2> QED
    BY <1>1, <2>1, <2>2, <2>3
<1>3. CASE Answer(t, i)
  <2>1. CASE work[t][i].race = "awaited"
    <3>1. /\ work' = [work EXCEPT ![t][i] = Answered] /\ task' = task
          /\ billed' = [billed EXCEPT ![t][i] = @ + 1]
      BY <1>3, <2>1 DEF Answer
    <3>2. /\ billed'[t][i] = billed[t][i] + 1
          /\ \A u \in Task, j \in Run : (u # t \/ j # i) => billed'[u][j] = billed[u][j]
      BY <1>0, <3>1
    <3>3. Bill(task[t], i, Answered.race, Answered.pc, billed'[t][i])
      BY <1>0, <2>1, <3>2, BillAnswered, NoWorkType DEF BillOf
    <3> QED
      BY <1>1, <3>1, <3>2, <3>3
  <2>2. CASE work[t][i].race # "awaited"
    <3>1. work' = [work EXCEPT ![t][i] = NoWork] /\ task' = task /\ billed' = billed
      BY <1>3, <2>2 DEF Answer
    <3>2. work[t][i].race # "answered"
      BY <1>0, <1>3 DEF Answer, Answers, BillOf, Bill
    <3>3. Bill(task[t], i, NoWork.race, NoWork.pc, billed'[t][i])
      BY <1>0, <3>1, <3>2, BillDropped, NoWorkType DEF BillOf
    <3> QED
      BY <1>1, <3>1, <3>3
  <2> QED
    BY <2>1, <2>2
<1>4. CASE ProviderFails(t, i)
  <2>1. work' = [work EXCEPT ![t][i] = NoWork] /\ billed' = billed
    BY <1>4 DEF ProviderFails
  <2>2. CASE work[t][i].race = "awaited"
    <3>1. PICK timedOut \in BOOLEAN : RunThrows(t, i, timedOut)
      BY <1>4, <2>2 DEF ProviderFails
    <3> QED
      BY <2>1, <2>2, <3>1, BillThrown, NoWorkType
  <2>3. CASE work[t][i].race # "awaited"
    <3>1. task' = task
      BY <1>4, <2>3 DEF ProviderFails
    <3>2. work[t][i].race # "answered"
      BY <1>0, <1>4 DEF ProviderFails, BillOf, Bill
    <3>3. Bill(task[t], i, NoWork.race, NoWork.pc, billed'[t][i])
      BY <1>0, <2>1, <3>2, BillDropped, NoWorkType DEF BillOf
    <3> QED
      BY <1>1, <2>1, <3>1, <3>3
  <2> QED
    BY <2>2, <2>3
<1> QED
  BY <1>2, <1>3, <1>4 DEF WorkStep

LEMMA BillLoseLock ==
  ASSUME TypeInv, BillInv, NEW t \in Task, LoseLock(t) PROVE BillInv'
<1>0. TaskInv /\ task[t] \in TaskRecord /\ task[t].state = "active"
  BY DEF TypeInv, TaskInv, Fits, LoseLock
<1>1. work' = work /\ billed' = billed
  BY DEF LoseLock
<1>2. /\ task'[t].state = "active" /\ task'[t].lost = task[t].lost \cup {Number(task[t])}
      /\ Number(task'[t]) = Number(task[t])
      /\ \A u \in Task \ {t} : task'[u] = task[u]
  BY <1>0, LoseLockTask, UnlockedTask DEF Number, Current, LoseLock
<1>3. ASSUME NEW i \in Run PROVE BillOf(t, i)'
  <2>1. BillOf(t, i)
    BY DEF BillInv
  <2> QED
    BY <1>0, <1>1, <1>2, <2>1, BillUnlocked DEF BillOf
<1> QED
  BY <1>1, <1>2, <1>3, BillLocal

LEMMA BillCrash ==
  ASSUME TypeInv, BillInv, WorkerCrash PROVE BillInv'
<1> SUFFICES ASSUME NEW t \in Task, NEW i \in Run PROVE BillOf(t, i)'
  BY DEF BillInv
<1>0. TaskInv /\ task[t] \in TaskRecord /\ (task[t].locked => task[t].state = "active")
  BY DEF TypeInv, TaskInv, Fits
<1>1. work'[t][i] = NoWork /\ billed' = billed /\ BillOf(t, i)
  BY DEF WorkerCrash, BillInv
<1>2. CASE task[t].locked
  <2>1. /\ task'[t].state = "active" /\ task'[t].lost = task[t].lost \cup {Number(task[t])}
        /\ Number(task'[t]) = Number(task[t])
    BY <1>0, <1>2, CrashTask, UnlockedTask DEF Number, Current
  <2> QED
    BY <1>0, <1>1, <1>2, <2>1, BillUnlocked, NoWorkType DEF BillOf
<1>3. CASE ~task[t].locked
  <2>1. task'[t] = task[t]
    BY <1>0, <1>3, CrashTask
  <2>2. ~Holds(task[t], i)
    BY <1>3 DEF Holds
  <2> QED
    BY <1>1, <2>1, <2>2, BillDropped, NoWorkType DEF BillOf
<1> QED
  BY <1>2, <1>3

LEMMA BillTick ==
  ASSUME TypeInv, BillInv, Tick PROVE BillInv'
<1> SUFFICES ASSUME NEW t \in Task, NEW i \in Run PROVE BillOf(t, i)'
  BY DEF BillInv
<1>1. task[t] \in TaskRecord /\ TaskInv /\ BillOf(t, i) /\ billed' = billed
  BY DEF TypeInv, TaskInv, BillInv, Tick
<1>2. PICK n \in Ticks : task'[t] = [task[t] EXCEPT !.timer = n]
  BY <1>1, TickTask
<1>3. /\ task'[t].state = task[t].state /\ task'[t].locked = task[t].locked
      /\ task'[t].attemptsMade = task[t].attemptsMade
      /\ task'[t].stalled = task[t].stalled /\ task'[t].lost = task[t].lost
  BY <1>1, <1>2 DEF TaskRecord
<1> QED
  BY <1>1, <1>3, TickWork, BillKept DEF BillOf

\* A run is billed once at most, whatever goes on after it was given up: the run that
\* completes its task is billed, and any other bill is of a run that had lost the lock.
THEOREM Billed == Spec => []BilledOnce
<1>1. Init => BillInv
  <2> SUFFICES ASSUME Init, NEW t \in Task, NEW i \in Run PROVE BillOf(t, i)
    BY DEF BillInv
  <2>1. work[t][i] = NoWork /\ billed[t][i] = 0 /\ task[t].state = "queued"
    BY DEF Init
  <2> QED
    BY <2>1, NoWorkType DEF BillOf, Bill
<1>2. ASSUME TypeInv, BillInv, [Next]_vars PROVE BillInv'
  <2>1. ASSUME UNCHANGED <<task, work, billed>> PROVE BillInv'
    BY <1>2, <2>1 DEF BillInv, BillOf
  <2>2. CASE InjectLatency \/ UNCHANGED vars
    BY <2>1, <2>2 DEF InjectLatency, vars, attemptVars
  <2>3. ASSUME NEW t \in Task, TaskStep(t) \/ LoseLock(t) PROVE BillInv'
    BY <1>2, <2>3, BillStart, BillRequeued, BillLoseLock DEF TaskStep
  <2>4. ASSUME NEW t \in Task, NEW i \in Run, HardTimeout(t, i) PROVE BillInv'
    <3>1. PICK r \in WorkRecord : work' = [work EXCEPT ![t][i] = r] /\ r.race = "none"
      BY <1>2, <2>4, TimeoutWork
    <3>2. RunThrows(t, i, TRUE) /\ work[t][i].race = "awaited" /\ billed' = billed
      BY <2>4 DEF HardTimeout
    <3> QED
      BY <1>2, <3>1, <3>2, BillThrown
  <2>5. ASSUME NEW t \in Task, NEW i \in Run, RaceStep(t, i) \/ WorkStep(t, i) PROVE BillInv'
    BY <1>2, <2>4, <2>5, BillComplete, BillWork DEF RaceStep
  <2> QED
    BY <1>2, <2>2, <2>3, <2>5, BillCrash, BillTick DEF Next
<1> QED
  BY <1>1, <1>2, BillIsBilledOnce, TypesCorrect, PTL DEF Spec, TypeInv

-----------------------------------------------------------------------------
(* The route: neither the request nor the keys change, and a run gets its  *)
(* model when it starts.                                                   *)

LEMMA RequestKept ==
  ASSUME TypeInv, [Next]_vars, NEW u \in Task PROVE task'[u].request = task[u].request
<1>0. TaskInv /\ task \in [Task -> TaskRecord]
  BY DEF TypeInv, TaskInv
<1>1. ASSUME NEW t \in Task, Throw(t), task[t].state # "failed"
      PROVE  task'[u].request = task[u].request
  BY <1>0, <1>1, ThrowTask
<1>2. ASSUME NEW t \in Task, TaskStep(t) PROVE task'[u].request = task[u].request
  <2>1. CASE Start(t)
    BY <1>0, <2>1, StartTask
  <2>2. CASE SimulateFailure(t)
    BY <1>1, <2>2 DEF SimulateFailure, FailAttempt
  <2>3. CASE RecoverStalled(t) \/ FailStalled(t)
    BY <1>0, <2>3, StalledTask
  <2> QED
    BY <1>2, <2>1, <2>2, <2>3 DEF TaskStep
<1>3. ASSUME NEW t \in Task, LoseLock(t) PROVE task'[u].request = task[u].request
  BY <1>0, <1>3, LoseLockTask, UnlockedTask DEF LoseLock
<1>4. ASSUME NEW t \in Task, NEW i \in Run, RaceStep(t, i) \/ WorkStep(t, i)
      PROVE  task'[u].request = task[u].request
  <2>1. ASSUME NEW timedOut \in BOOLEAN, RunThrows(t, i, timedOut)
        PROVE  task'[u].request = task[u].request
    BY <1>1, <2>1 DEF RunThrows, FailAttempt, Owns
  <2>2. CASE HardTimeout(t, i)
    BY <2>1, <2>2 DEF HardTimeout
  <2>3. CASE Complete(t, i)
    BY <1>0, <2>3, CompleteTask
  <2>4. CASE LatencyOver(t, i) \/ AskForToken(t, i) \/ Answer(t, i)
    BY <2>4 DEF LatencyOver, AskForToken, Answer
  <2>5. CASE ProviderFails(t, i)
    BY <2>1, <2>5 DEF ProviderFails
  <2> QED
    BY <1>4, <2>2, <2>3, <2>4, <2>5 DEF RaceStep, WorkStep
<1>5. CASE Tick
  <2>1. PICK n \in Ticks : task'[u] = [task[u] EXCEPT !.timer = n]
    BY <1>0, <1>5, TickTask
  <2> QED
    BY <1>0, <2>1 DEF TaskRecord
<1>6. CASE WorkerCrash
  BY <1>0, <1>6, CrashTask, UnlockedTask
<1>7. CASE InjectLatency \/ UNCHANGED vars
  BY <1>7 DEF InjectLatency, vars, attemptVars
<1> QED
  BY <1>2, <1>3, <1>4, <1>5, <1>6, <1>7 DEF Next

Routed(t, m) == IsAvailable(m, configured) \/ m = task[t].request.model
RouteInv == \A t \in Task, i \in Run : Routed(t, work[t][i].model)

LEMMA RouteDefault == \A t \in Task : Routed(t, NoWork.model) /\ Routed(t, Answered.model)
BY NoWorkType DEF Routed, IsAvailable, DefaultModel, Registry

LEMMA RouteStep == ASSUME TypeInv, RouteInv, [Next]_vars PROVE RouteInv'
<1> DEFINE Fine == \A t \in Task, i \in Run : Routed(t, work'[t][i].model)
<1>0. WorkType
  BY DEF TypeInv, AttemptTypeOK, WorkType
<1>1. SUFFICES Fine
  BY RequestKept, ConfiguredKept DEF RouteInv, Routed
<1>2. ASSUME NEW t \in Task, NEW i \in Run, NEW r, work' = [work EXCEPT ![t][i] = r],
             Routed(t, r.model)
      PROVE  Fine
  <2> SUFFICES ASSUME NEW u \in Task, NEW j \in Run PROVE Routed(u, work'[u][j].model)
    OBVIOUS
  <2>1. CASE u = t /\ j = i
    <3>1. work'[t][i] = r
      BY <1>0, <1>2 DEF WorkType
    <3> QED
      BY <1>2, <2>1, <3>1
  <2>2. CASE u # t \/ j # i
    <3>1. work'[u][j] = work[u][j]
      BY <1>0, <1>2, <2>2, OneWork
    <3> QED
      BY <3>1 DEF RouteInv
  <2> QED
    BY <2>1, <2>2
<1>3. CASE UNCHANGED work
  BY <1>3 DEF RouteInv
<1>4. ASSUME NEW t \in Task, TaskStep(t) \/ LoseLock(t) PROVE Fine
  <2>1. CASE Start(t)
    <3>1. PICK r \in WorkRecord :
            /\ work' = [work EXCEPT ![t][Current(t)] = r] /\ Current(t) \in Run
            /\ r.model = Resolve(task[t].request.model, task[t].request.taskType, configured)
      BY <2>1, StartWork
    <3>2. Routed(t, r.model)
      BY <3>1, ResolveType DEF Routed
    <3> HIDE DEF Fine
    <3> QED
      BY <1>2, <3>1, <3>2
  <2>2. CASE ~Start(t)
    BY <1>3, <1>4, <2>2
    DEF TaskStep, SimulateFailure, RecoverStalled, FailStalled, LoseLock
  <2> QED
    BY <2>1, <2>2
<1>5. ASSUME NEW t \in Task, NEW i \in Run, RaceStep(t, i) \/ WorkStep(t, i) PROVE Fine
  <2> HIDE DEF Fine
  <2>0. Routed(t, work[t][i].model)
    BY DEF RouteInv
  <2>1. CASE LatencyOver(t, i) \/ AskForToken(t, i)
    BY <1>2, <2>0, <2>1, WorkGoesOn
  <2>2. CASE HardTimeout(t, i)
    BY <1>2, <2>0, <2>2, TimeoutWork
  <2>3. CASE Complete(t, i) \/ Answer(t, i) \/ ProviderFails(t, i)
    <3>1. \/ work' = [work EXCEPT ![t][i] = NoWork]
          \/ work' = [work EXCEPT ![t][i] = Answered]
      BY <2>3 DEF Complete, Answer, ProviderFails
    <3> QED
      BY <1>2, <3>1, RouteDefault
  <2> QED
    BY <1>5, <2>1, <2>2, <2>3 DEF RaceStep, WorkStep
<1>6. CASE Tick
  BY <1>6, TickWork DEF RouteInv
<1>7. CASE WorkerCrash
  BY <1>7, RouteDefault DEF WorkerCrash
<1> QED
  BY <1>3, <1>4, <1>5, <1>6, <1>7 DEF Next, InjectLatency, vars, attemptVars

\* A task runs on a model without a key only if its request names that model.
THEOREM RoutedToConfigured == Spec => []UnconfiguredOnlyIfNamed
<1>1. OnlyNamedUnavailable
  BY ResolveType DEF OnlyNamedUnavailable
<1>2. Init => RouteInv
  BY RouteDefault DEF Init, RouteInv
<1>3. TypeInv /\ RouteInv /\ [Next]_vars => RouteInv'
  BY RouteStep
<1>4. RouteInv => UnconfiguredOnlyIfNamed
  BY <1>1 DEF RouteInv, Routed, UnconfiguredOnlyIfNamed
<1> QED
  BY <1>2, <1>3, <1>4, TypesCorrect, PTL DEF Spec, TypeInv

-----------------------------------------------------------------------------
(* The counters.                                                           *)

Exhausted(t) == task[t].state = "failed" /\ task[t].attemptsMade = Attempts
Dead == {t \in Task : Exhausted(t)}
Made == {x \in Task \X (1..Attempts) : x[2] <= task[x[1]].attemptsMade}

LEMMA CountedFinite == IsFiniteSet(Dead) /\ IsFiniteSet(Made)
<1>1. IsFiniteSet(1..Attempts)
  <2>1. 1 \in Int /\ Attempts \in Int
    BY AttemptAssumption
  <2> QED
    BY <2>1, FS_Interval
<1>2. IsFiniteSet(Task \X (1..Attempts))
  BY <1>1, FS_Product, AttemptAssumption
<1>3. Dead \subseteq Task /\ Made \subseteq Task \X (1..Attempts)
  BY DEF Dead, Made
<1> QED
  BY <1>2, <1>3, FS_Subset, AttemptAssumption

(* A failed attempt adds its task or nothing, and itself.                  *)
LEMMA FailureAdded ==
  ASSUME TypeInv, NEW t \in Task, task[t].state # "failed",
         task'[t].attemptsMade = task[t].attemptsMade + 1,
         LastAttempt(t) => task'[t].state = "failed",
         \A u \in Task \ {t} : task'[u] = task[u]
  PROVE  /\ Dead' = IF LastAttempt(t) THEN Dead \cup {t} ELSE Dead
         /\ Made' = Made \cup {<<t, task[t].attemptsMade + 1>>}
         /\ t \notin Dead /\ <<t, task[t].attemptsMade + 1>> \notin Made
<1> DEFINE a == task[t].attemptsMade + 1
<1>1. task \in [Task -> TaskRecord] /\ a \in 1..Attempts /\ Attempts \in Nat
  <2>1. task[t] \in TaskRecord /\ task[t].attemptsMade < Attempts /\ Attempts \in Nat
    BY AttemptAssumption DEF TypeInv, TaskInv, Fits
  <2> QED
    BY <2>1 DEF TypeInv, TaskInv, TaskRecord
<1>2. Dead' = IF LastAttempt(t) THEN Dead \cup {t} ELSE Dead
  <2>1. Exhausted(t)' <=> LastAttempt(t)
    BY DEF Exhausted, LastAttempt
  <2>2. ~Exhausted(t) /\ \A u \in Task \ {t} : Exhausted(u)' <=> Exhausted(u)
    BY DEF Exhausted
  <2> QED
    BY <2>1, <2>2 DEF Dead
<1>3. ASSUME NEW u \in Task, NEW b \in 1..Attempts
      PROVE  <<u, b>> \in Made' <=> <<u, b>> \in Made \/ <<u, b>> = <<t, a>>
  <2>1. CASE u = t
    <3>1. b <= a <=> b <= task[t].attemptsMade \/ b = a
      BY <1>1 DEF TaskRecord
    <3> QED
      BY <2>1, <3>1 DEF Made
  <2>2. CASE u # t
    BY <2>2 DEF Made
  <2> QED
    BY <2>1, <2>2
<1>4. Made' \subseteq Task \X (1..Attempts) /\ Made \subseteq Task \X (1..Attempts)
      /\ <<t, a>> \in Task \X (1..Attempts)
  BY <1>1 DEF Made
<1>5. Made' = Made \cup {<<t, a>>}
  BY <1>3, <1>4
<1>6. <<t, a>> \notin Made
  BY <1>1 DEF Made, TaskRecord
<1> QED
  BY <1>2, <1>5, <1>6 DEF Dead, Exhausted

LEMMA FailureCounted ==
  ASSUME TypeInv, CountsAgree, NEW t \in Task, task[t].state # "failed",
         NEW timedOut \in BOOLEAN, CountFailure(t, timedOut), faults' = faults,
         task'[t].attemptsMade = task[t].attemptsMade + 1,
         LastAttempt(t) => task'[t].state = "failed",
         \A u \in Task \ {t} : task'[u] = task[u]
  PROVE  CountsAgree'
<1> SUFFICES ASSUME faults.restarts = 0
             PROVE  /\ counts'.dlq = Cardinality(Dead')
                    /\ counts'.failed = Cardinality(Made')
                    /\ counts'.timeout <= counts'.failed
  BY DEF CountsAgree, Dead, Exhausted, Made
<1> DEFINE a == task[t].attemptsMade + 1
<1>1. /\ counts.dlq = Cardinality(Dead) /\ counts.failed = Cardinality(Made)
      /\ counts.timeout <= counts.failed
      /\ counts \in [failed : Nat, timeout : Nat, dlq : Nat]
  BY DEF CountsAgree, Dead, Exhausted, Made, TypeInv, AttemptTypeOK
<1>2. /\ Dead' = IF LastAttempt(t) THEN Dead \cup {t} ELSE Dead
      /\ Made' = Made \cup {<<t, a>>}
      /\ t \notin Dead /\ <<t, a>> \notin Made
  BY FailureAdded
<1>3. /\ Cardinality(Dead \cup {t}) = Cardinality(Dead) + 1
      /\ Cardinality(Made \cup {<<t, a>>}) = Cardinality(Made) + 1
  BY <1>2, CountedFinite, FS_AddElement
<1>4. /\ counts'.dlq = counts.dlq + IF LastAttempt(t) THEN 1 ELSE 0
      /\ counts'.failed = counts.failed + 1
      /\ counts'.timeout = counts.timeout + IF timedOut THEN 1 ELSE 0
  BY DEF CountFailure
<1>5. counts'.dlq = Cardinality(Dead')
  <2>1. CASE LastAttempt(t)
    BY <1>1, <1>2, <1>3, <1>4, <2>1
  <2>2. CASE ~LastAttempt(t)
    BY <1>1, <1>2, <1>4, <2>2
  <2> QED
    BY <2>1, <2>2
<1>6. counts'.failed = Cardinality(Made')
  BY <1>1, <1>2, <1>3, <1>4
<1>7. counts'.timeout <= counts'.failed
  BY <1>1, <1>4
<1> QED
  BY <1>5, <1>6, <1>7

LEMMA ThrowCounted ==
  ASSUME TypeInv, CountsAgree, NEW t \in Task, task[t].state # "failed",
         NEW timedOut \in BOOLEAN, FailAttempt(t, timedOut), faults' = faults
  PROVE  CountsAgree'
<1>1. /\ task'[t].attemptsMade = task[t].attemptsMade + 1
      /\ LastAttempt(t) => task'[t].state = "failed"
      /\ \A u \in Task \ {t} : task'[u] = task[u]
  BY ThrowTask DEF FailAttempt, TypeInv
<1> QED
  BY <1>1, FailureCounted DEF FailAttempt

LEMMA NothingCounted ==
  ASSUME CountsAgree, counts' = counts, faults'.restarts = faults.restarts,
         \A t \in Task : /\ task'[t].attemptsMade = task[t].attemptsMade
                         /\ task'[t].state = "failed" <=> task[t].state = "failed"
  PROVE  CountsAgree'
<1>1. Dead' = Dead
  BY DEF Dead, Exhausted
<1>2. Made' = Made
  <2>1. \A x \in Task \X (1..Attempts) : x \in Made' <=> x \in Made
    BY DEF Made
  <2>2. Made' \subseteq Task \X (1..Attempts) /\ Made \subseteq Task \X (1..Attempts)
    BY DEF Made
  <2> QED
    BY <2>1, <2>2
<1> QED
  BY <1>1, <1>2 DEF CountsAgree, Dead, Exhausted, Made

LEMMA RunThrowsCounted ==
  ASSUME TypeInv, CountsAgree, NEW t \in Task, NEW i \in Run, NEW timedOut \in BOOLEAN,
         RunThrows(t, i, timedOut), faults' = faults
  PROVE  CountsAgree'
<1>1. CASE Owns(t, i)
  BY <1>1, ThrowCounted DEF RunThrows, Owns
<1>2. CASE ~Owns(t, i)
  BY <1>2, NothingCounted DEF RunThrows
<1> QED
  BY <1>1, <1>2

\* Whatever raced in the worker or lost its lock, the failure counters are those of the
\* tasks: a failure for each attempt made and not completed, a dead letter for each task
\* that failed with no attempt left.
THEOREM Counted == Spec => []CountsAgree
<1>1. Init => CountsAgree
  <2> SUFFICES ASSUME Init PROVE CountsAgree
    OBVIOUS
  <2>1. Dead = {}
    BY DEF Init, Dead, Exhausted
  <2>2. Made = {}
    BY AttemptAssumption DEF Init, Made
  <2>3. Cardinality(Dead) = 0 /\ Cardinality(Made) = 0
    BY <2>1, <2>2, FS_EmptySet
  <2>4. counts.dlq = 0 /\ counts.failed = 0 /\ counts.timeout = 0
    BY DEF Init, NoCounts
  <2> QED
    BY <2>3, <2>4 DEF CountsAgree, Dead, Exhausted, Made
<1>2. ASSUME TypeInv, CountsAgree, [Next]_vars PROVE CountsAgree'
  <2> USE <1>2
  <2>0. TaskInv /\ task \in [Task -> TaskRecord]
    BY DEF TypeInv, TaskInv
  <2> DEFINE Same(t) == /\ task'[t].attemptsMade = task[t].attemptsMade
                        /\ task'[t].state = "failed" <=> task[t].state = "failed"
  <2>1. ASSUME NEW t \in Task, Start(t) \/ RecoverStalled(t) \/ LoseLock(t) PROVE CountsAgree'
    <3>1. Same(t) /\ \A u \in Task \ {t} : task'[u] = task[u]
      <4>1. CASE Start(t)
        BY <2>0, <4>1, StartTask DEF Start
      <4>2. CASE RecoverStalled(t)
        BY <2>0, <4>2, StalledTask DEF RecoverStalled, Stalls
      <4>3. CASE LoseLock(t)
        BY <2>0, <4>3, LoseLockTask, UnlockedTask DEF LoseLock, TaskInv, Fits
      <4> QED
        BY <2>1, <4>1, <4>2, <4>3
    <3>2. \A u \in Task : Same(u)
      BY <3>1
    <3>3. counts' = counts /\ faults' = faults
      BY <2>1 DEF Start, RecoverStalled, LoseLock
    <3> QED
      BY <3>2, <3>3, NothingCounted
  <2>2. ASSUME NEW t \in Task, SimulateFailure(t) PROVE CountsAgree'
    BY <2>2, ThrowCounted DEF SimulateFailure
  <2>3. ASSUME NEW t \in Task, FailStalled(t) PROVE CountsAgree'
    <3>1. /\ task'[t].attemptsMade = task[t].attemptsMade + 1 /\ task'[t].state = "failed"
          /\ \A u \in Task \ {t} : task'[u] = task[u]
      BY <2>0, <2>3, StalledTask
    <3>2. CountFailure(t, FALSE) /\ faults' = faults /\ task[t].state # "failed"
      BY <2>3 DEF FailStalled, Stalls
    <3> QED
      BY <3>1, <3>2, FailureCounted
  <2>4. ASSUME NEW t \in Task, NEW i \in Run, HardTimeout(t, i) PROVE CountsAgree'
    BY <2>4, RunThrowsCounted DEF HardTimeout
  <2>5. ASSUME NEW t \in Task, NEW i \in Run, Complete(t, i) PROVE CountsAgree'
    <3>1. \A u \in Task : Same(u)
      BY <2>0, <2>5, CompleteTask DEF Owns
    <3> QED
      BY <2>5, <3>1, NothingCounted DEF Complete
  <2>6. ASSUME NEW t \in Task, NEW i \in Run,
               LatencyOver(t, i) \/ AskForToken(t, i) \/ Answer(t, i)
        PROVE  CountsAgree'
    <3>1. task' = task /\ counts' = counts /\ faults' = faults
      BY <2>6 DEF LatencyOver, AskForToken, Answer
    <3> QED
      BY <3>1, NothingCounted
  <2>7. ASSUME NEW t \in Task, NEW i \in Run, ProviderFails(t, i) PROVE CountsAgree'
    <3>1. CASE work[t][i].race = "awaited"
      BY <2>7, <3>1, RunThrowsCounted DEF ProviderFails
    <3>2. CASE work[t][i].race # "awaited"
      BY <2>7, <3>2, NothingCounted DEF ProviderFails
    <3> QED
      BY <3>1, <3>2
  <2>8. CASE Tick
    <3>1. ASSUME NEW u \in Task PROVE Same(u)
      <4>1. PICK n \in Ticks : task'[u] = [task[u] EXCEPT !.timer = n]
        BY <2>0, <2>8, TickTask
      <4> QED
        BY <2>0, <4>1 DEF TaskRecord
    <3> QED
      BY <2>8, <3>1, NothingCounted DEF Tick
  <2>9. CASE InjectLatency
    <3>1. task' = task /\ counts' = counts /\ faults'.restarts = faults.restarts
      BY <2>9 DEF InjectLatency, TypeInv, AttemptTypeOK
    <3> QED
      BY <3>1, NothingCounted
  <2>10. CASE WorkerCrash
    <3>1. faults.restarts \in Nat /\ faults'.restarts = faults.restarts + 1
      BY <2>10, AttemptAssumption DEF WorkerCrash, TypeInv, AttemptTypeOK
    <3>2. faults'.restarts # 0
      BY <3>1
    <3> QED
      BY <3>2 DEF CountsAgree
  <2>11. CASE UNCHANGED vars
    <3>1. task' = task /\ counts' = counts /\ faults' = faults
      BY <2>11 DEF vars, attemptVars
    <3> QED
      BY <3>1, NothingCounted
  <2> QED
    BY <2>1, <2>2, <2>3, <2>4, <2>5, <2>6, <2>7, <2>8, <2>9, <2>10, <2>11
    DEF Next, TaskStep, RaceStep, WorkStep
<1> QED
  BY <1>1, <1>2, TypesCorrect, PTL DEF Spec, TypeInv

=============================================================================
