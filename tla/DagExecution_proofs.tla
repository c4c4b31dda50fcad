------------------------ MODULE DagExecution_proofs ------------------------
(***************************************************************************)
(* Proofs about DagExecution, for every set of nodes, workers and requests *)
(* and every number of attempts, stalls and faults.                        *)
(***************************************************************************)
EXTENDS DagExecution, FiniteSetTheorems, TLAPS

-----------------------------------------------------------------------------
(* The inductive invariant, in parts.                                      *)

(* The accepted graph is closed under dependencies.                        *)
GraphOK == \A n \in DOMAIN dag : Deps(dag, n) \subseteq DOMAIN dag

(* createDag has yet to enqueue only nodes without dependencies.           *)
ApiOK ==
  /\ api.pc \in {"idle", "rejected"} => dag = NoDag
  /\ \A n \in api.roots : n \in DOMAIN dag /\ dag[n] = <<>> /\ adds[n] = 0

(* A job exists iff it was added, once, and an undecided or dead job has   *)
(* published nothing.                                                      *)
JobOK ==
  \A n \in Node :
    /\ adds[n] <= 1
    /\ adds[n] = 0 <=> job[n].state = "absent"
    /\ adds[n] > 0 => n \in DOMAIN dag
    /\ n \in results => job[n].state = "completed"
    /\ job[n].state \in {"absent", "waiting", "active"}
         => handler[n].pc = "idle"

(* How far a handler is tells what it has done.                            *)
HandlerReached(n) ==
  /\ handler[n].pc \in {"completed", "stored", "decrementing"}
       => job[n].state = "completed"
  /\ handler[n].pc \in {"stored", "decrementing"} <=> n \in results
  /\ handler[n].pc # "decrementing" => /\ handler[n].todo = {}
                                       /\ handler[n].zero = {}
                                       /\ handler[n].ready = {}
  /\ handler[n].todo \subseteq Dependents(n)

HandlerOK == \A n \in Node : HandlerReached(n)

(* The nodes that n's handler found satisfied and has not enqueued yet.    *)
Claims(n) == handler[n].zero \union handler[n].ready

(* A claimed node owes nothing, has no job and no other claimant; a node   *)
(* with a job owes nothing.                                                *)
ClaimOK ==
  /\ \A n \in Node : \A m \in Claims(n) :
       /\ m \in DOMAIN dag
       /\ dag[m] # <<>>
       /\ remaining[m] = 0
       /\ adds[m] = 0
  /\ \A n1, n2 \in Node : n1 # n2 => Claims(n1) \intersect Claims(n2) = {}
  /\ \A m \in DOMAIN dag : adds[m] > 0 /\ dag[m] # <<>> => remaining[m] = 0

IInv ==
  TypeOK /\ GraphOK /\ ApiOK /\ JobOK /\ HandlerOK /\ CounterExact /\ ClaimOK

-----------------------------------------------------------------------------
(* The graph is made of sequences of node ids.                             *)
LEMMA DagShape ==
  ASSUME dag \in Requests \union {NoDag}
  PROVE  /\ DOMAIN dag \subseteq Node
         /\ \A n \in DOMAIN dag : /\ dag[n] \in Seq(Node)
                                  /\ DOMAIN dag[n] = 1..Len(dag[n])
                                  /\ Len(dag[n]) \in Nat
BY RequestsAssumption DEF NoDag

(* The owed positions of a node are finitely many.                         *)
LEMMA OwedFinite ==
  ASSUME dag \in Requests \union {NoDag}, NEW n \in DOMAIN dag
  PROVE  IsFiniteSet(Owed(n))
<1>1. IsFiniteSet(1..Len(dag[n]))
  BY DagShape, FS_Interval
<1>2. Owed(n) \subseteq 1..Len(dag[n])
  BY DagShape DEF Owed
<1> QED
  BY <1>1, <1>2, FS_Subset

(* What is in the list of dependents that a handler goes over.             *)
LEMMA DependentsDef ==
  ASSUME NEW n, NEW e
  PROVE  e \in Dependents(n) <=>
           \E m \in DOMAIN dag : \E i \in DOMAIN dag[m] :
             e = <<m, i>> /\ dag[m][i] = n
BY DEF Dependents

LEMMA InitIInv == Init => IInv
<1> SUFFICES ASSUME Init PROVE IInv
  OBVIOUS
<1>1. DOMAIN dag = {}
  BY DEF Init, NoDag
<1>2. TypeOK
  BY BoundsAssumption DEF Init, TypeOK, JobType, HandlerType, NoJob, NoHandler, ApiPcs, StatusValues,
     JobStates, AttemptPhases, HandlerPcs
<1>3. GraphOK /\ CounterExact /\ ApiOK
  BY <1>1 DEF GraphOK, CounterExact, ApiOK, Init
<1>4. JobOK /\ HandlerOK
  BY DEF Init, JobOK, HandlerOK, HandlerReached, NoJob, NoHandler
<1>5. ClaimOK
  BY <1>1 DEF ClaimOK, Claims, Init, NoHandler
<1> QED
  BY <1>2, <1>3, <1>4, <1>5 DEF IInv

-----------------------------------------------------------------------------
(* TypeOK, given what the counter counts.                                  *)

(* The handler that goes over the dependents of n owes one of the DECRs    *)
(* that the counter of the dependent still shows.                          *)
LEMMA OwedByHandler ==
  ASSUME IInv, NEW n \in Node, NEW e \in handler[n].todo,
         handler[n].pc = "decrementing"
  PROVE  /\ e = <<e[1], e[2]>>
         /\ e[1] \in DOMAIN dag
         /\ e[1] \in Node
         /\ e[2] \in DOMAIN dag[e[1]]
         /\ dag[e[1]][e[2]] = n
         /\ e[2] \in Owed(e[1])
         /\ remaining[e[1]] \in Nat \ {0}
<1>1. PICK m \in DOMAIN dag : \E i \in DOMAIN dag[m] :
        e = <<m, i>> /\ dag[m][i] = n
  BY DependentsDef DEF IInv, HandlerOK, HandlerReached
<1>2. PICK i \in DOMAIN dag[m] : e = <<m, i>> /\ dag[m][i] = n
  BY <1>1
<1>3. i \in Owed(m)
  BY <1>2 DEF Owed
<1>4. m \in Node
  BY DagShape DEF IInv, TypeOK
<1>5. Cardinality(Owed(m)) # 0
  BY <1>3, OwedFinite, FS_EmptySet DEF IInv, TypeOK
<1>6. remaining[m] = Cardinality(Owed(m)) /\ remaining[m] \in Nat
  BY <1>4 DEF IInv, CounterExact, TypeOK
<1> QED
  BY <1>2, <1>3, <1>4, <1>5, <1>6

(* The updates of two fields at once that the 'completed' handler makes.   *)
LEMMA HandlerFields ==
  ASSUME NEW h \in HandlerType, NEW todo \in SUBSET (Node \X Nat),
         NEW zero \in SUBSET Node, NEW ready \in SUBSET Node
  PROVE  /\ [h EXCEPT !.pc = "decrementing", !.todo = todo] \in HandlerType
         /\ [h EXCEPT !.todo = todo, !.zero = zero] \in HandlerType
         /\ [h EXCEPT !.zero = zero, !.ready = ready] \in HandlerType
<1>1. [h EXCEPT !.pc = "decrementing", !.todo = todo] \in HandlerType
  BY DEF HandlerType, HandlerPcs
<1>2. [h EXCEPT !.todo = todo, !.zero = zero] \in HandlerType
  BY DEF HandlerType
<1>3. [h EXCEPT !.zero = zero, !.ready = ready] \in HandlerType
  BY DEF HandlerType
<1> QED
  BY <1>1, <1>2, <1>3

LEMMA TypeStep == IInv /\ [Next]_vars => TypeOK'
<1> SUFFICES ASSUME IInv, [Next]_vars PROVE TypeOK'
  OBVIOUS
<1>t. TypeOK
  BY DEF IInv
<1>h. handler \in [Node -> HandlerType]
  BY <1>t DEF TypeOK
<1>j. job \in [Node -> JobType]
  BY <1>t DEF TypeOK
<1>1. ASSUME NEW g \in Requests, CreateDag(g) PROVE TypeOK'
  <2>1. DOMAIN g \subseteq Node /\ \A n \in DOMAIN g : Len(g[n]) \in Nat
    BY RequestsAssumption
  <2>2. remaining' \in [Node -> Nat]
    BY <1>1, <2>1 DEF CreateDag, InitialRemaining
  <2>3. status' \in [Node -> StatusValues]
    BY <1>1 DEF CreateDag, StatusValues
  <2>4. api' \in [pc : ApiPcs, roots : SUBSET Node]
    BY <1>1, <2>1 DEF CreateDag, ApiPcs, Roots
  <2> QED
    BY <1>1, <1>t, <2>2, <2>3, <2>4 DEF TypeOK, CreateDag, bullVars
<1>2. ASSUME NEW g \in Requests, RejectDag(g) PROVE TypeOK'
  BY <1>2, <1>t DEF TypeOK, RejectDag, redisVars, bullVars, ApiPcs
<1>3. ASSUME NEW n \in Node, SetRootJobId(n) PROVE TypeOK'
  BY <1>3, <1>t DEF TypeOK, SetRootJobId, bullVars, processVars
<1>4. ASSUME NEW n \in Node, AddRoot(n) PROVE TypeOK'
  <2>1. job' \in [Node -> JobType]
    BY <1>4, <1>j DEF AddRoot, QueueAdd, NoJob, JobType, JobStates
  <2>2. adds' \in [Node -> Nat]
    BY <1>4, <1>t DEF TypeOK, AddRoot, QueueAdd
  <2>3. api' \in [pc : ApiPcs, roots : SUBSET Node]
    <3>1. api \in [pc : ApiPcs, roots : SUBSET Node]
      BY <1>t DEF TypeOK
    <3> QED
      BY <1>4, <3>1 DEF AddRoot
  <2>4. /\ dag' = dag /\ remaining' = remaining /\ status' = status
        /\ results' = results /\ jobIds' = jobIds /\ dlq' = dlq
        /\ attempt' = attempt /\ handler' = handler /\ up' = up
        /\ faults' = faults
    BY <1>4 DEF AddRoot, redisVars
  <2> QED
    BY <1>t, <2>1, <2>2, <2>3, <2>4, Zenon DEF TypeOK
<1>5. ASSUME NEW w \in Worker, NEW n \in Node, TakeJob(w, n) PROVE TypeOK'
  <2>1. job' \in [Node -> JobType]
    BY <1>5, <1>j DEF TakeJob, JobType, JobStates
  <2> QED
    BY <1>5, <1>t, <2>1 DEF TypeOK, TakeJob, redisVars, AttemptPhases
<1>6. ASSUME NEW w \in Worker, NEW n \in Node, MarkActive(w, n) PROVE TypeOK'
  BY <1>6, <1>t DEF TypeOK, MarkActive, bullVars, StatusValues, AttemptPhases
<1>7. ASSUME NEW w \in Worker, NEW n \in Node, ReadDependencies(w, n) PROVE TypeOK'
  BY <1>7, <1>t DEF TypeOK, ReadDependencies, redisVars, bullVars, AttemptPhases
<1>8. ASSUME NEW w \in Worker, NEW n \in Node, CompleteJob(w, n) PROVE TypeOK'
  <2>1. job' \in [Node -> JobType]
    BY <1>8, <1>j DEF CompleteJob, JobType, JobStates
  <2>2. handler' \in [Node -> HandlerType]
    BY <1>8, <1>h DEF CompleteJob, NoHandler, HandlerType, HandlerPcs
  <2> QED
    BY <1>8, <1>t, <2>1, <2>2 DEF TypeOK, CompleteJob, EndAttempt, redisVars, AttemptPhases
<1>9. ASSUME NEW w \in Worker, NEW n \in Node, RetryJob(w, n) PROVE TypeOK'
  <2>1. job' \in [Node -> JobType]
    BY <1>9, <1>j DEF RetryJob, JobType, JobStates
  <2> QED
    BY <1>9, <1>t, <2>1 DEF TypeOK, RetryJob, EndAttempt, redisVars, AttemptPhases
<1>10. ASSUME NEW w \in Worker, NEW n \in Node, ExhaustJob(w, n) PROVE TypeOK'
  <2>1. job' \in [Node -> JobType]
    BY <1>10, <1>j DEF ExhaustJob, JobType, JobStates
  <2>2. handler' \in [Node -> HandlerType]
    BY <1>10, <1>h DEF ExhaustJob, NoHandler, HandlerType, HandlerPcs
  <2> QED
    BY <1>10, <1>t, <2>1, <2>2 DEF TypeOK, ExhaustJob, EndAttempt, redisVars, AttemptPhases
<1>11. ASSUME NEW w \in Worker, NEW n \in Node, DiscardAttempt(w, n) PROVE TypeOK'
  BY <1>11, <1>t DEF TypeOK, DiscardAttempt, EndAttempt, redisVars, bullVars, AttemptPhases
<1>12. ASSUME NEW n \in Node, RecoverStalled(n) PROVE TypeOK'
  <2>1. job' \in [Node -> JobType]
    BY <1>12, <1>j DEF RecoverStalled, JobType, JobStates
  <2> QED
    BY <1>12, <1>t, <2>1 DEF TypeOK, RecoverStalled, redisVars, processVars
<1>13. ASSUME NEW w \in Worker, NEW n \in Node, FailStalled(w, n) PROVE TypeOK'
  <2>1. job' \in [Node -> JobType]
    BY <1>13, <1>j DEF FailStalled, JobType, JobStates
  <2>2. handler' \in [Node -> HandlerType]
    BY <1>13, <1>h DEF FailStalled, NoHandler, HandlerType, HandlerPcs
  <2> QED
    BY <1>13, <1>t, <2>1, <2>2 DEF TypeOK, FailStalled, redisVars
<1>14. ASSUME NEW n \in Node, StoreResult(n) PROVE TypeOK'
  <2>1. handler' \in [Node -> HandlerType]
    BY <1>14, <1>h DEF StoreResult, HandlerType, HandlerPcs
  <2> QED
    BY <1>14, <1>t, <2>1 DEF TypeOK, StoreResult, bullVars
<1>15. ASSUME NEW n \in Node, MarkCompleted(n) PROVE TypeOK'
  <2>1. Dependents(n) \subseteq Node \X Nat
    <3>1. \A m \in DOMAIN dag : m \in Node /\ DOMAIN dag[m] \subseteq Nat
      <4>1. dag \in Requests \union {NoDag}
        BY <1>t DEF TypeOK
      <4> QED
        BY <4>1, DagShape
    <3> SUFFICES ASSUME NEW e \in Dependents(n) PROVE e \in Node \X Nat
      OBVIOUS
    <3>2. PICK m \in DOMAIN dag : \E i \in DOMAIN dag[m] : e = <<m, i>>
      BY DependentsDef
    <3> QED
      BY <3>1, <3>2
  <2>2. handler' \in [Node -> HandlerType]
    <3>1. [handler[n] EXCEPT !.pc = "decrementing", !.todo = Dependents(n)]
            \in HandlerType
      BY <1>h, <2>1, HandlerFields
    <3> QED
      BY <1>15, <1>h, <3>1 DEF MarkCompleted
  <2> QED
    BY <1>15, <1>t, <2>1, <2>2 DEF TypeOK, MarkCompleted, bullVars, StatusValues
<1>16. ASSUME NEW n \in Node, NEW e \in handler[n].todo, Decrement(n, e)
       PROVE TypeOK'
  <2>1. e[1] \in Node /\ remaining[e[1]] \in Nat \ {0}
    BY <1>16, OwedByHandler DEF Decrement, Hosted
  <2>2. remaining' \in [Node -> Nat]
    <3>1. remaining \in [Node -> Nat]
      BY <1>t DEF TypeOK
    <3> QED
      BY <1>16, <2>1, <3>1 DEF Decrement
  <2>3. handler' \in [Node -> HandlerType]
    <3> DEFINE zero == IF remaining[e[1]] = 1 THEN {e[1]} ELSE {}
    <3>1. handler[n].todo \ {e} \in SUBSET (Node \X Nat)
      BY <1>h DEF HandlerType
    <3>2. zero \in SUBSET Node
      BY <2>1
    <3>3. [handler[n] EXCEPT !.todo = handler[n].todo \ {e}, !.zero = zero]
            \in HandlerType
      BY <1>h, <3>1, <3>2, HandlerFields
    <3> QED
      BY <1>16, <1>h, <3>3 DEF Decrement
  <2> QED
    BY <1>16, <1>t, <2>2, <2>3 DEF TypeOK, Decrement, bullVars
<1>17. ASSUME NEW n \in Node, NEW m \in Node, MarkReady(n, m) PROVE TypeOK'
  <2>1. handler' \in [Node -> HandlerType]
    <3>1. handler[n].ready \union {m} \in SUBSET Node
      BY <1>h DEF HandlerType
    <3>2. [handler[n] EXCEPT !.zero = {}, !.ready = handler[n].ready \union {m}]
            \in HandlerType
      BY <1>h, <3>1, HandlerFields
    <3> QED
      BY <1>17, <1>h, <3>2 DEF MarkReady
  <2> QED
    BY <1>17, <1>t, <2>1 DEF TypeOK, MarkReady, bullVars, StatusValues
<1>18. ASSUME NEW n \in Node, NEW m \in Node, SetJobId(n, m) PROVE TypeOK'
  BY <1>18, <1>t DEF TypeOK, SetJobId, bullVars, processVars
<1>19. ASSUME NEW n \in Node, NEW m \in Node, AddReady(n, m) PROVE TypeOK'
  <2>1. job' \in [Node -> JobType]
    BY <1>19, <1>j DEF AddReady, QueueAdd, NoJob, JobType, JobStates
  <2>2. handler' \in [Node -> HandlerType]
    BY <1>19, <1>h DEF AddReady, HandlerType, HandlerPcs
  <2> QED
    BY <1>19, <1>t, <2>1, <2>2 DEF TypeOK, AddReady, QueueAdd, redisVars
<1>20. ASSUME NEW n \in Node, DeadLetter(n) PROVE TypeOK'
  <2>1. handler' \in [Node -> HandlerType]
    BY <1>20, <1>h DEF DeadLetter, HandlerType, HandlerPcs
  <2> QED
    BY <1>20, <1>t, <2>1 DEF TypeOK, DeadLetter, redisVars
<1>21. ASSUME NEW n \in Node, MarkFailed(n) PROVE TypeOK'
  <2>1. handler' \in [Node -> HandlerType]
    BY <1>21, <1>h DEF MarkFailed, HandlerType, HandlerPcs
  <2> QED
    BY <1>21, <1>t, <2>1 DEF TypeOK, MarkFailed, bullVars, StatusValues
<1>22. CASE ApiCrash
  BY <1>22, <1>t, BoundsAssumption DEF TypeOK, ApiCrash, Fault, redisVars,
     bullVars, ApiPcs
<1>k. \A w \in Worker : WithoutHost(w) \in [Node -> HandlerType]
  <2>1. \A n \in Node : [handler[n] EXCEPT !.host = NoWorker] \in HandlerType
    BY <1>h DEF HandlerType
  <2> QED
    BY <1>h, <2>1 DEF WithoutHost
<1>23. ASSUME NEW w \in Worker, WorkerCrash(w) PROVE TypeOK'
  <2>1. \A n \in Node : [job[n] EXCEPT !.owner = NoWorker] \in JobType
    BY <1>j DEF JobType
  <2>2. job' \in [Node -> JobType]
    BY <1>23, <1>j, <2>1 DEF WorkerCrash
  <2> QED
    BY <1>23, <1>t, <1>k, <2>2, BoundsAssumption
    DEF TypeOK, WorkerCrash, Fault, redisVars, AttemptPhases
<1>24. ASSUME NEW w \in Worker, BeginShutdown(w) PROVE TypeOK'
  BY <1>24, <1>t, BoundsAssumption
  DEF TypeOK, BeginShutdown, Fault, redisVars, bullVars
<1>25. ASSUME NEW w \in Worker, NEW n \in Node, LoseLock(w, n) PROVE TypeOK'
  <2>1. job' \in [Node -> JobType]
    BY <1>25, <1>j DEF LoseLock, JobType
  <2> QED
    BY <1>25, <1>t, <2>1, BoundsAssumption
    DEF TypeOK, LoseLock, Fault, redisVars
<1>26. ASSUME NEW w \in Worker, QuitRedis(w) PROVE TypeOK'
  BY <1>26, <1>t, <1>k DEF TypeOK, QuitRedis, redisVars, bullVars
<1>27. CASE UNCHANGED vars
  BY <1>27, <1>t DEF TypeOK, vars
<1> QED
  BY <1>1, <1>2, <1>3, <1>4, <1>5, <1>6, <1>7, <1>8, <1>9, <1>10, <1>11,
     <1>12, <1>13, <1>14, <1>15, <1>16, <1>17, <1>18, <1>19, <1>20, <1>21,
     <1>22, <1>23, <1>24, <1>25, <1>26, <1>27
  DEF Next, ApiStep, AttemptStep, EndStep, HandlerStep, StalledStep, FaultStep

-----------------------------------------------------------------------------
(* Steps after which every DECR that was owed still is, and no other.      *)
SameDecrements ==
  \A n \in Node :
    /\ (handler'[n].pc = "decrementing") <=> (handler[n].pc = "decrementing")
    /\ handler'[n].todo = handler[n].todo

LEMMA OwedUnchanged ==
  ASSUME IInv, dag' = dag, SameDecrements, NEW n \in DOMAIN dag
  PROVE  Owed(n)' = Owed(n)
<1>1. \A i \in DOMAIN dag[n] : dag[n][i] \in Node
  BY DagShape DEF IInv, TypeOK
<1> QED
  BY <1>1 DEF Owed, SameDecrements

LEMMA CounterUnchanged ==
  ASSUME IInv, dag' = dag, remaining' = remaining, SameDecrements
  PROVE  CounterExact'
BY OwedUnchanged DEF IInv, CounterExact

(* Steps in which no handler gets further in what the invariant speaks of, *)
(* and jobs only move between waiting and active: 17 of the 27 actions.    *)
Live  == {"waiting", "active"}
Ended == {"exhausted", "deadLettered", "failureMarked"}

Quiet ==
  /\ dag' = dag /\ remaining' = remaining /\ results' = results /\ adds' = adds
  /\ api'.roots = api.roots
  /\ api'.pc \in {"idle", "rejected"} => api.pc \in {"idle", "rejected"}
  /\ \A n \in Node :
       /\ \/ job'[n].state = job[n].state
          \/ job'[n].state \in Live /\ job[n].state \in Live
       /\ \/ handler'[n].pc = handler[n].pc
          \/ handler'[n].pc \in Ended /\ handler[n].pc \in Ended
       /\ handler'[n].todo = handler[n].todo
       /\ handler'[n].zero = handler[n].zero
       /\ handler'[n].ready = handler[n].ready

LEMMA QuietStep ==
  ASSUME IInv, TypeOK', Quiet
  PROVE  IInv'
<1>1. GraphOK' /\ ApiOK'
  BY DEF IInv, GraphOK, ApiOK, Quiet
<1>2. JobOK'
  BY DEF IInv, JobOK, Quiet, Live, Ended
<1>3. HandlerOK'
  <2>1. \A n \in Node : Dependents(n)' = Dependents(n)
    BY DEF Quiet, Dependents
  <2> QED
    BY <2>1 DEF IInv, HandlerOK, HandlerReached, Quiet, Live, Ended
<1>4. CounterExact'
  BY CounterUnchanged DEF Quiet, SameDecrements, Ended
<1>5. ClaimOK'
  BY DEF IInv, ClaimOK, Claims, Quiet
<1> QED
  BY <1>1, <1>2, <1>3, <1>4, <1>5 DEF IInv

(* The quiet actions.                                                      *)
LEMMA QuietApi ==
  ASSUME IInv,
         \/ \E g \in Requests : RejectDag(g)
         \/ \E n \in Node : SetRootJobId(n)
         \/ ApiCrash
  PROVE  Quiet
<1>1. ASSUME NEW g \in Requests, RejectDag(g) PROVE Quiet
  BY <1>1 DEF RejectDag, Quiet, redisVars, bullVars, IInv, TypeOK
<1>2. ASSUME NEW n \in Node, SetRootJobId(n) PROVE Quiet
  BY <1>2 DEF SetRootJobId, Quiet, bullVars, processVars
<1>3. CASE ApiCrash
  BY <1>3 DEF ApiCrash, Quiet, redisVars, bullVars, IInv, TypeOK
<1> QED
  BY <1>1, <1>2, <1>3

LEMMA QuietAttempt ==
  ASSUME IInv, NEW w \in Worker, NEW n \in Node,
         \/ TakeJob(w, n) \/ MarkActive(w, n) \/ ReadDependencies(w, n)
         \/ RetryJob(w, n) \/ DiscardAttempt(w, n)
  PROVE  Quiet
<1>j. job \in [Node -> JobType]
  BY DEF IInv, TypeOK
<1>1. CASE TakeJob(w, n)
  BY <1>1, <1>j DEF TakeJob, Quiet, Live, redisVars, JobType
<1>2. CASE MarkActive(w, n)
  BY <1>2 DEF MarkActive, Quiet, bullVars
<1>3. CASE ReadDependencies(w, n)
  BY <1>3 DEF ReadDependencies, Quiet, redisVars, bullVars
<1>4. CASE RetryJob(w, n)
  BY <1>4, <1>j DEF RetryJob, Quiet, Live, redisVars, JobType
<1>5. CASE DiscardAttempt(w, n)
  BY <1>5 DEF DiscardAttempt, Quiet, redisVars, bullVars
<1> QED
  BY <1>1, <1>2, <1>3, <1>4, <1>5

LEMMA QuietStalled ==
  ASSUME IInv, NEW n \in Node, RecoverStalled(n)
  PROVE  Quiet
BY DEF RecoverStalled, Quiet, Live, redisVars, processVars, IInv, TypeOK,
   JobType

LEMMA QuietHandler ==
  ASSUME IInv, NEW n \in Node,
         \/ DeadLetter(n) \/ MarkFailed(n)
         \/ \E m \in Node : SetJobId(n, m)
  PROVE  Quiet
<1>h. handler \in [Node -> HandlerType]
  BY DEF IInv, TypeOK
<1>1. CASE DeadLetter(n)
  BY <1>1, <1>h DEF DeadLetter, Hosted, Quiet, Ended, redisVars, HandlerType
<1>2. CASE MarkFailed(n)
  BY <1>2, <1>h DEF MarkFailed, Hosted, Quiet, Ended, bullVars, HandlerType
<1>3. ASSUME NEW m \in Node, SetJobId(n, m) PROVE Quiet
  BY <1>3 DEF SetJobId, Quiet, bullVars, processVars
<1> QED
  BY <1>1, <1>2, <1>3

LEMMA QuietFault ==
  ASSUME IInv, NEW w \in Worker,
         \/ WorkerCrash(w) \/ BeginShutdown(w) \/ QuitRedis(w)
         \/ \E n \in Node : LoseLock(w, n)
  PROVE  Quiet
<1>h. handler \in [Node -> HandlerType] /\ job \in [Node -> JobType]
  BY DEF IInv, TypeOK
<1>1. \A n \in Node : /\ WithoutHost(w)[n].pc = handler[n].pc
                      /\ WithoutHost(w)[n].todo = handler[n].todo
                      /\ WithoutHost(w)[n].zero = handler[n].zero
                      /\ WithoutHost(w)[n].ready = handler[n].ready
  BY <1>h DEF WithoutHost, HandlerType
<1>2. CASE WorkerCrash(w)
  BY <1>1, <1>2, <1>h DEF WorkerCrash, Quiet, redisVars, JobType
<1>3. CASE BeginShutdown(w)
  BY <1>3 DEF BeginShutdown, Quiet, redisVars, bullVars
<1>4. CASE QuitRedis(w)
  BY <1>1, <1>4 DEF QuitRedis, Quiet, redisVars, bullVars
<1>5. ASSUME NEW n \in Node, LoseLock(w, n) PROVE Quiet
  BY <1>5, <1>h DEF LoseLock, Quiet, redisVars, JobType
<1> QED
  BY <1>2, <1>3, <1>4, <1>5

-----------------------------------------------------------------------------
(* The actions that move a node or a handler forward.                      *)

(* Before the graph exists nothing has happened to any node.               *)
LEMMA BeforeTheGraph ==
  ASSUME IInv, dag = NoDag
  PROVE  \A n \in Node : /\ adds[n] = 0
                         /\ job[n].state = "absent"
                         /\ handler[n].pc = "idle"
                         /\ handler[n].todo = {}
                         /\ Claims(n) = {}
                         /\ n \notin results
<1>1. DOMAIN dag = {}
  BY DEF NoDag
<1>2. adds \in [Node -> Nat]
  BY DEF IInv, TypeOK
<1>3. \A n \in Node : adds[n] = 0 /\ job[n].state = "absent"
  BY <1>1, <1>2 DEF IInv, JobOK
<1> QED
  BY <1>3 DEF IInv, JobOK, HandlerOK, HandlerReached, Claims

LEMMA CreateDagStep ==
  ASSUME IInv, TypeOK', NEW g \in Requests, CreateDag(g)
  PROVE  IInv'
<1>1. dag = NoDag
  BY DEF CreateDag, IInv, ApiOK
<1>2. /\ dag' = g /\ api' = [pc |-> "enqueueing", roots |-> Roots(g)]
      /\ remaining' = InitialRemaining(g)
      /\ UNCHANGED <<results, job, adds, handler>>
  BY DEF CreateDag, bullVars
<1>3. /\ \A n \in Node : /\ adds[n] = 0
                         /\ job[n].state = "absent"
                         /\ handler[n].pc = "idle"
                         /\ handler[n].todo = {}
                         /\ handler[n].zero = {}
                         /\ handler[n].ready = {}
                         /\ n \notin results
  BY <1>1, BeforeTheGraph DEF Claims
<1>4. /\ DOMAIN g \subseteq Node
      /\ \A n \in DOMAIN g : /\ g[n] \in Seq(Node)
                             /\ Len(g[n]) \in Nat
                             /\ DOMAIN g[n] = 1..Len(g[n])
  BY RequestsAssumption
<1>5. GraphOK'
  BY <1>2 DEF CreateDag, Valid, GraphOK, Deps
<1>6. ApiOK'
  BY <1>2, <1>3, <1>4 DEF ApiOK, Roots
<1>7. JobOK' /\ HandlerOK'
  BY <1>2, <1>3 DEF JobOK, HandlerOK, HandlerReached
<1>8. CounterExact'
  <2> SUFFICES ASSUME NEW n \in DOMAIN g
               PROVE  remaining'[n] = Cardinality(Owed(n)')
    BY <1>2 DEF CounterExact
  <2>1. \A i \in DOMAIN g[n] : g[n][i] \in Node
    BY <1>4
  <2>2. Owed(n)' = 1..Len(g[n])
    BY <1>2, <1>3, <1>4, <2>1 DEF Owed
  <2>3. Cardinality(1..Len(g[n])) = Len(g[n])
    <3> DEFINE len == Len(g[n])
    <3>1. len \in Nat
      BY <1>4
    <3> HIDE DEF len
    <3>2. Cardinality(1..len) = len
      BY <3>1, FS_Interval
    <3> QED
      BY <3>2 DEF len
  <2> QED
    BY <1>2, <1>4, <2>2, <2>3 DEF InitialRemaining
<1>9. ClaimOK'
  BY <1>2, <1>3, <1>4 DEF ClaimOK, Claims
<1> QED
  BY <1>5, <1>6, <1>7, <1>8, <1>9 DEF IInv

(* queue.add of a node that has no job yet and owes nothing.               *)
LEMMA AddRootStep ==
  ASSUME IInv, TypeOK', NEW n \in Node, AddRoot(n)
  PROVE  IInv'
<1>1. /\ dag' = dag /\ remaining' = remaining /\ results' = results
      /\ handler' = handler
      /\ api' = [api EXCEPT !.roots = @ \ {n}]
      /\ adds' = [adds EXCEPT ![n] = @ + 1]
      /\ job' = [job EXCEPT ![n] = [NoJob EXCEPT !.state = "waiting"]]
      /\ n \in api.roots /\ api.pc = "enqueueing"
  BY DEF AddRoot, redisVars, QueueAdd
<1>2. adds[n] = 0 /\ n \in DOMAIN dag /\ dag[n] = <<>>
  BY <1>1 DEF IInv, ApiOK
<1>3. adds' = [adds EXCEPT ![n] = 1] /\ adds \in [Node -> Nat]
  BY <1>1, <1>2 DEF IInv, TypeOK
<1>4. \A m \in Node : m # n => job'[m] = job[m] /\ adds'[m] = adds[m]
  BY <1>1 DEF IInv, TypeOK
<1>5. job'[n].state = "waiting" /\ adds'[n] = 1
  BY <1>1, <1>3 DEF IInv, TypeOK, NoJob
<1>6. job[n].state = "absent" /\ handler[n].pc = "idle" /\ n \notin results
  BY <1>2 DEF IInv, JobOK
<1>7. api'.pc = "enqueueing" /\ api'.roots = api.roots \ {n}
  BY <1>1 DEF IInv, TypeOK
<1>8. GraphOK' /\ ApiOK'
  BY <1>1, <1>4, <1>7 DEF IInv, GraphOK, ApiOK, TypeOK
<1>9. JobOK'
  BY <1>1, <1>2, <1>4, <1>5, <1>6 DEF IInv, JobOK
<1>10. HandlerOK'
  <2>1. \A m \in Node : Dependents(m)' = Dependents(m)
    BY <1>1 DEF Dependents
  <2> QED
    BY <1>1, <1>4, <1>6, <2>1 DEF IInv, HandlerOK, HandlerReached
<1>11. CounterExact'
  BY <1>1, CounterUnchanged DEF SameDecrements
<1>12. ClaimOK'
  <2>1. \A m \in Node : Claims(m)' = Claims(m)
    BY <1>1 DEF Claims
  <2>2. \A m \in Node : n \notin Claims(m)
    BY <1>2 DEF IInv, ClaimOK
  <2>3. DOMAIN dag \subseteq Node
    BY DagShape DEF IInv, TypeOK
  <2> QED
    BY <1>1, <1>2, <1>4, <2>1, <2>2, <2>3 DEF IInv, ClaimOK
<1> QED
  BY <1>8, <1>9, <1>10, <1>11, <1>12 DEF IInv

(* An active job is decided: its handler starts from nothing, or not at    *)
(* all (a stalled job that fails with attempts left).                      *)
LEMMA DecideStep ==
  ASSUME IInv, TypeOK', NEW n \in Node, NEW pc \in HandlerPcs,
         dag' = dag, remaining' = remaining, results' = results,
         adds' = adds, api' = api,
         job[n].state = "active",
         \A m \in Node \ {n} : job'[m] = job[m] /\ handler'[m] = handler[m],
         handler'[n].pc = pc,
         handler'[n].todo = {}, handler'[n].zero = {}, handler'[n].ready = {},
         \/ job'[n].state = "completed" /\ pc = "completed"
         \/ job'[n].state = "failed" /\ pc \in {"exhausted", "idle"}
  PROVE  IInv'
<1>1. handler[n].pc = "idle" /\ n \notin results /\ adds[n] # 0
  BY DEF IInv, JobOK
<1>2. handler[n].todo = {} /\ handler[n].zero = {} /\ handler[n].ready = {}
  BY <1>1 DEF IInv, HandlerOK, HandlerReached
<1>3. GraphOK' /\ ApiOK'
  BY DEF IInv, GraphOK, ApiOK
<1>4. JobOK'
  BY <1>1 DEF IInv, JobOK
<1>5. HandlerOK'
  <2>1. \A m \in Node : Dependents(m)' = Dependents(m)
    BY DEF Dependents
  <2>2. \A m \in Node \ {n} :
          /\ handler'[m] = handler[m]
          /\ job'[m] = job[m]
    OBVIOUS
  <2> QED
    BY <1>1, <2>1, <2>2 DEF IInv, HandlerOK, HandlerReached
<1>6. CounterExact'
  BY <1>1, <1>2, CounterUnchanged DEF SameDecrements
<1>7. ClaimOK'
  <2>1. \A m \in Node : Claims(m)' = Claims(m)
    BY <1>2 DEF Claims
  <2> QED
    BY <2>1 DEF IInv, ClaimOK
<1> QED
  BY <1>3, <1>4, <1>5, <1>6, <1>7 DEF IInv

LEMMA DecidingActions ==
  ASSUME IInv, TypeOK', NEW w \in Worker, NEW n \in Node,
         CompleteJob(w, n) \/ ExhaustJob(w, n) \/ FailStalled(w, n)
  PROVE  IInv'
<1>h. handler \in [Node -> HandlerType] /\ job \in [Node -> JobType]
  BY DEF IInv, TypeOK
<1>1. CASE CompleteJob(w, n)
  <2>1. /\ \A m \in Node \ {n} : job'[m] = job[m] /\ handler'[m] = handler[m]
        /\ job'[n].state = "completed" /\ handler'[n].pc = "completed"
        /\ handler'[n].todo = {} /\ handler'[n].zero = {}
        /\ handler'[n].ready = {}
    BY <1>1, <1>h DEF CompleteJob, JobType, NoHandler
  <2> QED
    BY <1>1, <2>1, DecideStep DEF CompleteJob, redisVars, HandlerPcs
<1>2. CASE ExhaustJob(w, n)
  <2>1. /\ \A m \in Node \ {n} : job'[m] = job[m] /\ handler'[m] = handler[m]
        /\ job'[n].state = "failed" /\ handler'[n].pc = "exhausted"
        /\ handler'[n].todo = {} /\ handler'[n].zero = {}
        /\ handler'[n].ready = {}
    BY <1>2, <1>h DEF ExhaustJob, JobType, NoHandler
  <2> QED
    BY <1>2, <2>1, DecideStep DEF ExhaustJob, redisVars, HandlerPcs
<1>3. CASE FailStalled(w, n)
  <2>1. /\ handler[n].pc = "idle" /\ handler[n].todo = {}
        /\ handler[n].zero = {} /\ handler[n].ready = {}
    BY <1>3 DEF FailStalled, IInv, JobOK, HandlerOK, HandlerReached
  <2>2. /\ \A m \in Node \ {n} : job'[m] = job[m] /\ handler'[m] = handler[m]
        /\ job'[n].state = "failed" /\ handler'[n].pc \in {"exhausted", "idle"}
        /\ handler'[n].todo = {} /\ handler'[n].zero = {}
        /\ handler'[n].ready = {}
    BY <1>3, <1>h, <2>1 DEF FailStalled, JobType, NoHandler
  <2> QED
    BY <1>3, <2>2, DecideStep DEF FailStalled, redisVars, HandlerPcs
<1> QED
  BY <1>1, <1>2, <1>3

LEMMA StoreResultStep ==
  ASSUME IInv, TypeOK', NEW n \in Node, StoreResult(n)
  PROVE  IInv'
<1>1. /\ dag' = dag /\ remaining' = remaining /\ job' = job /\ adds' = adds
      /\ api' = api /\ results' = results \union {n}
      /\ handler' = [handler EXCEPT ![n].pc = "stored"]
      /\ handler[n].pc = "completed"
  BY DEF StoreResult, Hosted, bullVars
<1>2. job[n].state = "completed"
  BY <1>1 DEF IInv, HandlerOK, HandlerReached
<1>3. /\ \A m \in Node \ {n} : handler'[m] = handler[m]
      /\ handler'[n].pc = "stored"
      /\ \A m \in Node : /\ handler'[m].todo = handler[m].todo
                         /\ handler'[m].zero = handler[m].zero
                         /\ handler'[m].ready = handler[m].ready
  BY <1>1 DEF IInv, TypeOK, HandlerType
<1>4. GraphOK' /\ ApiOK'
  BY <1>1 DEF IInv, GraphOK, ApiOK
<1>5. JobOK'
  BY <1>1, <1>2, <1>3 DEF IInv, JobOK
<1>6. HandlerOK'
  <2>1. \A m \in Node : Dependents(m)' = Dependents(m)
    BY <1>1 DEF Dependents
  <2> QED
    BY <1>1, <1>2, <1>3, <2>1 DEF IInv, HandlerOK, HandlerReached
<1>7. CounterExact'
  BY <1>1, <1>3, CounterUnchanged DEF SameDecrements
<1>8. ClaimOK'
  <2>1. \A m \in Node : Claims(m)' = Claims(m)
    BY <1>3 DEF Claims
  <2> QED
    BY <1>1, <2>1 DEF IInv, ClaimOK
<1> QED
  BY <1>4, <1>5, <1>6, <1>7, <1>8 DEF IInv

(* Every DECR of the dependents is owed before the loop and in its list.   *)
LEMMA MarkCompletedStep ==
  ASSUME IInv, TypeOK', NEW n \in Node, MarkCompleted(n)
  PROVE  IInv'
<1>1. /\ dag' = dag /\ remaining' = remaining /\ job' = job /\ adds' = adds
      /\ api' = api /\ results' = results
      /\ handler' = [handler EXCEPT ![n].pc = "decrementing",
                                    ![n].todo = Dependents(n)]
      /\ handler[n].pc = "stored"
  BY DEF MarkCompleted, Hosted, bullVars
<1>2. job[n].state = "completed" /\ n \in results
  BY <1>1 DEF IInv, HandlerOK, HandlerReached
<1>3. /\ \A m \in Node \ {n} : handler'[m] = handler[m]
      /\ handler'[n].pc = "decrementing"
      /\ handler'[n].todo = Dependents(n)
      /\ \A m \in Node : /\ handler'[m].zero = handler[m].zero
                         /\ handler'[m].ready = handler[m].ready
  BY <1>1 DEF IInv, TypeOK, HandlerType
<1>4. GraphOK' /\ ApiOK'
  BY <1>1 DEF IInv, GraphOK, ApiOK
<1>5. JobOK'
  BY <1>1, <1>2, <1>3 DEF IInv, JobOK
<1>6. HandlerOK'
  <2>1. \A m \in Node : Dependents(m)' = Dependents(m)
    BY <1>1 DEF Dependents
  <2>2. HandlerOK
    BY DEF IInv
  <2>3. HandlerReached(n)'
    BY <1>1, <1>2, <1>3, <2>1, <2>2 DEF HandlerOK, HandlerReached
  <2>4. ASSUME NEW k \in Node \ {n} PROVE HandlerReached(k)'
    <3>1. /\ job' = job /\ results' = results
          /\ handler'[k] = handler[k] /\ Dependents(k)' = Dependents(k)
      BY <1>1, <1>3, <2>1
    <3> QED
      BY <2>2, <3>1 DEF HandlerOK, HandlerReached
  <2> QED
    BY <2>3, <2>4 DEF HandlerOK
<1>7. CounterExact'
  <2> SUFFICES ASSUME NEW m \in DOMAIN dag PROVE Owed(m)' = Owed(m)
    BY <1>1 DEF IInv, CounterExact
  <2>1. ASSUME NEW i \in DOMAIN dag[m], dag[m][i] = n
        PROVE  <<m, i>> \in Dependents(n)
    BY <2>1, DependentsDef
  <2>2. \A i \in DOMAIN dag[m] : dag[m][i] \in Node
    BY DagShape DEF IInv, TypeOK
  <2>3. ASSUME NEW i \in DOMAIN dag[m]
        PROVE  i \in Owed(m)' <=> i \in Owed(m)
    <3>1. CASE dag[m][i] = n
      BY <1>1, <1>3, <2>1, <3>1 DEF Owed
    <3>2. CASE dag[m][i] # n
      <4>1. handler'[dag[m][i]] = handler[dag[m][i]]
        BY <1>3, <2>2, <3>2
      <4> QED
        BY <1>1, <4>1 DEF Owed
    <3> QED
      BY <3>1, <3>2
  <2>4. Owed(m) \subseteq DOMAIN dag[m] /\ Owed(m)' \subseteq DOMAIN dag[m]
    BY <1>1 DEF Owed
  <2> QED
    BY <2>3, <2>4
<1>8. ClaimOK'
  <2>1. \A m \in Node : Claims(m)' = Claims(m)
    BY <1>3 DEF Claims
  <2> QED
    BY <1>1, <2>1 DEF IInv, ClaimOK
<1> QED
  BY <1>4, <1>5, <1>6, <1>7, <1>8 DEF IInv

(* A DECR settles one owed position of one node; the handler that brings   *)
(* the counter to 0 becomes the node's only claimant.                      *)
LEMMA DecrementStep ==
  ASSUME IInv, TypeOK', NEW n \in Node, NEW e \in handler[n].todo,
         Decrement(n, e)
  PROVE  IInv'
<1> DEFINE m == e[1]
           i == e[2]
           zero == IF remaining[m] = 1 THEN {m} ELSE {}
<1>1. /\ dag' = dag /\ job' = job /\ adds' = adds
      /\ api' = api /\ results' = results
      /\ remaining' = [remaining EXCEPT ![m] = @ - 1]
      /\ handler' = [handler EXCEPT ![n].todo = @ \ {e}, ![n].zero = zero]
      /\ handler[n].pc = "decrementing" /\ handler[n].zero = {}
  BY DEF Decrement, Hosted, bullVars
<1>2. /\ e = <<m, i>> /\ m \in DOMAIN dag /\ m \in Node
      /\ i \in DOMAIN dag[m] /\ dag[m][i] = n
      /\ i \in Owed(m) /\ remaining[m] \in Nat \ {0}
  BY <1>1, OwedByHandler
<1> HIDE DEF m, i
<1>3. /\ \A k \in Node \ {n} : handler'[k] = handler[k]
      /\ \A k \in Node : /\ handler'[k].pc = handler[k].pc
                         /\ handler'[k].ready = handler[k].ready
      /\ handler'[n].todo = handler[n].todo \ {e}
      /\ handler'[n].zero = zero
  BY <1>1 DEF IInv, TypeOK, HandlerType
<1>4. /\ remaining'[m] = remaining[m] - 1
      /\ \A k \in Node \ {m} : remaining'[k] = remaining[k]
  BY <1>1, <1>2 DEF IInv, TypeOK
<1>5. GraphOK' /\ ApiOK' /\ JobOK'
  BY <1>1, <1>3 DEF IInv, GraphOK, ApiOK, JobOK
<1>6. HandlerOK'
  <2>1. \A k \in Node : Dependents(k)' = Dependents(k)
    BY <1>1 DEF Dependents
  <2>2. HandlerOK /\ handler'[n].pc = "decrementing"
    BY <1>1, <1>3 DEF IInv
  <2>3. HandlerReached(n)'
    <3>1. /\ job' = job /\ results' = results
          /\ handler'[n].pc = handler[n].pc
          /\ handler'[n].todo \subseteq handler[n].todo
          /\ Dependents(n)' = Dependents(n)
      BY <1>1, <1>3, <2>1
    <3> QED
      BY <2>2, <3>1 DEF HandlerOK, HandlerReached
  <2>4. ASSUME NEW k \in Node \ {n} PROVE HandlerReached(k)'
    <3>1. /\ job' = job /\ results' = results
          /\ handler'[k] = handler[k] /\ Dependents(k)' = Dependents(k)
      BY <1>1, <1>3, <2>1
    <3> QED
      BY <2>2, <3>1 DEF HandlerOK, HandlerReached
  <2> QED
    BY <2>3, <2>4 DEF HandlerOK
<1>7. CounterExact'
  <2> SUFFICES ASSUME NEW k \in DOMAIN dag
               PROVE  remaining'[k] = Cardinality(Owed(k)')
    BY <1>1 DEF CounterExact
  <2>1. k \in Node /\ \A j \in DOMAIN dag[k] : dag[k][j] \in Node
    BY DagShape DEF IInv, TypeOK
  <2>2. remaining[k] = Cardinality(Owed(k))
    BY DEF IInv, CounterExact
  <2>3. ASSUME NEW j \in DOMAIN dag[k]
        PROVE  j \in Owed(k)' <=> (j \in Owed(k) /\ <<k, j>> # e)
    <3>1. CASE dag[k][j] = n
      BY <1>1, <1>3, <3>1 DEF Owed
    <3>2. CASE dag[k][j] # n
      <4>1. <<k, j>> # e
        BY <1>2, <3>2
      <4>2. handler'[dag[k][j]] = handler[dag[k][j]]
        BY <1>3, <2>1, <3>2
      <4> QED
        BY <1>1, <4>1, <4>2 DEF Owed
    <3> QED
      BY <3>1, <3>2
  <2>4. Owed(k) \subseteq DOMAIN dag[k] /\ Owed(k)' \subseteq DOMAIN dag[k]
    BY <1>1 DEF Owed
  <2>5. CASE k = m
    <3>1. Owed(k)' = Owed(k) \ {i}
      BY <1>2, <2>3, <2>4, <2>5
    <3>2. Cardinality(Owed(k) \ {i}) = Cardinality(Owed(k)) - 1
      BY <1>2, <2>5, OwedFinite, FS_RemoveElement DEF IInv, TypeOK
    <3> QED
      BY <1>4, <2>2, <2>5, <3>1, <3>2
  <2>6. CASE k # m
    <3>1. Owed(k)' = Owed(k)
      BY <1>2, <2>3, <2>4, <2>6
    <3> QED
      BY <1>4, <2>1, <2>2, <2>6, <3>1
  <2> QED
    BY <2>5, <2>6
<1>8. ClaimOK'
  <2>1. \A k \in Node \ {n} : Claims(k)' = Claims(k)
    BY <1>3 DEF Claims
  <2>2. Claims(n)' = Claims(n) \union zero
    BY <1>1, <1>3 DEF Claims
  <2>3. dag[m] # <<>>
    BY <1>2
  <2>4. \A k \in Node : m \notin Claims(k)
    BY <1>2 DEF IInv, ClaimOK
  <2>5. adds[m] = 0
    BY <1>2, <2>3 DEF IInv, ClaimOK, TypeOK
  <2>6. zero \subseteq {m} /\ (zero # {} => remaining'[m] = 0)
    BY <1>4
  <2> HIDE DEF zero
  <2>7. \A k \in Node : \A c \in Claims(k)' :
          /\ c \in DOMAIN dag
          /\ dag[c] # <<>>
          /\ remaining'[c] = 0
          /\ adds[c] = 0
    <3>0. DOMAIN dag \subseteq Node
      BY DagShape DEF IInv, TypeOK
    <3>1. ASSUME NEW k \in Node, NEW c \in Claims(k)
          PROVE  /\ c \in DOMAIN dag /\ dag[c] # <<>>
                 /\ remaining'[c] = 0 /\ adds[c] = 0
      BY <1>4, <2>4, <3>0, <3>1 DEF IInv, ClaimOK
    <3>2. ASSUME NEW c \in zero
          PROVE  /\ c \in DOMAIN dag /\ dag[c] # <<>>
                 /\ remaining'[c] = 0 /\ adds[c] = 0
      BY <1>2, <2>3, <2>5, <2>6
    <3> QED
      BY <2>1, <2>2, <3>1, <3>2
  <2>8. \A n1, n2 \in Node : n1 # n2 => Claims(n1)' \intersect Claims(n2)' = {}
    BY <2>1, <2>2, <2>4, <2>6 DEF IInv, ClaimOK
  <2>9. \A k \in DOMAIN dag : adds[k] > 0 /\ dag[k] # <<>> => remaining'[k] = 0
    BY <1>4, <2>5, DagShape DEF IInv, ClaimOK, TypeOK
  <2> QED
    BY <1>1, <2>7, <2>8, <2>9 DEF ClaimOK
<1> QED
  BY <1>5, <1>6, <1>7, <1>8 DEF IInv

LEMMA MarkReadyStep ==
  ASSUME IInv, TypeOK', NEW n \in Node, NEW m \in Node, MarkReady(n, m)
  PROVE  IInv'
<1>1. /\ dag' = dag /\ remaining' = remaining /\ job' = job /\ adds' = adds
      /\ api' = api /\ results' = results
      /\ handler' = [handler EXCEPT ![n].zero = {},
                                    ![n].ready = @ \union {m}]
      /\ handler[n].pc = "decrementing" /\ m \in handler[n].zero
  BY DEF MarkReady, Hosted, bullVars
<1>2. /\ \A k \in Node \ {n} : handler'[k] = handler[k]
      /\ \A k \in Node : /\ handler'[k].pc = handler[k].pc
                         /\ handler'[k].todo = handler[k].todo
      /\ handler'[n].zero = {}
      /\ handler'[n].ready = handler[n].ready \union {m}
  BY <1>1 DEF IInv, TypeOK, HandlerType
<1>3. GraphOK' /\ ApiOK' /\ JobOK'
  BY <1>1, <1>2 DEF IInv, GraphOK, ApiOK, JobOK
<1>4. HandlerOK'
  <2>1. \A k \in Node : Dependents(k)' = Dependents(k)
    BY <1>1 DEF Dependents
  <2>2. HandlerOK /\ handler'[n].pc = "decrementing"
    BY <1>1, <1>2 DEF IInv
  <2>3. HandlerReached(n)'
    <3>1. /\ job' = job /\ results' = results
          /\ handler'[n].pc = handler[n].pc
          /\ handler'[n].todo \subseteq handler[n].todo
          /\ Dependents(n)' = Dependents(n)
      BY <1>1, <1>2, <2>1
    <3> QED
      BY <2>2, <3>1 DEF HandlerOK, HandlerReached
  <2>4. ASSUME NEW k \in Node \ {n} PROVE HandlerReached(k)'
    <3>1. /\ job' = job /\ results' = results
          /\ handler'[k] = handler[k] /\ Dependents(k)' = Dependents(k)
      BY <1>1, <1>2, <2>1
    <3> QED
      BY <2>2, <3>1 DEF HandlerOK, HandlerReached
  <2> QED
    BY <2>3, <2>4 DEF HandlerOK
<1>5. CounterExact'
  BY <1>1, <1>2, CounterUnchanged DEF SameDecrements
<1>6. ClaimOK'
  <2>1. \A k \in Node : Claims(k)' \subseteq Claims(k)
    BY <1>1, <1>2 DEF Claims
  <2> QED
    BY <1>1, <2>1 DEF IInv, ClaimOK
<1> QED
  BY <1>3, <1>4, <1>5, <1>6 DEF IInv

LEMMA AddReadyStep ==
  ASSUME IInv, TypeOK', NEW n \in Node, NEW m \in Node, AddReady(n, m)
  PROVE  IInv'
<1>1. /\ dag' = dag /\ remaining' = remaining /\ results' = results
      /\ api' = api
      /\ handler' = [handler EXCEPT ![n].ready = @ \ {m}]
      /\ adds' = [adds EXCEPT ![m] = @ + 1]
      /\ job' = [job EXCEPT ![m] = [NoJob EXCEPT !.state = "waiting"]]
      /\ handler[n].pc = "decrementing" /\ m \in handler[n].ready
      /\ handler[n].zero = {}
  BY DEF AddReady, Enqueueing, Hosted, redisVars, QueueAdd
<1>2. m \in Claims(n)
  BY <1>1 DEF Claims
<1>3. /\ adds[m] = 0 /\ m \in DOMAIN dag /\ dag[m] # <<>> /\ remaining[m] = 0
      /\ \A k \in Node \ {n} : m \notin Claims(k)
  BY <1>2 DEF IInv, ClaimOK
<1>4. /\ \A k \in Node : k # m => job'[k] = job[k] /\ adds'[k] = adds[k]
      /\ job'[m].state = "waiting" /\ adds'[m] = 1
  BY <1>1, <1>3 DEF IInv, TypeOK, NoJob
<1>5. job[m].state = "absent" /\ handler[m].pc = "idle" /\ m \notin results
  BY <1>3 DEF IInv, JobOK
<1>6. /\ \A k \in Node \ {n} : handler'[k] = handler[k]
      /\ \A k \in Node : /\ handler'[k].pc = handler[k].pc
                         /\ handler'[k].todo = handler[k].todo
                         /\ handler'[k].zero = handler[k].zero
      /\ handler'[n].ready = handler[n].ready \ {m}
  BY <1>1 DEF IInv, TypeOK, HandlerType
<1>7. GraphOK' /\ ApiOK'
  <2>1. m \notin api.roots
    BY <1>3 DEF IInv, ApiOK
  <2>2. api.roots \subseteq Node
    BY DEF IInv, TypeOK
  <2> QED
    BY <1>1, <1>4, <2>1, <2>2 DEF IInv, GraphOK, ApiOK
<1>8. JobOK'
  BY <1>1, <1>3, <1>4, <1>5, <1>6 DEF IInv, JobOK
<1>9. HandlerOK'
  <2>1. \A k \in Node : Dependents(k)' = Dependents(k)
    BY <1>1 DEF Dependents
  <2> QED
    BY <1>1, <1>4, <1>5, <1>6, <2>1 DEF IInv, HandlerOK, HandlerReached
<1>10. CounterExact'
  BY <1>1, <1>6, CounterUnchanged DEF SameDecrements
<1>11. ClaimOK'
  <2>1. /\ \A k \in Node \ {n} : Claims(k)' = Claims(k)
        /\ Claims(n)' = Claims(n) \ {m}
    BY <1>1, <1>6 DEF Claims
  <2>2. \A k \in Node : Claims(k)' \subseteq Claims(k) /\ m \notin Claims(k)'
    BY <1>3, <2>1
  <2>3. DOMAIN dag \subseteq Node
    BY DagShape DEF IInv, TypeOK
  <2> QED
    BY <1>1, <1>3, <1>4, <2>2, <2>3 DEF IInv, ClaimOK
<1> QED
  BY <1>7, <1>8, <1>9, <1>10, <1>11 DEF IInv

-----------------------------------------------------------------------------
(* The invariant is inductive.                                             *)
LEMMA NextIInv == IInv /\ [Next]_vars => IInv'
<1> SUFFICES ASSUME IInv, [Next]_vars PROVE IInv'
  OBVIOUS
<1>t. TypeOK'
  BY TypeStep
<1>1. ASSUME NEW g \in Requests, CreateDag(g) \/ RejectDag(g) PROVE IInv'
  BY <1>1, <1>t, CreateDagStep, QuietApi, QuietStep
<1>2. CASE ApiStep
  BY <1>2, <1>t, AddRootStep, QuietApi, QuietStep DEF ApiStep
<1>3. ASSUME NEW w \in Worker, NEW n \in Node,
             TakeJob(w, n) \/ AttemptStep(w, n)
      PROVE  IInv'
  BY <1>3, <1>t, QuietAttempt, QuietStep, DecidingActions
  DEF AttemptStep, EndStep
<1>4. ASSUME NEW n \in Node, HandlerStep(n) PROVE IInv'
  <2>1. CASE StoreResult(n) \/ MarkCompleted(n)
    BY <2>1, <1>t, StoreResultStep, MarkCompletedStep
  <2>2. CASE DeadLetter(n) \/ MarkFailed(n)
    BY <2>2, <1>t, QuietHandler, QuietStep
  <2>3. CASE \E e \in handler[n].todo : Decrement(n, e)
    BY <2>3, <1>t, DecrementStep
  <2>4. ASSUME NEW m \in Node, MarkReady(n, m) \/ AddReady(n, m) PROVE IInv'
    BY <2>4, <1>t, MarkReadyStep, AddReadyStep
  <2>5. ASSUME NEW m \in Node, SetJobId(n, m) PROVE IInv'
    BY <2>5, <1>t, QuietHandler, QuietStep
  <2> QED
    BY <1>4, <2>1, <2>2, <2>3, <2>4, <2>5 DEF HandlerStep
<1>5. ASSUME NEW n \in Node, StalledStep(n) PROVE IInv'
  <2>1. CASE RecoverStalled(n)
    BY <2>1, <1>t, QuietStalled, QuietStep
  <2>2. ASSUME NEW w \in Worker, FailStalled(w, n) PROVE IInv'
    BY <2>2, <1>t, DecidingActions
  <2> QED
    BY <1>5, <2>1, <2>2 DEF StalledStep
<1>6. ASSUME NEW w \in Worker, QuitRedis(w) PROVE IInv'
  BY <1>6, <1>t, QuietFault, QuietStep
<1>7. CASE FaultStep
  BY <1>7, <1>t, QuietApi, QuietFault, QuietStep DEF FaultStep
<1>8. CASE UNCHANGED vars
  <2>1. Quiet
    BY <1>8 DEF Quiet, vars
  <2> QED
    BY <2>1, <1>t, QuietStep
<1> QED
  BY <1>1, <1>2, <1>3, <1>4, <1>5, <1>6, <1>7, <1>8 DEF Next

THEOREM Invariance == Spec => []IInv
<1>1. Init => IInv
  BY InitIInv
<1>2. IInv /\ [Next]_vars => IInv'
  BY NextIInv
<1> QED
  BY <1>1, <1>2, PTL DEF Spec

(* Every variable of the execution stays in its domain.                    *)
THEOREM TypeCorrect == Spec => []TypeOK
<1>1. IInv => TypeOK
  BY DEF IInv
<1> QED
  BY <1>1, Invariance, PTL

(* deps-remaining counts the DECRs still owed, for every graph and fault.  *)
THEOREM CounterIsExact == Spec => []CounterExact
<1>1. IInv => CounterExact
  BY DEF IInv
<1> QED
  BY <1>1, Invariance, PTL

(* No node is enqueued twice, for every graph, number of workers and       *)
(* faults.                                                                 *)
THEOREM NoDoubleEnqueue == Spec => []EnqueuedOnce
<1>1. IInv => EnqueuedOnce
  BY DEF IInv, JobOK, EnqueuedOnce
<1> QED
  BY <1>1, Invariance, PTL

(* A node that owes nothing has the output of every dependency.            *)
LEMMA NothingOwed ==
  ASSUME IInv, NEW n \in DOMAIN dag, remaining[n] = 0
  PROVE  Deps(dag, n) \subseteq results
<1>1. Owed(n) = {}
  BY OwedFinite, FS_EmptySet DEF IInv, CounterExact, TypeOK
<1> SUFFICES ASSUME NEW i \in DOMAIN dag[n] PROVE dag[n][i] \in results
  BY DEF Deps
<1>2. handler[dag[n][i]].pc = "decrementing"
  BY <1>1 DEF Owed
<1>3. dag[n][i] \in Node
  BY DagShape DEF IInv, TypeOK
<1> QED
  BY <1>2, <1>3 DEF IInv, HandlerOK, HandlerReached

LEMMA HasInputs == IInv => InputsReadable
<1> SUFFICES ASSUME IInv, NEW n \in DOMAIN dag, adds[n] > 0
             PROVE  Deps(dag, n) \subseteq results
  BY DEF InputsReadable
<1>1. CASE dag[n] = <<>>
  BY <1>1 DEF Deps
<1>2. CASE dag[n] # <<>>
  BY <1>2, NothingOwed DEF IInv, ClaimOK
<1> QED
  BY <1>1, <1>2

(* Whoever runs a node's job finds the output of all of its dependencies.  *)
THEOREM InputsAreReadable == Spec => []InputsReadable
BY HasInputs, Invariance, PTL

-----------------------------------------------------------------------------
(* The code implements the contract.                                       *)

(* A step that decides, adds and publishes nothing is a stutter.           *)
LEMMA SamePhases ==
  ASSUME dag' = dag, results' = results,
         \A n \in Node : \/ job'[n].state = job[n].state
                         \/ job'[n].state \in Live /\ job[n].state \in Live
  PROVE  UNCHANGED Contract!vars
<1>1. \A n \in Node : Phase(n)' = Phase(n)
  BY DEF Phase, Live
<1> QED
  BY <1>1 DEF Contract!vars

LEMMA QuietImplements == Quiet => UNCHANGED Contract!vars
BY SamePhases DEF Quiet

(* The contract's phase of one node moves, the others' stay.               *)
LEMMA OnePhase ==
  ASSUME NEW n \in Node,
         \A m \in Node \ {n} : job'[m] = job[m]
                               /\ (m \in results' <=> m \in results)
  PROVE  [m \in Node |-> Phase(m)]'
           = [[m \in Node |-> Phase(m)] EXCEPT ![n] = Phase(n)']
<1>1. \A m \in Node \ {n} : Phase(m)' = Phase(m)
  BY DEF Phase
<1> QED
  BY <1>1

LEMMA AddImplements ==
  ASSUME IInv, NEW n \in Node, QueueAdd(n), dag' = dag, results' = results,
         n \in DOMAIN dag, adds[n] = 0,
         Deps(dag, n) \subseteq results
  PROVE  Contract!Release(n)
<1>1. job[n].state = "absent" /\ n \notin results
  BY DEF IInv, JobOK
<1>2. /\ job'[n].state = "waiting"
      /\ \A m \in Node \ {n} : job'[m] = job[m]
  BY DEF QueueAdd, NoJob, IInv, TypeOK
<1>3. Phase(n) = "blocked" /\ Phase(n)' = "released"
  BY <1>1, <1>2 DEF Phase
<1>4. \A d \in Deps(dag, n) : d \in Node /\ Phase(d) = "done"
  <2>1. results \subseteq Node
    BY DEF IInv, TypeOK
  <2>2. \A d \in results : job[d].state = "completed"
    BY <2>1 DEF IInv, JobOK
  <2> QED
    BY <2>1, <2>2 DEF Phase
<1> QED
  BY <1>2, <1>3, <1>4, OnePhase DEF Contract!Release, Contract!Deps, Deps

LEMMA FailImplements ==
  ASSUME IInv, NEW n \in Node, dag' = dag, results' = results,
         job[n].state = "active", job'[n].state = "failed",
         \A m \in Node \ {n} : job'[m] = job[m]
  PROVE  Contract!Fail(n)
<1>1. n \notin results
  BY DEF IInv, JobOK
<1>2. Phase(n) = "released" /\ Phase(n)' = "failed"
  BY <1>1 DEF Phase
<1> QED
  BY <1>2, OnePhase DEF Contract!Fail

LEMMA StepImplements == IInv /\ [Next]_vars => [Contract!Next]_Contract!vars
<1> SUFFICES ASSUME IInv, [Next]_vars PROVE [Contract!Next]_Contract!vars
  OBVIOUS
<1>j. job \in [Node -> JobType]
  BY DEF IInv, TypeOK
<1>1. ASSUME NEW g \in Requests, CreateDag(g) PROVE Contract!Accept
  <2>1. dag = NoDag
    BY <1>1 DEF CreateDag, IInv, ApiOK
  <2>2. \A n \in Node : Phase(n)' = Phase(n)
    BY <1>1 DEF CreateDag, bullVars, Phase
  <2> QED
    BY <1>1, <2>1, <2>2 DEF CreateDag, Contract!Accept, Contract!NoDag, NoDag
<1>2. ASSUME NEW n \in Node, AddRoot(n) PROVE Contract!Release(n)
  <2>1. n \in DOMAIN dag /\ dag[n] = <<>> /\ adds[n] = 0
    BY <1>2 DEF AddRoot, IInv, ApiOK
  <2>2. Deps(dag, n) = {}
    BY <2>1 DEF Deps
  <2> QED
    BY <1>2, <2>1, <2>2, AddImplements DEF AddRoot, redisVars
<1>3. ASSUME NEW n \in Node, NEW m \in Node, AddReady(n, m)
      PROVE  Contract!Release(m)
  <2>1. m \in Claims(n)
    BY <1>3 DEF AddReady, Claims
  <2>2. m \in DOMAIN dag /\ remaining[m] = 0 /\ adds[m] = 0
    BY <2>1 DEF IInv, ClaimOK
  <2> QED
    BY <1>3, <2>2, NothingOwed, AddImplements DEF AddReady, redisVars
<1>4. ASSUME NEW n \in Node, StoreResult(n) PROVE Contract!Publish(n)
  <2>1. job[n].state = "completed"
    BY <1>4 DEF StoreResult, Hosted, IInv, HandlerOK, HandlerReached
  <2>2. dag' = dag /\ job' = job /\ results' = results \union {n}
    BY <1>4 DEF StoreResult, bullVars
  <2>3. n \notin results
    BY <1>4 DEF StoreResult, Hosted, IInv, HandlerOK, HandlerReached
  <2>4. Phase(n) = "released" /\ Phase(n)' = "done"
    BY <2>1, <2>2, <2>3 DEF Phase
  <2> QED
    BY <2>2, <2>4, OnePhase DEF Contract!Publish
<1>5. ASSUME NEW w \in Worker, NEW n \in Node, ExhaustJob(w, n)
      PROVE  Contract!Fail(n)
  BY <1>5, <1>j, FailImplements DEF ExhaustJob, redisVars, JobType
<1>6. ASSUME NEW w \in Worker, NEW n \in Node, FailStalled(w, n)
      PROVE  Contract!Fail(n)
  BY <1>6, <1>j, FailImplements DEF FailStalled, redisVars, JobType
<1>7. ASSUME NEW w \in Worker, NEW n \in Node, CompleteJob(w, n)
      PROVE  UNCHANGED Contract!vars
  <2>1. \A m \in Node : Phase(m)' = Phase(m)
    BY <1>7, <1>j DEF CompleteJob, redisVars, Phase, JobType
  <2> QED
    BY <1>7, <2>1 DEF CompleteJob, redisVars, Contract!vars
<1>8. ASSUME NEW n \in Node,
             \/ MarkCompleted(n)
             \/ \E e \in handler[n].todo : Decrement(n, e)
             \/ \E m \in Node : MarkReady(n, m)
      PROVE  UNCHANGED Contract!vars
  BY <1>8, SamePhases DEF MarkCompleted, Decrement, MarkReady, bullVars
<1>9. ASSUME Quiet PROVE UNCHANGED Contract!vars
  BY <1>9, QuietImplements
<1>10. CASE UNCHANGED vars
  BY <1>10, SamePhases DEF vars
<1>a. ASSUME NEW g \in Requests, CreateDag(g) \/ RejectDag(g)
      PROVE  [Contract!Next]_Contract!vars
  BY <1>a, <1>1, <1>9, QuietApi DEF Contract!Next
<1>b. CASE ApiStep
  BY <1>b, <1>2, <1>9, QuietApi DEF ApiStep, Contract!Next
<1>c. ASSUME NEW w \in Worker, NEW n \in Node,
             TakeJob(w, n) \/ AttemptStep(w, n)
      PROVE  [Contract!Next]_Contract!vars
  BY <1>c, <1>5, <1>7, <1>9, QuietAttempt
  DEF AttemptStep, EndStep, Contract!Next
<1>d. ASSUME NEW n \in Node, HandlerStep(n)
      PROVE  [Contract!Next]_Contract!vars
  BY <1>d, <1>3, <1>4, <1>8, <1>9, QuietHandler DEF HandlerStep, Contract!Next
<1>e. ASSUME NEW n \in Node, StalledStep(n)
      PROVE  [Contract!Next]_Contract!vars
  BY <1>e, <1>6, <1>9, QuietStalled DEF StalledStep, Contract!Next
<1>f. CASE FaultStep \/ \E w \in Worker : QuitRedis(w)
  BY <1>f, <1>9, QuietApi, QuietFault DEF FaultStep
<1> QED
  BY <1>10, <1>a, <1>b, <1>c, <1>d, <1>e, <1>f DEF Next

(* The detailed execution implements what POST /workflows/dag promises, for *)
(* every graph, number of workers and faults: released at most once, only  *)
(* when every input can be read, and decided at most once.                 *)
THEOREM ContractHolds == Spec => ImplementsContract
<1>1. Init => Contract!Init
  BY DEF Init, Contract!Init, Contract!NoDag, NoDag, Phase, NoJob
<1> QED
  BY <1>1, StepImplements, Invariance, PTL
  DEF Spec, ImplementsContract, Contract!Spec

-----------------------------------------------------------------------------
(* What a failed node leaves behind: one dead letter at most, and all that *)
(* is below it pending.                                                    *)

(* Only a node with a job is attempted.                                    *)
AttemptOK ==
  \A w \in Worker, n \in Node : attempt[w][n] # "none" => adds[n] > 0

(* A node with dependencies that no handler has found ready is pending.    *)
Untouched(n) == /\ n \in DOMAIN dag /\ dag[n] # <<>>
                /\ adds[n] = 0
                /\ \A k \in Node : n \notin handler[k].ready

PendingOK == \A n \in Node : Untouched(n) => status[n] = "pending"

(* Only the 'failed' handler of a failed job adds a dead letter, and it    *)
(* goes on from there.                                                     *)
DeadLetterOK ==
  \A n \in Node :
    /\ handler[n].pc \in Ended => job[n].state = "failed"
    /\ dlq[n] <= 1
    /\ dlq[n] > 0 => handler[n].pc \in {"deadLettered", "failureMarked"}

FInv == IInv /\ AttemptOK /\ PendingOK /\ DeadLetterOK

-----------------------------------------------------------------------------
(* AttemptOK.                                                              *)

LEMMA AddGrows ==
  ASSUME IInv, NEW n \in Node, QueueAdd(n)
  PROVE  /\ \A m \in Node : adds[m] > 0 => adds'[m] > 0
         /\ adds' \in [Node -> Nat] /\ adds'[n] > 0
         /\ \A m \in Node : m # n => job'[m] = job[m] /\ adds'[m] = adds[m]
BY DEF QueueAdd, IInv, TypeOK

LEMMA AttemptStepOK ==
  ASSUME FInv, [Next]_vars
  PROVE  AttemptOK'
<1>a. AttemptOK /\ attempt \in [Worker -> [Node -> AttemptPhases]]
  BY DEF FInv, IInv, TypeOK
<1>0. ASSUME UNCHANGED <<attempt, adds>> PROVE AttemptOK'
  BY <1>0, <1>a DEF AttemptOK
<1>1. ASSUME NEW g \in Requests, CreateDag(g) \/ RejectDag(g) PROVE AttemptOK'
  BY <1>1, <1>0 DEF CreateDag, RejectDag, bullVars
<1>2. CASE ApiStep
  <2>1. ASSUME NEW n \in Node, SetRootJobId(n) PROVE AttemptOK'
    BY <2>1, <1>0 DEF SetRootJobId, bullVars, processVars
  <2>2. ASSUME NEW n \in Node, AddRoot(n) PROVE AttemptOK'
    BY <2>2, <1>a, AddGrows DEF AddRoot, AttemptOK, FInv
  <2> QED
    BY <1>2, <2>1, <2>2 DEF ApiStep
<1>3. ASSUME NEW w \in Worker, NEW n \in Node, TakeJob(w, n) PROVE AttemptOK'
  <2>1. adds[n] > 0
    BY <1>3 DEF TakeJob, FInv, IInv, JobOK, TypeOK
  <2> QED
    BY <1>3, <1>a, <2>1 DEF TakeJob, AttemptOK
<1>4. ASSUME NEW w \in Worker, NEW n \in Node,
             MarkActive(w, n) \/ ReadDependencies(w, n)
      PROVE  AttemptOK'
  BY <1>4, <1>a DEF MarkActive, ReadDependencies, bullVars, AttemptOK
<1>5. ASSUME NEW w \in Worker, NEW n \in Node, EndStep(w, n) PROVE AttemptOK'
  <2>1. adds' = adds /\ EndAttempt(w, n)
    BY <1>5 DEF EndStep, CompleteJob, RetryJob, ExhaustJob, DiscardAttempt,
       bullVars
  <2> QED
    BY <1>a, <2>1 DEF EndAttempt, AttemptOK
<1>6. ASSUME NEW n \in Node, HandlerStep(n) PROVE AttemptOK'
  <2>1. CASE StoreResult(n) \/ MarkCompleted(n) \/ DeadLetter(n) \/ MarkFailed(n)
    BY <2>1, <1>0 DEF StoreResult, MarkCompleted, DeadLetter, MarkFailed, bullVars
  <2>2. CASE \E e \in handler[n].todo : Decrement(n, e)
    BY <2>2, <1>0 DEF Decrement, bullVars
  <2>3. ASSUME NEW m \in Node, MarkReady(n, m) \/ SetJobId(n, m) PROVE AttemptOK'
    BY <2>3, <1>0 DEF MarkReady, SetJobId, bullVars, processVars
  <2>4. ASSUME NEW m \in Node, AddReady(n, m) PROVE AttemptOK'
    BY <2>4, <1>a, AddGrows DEF AddReady, AttemptOK, FInv
  <2> QED
    BY <1>6, <2>1, <2>2, <2>3, <2>4 DEF HandlerStep
<1>7. ASSUME NEW n \in Node, StalledStep(n) PROVE AttemptOK'
  BY <1>7, <1>0 DEF StalledStep, RecoverStalled, FailStalled, processVars
<1>8. CASE FaultStep \/ \E w \in Worker : QuitRedis(w)
  <2>1. ASSUME NEW w \in Worker, WorkerCrash(w) PROVE AttemptOK'
    BY <2>1, <1>a DEF WorkerCrash, AttemptOK
  <2>2. ASSUME NEW w \in Worker, BeginShutdown(w) \/ QuitRedis(w) PROVE AttemptOK'
    BY <2>2, <1>0 DEF BeginShutdown, QuitRedis, bullVars
  <2>3. ASSUME NEW w \in Worker, NEW n \in Node, LoseLock(w, n) PROVE AttemptOK'
    BY <2>3, <1>0 DEF LoseLock
  <2>4. CASE ApiCrash
    BY <2>4, <1>0 DEF ApiCrash, bullVars
  <2> QED
    BY <1>8, <2>1, <2>2, <2>3, <2>4 DEF FaultStep
<1>9. CASE UNCHANGED vars
  BY <1>9, <1>0 DEF vars
<1> QED
  BY <1>1, <1>2, <1>3, <1>4, <1>5, <1>6, <1>7, <1>8, <1>9 DEF Next, AttemptStep

-----------------------------------------------------------------------------
(* PendingOK.                                                              *)

(* No handler forgets a ready node but by enqueueing it, and a status      *)
(* changes only for a node that has a job or is found ready.               *)
Keeps ==
  /\ dag' = dag
  /\ \A n \in Node : adds[n] > 0 => adds'[n] > 0
  /\ \A n, k \in Node : n \in handler[k].ready =>
                          n \in handler'[k].ready \/ adds'[n] > 0
  /\ \A n \in Node : status'[n] # status[n] =>
                       adds'[n] > 0 \/ \E k \in Node : n \in handler'[k].ready

LEMMA KeepsPending ==
  ASSUME FInv, Keeps, adds' \in [Node -> Nat]
  PROVE  PendingOK'
<1> SUFFICES ASSUME NEW n \in Node, Untouched(n)' PROVE status'[n] = "pending"
  BY DEF PendingOK
<1>1. adds \in [Node -> Nat]
  BY DEF FInv, IInv, TypeOK
<1>2. Untouched(n)
  BY <1>1 DEF Untouched, Keeps
<1>3. status'[n] = status[n]
  BY DEF Untouched, Keeps
<1> QED
  BY <1>2, <1>3 DEF FInv, PendingOK

(* A quiet step keeps; its markActive and markFailed are of nodes that     *)
(* have a job.                                                             *)
LEMMA QuietKeeps ==
  ASSUME FInv, Quiet,
         \/ status' = status
         \/ \E n \in Node : /\ adds[n] > 0
                            /\ \A m \in Node : m # n => status'[m] = status[m]
  PROVE  Keeps
BY DEF Quiet, Keeps

(* A node that a handler works for has a job.                              *)
LEMMA HandledHasJob ==
  ASSUME IInv, NEW n \in Node, handler[n].pc # "idle"
  PROVE  adds[n] > 0
BY DEF IInv, JobOK, TypeOK

(* A decided job's new handler replaces an idle one.                       *)
LEMMA DecisionKeeps ==
  ASSUME IInv, NEW n \in Node, job[n].state = "active",
         dag' = dag, adds' = adds, status' = status,
         \A m \in Node : m # n => handler'[m] = handler[m]
  PROVE  Keeps
<1>1. handler[n].ready = {}
  BY DEF IInv, JobOK, HandlerOK, HandlerReached
<1> QED
  BY <1>1 DEF Keeps

LEMMA PendingStepOK ==
  ASSUME FInv, [Next]_vars
  PROVE  PendingOK'
<1>i. /\ IInv /\ TypeOK
  BY DEF FInv, IInv
<1>n. TypeOK' /\ adds' \in [Node -> Nat]
  BY <1>i, TypeStep DEF TypeOK
<1>h. handler \in [Node -> HandlerType] /\ status \in [Node -> StatusValues]
  BY <1>i DEF TypeOK
<1> SUFFICES (\E g \in Requests : CreateDag(g)) \/ Keeps
  <2>1. CASE Keeps
    BY <2>1, <1>n, KeepsPending
  <2>2. ASSUME NEW g \in Requests, CreateDag(g) PROVE PendingOK'
    <3>1. DOMAIN g \subseteq Node
      BY RequestsAssumption
    <3> QED
      BY <2>2, <3>1 DEF CreateDag, PendingOK, Untouched
  <2> QED
    BY <2>1, <2>2
<1>1. CASE \/ \E g \in Requests : RejectDag(g)
           \/ \E n \in Node : SetRootJobId(n)
           \/ ApiCrash
  <2>1. Quiet
    BY <1>1, <1>i, QuietApi
  <2>2. status' = status
    BY <1>1 DEF RejectDag, SetRootJobId, ApiCrash, redisVars
  <2> QED
    BY <2>1, <2>2, QuietKeeps
<1>2. ASSUME NEW n \in Node, AddRoot(n) PROVE Keeps
  BY <1>2, <1>i, AddGrows DEF AddRoot, redisVars, Keeps
<1>3. ASSUME NEW w \in Worker, NEW n \in Node,
             \/ TakeJob(w, n) \/ MarkActive(w, n) \/ ReadDependencies(w, n)
             \/ RetryJob(w, n) \/ DiscardAttempt(w, n)
      PROVE  Keeps
  <2>1. Quiet
    BY <1>3, <1>i, QuietAttempt
  <2>2. CASE MarkActive(w, n)
    <3>1. adds[n] > 0
      BY <2>2 DEF MarkActive, FInv, AttemptOK
    <3>2. \A m \in Node : m # n => status'[m] = status[m]
      BY <2>2, <1>h DEF MarkActive
    <3> QED
      BY <2>1, <3>1, <3>2, QuietKeeps
  <2>3. CASE ~ MarkActive(w, n)
    <3>1. status' = status
      BY <1>3, <2>3 DEF TakeJob, ReadDependencies, RetryJob, DiscardAttempt,
         redisVars
    <3> QED
      BY <2>1, <3>1, QuietKeeps
  <2> QED
    BY <2>2, <2>3
<1>4. ASSUME NEW w \in Worker, NEW n \in Node,
             CompleteJob(w, n) \/ ExhaustJob(w, n) \/ FailStalled(w, n)
      PROVE  Keeps
  <2>1. job[n].state = "active" /\ dag' = dag /\ adds' = adds /\ status' = status
    BY <1>4 DEF CompleteJob, ExhaustJob, FailStalled, redisVars
  <2>2. \A m \in Node : m # n => handler'[m] = handler[m]
    BY <1>4, <1>h DEF CompleteJob, ExhaustJob, FailStalled
  <2> QED
    BY <1>i, <2>1, <2>2, DecisionKeeps
<1>5. ASSUME NEW n \in Node, RecoverStalled(n) PROVE Keeps
  <2>1. Quiet /\ status' = status
    BY <1>5, <1>i, QuietStalled DEF RecoverStalled, redisVars
  <2> QED
    BY <2>1, QuietKeeps
<1>6. ASSUME NEW n \in Node, HandlerStep(n) PROVE Keeps
  <2>1. CASE StoreResult(n)
    BY <2>1, <1>h DEF StoreResult, bullVars, Keeps, HandlerType
  <2>2. CASE MarkCompleted(n)
    <3>1. adds[n] > 0
      BY <2>2, <1>i, HandledHasJob DEF MarkCompleted, Hosted
    <3>2. \A m \in Node : m # n => status'[m] = status[m]
      BY <2>2, <1>h DEF MarkCompleted
    <3>3. \A k \in Node : handler'[k].ready = handler[k].ready
      BY <2>2, <1>h DEF MarkCompleted, HandlerType
    <3> QED
      BY <2>2, <3>1, <3>2, <3>3 DEF MarkCompleted, bullVars, Keeps
  <2>3. CASE DeadLetter(n)
    <3>1. Quiet
      BY <2>3, <1>i, QuietHandler
    <3>2. status' = status
      BY <2>3 DEF DeadLetter, redisVars
    <3> QED
      BY <3>1, <3>2, QuietKeeps
  <2>4. CASE MarkFailed(n)
    <3>1. Quiet
      BY <2>4, <1>i, QuietHandler
    <3>2. adds[n] > 0
      BY <2>4, <1>i, HandledHasJob DEF MarkFailed, Hosted
    <3>3. \A m \in Node : m # n => status'[m] = status[m]
      BY <2>4, <1>h DEF MarkFailed
    <3> QED
      BY <3>1, <3>2, <3>3, QuietKeeps
  <2>5. ASSUME NEW e \in handler[n].todo, Decrement(n, e) PROVE Keeps
    <3>1. \A k \in Node : handler'[k].ready = handler[k].ready
      BY <2>5, <1>h DEF Decrement, HandlerType
    <3> QED
      BY <2>5, <3>1 DEF Decrement, bullVars, Keeps
  <2>6. ASSUME NEW m \in Node, MarkReady(n, m) PROVE Keeps
    <3>1. /\ handler'[n].ready = handler[n].ready \union {m}
          /\ \A k \in Node : k # n => handler'[k] = handler[k]
      BY <2>6, <1>h DEF MarkReady, HandlerType
    <3>2. \A k \in Node : k # m => status'[k] = status[k]
      BY <2>6, <1>h DEF MarkReady
    <3> QED
      BY <2>6, <3>1, <3>2 DEF MarkReady, bullVars, Keeps
  <2>7. ASSUME NEW m \in Node, SetJobId(n, m) PROVE Keeps
    <3>1. Quiet
      BY <2>7, <1>i, QuietHandler
    <3>2. status' = status
      BY <2>7 DEF SetJobId
    <3> QED
      BY <3>1, <3>2, QuietKeeps
  <2>8. ASSUME NEW m \in Node, AddReady(n, m) PROVE Keeps
    <3>1. /\ handler'[n].ready = handler[n].ready \ {m}
          /\ \A k \in Node : k # n => handler'[k] = handler[k]
      BY <2>8, <1>h DEF AddReady, HandlerType
    <3> QED
      BY <2>8, <1>i, <3>1, AddGrows DEF AddReady, redisVars, Keeps
  <2> QED
    BY <1>6, <2>1, <2>2, <2>3, <2>4, <2>5, <2>6, <2>7, <2>8 DEF HandlerStep
<1>7. ASSUME NEW w \in Worker,
             \/ WorkerCrash(w) \/ BeginShutdown(w) \/ QuitRedis(w)
             \/ \E n \in Node : LoseLock(w, n)
      PROVE  Keeps
  <2>1. Quiet
    BY <1>7, <1>i, QuietFault
  <2>2. status' = status
    BY <1>7 DEF WorkerCrash, BeginShutdown, QuitRedis, LoseLock, redisVars
  <2> QED
    BY <2>1, <2>2, QuietKeeps
<1>8. CASE UNCHANGED vars
  BY <1>8 DEF vars, Keeps
<1> QED
  BY <1>1, <1>2, <1>3, <1>4, <1>5, <1>6, <1>7, <1>8
  DEF Next, ApiStep, AttemptStep, EndStep, StalledStep, FaultStep

-----------------------------------------------------------------------------
(* DeadLetterOK.                                                           *)

(* A failed job stays failed, a handler's end and the dead letters stay.   *)
Mourns ==
  \A n \in Node :
    /\ job[n].state = "failed" => job'[n].state = "failed"
    /\ handler'[n].pc = handler[n].pc
    /\ dlq'[n] = dlq[n]

LEMMA MournsOK ==
  ASSUME FInv, Mourns
  PROVE  DeadLetterOK'
BY DEF FInv, DeadLetterOK, Mourns

(* A handler replaces an idle one: no dead letter was added for the job.   *)
LEMMA DecisionMourns ==
  ASSUME FInv, NEW n \in Node, job[n].state = "active", dlq' = dlq,
         handler'[n].pc \in Ended => job'[n].state = "failed",
         handler'[n].pc \in {"idle", "completed", "exhausted"},
         \A m \in Node : m # n => /\ handler'[m] = handler[m]
                                  /\ job'[m] = job[m]
  PROVE  DeadLetterOK'
<1>1. handler[n].pc = "idle" /\ dlq \in [Node -> Nat]
  BY DEF FInv, IInv, JobOK, TypeOK
<1>2. dlq[n] = 0
  BY <1>1 DEF FInv, DeadLetterOK
<1> QED
  BY <1>2 DEF FInv, DeadLetterOK

(* queue.add is of a node that has no job yet.                             *)
LEMMA AddMourns ==
  ASSUME FInv, NEW n \in Node, QueueAdd(n), adds[n] = 0, dlq' = dlq,
         \A m \in Node : handler'[m].pc = handler[m].pc
  PROVE  DeadLetterOK'
<1>1. job[n].state = "absent"
  BY DEF FInv, IInv, JobOK
<1>2. \A m \in Node : m # n => job'[m] = job[m]
  BY AddGrows DEF FInv
<1> QED
  BY <1>1, <1>2, MournsOK DEF Mourns

LEMMA DeadLetterStepOK ==
  ASSUME FInv, [Next]_vars
  PROVE  DeadLetterOK'
<1>i. /\ IInv /\ TypeOK /\ DeadLetterOK
  BY DEF FInv, IInv
<1>h. /\ handler \in [Node -> HandlerType] /\ job \in [Node -> JobType]
      /\ dlq \in [Node -> Nat]
  BY <1>i DEF TypeOK
<1>0. ASSUME UNCHANGED <<job, dlq, handler>> PROVE DeadLetterOK'
  BY <1>0, MournsOK DEF Mourns
<1>1. ASSUME NEW g \in Requests, CreateDag(g) \/ RejectDag(g) PROVE DeadLetterOK'
  BY <1>1, <1>0 DEF CreateDag, RejectDag, bullVars
<1>2. ASSUME NEW n \in Node, SetRootJobId(n) \/ AddRoot(n) PROVE DeadLetterOK'
  <2>1. CASE SetRootJobId(n)
    BY <2>1, <1>0 DEF SetRootJobId, bullVars, processVars
  <2>2. CASE AddRoot(n)
    BY <2>2, <1>i, AddMourns DEF AddRoot, IInv, ApiOK
  <2> QED
    BY <1>2, <2>1, <2>2
<1>3. ASSUME NEW w \in Worker, NEW n \in Node, TakeJob(w, n) \/ AttemptStep(w, n)
      PROVE  DeadLetterOK'
  <2>1. CASE TakeJob(w, n) \/ RetryJob(w, n)
    BY <2>1, <1>h, MournsOK DEF TakeJob, RetryJob, Mourns, JobType
  <2>2. CASE MarkActive(w, n) \/ ReadDependencies(w, n) \/ DiscardAttempt(w, n)
    BY <2>2, <1>0 DEF MarkActive, ReadDependencies, DiscardAttempt, bullVars
  <2>3. CASE CompleteJob(w, n)
    <3>1. /\ handler'[n].pc = "completed" /\ job[n].state = "active" /\ dlq' = dlq
          /\ \A m \in Node : m # n => handler'[m] = handler[m] /\ job'[m] = job[m]
      BY <2>3, <1>h DEF CompleteJob, NoHandler
    <3> QED
      BY <3>1, DecisionMourns DEF Ended
  <2>4. CASE ExhaustJob(w, n)
    <3>1. /\ handler'[n].pc = "exhausted" /\ job[n].state = "active" /\ dlq' = dlq
          /\ job'[n].state = "failed"
          /\ \A m \in Node : m # n => handler'[m] = handler[m] /\ job'[m] = job[m]
      BY <2>4, <1>h DEF ExhaustJob, NoHandler, JobType
    <3> QED
      BY <3>1, DecisionMourns
  <2> QED
    BY <1>3, <2>1, <2>2, <2>3, <2>4 DEF AttemptStep, EndStep
<1>4. ASSUME NEW n \in Node, HandlerStep(n) PROVE DeadLetterOK'
  <2>1. CASE StoreResult(n) \/ MarkCompleted(n)
    <3>1. /\ handler[n].pc \in {"completed", "stored"}
          /\ handler'[n].pc \in {"stored", "decrementing"}
          /\ \A m \in Node : m # n => handler'[m] = handler[m]
      BY <2>1, <1>h DEF StoreResult, MarkCompleted, Hosted, HandlerType
    <3>2. job' = job /\ dlq' = dlq
      BY <2>1 DEF StoreResult, MarkCompleted, bullVars
    <3> QED
      BY <1>i, <3>1, <3>2 DEF DeadLetterOK, Ended
  <2>2. CASE DeadLetter(n)
    <3>1. /\ handler[n].pc = "exhausted" /\ handler'[n].pc = "deadLettered"
          /\ \A m \in Node : m # n => handler'[m] = handler[m]
      BY <2>2, <1>h DEF DeadLetter, Hosted, HandlerType
    <3>2. dlq[n] = 0
      BY <1>i, <1>h, <3>1 DEF DeadLetterOK
    <3>3. /\ dlq'[n] = 1 /\ job' = job
          /\ \A m \in Node : m # n => dlq'[m] = dlq[m]
      BY <2>2, <1>h, <3>2 DEF DeadLetter
    <3> QED
      BY <1>i, <3>1, <3>3 DEF DeadLetterOK, Ended
  <2>3. CASE MarkFailed(n)
    <3>1. /\ handler[n].pc = "deadLettered" /\ handler'[n].pc = "failureMarked"
          /\ \A m \in Node : m # n => handler'[m] = handler[m]
      BY <2>3, <1>h DEF MarkFailed, Hosted, HandlerType
    <3>2. job' = job /\ dlq' = dlq
      BY <2>3 DEF MarkFailed, bullVars
    <3> QED
      BY <1>i, <3>1, <3>2 DEF DeadLetterOK, Ended
  <2>4. ASSUME NEW e \in handler[n].todo, Decrement(n, e) PROVE DeadLetterOK'
    <3>1. \A m \in Node : handler'[m].pc = handler[m].pc
      BY <2>4, <1>h DEF Decrement, HandlerType
    <3> QED
      BY <2>4, <3>1, MournsOK DEF Decrement, bullVars, Mourns
  <2>5. ASSUME NEW m \in Node, MarkReady(n, m) PROVE DeadLetterOK'
    <3>1. \A k \in Node : handler'[k].pc = handler[k].pc
      BY <2>5, <1>h DEF MarkReady, HandlerType
    <3> QED
      BY <2>5, <3>1, MournsOK DEF MarkReady, bullVars, Mourns
  <2>6. ASSUME NEW m \in Node, SetJobId(n, m) PROVE DeadLetterOK'
    BY <2>6, <1>0 DEF SetJobId, bullVars, processVars
  <2>7. ASSUME NEW m \in Node, AddReady(n, m) PROVE DeadLetterOK'
    <3>1. \A k \in Node : handler'[k].pc = handler[k].pc
      BY <2>7, <1>h DEF AddReady, HandlerType
    <3>2. adds[m] = 0
      BY <2>7, <1>i DEF AddReady, IInv, ClaimOK, Claims
    <3> QED
      BY <2>7, <3>1, <3>2, AddMourns DEF AddReady
  <2> QED
    BY <1>4, <2>1, <2>2, <2>3, <2>4, <2>5, <2>6, <2>7 DEF HandlerStep
<1>5. ASSUME NEW n \in Node, StalledStep(n) PROVE DeadLetterOK'
  <2>1. CASE RecoverStalled(n)
    BY <2>1, <1>h, MournsOK DEF RecoverStalled, processVars, Mourns, JobType
  <2>2. ASSUME NEW w \in Worker, FailStalled(w, n) PROVE DeadLetterOK'
    <3>1. /\ job[n].state = "active" /\ job'[n].state = "failed" /\ dlq' = dlq
          /\ \A m \in Node : m # n => handler'[m] = handler[m] /\ job'[m] = job[m]
      BY <2>2, <1>h DEF FailStalled, JobType
    <3>2. handler[n].pc = "idle"
      BY <1>i, <3>1 DEF IInv, JobOK
    <3>3. handler'[n].pc \in {"idle", "exhausted"}
      BY <2>2, <1>h, <3>2 DEF FailStalled, NoHandler
    <3> QED
      BY <3>1, <3>3, DecisionMourns
  <2> QED
    BY <1>5, <2>1, <2>2 DEF StalledStep
<1>6. CASE FaultStep \/ \E w \in Worker : QuitRedis(w)
  <2>1. CASE ApiCrash
    BY <2>1, <1>0 DEF ApiCrash, bullVars
  <2>2. ASSUME NEW w \in Worker, WorkerCrash(w) \/ QuitRedis(w)
        PROVE  DeadLetterOK'
    <3>1. \A n \in Node : WithoutHost(w)[n].pc = handler[n].pc
      BY <1>h DEF WithoutHost, HandlerType
    <3>2. dlq' = dlq /\ \A n \in Node : job'[n].state = job[n].state
      BY <2>2, <1>h DEF WorkerCrash, QuitRedis, bullVars, JobType
    <3> QED
      BY <2>2, <3>1, <3>2, MournsOK DEF WorkerCrash, QuitRedis, Mourns
  <2>3. ASSUME NEW w \in Worker, BeginShutdown(w) PROVE DeadLetterOK'
    BY <2>3, <1>0 DEF BeginShutdown, bullVars
  <2>4. ASSUME NEW w \in Worker, NEW n \in Node, LoseLock(w, n)
        PROVE  DeadLetterOK'
    BY <2>4, <1>h, MournsOK DEF LoseLock, Mourns, JobType
  <2> QED
    BY <1>6, <2>1, <2>2, <2>3, <2>4 DEF FaultStep
<1>7. CASE UNCHANGED vars
  BY <1>7, <1>0 DEF vars
<1> QED
  BY <1>1, <1>2, <1>3, <1>4, <1>5, <1>6, <1>7 DEF Next, ApiStep

-----------------------------------------------------------------------------
(* What takes a decided status back.                                       *)

(* Only an active job is locked, and only a handler that has got that far  *)
(* has decided its node's status.                                          *)
DecidedOK ==
  \A n \in Node :
    /\ job[n].state # "active" => job[n].owner = NoWorker
    /\ status[n] = "completed" => handler[n].pc = "decrementing"
    /\ status[n] = "failed" => handler[n].pc = "failureMarked"

(* Statuses and ends of handlers stay, and no idle job is locked.          *)
Stays ==
  /\ status' = status
  /\ \A n \in Node :
       /\ handler'[n].pc = handler[n].pc
       /\ job'[n].state # "active" => job'[n].owner = NoWorker

LEMMA StaysDecided ==
  ASSUME DecidedOK, Stays
  PROVE  DecidedOK'
BY DEF DecidedOK, Stays

(* A status of one node is decided by its own handler, or is not decided.  *)
LEMMA MarksDecided ==
  ASSUME FInv, DecidedOK, job' = job, NEW n \in Node,
         \A m \in Node : m # n => status'[m] = status[m],
         \A m \in Node : m # n => handler'[m].pc = handler[m].pc,
         \/ status'[n] = "completed" /\ handler'[n].pc = "decrementing"
         \/ status'[n] = "failed" /\ handler'[n].pc = "failureMarked"
         \/ status'[n] \notin {"completed", "failed"}
  PROVE  DecidedOK'
BY DEF DecidedOK

(* A new handler is of a job whose node was not decided.                   *)
LEMMA NewHandlerDecided ==
  ASSUME FInv, DecidedOK, NEW n \in Node, handler[n].pc = "idle",
         status' = status, job'[n].owner = NoWorker,
         \A m \in Node : m # n => /\ handler'[m] = handler[m]
                                  /\ job'[m] = job[m]
  PROVE  DecidedOK'
BY DEF DecidedOK

LEMMA DecidedStepOK ==
  ASSUME FInv, DecidedOK, [Next]_vars
  PROVE  DecidedOK'
<1>i. /\ IInv /\ TypeOK
  BY DEF FInv, IInv
<1>h. /\ handler \in [Node -> HandlerType] /\ job \in [Node -> JobType]
      /\ status \in [Node -> StatusValues]
  BY <1>i DEF TypeOK
<1>0. ASSUME UNCHANGED <<job, status, handler>> PROVE DecidedOK'
  BY <1>0 DEF DecidedOK
<1>1. ASSUME NEW g \in Requests, CreateDag(g) \/ RejectDag(g) PROVE DecidedOK'
  <2>1. CASE CreateDag(g)
    BY <2>1 DEF CreateDag, bullVars, DecidedOK
  <2>2. CASE RejectDag(g)
    BY <2>2, <1>0 DEF RejectDag, redisVars, bullVars
  <2> QED
    BY <1>1, <2>1, <2>2
<1>2. ASSUME NEW n \in Node, SetRootJobId(n) \/ AddRoot(n) PROVE DecidedOK'
  <2>1. CASE SetRootJobId(n)
    BY <2>1, <1>0 DEF SetRootJobId, bullVars, processVars
  <2>2. CASE AddRoot(n)
    BY <2>2, <1>h, StaysDecided
    DEF AddRoot, QueueAdd, NoJob, redisVars, Stays, DecidedOK
  <2> QED
    BY <1>2, <2>1, <2>2
<1>3. ASSUME NEW w \in Worker, NEW n \in Node, TakeJob(w, n) \/ AttemptStep(w, n)
      PROVE  DecidedOK'
  <2>1. CASE TakeJob(w, n) \/ RetryJob(w, n)
    BY <2>1, <1>h, StaysDecided
    DEF TakeJob, RetryJob, redisVars, Stays, DecidedOK, JobType
  <2>2. CASE ReadDependencies(w, n) \/ DiscardAttempt(w, n)
    BY <2>2, <1>0 DEF ReadDependencies, DiscardAttempt, redisVars, bullVars
  <2>3. CASE MarkActive(w, n)
    <3>1. /\ status'[n] = "active"
          /\ \A m \in Node : m # n => status'[m] = status[m]
      BY <2>3, <1>h DEF MarkActive
    <3> QED
      BY <2>3, <3>1, MarksDecided DEF MarkActive, bullVars
  <2>4. CASE CompleteJob(w, n) \/ ExhaustJob(w, n)
    <3>1. /\ job[n].state = "active" /\ job'[n].owner = NoWorker
          /\ \A m \in Node : m # n => handler'[m] = handler[m] /\ job'[m] = job[m]
      BY <2>4, <1>h DEF CompleteJob, ExhaustJob, JobType
    <3>2. handler[n].pc = "idle"
      BY <1>i, <3>1 DEF IInv, JobOK
    <3> QED
      BY <2>4, <3>1, <3>2, NewHandlerDecided DEF CompleteJob, ExhaustJob, redisVars
  <2> QED
    BY <1>3, <2>1, <2>2, <2>3, <2>4 DEF AttemptStep, EndStep
<1>4. ASSUME NEW n \in Node, HandlerStep(n) PROVE DecidedOK'
  <2>1. CASE StoreResult(n) \/ DeadLetter(n)
    <3>1. /\ handler[n].pc \in {"completed", "exhausted"}
          /\ \A m \in Node : m # n => handler'[m] = handler[m]
      BY <2>1, <1>h DEF StoreResult, DeadLetter, Hosted
    <3>2. job' = job /\ status' = status
      BY <2>1 DEF StoreResult, DeadLetter, redisVars, bullVars
    <3> QED
      BY <3>1, <3>2 DEF DecidedOK
  <2>2. CASE MarkCompleted(n) \/ MarkFailed(n)
    <3>1. /\ \A m \in Node : m # n => /\ status'[m] = status[m]
                                      /\ handler'[m] = handler[m]
          /\ \/ status'[n] = "completed" /\ handler'[n].pc = "decrementing"
             \/ status'[n] = "failed" /\ handler'[n].pc = "failureMarked"
      BY <2>2, <1>h DEF MarkCompleted, MarkFailed, HandlerType
    <3> QED
      BY <2>2, <3>1, MarksDecided DEF MarkCompleted, MarkFailed, bullVars
  <2>3. ASSUME NEW e \in handler[n].todo, Decrement(n, e) PROVE DecidedOK'
    <3>1. \A k \in Node : handler'[k].pc = handler[k].pc
      BY <2>3, <1>h DEF Decrement, HandlerType
    <3> QED
      BY <2>3, <3>1 DEF Decrement, bullVars, DecidedOK
  <2>4. ASSUME NEW m \in Node, MarkReady(n, m) PROVE DecidedOK'
    <3>1. \A k \in Node : handler'[k].pc = handler[k].pc
      BY <2>4, <1>h DEF MarkReady, HandlerType
    <3>2. /\ status'[m] = "ready"
          /\ \A k \in Node : k # m => status'[k] = status[k]
      BY <2>4, <1>h DEF MarkReady
    <3> QED
      BY <2>4, <3>1, <3>2, MarksDecided DEF MarkReady, bullVars
  <2>5. ASSUME NEW m \in Node, SetJobId(n, m) PROVE DecidedOK'
    BY <2>5, <1>0 DEF SetJobId, bullVars, processVars
  <2>6. ASSUME NEW m \in Node, AddReady(n, m) PROVE DecidedOK'
    <3>1. \A k \in Node : handler'[k].pc = handler[k].pc
      BY <2>6, <1>h DEF AddReady, HandlerType
    <3>2. /\ job'[m].owner = NoWorker
          /\ \A k \in Node : k # m => job'[k] = job[k]
      BY <2>6, <1>h DEF AddReady, QueueAdd, NoJob
    <3> QED
      BY <2>6, <3>1, <3>2, StaysDecided DEF AddReady, redisVars, Stays, DecidedOK
  <2> QED
    BY <1>4, <2>1, <2>2, <2>3, <2>4, <2>5, <2>6 DEF HandlerStep
<1>5. ASSUME NEW n \in Node, StalledStep(n) PROVE DecidedOK'
  <2>1. CASE RecoverStalled(n)
    BY <2>1, <1>h, StaysDecided
    DEF RecoverStalled, redisVars, processVars, Stays, DecidedOK, JobType
  <2>2. ASSUME NEW w \in Worker, FailStalled(w, n) PROVE DecidedOK'
    <3>1. /\ job[n].state = "active" /\ job'[n].owner = NoWorker
          /\ \A m \in Node : m # n => handler'[m] = handler[m] /\ job'[m] = job[m]
      BY <2>2, <1>h DEF FailStalled, JobType
    <3>2. handler[n].pc = "idle"
      BY <1>i, <3>1 DEF IInv, JobOK
    <3> QED
      BY <2>2, <3>1, <3>2, NewHandlerDecided DEF FailStalled, redisVars
  <2> QED
    BY <1>5, <2>1, <2>2 DEF StalledStep
<1>6. CASE FaultStep \/ \E w \in Worker : QuitRedis(w)
  <2>1. CASE ApiCrash
    BY <2>1, <1>0 DEF ApiCrash, redisVars, bullVars
  <2>2. ASSUME NEW w \in Worker, WorkerCrash(w) \/ QuitRedis(w) PROVE DecidedOK'
    <3>1. \A n \in Node : WithoutHost(w)[n].pc = handler[n].pc
      BY <1>h DEF WithoutHost, HandlerType
    <3>2. \A n \in Node : \/ job'[n] = job[n]
                          \/ job'[n].owner = NoWorker
      BY <2>2, <1>h DEF WorkerCrash, QuitRedis, bullVars, JobType
    <3> QED
      BY <2>2, <3>1, <3>2, StaysDecided
      DEF WorkerCrash, QuitRedis, redisVars, Stays, DecidedOK
  <2>3. ASSUME NEW w \in Worker, BeginShutdown(w) PROVE DecidedOK'
    BY <2>3, <1>0 DEF BeginShutdown, redisVars, bullVars
  <2>4. ASSUME NEW w \in Worker, NEW n \in Node, LoseLock(w, n) PROVE DecidedOK'
    BY <2>4, <1>h, StaysDecided DEF LoseLock, redisVars, Stays, DecidedOK, JobType
  <2> QED
    BY <1>6, <2>1, <2>2, <2>3, <2>4 DEF FaultStep
<1>7. CASE UNCHANGED vars
  BY <1>7, <1>0 DEF vars
<1> QED
  BY <1>1, <1>2, <1>3, <1>4, <1>5, <1>6, <1>7 DEF Next, ApiStep

-----------------------------------------------------------------------------
(* The theorems.                                                           *)

LEMMA FailureInit == Init => FInv
<1> SUFFICES ASSUME Init PROVE FInv
  OBVIOUS
<1>1. IInv
  BY InitIInv
<1>2. AttemptOK
  BY DEF Init, AttemptOK
<1>3. PendingOK
  BY DEF Init, NoDag, PendingOK, Untouched
<1>4. DeadLetterOK
  BY DEF Init, NoHandler, DeadLetterOK, Ended
<1> QED
  BY <1>1, <1>2, <1>3, <1>4 DEF FInv

LEMMA FailureNext == FInv /\ [Next]_vars => FInv'
BY NextIInv, AttemptStepOK, PendingStepOK, DeadLetterStepOK DEF FInv

LEMMA DecidedInit == Init => DecidedOK
BY DEF Init, NoJob, NoHandler, DecidedOK

THEOREM FailureInvariance == Spec => []FInv
BY FailureInit, FailureNext, PTL DEF Spec

(* A node that needs an output nobody stored cannot have been enqueued,    *)
(* nor found ready.                                                        *)
LEMMA NeedsUnpublished ==
  ASSUME FInv, NEW k \in DOMAIN dag, ~ (Deps(dag, k) \subseteq results)
  PROVE  adds[k] = 0 /\ status[k] = "pending"
<1>1. IInv /\ k \in Node
  BY DagShape DEF FInv, IInv, TypeOK
<1>2. dag[k] # <<>>
  BY DEF Deps
<1>3. remaining[k] # 0
  BY <1>1, NothingOwed
<1>4. adds[k] = 0
  BY <1>1, <1>2, <1>3 DEF IInv, ClaimOK, TypeOK
<1>5. \A j \in Node : k \notin handler[j].ready
  BY <1>1, <1>3 DEF IInv, ClaimOK, Claims
<1> QED
  BY <1>1, <1>2, <1>4, <1>5 DEF FInv, PendingOK, Untouched

(* Nothing below a failed node is ever enqueued or leaves pending, for     *)
(* every graph, number of workers and faults ("B never runs").             *)
THEOREM FailureIsContained == Spec => []FailureBlocks
<1>1. FInv => FailureBlocks
  <2> SUFFICES ASSUME FInv, NEW n \in DOMAIN dag, job[n].state = "failed",
                      NEW m \in Below(n)
               PROVE  adds[m] = 0 /\ status[m] = "pending"
    BY DEF FailureBlocks
  <2> DEFINE S == {k \in DOMAIN dag :
                     k = n \/ (adds[k] = 0 /\ status[k] = "pending")}
  <2>1. DOMAIN dag \subseteq Node
    BY DagShape DEF FInv, IInv, TypeOK
  <2>2. \A d \in S : d \notin results
    BY <2>1 DEF FInv, IInv, JobOK
  <2>3. \A k \in DOMAIN dag : Deps(dag, k) \intersect S # {} => k \in S
    BY <2>2, NeedsUnpublished
  <2>4. m \in S /\ m # n
    <3> HIDE DEF S
    <3>1. n \in S /\ S \in SUBSET DOMAIN dag
      BY DEF S
    <3> QED
      BY <2>3, <3>1 DEF Below
  <2> QED
    BY <2>4
<1> QED
  BY <1>1, FailureInvariance, PTL

(* However handlers, stalls and crashes interleave, a job gets one dead    *)
(* letter at most, and none that has an output.                            *)
THEOREM OneDeadLetter == Spec => []DeadLetteredOnce
<1>1. FInv => DeadLetteredOnce
  BY DEF FInv, IInv, JobOK, DeadLetterOK, DeadLetteredOnce, Ended
<1> QED
  BY <1>1, FailureInvariance, PTL

(* The node whose status is decided has a decided job, which nobody locks. *)
LEMMA DecidedIsUnlocked ==
  ASSUME FInv, DecidedOK, NEW n \in Node, status[n] \in {"completed", "failed"}
  PROVE  /\ handler[n].pc \in {"decrementing", "failureMarked"}
         /\ job[n].owner = NoWorker /\ adds[n] > 0
<1>1. handler[n].pc \in {"decrementing", "failureMarked"}
  BY DEF DecidedOK
<1>2. job[n].state \in {"completed", "failed"}
  BY <1>1 DEF FInv, IInv, HandlerOK, HandlerReached, DeadLetterOK, Ended
<1>3. adds[n] > 0
  BY <1>1, HandledHasJob DEF FInv
<1> QED
  BY <1>1, <1>2, <1>3 DEF DecidedOK

(* Only markActive of an attempt that has lost its lock takes a decided    *)
(* status back, whatever else interleaves.                                 *)
THEOREM OnlyStaleTakesBack == Spec => TakenBackOnlyByStale
<1> DEFINE TakenBack ==
      \A n \in Node :
        status[n] \in {"completed", "failed"} /\ status'[n] # status[n]
          => \E w \in Worker : attempt[w][n] = "started" /\ job[n].owner # w
<1>1. FInv /\ DecidedOK /\ [Next]_vars => [TakenBack]_vars
  <2> SUFFICES ASSUME FInv, DecidedOK, Next, NEW n \in Node,
                      status[n] \in {"completed", "failed"}, status'[n] # status[n]
               PROVE  \E w \in Worker : attempt[w][n] = "started"
                                        /\ job[n].owner # w
    OBVIOUS
  <2>1. /\ handler[n].pc \in {"decrementing", "failureMarked"}
        /\ job[n].owner = NoWorker /\ adds[n] > 0
    BY DecidedIsUnlocked
  <2>2. /\ IInv /\ status \in [Node -> StatusValues]
    BY DEF FInv, IInv, TypeOK
  <2>3. ASSUME NEW w \in Worker, MarkActive(w, n)
        PROVE  attempt[w][n] = "started" /\ job[n].owner # w
    BY <2>1, <2>3, WorkerAssumption DEF MarkActive
  <2>4. ASSUME NEW g \in Requests, CreateDag(g) \/ RejectDag(g) PROVE FALSE
    <3>1. CASE CreateDag(g)
      BY <2>1, <2>2, <3>1, BeforeTheGraph DEF CreateDag, IInv, ApiOK
    <3>2. CASE RejectDag(g)
      BY <3>2 DEF RejectDag, redisVars
    <3> QED
      BY <2>4, <3>1, <3>2
  <2>5. ASSUME NEW m \in Node, HandlerStep(m) PROVE FALSE
    <3>1. CASE MarkCompleted(m) \/ MarkFailed(m)
      BY <2>1, <2>2, <3>1 DEF MarkCompleted, MarkFailed, Hosted
    <3>2. ASSUME NEW k \in Node, MarkReady(m, k) PROVE FALSE
      <4>1. adds[k] = 0
        BY <2>2, <3>2 DEF MarkReady, IInv, ClaimOK, Claims
      <4>2. k = n
        BY <2>2, <3>2 DEF MarkReady
      <4> QED
        BY <2>1, <4>1, <4>2
    <3>3. CASE \/ StoreResult(m) \/ DeadLetter(m)
               \/ \E e \in handler[m].todo : Decrement(m, e)
               \/ \E k \in Node : SetJobId(m, k) \/ AddReady(m, k)
      BY <3>3 DEF StoreResult, DeadLetter, Decrement, SetJobId, AddReady,
         redisVars
    <3> QED
      BY <2>5, <3>1, <3>2, <3>3 DEF HandlerStep
  <2>6. ASSUME NEW w \in Worker, NEW m \in Node,
               TakeJob(w, m) \/ ReadDependencies(w, m) \/ EndStep(w, m)
        PROVE  FALSE
    BY <2>6 DEF TakeJob, ReadDependencies, EndStep, CompleteJob, RetryJob,
       ExhaustJob, DiscardAttempt, redisVars
  <2>7. ASSUME NEW w \in Worker, NEW m \in Node, MarkActive(w, m) PROVE m = n
    BY <2>2, <2>7 DEF MarkActive
  <2>8. CASE \/ ApiStep \/ FaultStep
             \/ \E m \in Node : StalledStep(m)
             \/ \E w \in Worker : QuitRedis(w)
    <3>1. status' = status
      BY <2>8 DEF ApiStep, SetRootJobId, AddRoot, FaultStep, ApiCrash, WorkerCrash,
         BeginShutdown, LoseLock, StalledStep, RecoverStalled, FailStalled,
         QuitRedis, redisVars
    <3> QED
      BY <3>1
  <2> QED
    BY <2>3, <2>4, <2>5, <2>6, <2>7, <2>8 DEF Next, AttemptStep
<1>2. FInv /\ DecidedOK /\ [Next]_vars => DecidedOK'
  BY DecidedStepOK
<1> QED
  BY <1>1, <1>2, DecidedInit, FailureInvariance, PTL DEF Spec, TakenBackOnlyByStale

=============================================================================
