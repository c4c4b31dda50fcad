----------------------- MODULE DagStatusPage_proofs -----------------------
(***************************************************************************)
(* No screen shows an effect without its cause, for every graph, number of *)
(* workers, faults and failed polls.                                       *)
(***************************************************************************)
EXTENDS DagStatusPage, DagExecution_proofs

Started == {"active", "completed", "failed"}

(* Only a node with a job has started, and its jobId was set before.       *)
StartedOK ==
  \A n \in Node : /\ adds[n] > 0 => n \in jobIds
                  /\ status[n] \in Started => adds[n] > 0

(* What ScreenCoherent says, of statuses read at some time and of jobIds   *)
(* and results read then or later.                                         *)
IdsFollow(statuses, ids) ==
  \A n \in Node : statuses[n] \in Started => n \in ids

ResultsFollow(statuses, res) ==
  \A n \in Node : statuses[n] \in Started =>
    /\ Deps(dag, n) \subseteq res
    /\ statuses[n] = "completed" => n \in res

Coherent(a) ==
  IdsFollow(a.statuses, a.jobIds) /\ ResultsFollow(a.statuses, a.results)

(* The page is open only while there is a graph; what it has not read yet  *)
(* follows from what it has.                                               *)
AnswerOK ==
  /\ page.pc # "closed" => api.pc \notin {"idle", "rejected"}
  /\ page.pc \in {"closed", "statuses", "waiting", "stopped"} => answer = NoAnswer
  /\ page.pc = "jobIds" => IdsFollow(answer.statuses, jobIds)
  /\ page.pc \in {"jobIds", "results"} => ResultsFollow(answer.statuses, results)
  /\ page.pc = "results" => IdsFollow(answer.statuses, answer.jobIds)
  /\ page.pc = "render" => Coherent(answer)
  /\ page.pc = "closed" => shown = NoAnswer
  /\ Coherent(shown)

AnswerType ==
  [statuses : [Node -> StatusValues], jobIds : SUBSET Node, results : SUBSET Node]

PageType ==
  /\ page \in [pc : {"closed", "statuses", "jobIds", "results", "render",
                     "waiting", "stopped"}, errors : 0..MaxErrors]
  /\ answer \in AnswerType
  /\ shown \in AnswerType

PInv == FInv /\ DecidedOK /\ StartedOK /\ PageType /\ AnswerOK

-----------------------------------------------------------------------------
(* What a step of the execution does to what the page reads.               *)

(* jobIds and results only grow, and there is one graph.                   *)
Grows ==
  /\ results \subseteq results' /\ jobIds \subseteq jobIds'
  /\ api.pc \notin {"idle", "rejected"} =>
       dag' = dag /\ api'.pc \notin {"idle", "rejected"}

LEMMA QuietGrows ==
  ASSUME Quiet, jobIds \subseteq jobIds'
  PROVE  Grows
BY DEF Quiet, Grows

LEMMA StepGrows ==
  ASSUME IInv, [Next]_vars
  PROVE  Grows
<1>a. api \in [pc : ApiPcs, roots : SUBSET Node]
  BY DEF IInv, TypeOK
<1>1. ASSUME NEW g \in Requests, CreateDag(g) \/ RejectDag(g) PROVE Grows
  BY <1>1, <1>a DEF CreateDag, RejectDag, redisVars, bullVars, Grows
<1>2. CASE ApiStep
  BY <1>2, <1>a DEF ApiStep, SetRootJobId, AddRoot, redisVars, bullVars,
     processVars, Grows
<1>3. ASSUME NEW w \in Worker, NEW n \in Node, TakeJob(w, n) \/ AttemptStep(w, n)
      PROVE  Grows
  BY <1>3 DEF TakeJob, AttemptStep, MarkActive, ReadDependencies, EndStep,
     CompleteJob, RetryJob, ExhaustJob, DiscardAttempt, redisVars, bullVars, Grows
<1>4. ASSUME NEW n \in Node, HandlerStep(n) PROVE Grows
  BY <1>4 DEF HandlerStep, StoreResult, MarkCompleted, DeadLetter, MarkFailed,
     Decrement, MarkReady, SetJobId, AddReady, redisVars, bullVars, processVars,
     Grows
<1>5. ASSUME NEW n \in Node, StalledStep(n) PROVE Grows
  BY <1>5 DEF StalledStep, RecoverStalled, FailStalled, redisVars, processVars,
     Grows
<1>6. CASE FaultStep \/ \E w \in Worker : QuitRedis(w)
  BY <1>6, <1>a DEF FaultStep, ApiCrash, WorkerCrash, BeginShutdown, LoseLock,
     QuitRedis, redisVars, bullVars, Grows
<1>7. CASE UNCHANGED vars
  BY <1>7 DEF vars, Grows
<1> QED
  BY <1>1, <1>2, <1>3, <1>4, <1>5, <1>6, <1>7 DEF Next

LEMMA StartedStepOK ==
  ASSUME FInv, StartedOK, [Next]_vars
  PROVE  StartedOK'
<1>i. /\ IInv /\ adds \in [Node -> Nat] /\ status \in [Node -> StatusValues]
  BY DEF FInv, IInv, TypeOK
<1>0. ASSUME adds' = adds, jobIds \subseteq jobIds', NEW n \in Node,
             status'[n] \in Started => adds[n] > 0,
             \A m \in Node : m # n => status'[m] = status[m]
      PROVE  StartedOK'
  BY <1>0 DEF StartedOK
<1>s. ASSUME UNCHANGED <<adds, jobIds, status>> PROVE StartedOK'
  BY <1>s DEF StartedOK
<1>1. ASSUME NEW g \in Requests, CreateDag(g) \/ RejectDag(g) PROVE StartedOK'
  BY <1>1, <1>s DEF CreateDag, RejectDag, redisVars, bullVars, StartedOK, Started
<1>2. ASSUME NEW n \in Node, SetRootJobId(n) \/ AddRoot(n) PROVE StartedOK'
  <2>1. CASE SetRootJobId(n)
    BY <2>1 DEF SetRootJobId, bullVars, StartedOK
  <2>2. CASE AddRoot(n)
    BY <2>2, <1>i, AddGrows DEF AddRoot, redisVars, StartedOK
  <2> QED
    BY <1>2, <2>1, <2>2
<1>3. ASSUME NEW w \in Worker, NEW n \in Node, TakeJob(w, n) \/ AttemptStep(w, n)
      PROVE  StartedOK'
  <2>1. CASE MarkActive(w, n)
    <3>1. adds[n] > 0
      BY <2>1 DEF MarkActive, FInv, AttemptOK
    <3>2. \A m \in Node : m # n => status'[m] = status[m]
      BY <2>1, <1>i DEF MarkActive
    <3> QED
      BY <1>0, <2>1, <3>1, <3>2 DEF MarkActive, bullVars
  <2>2. CASE ~ MarkActive(w, n)
    BY <1>3, <1>s, <2>2 DEF TakeJob, AttemptStep, ReadDependencies, EndStep,
       CompleteJob, RetryJob, ExhaustJob, DiscardAttempt, redisVars, bullVars
  <2> QED
    BY <2>1, <2>2
<1>4. ASSUME NEW n \in Node, HandlerStep(n) PROVE StartedOK'
  <2>1. CASE StoreResult(n) \/ DeadLetter(n)
    BY <2>1, <1>s DEF StoreResult, DeadLetter, redisVars, bullVars
  <2>2. CASE MarkCompleted(n) \/ MarkFailed(n)
    <3>1. adds[n] > 0
      BY <2>2, <1>i, HandledHasJob DEF MarkCompleted, MarkFailed, Hosted
    <3>2. \A m \in Node : m # n => status'[m] = status[m]
      BY <2>2, <1>i DEF MarkCompleted, MarkFailed
    <3> QED
      BY <1>0, <2>2, <3>1, <3>2 DEF MarkCompleted, MarkFailed, bullVars
  <2>3. CASE \E e \in handler[n].todo : Decrement(n, e)
    BY <2>3, <1>s DEF Decrement, bullVars
  <2>4. ASSUME NEW m \in Node, MarkReady(n, m) PROVE StartedOK'
    <3>1. /\ status'[m] = "ready"
          /\ \A k \in Node : k # m => status'[k] = status[k]
      BY <2>4, <1>i DEF MarkReady
    <3> QED
      BY <1>0, <2>4, <3>1 DEF MarkReady, bullVars, Started
  <2>5. ASSUME NEW m \in Node, SetJobId(n, m) PROVE StartedOK'
    BY <2>5 DEF SetJobId, bullVars, StartedOK
  <2>6. ASSUME NEW m \in Node, AddReady(n, m) PROVE StartedOK'
    BY <2>6, <1>i, AddGrows DEF AddReady, redisVars, StartedOK
  <2> QED
    BY <1>4, <2>1, <2>2, <2>3, <2>4, <2>5, <2>6 DEF HandlerStep
<1>5. ASSUME NEW n \in Node, StalledStep(n) PROVE StartedOK'
  BY <1>5, <1>s DEF StalledStep, RecoverStalled, FailStalled, redisVars
<1>6. CASE FaultStep \/ \E w \in Worker : QuitRedis(w)
  BY <1>6, <1>s DEF FaultStep, ApiCrash, WorkerCrash, BeginShutdown, LoseLock,
     QuitRedis, redisVars, bullVars
<1>7. CASE UNCHANGED vars
  BY <1>7, <1>s DEF vars
<1> QED
  BY <1>1, <1>2, <1>3, <1>4, <1>5, <1>6, <1>7 DEF Next, ApiStep

-----------------------------------------------------------------------------
(* What the page would read now is coherent.                               *)
LEMMA NowCoherent ==
  ASSUME FInv, DecidedOK, StartedOK
  PROVE  IdsFollow(status, jobIds) /\ ResultsFollow(status, results)
<1>1. IdsFollow(status, jobIds)
  BY DEF IdsFollow, StartedOK
<1>2. ASSUME NEW n \in Node, status[n] \in Started
      PROVE  Deps(dag, n) \subseteq results
  <2>1. adds[n] > 0
    BY <1>2 DEF StartedOK
  <2>2. n \in DOMAIN dag /\ InputsReadable
    BY <2>1, HasInputs DEF FInv, IInv, JobOK
  <2> QED
    BY <2>1, <2>2 DEF InputsReadable
<1>3. ASSUME NEW n \in Node, status[n] = "completed" PROVE n \in results
  BY <1>3 DEF DecidedOK, FInv, IInv, HandlerOK, HandlerReached
<1> QED
  BY <1>1, <1>2, <1>3 DEF ResultsFollow

(* Of statuses read before, what was stored since only adds causes.        *)
LEMMA FollowMonotone ==
  ASSUME NEW statuses \in [Node -> StatusValues], NEW s1, NEW s2, s1 \subseteq s2
  PROVE  /\ IdsFollow(statuses, s1) => IdsFollow(statuses, s2)
         /\ ResultsFollow(statuses, s1) => ResultsFollow(statuses, s2)
BY DEF IdsFollow, ResultsFollow

(* Nothing has started in the empty answer.                                *)
LEMMA NoAnswerCoherent ==
  /\ Coherent(NoAnswer) /\ NoAnswer \in AnswerType
  /\ \A ids : IdsFollow(NoAnswer.statuses, ids)
  /\ \A res : ResultsFollow(NoAnswer.statuses, res)
BY DEF Coherent, NoAnswer, AnswerType, IdsFollow, ResultsFollow, Started,
   StatusValues

(* A step of the execution between two reads.                              *)
LEMMA ExecutionKeepsAnswer ==
  ASSUME PInv, [Next]_vars, UNCHANGED pageVars
  PROVE  AnswerOK' /\ PageType'
<1>1. page' = page /\ answer' = answer /\ shown' = shown
  BY DEF pageVars
<1>2. Grows
  BY StepGrows DEF PInv, FInv
<1>3. PageType'
  BY <1>1 DEF PInv, PageType, AnswerType
<1>4. CASE page.pc = "closed"
  <2>1. answer = NoAnswer /\ shown = NoAnswer
    BY <1>4 DEF PInv, AnswerOK
  <2>2. Coherent(NoAnswer)'
    BY DEF Coherent, NoAnswer, IdsFollow, ResultsFollow, Started
  <2> QED
    BY <1>1, <1>3, <1>4, <2>1, <2>2 DEF AnswerOK, Coherent
<1>5. CASE page.pc # "closed"
  <2>1. dag' = dag /\ api'.pc \notin {"idle", "rejected"}
    BY <1>2, <1>5 DEF PInv, AnswerOK, Grows
  <2>2. answer.statuses \in [Node -> StatusValues]
    BY DEF PInv, PageType, AnswerType
  <2>3. page.pc = "jobIds" => IdsFollow(answer.statuses, jobIds')
    BY <1>2, <2>2, FollowMonotone DEF PInv, AnswerOK, Grows
  <2>4. page.pc \in {"jobIds", "results"}
          => ResultsFollow(answer.statuses, results')
    BY <1>2, <2>2, FollowMonotone DEF PInv, AnswerOK, Grows
  <2> QED
    BY <1>1, <1>3, <1>5, <2>1, <2>3, <2>4
    DEF PInv, AnswerOK, Coherent, IdsFollow, ResultsFollow
<1> QED
  BY <1>4, <1>5

(* A step of the page.                                                     *)
LEMMA PageKeepsAnswer ==
  ASSUME PInv, PageStep
  PROVE  AnswerOK' /\ PageType'
<1>u. UNCHANGED <<api, dag, status, jobIds, results>>
  BY DEF PageStep, vars
<1>t. /\ page \in [pc : {"closed", "statuses", "jobIds", "results", "render",
                         "waiting", "stopped"}, errors : 0..MaxErrors]
      /\ answer \in AnswerType /\ shown \in AnswerType
  BY DEF PInv, PageType
<1>a. AnswerOK
  BY DEF PInv
<1>r. /\ status \in [Node -> StatusValues]
      /\ jobIds \subseteq Node /\ results \subseteq Node
  BY DEF PInv, FInv, IInv, TypeOK
<1>1. CASE Open
  <2>1. page'.pc = "statuses" /\ page' = [page EXCEPT !.pc = "statuses"]
    BY <1>1, <1>t DEF Open, Goto
  <2> QED
    BY <1>1, <1>u, <1>t, <1>a, <2>1
    DEF Open, AnswerOK, PageType, Coherent, IdsFollow, ResultsFollow
<1>2. CASE ReadStatuses
  <2>1. page'.pc = "jobIds" /\ page.pc = "statuses" /\ shown' = shown
    BY <1>2, <1>t DEF ReadStatuses, Goto
  <2>2. answer'.statuses = status /\ answer' \in AnswerType
    BY <1>2, <1>t, <1>r DEF ReadStatuses, AnswerType
  <2>3. IdsFollow(answer'.statuses, jobIds) /\ ResultsFollow(answer'.statuses, results)
    BY <2>2, NowCoherent DEF PInv
  <2>4. PageType'
    BY <1>2, <1>t, <2>2 DEF ReadStatuses, Goto, PageType, AnswerType
  <2> QED
    BY <1>u, <1>a, <2>1, <2>3, <2>4
    DEF AnswerOK, Coherent, IdsFollow, ResultsFollow
<1>3. CASE ReadJobIds
  <2>1. page'.pc = "results" /\ page.pc = "jobIds" /\ shown' = shown
    BY <1>3, <1>t DEF ReadJobIds, Goto
  <2>2. /\ answer'.statuses = answer.statuses /\ answer'.jobIds = jobIds
        /\ answer' \in AnswerType
    BY <1>3, <1>t, <1>r DEF ReadJobIds, AnswerType
  <2>3. PageType'
    BY <1>3, <1>t, <2>2 DEF ReadJobIds, Goto, PageType, AnswerType
  <2> QED
    BY <1>u, <1>a, <2>1, <2>2, <2>3
    DEF AnswerOK, Coherent, IdsFollow, ResultsFollow
<1>4. CASE ReadResults
  <2>1. page'.pc = "render" /\ page.pc = "results" /\ shown' = shown
    BY <1>4, <1>t DEF ReadResults, Goto
  <2>2. /\ answer'.statuses = answer.statuses /\ answer'.jobIds = answer.jobIds
        /\ answer'.results = results /\ answer' \in AnswerType
    BY <1>4, <1>t, <1>r DEF ReadResults, AnswerType
  <2>3. PageType'
    BY <1>4, <1>t, <2>2 DEF ReadResults, Goto, PageType, AnswerType
  <2> QED
    BY <1>u, <1>a, <2>1, <2>2, <2>3
    DEF AnswerOK, Coherent, IdsFollow, ResultsFollow
<1>5. CASE Render
  <2>1. /\ page'.pc \in {"stopped", "waiting"} /\ page.pc = "render"
        /\ shown' = answer /\ answer' = NoAnswer
    BY <1>5, <1>t DEF Render, Goto
  <2>2. PageType'
    BY <1>5, <1>t, <2>1, NoAnswerCoherent DEF Render, Goto, PageType, AnswerType
  <2> QED
    BY <1>u, <1>a, <2>1, <2>2
    DEF AnswerOK, Coherent, IdsFollow, ResultsFollow
<1>6. CASE PollFails
  <2>1. /\ page'.pc = "waiting" /\ page.pc # "closed" /\ page' \in
             [pc : {"waiting"}, errors : 0..MaxErrors]
        /\ shown' = shown /\ answer' = NoAnswer
    BY <1>6, <1>t, ErrorsAssumption DEF PollFails
  <2>2. PageType'
    BY <1>t, <2>1, NoAnswerCoherent DEF PageType, AnswerType
  <2> QED
    BY <1>u, <1>a, <2>1, <2>2
    DEF AnswerOK, Coherent, IdsFollow, ResultsFollow
<1>7. CASE Tick
  <2>1. /\ page'.pc = "statuses" /\ page.pc = "waiting"
        /\ shown' = shown /\ answer' = answer
    BY <1>7, <1>t DEF Tick, Goto
  <2>2. PageType'
    BY <1>7, <1>t, <2>1 DEF Tick, Goto, PageType, AnswerType
  <2> QED
    BY <1>u, <1>a, <2>1, <2>2
    DEF AnswerOK, Coherent, IdsFollow, ResultsFollow
<1> QED
  BY <1>1, <1>2, <1>3, <1>4, <1>5, <1>6, <1>7 DEF PageStep

-----------------------------------------------------------------------------
LEMMA PageInit == FollowInit => PInv
<1> SUFFICES ASSUME FollowInit PROVE PInv
  OBVIOUS
<1>1. FInv /\ DecidedOK
  BY FailureInit, DecidedInit DEF FollowInit
<1>2. StartedOK
  BY DEF FollowInit, Init, StartedOK, Started
<1>3. PageType
  BY NoAnswerCoherent, ErrorsAssumption DEF FollowInit, PageType
<1>4. AnswerOK
  BY NoAnswerCoherent DEF FollowInit, AnswerOK
<1> QED
  BY <1>1, <1>2, <1>3, <1>4 DEF PInv

LEMMA PageNext == PInv /\ [FollowNext]_followVars => PInv'
<1> SUFFICES ASSUME PInv, [FollowNext]_followVars PROVE PInv'
  OBVIOUS
<1>1. [Next]_vars
  BY DEF FollowNext, followVars, PageStep
<1>2. FInv' /\ DecidedOK'
  BY <1>1, FailureNext, DecidedStepOK DEF PInv
<1>3. StartedOK'
  BY <1>1, StartedStepOK DEF PInv
<1>4. AnswerOK' /\ PageType'
  <2>1. CASE PageStep
    BY <2>1, PageKeepsAnswer
  <2>2. CASE ~ PageStep
    BY <1>1, <2>2, ExecutionKeepsAnswer DEF FollowNext, followVars
  <2> QED
    BY <2>1, <2>2
<1> QED
  BY <1>2, <1>3, <1>4 DEF PInv

(* However the five reads of findDag interleave with the execution, no     *)
(* screen shows an effect without its cause.                               *)
THEOREM ScreensAreCoherent == FollowSpec => []ScreenCoherent
<1>1. PInv => ScreenCoherent
  BY DEF PInv, AnswerOK, Coherent, IdsFollow, ResultsFollow, Started,
     ScreenCoherent
<1> QED
  BY <1>1, PageInit, PageNext, PTL DEF FollowSpec

=============================================================================
