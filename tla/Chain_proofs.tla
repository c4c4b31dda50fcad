---------------------------- MODULE Chain_proofs ----------------------------
(***************************************************************************)
(* Proofs about Chain and, with it, DeadLetters: for any jobs, operators,  *)
(* attempts, stalls, faults and any length of the chain.                   *)
(***************************************************************************)
EXTENDS Chain, FiniteSetTheorems, TLAPS

(* An absent job is blank, a failed one has had an event, and a job that   *)
(* is not decided has an attempt left.                                     *)
JobOK(j) ==
  /\ ~Exists(j) => job[j] = Absent
  /\ job[j].event # "none" <=> job[j].state = "failed"
  /\ job[j].state \notin {"completed", "failed"} => job[j].attemptsMade < Attempts
  /\ job[j].returnvalue # <<>> => job[j].state = "completed"

(* A job waits only for a child that is not completed.                     *)
WaitOK(j) ==
  job[j].state = "waiting-children" =>
    job[j].child \in Job /\ job[job[j].child].state # "completed"

(* A letter is written once, by the handler of a failed job, and goes only *)
(* when a copy exists.                                                     *)
LetterOK(j) ==
  /\ j \in dlq => job[j].event = "kept"
  /\ job[j].event = "kept" => j \in dlq \/ Copies(j) # {}
  /\ Copies(j) # {} => job[j].event = "kept"

(* An operator has found a letter that was written, and removes it only    *)
(* after its copy was added.                                               *)
RetryOK(o) ==
  /\ retry[o].pc # "idle" => retry[o].letter \in Job /\ job[retry[o].letter].event = "kept"
  /\ retry[o].pc = "added" => Copies(retry[o].letter) # {}

LettersInv ==
  /\ LettersTypeOK
  /\ \A j \in Job : JobOK(j) /\ WaitOK(j) /\ LetterOK(j)
  /\ \A o \in Operator : RetryOK(o)
  /\ CopiesExplained

-----------------------------------------------------------------------------
(* What a step does to a job.                                              *)

Waiting(j)   == job[j].state = "waiting-children"
Completed(j) == job[j].state = "completed"

(* A job keeps its child and its origin, a decided one its state and its   *)
(* result, and a letter once written is not written again.                 *)
Keeps(k) ==
  /\ JobOK(k)'
  /\ Exists(k) => Exists(k)' /\ job'[k].child = job[k].child /\ job'[k].origin = job[k].origin
  /\ job[k].state \in {"completed", "failed"} =>
       job'[k].state = job[k].state /\ job'[k].returnvalue = job[k].returnvalue
  /\ job[k].event = "kept" => job'[k].event = "kept"
  /\ job'[k].event = "kept" => job[k].event = "kept" \/ k \in dlq'

(* In the steps of DeadLetters, moreover, a parent waits until its child is *)
(* completed, and a job that completes returns its output.                 *)
Moves(k) ==
  /\ job'[k] \in JobRecord
  /\ Keeps(k)
  /\ ~Exists(k) => job'[k].child = NoJob
  /\ ~Exists(k) /\ k \in FlowJob => job'[k] = job[k]
  /\ Waiting(k)' => Waiting(k)
  /\ Waiting(k) /\ job[k].child \in Job =>
       (job'[k].state # "waiting-children" <=> job'[job[k].child].state = "completed")
  /\ Completed(k)' /\ ~Completed(k) =>
       job[k].state = "active" /\ job'[k].returnvalue = Output(k)

JobsKeep == job' \in [Job -> JobRecord] /\ \A k \in Job : Keeps(k)
JobsMove == job' \in [Job -> JobRecord] /\ \A k \in Job : Moves(k)

LEMMA MoveKeeps ==
  ASSUME JobsMove
  PROVE  JobsKeep
BY DEF JobsMove, JobsKeep, Moves

LEMMA JobTypes ==
  ASSUME LettersInv, NEW j \in Job
  PROVE  /\ job[j] \in JobRecord /\ JobOK(j) /\ WaitOK(j)
         /\ job \in [Job -> JobRecord]
BY DEF LettersInv, LettersTypeOK

(* A step that leaves the jobs alone.                                      *)
LEMMA JobsSame ==
  ASSUME LettersInv, job' = job
  PROVE  JobsMove
<1>1. ASSUME NEW k \in Job PROVE Moves(k)
  <2>1. job[k] \in JobRecord /\ JobOK(k) /\ WaitOK(k) /\ job'[k] = job[k]
    BY JobTypes
  <2>2. JobOK(k)'
    BY <2>1 DEF JobOK, Exists
  <2> QED
    BY <2>1, <2>2 DEF Moves, Keeps, JobOK, WaitOK, Exists, Waiting, Completed, Absent
<1> QED
  BY <1>1 DEF JobsMove, LettersInv, LettersTypeOK

(* A step that changes one job, whose child, if it waits, is another one.  *)
LEMMA OneMoves ==
  ASSUME LettersInv, NEW j \in Job, NEW r \in JobRecord,
         job' = [job EXCEPT ![j] = r], Moves(j), r.state = "completed" => job[j].state = "completed"
  PROVE  JobsMove
<1>1. job' \in [Job -> JobRecord] /\ job'[j] = r
  BY JobTypes
<1>2. ASSUME NEW k \in Job, k # j PROVE Moves(k)
  <2>1. job[k] \in JobRecord /\ JobOK(k) /\ WaitOK(k) /\ job'[k] = job[k]
    BY <1>2, JobTypes
  <2>2. \A i \in Job : job'[i].state = "completed" => job[i].state = "completed"
    BY <1>1, JobTypes
  <2>3. \A i \in Job : job[i].state = "completed" => job'[i].state = "completed"
    BY <1>1, JobTypes DEF Moves, Keeps
  <2> QED
    BY <2>1, <2>2, <2>3 DEF Moves, Keeps, JobOK, WaitOK, Exists, Waiting, Completed, Absent
<1> QED
  BY <1>1, <1>2 DEF JobsMove

LEMMA NewTaskShape ==
  ASSUME NEW o \in Job \cup {NoJob}
  PROVE  /\ NewTask(o) \in JobRecord
         /\ NewTask(o).state = "prioritized" /\ NewTask(o).event = "none"
         /\ NewTask(o).child = NoJob /\ NewTask(o).origin = o
         /\ NewTask(o).attemptsMade = 0 /\ NewTask(o).returnvalue = <<>>
<1>1. Absent \in JobRecord
  BY DeadLettersAssumption DEF JobRecord, States, Absent
<1>2. NewTask(o) \in JobRecord
  BY <1>1 DEF JobRecord, States, NewTask
<1> QED
  BY <1>1, <1>2 DEF JobRecord, States, NewTask, Absent

LEMMA NewTaskMoves ==
  ASSUME LettersInv, NEW j \in Job, NEW o \in Job \cup {NoJob},
         j \notin FlowJob, ~Exists(j), job' = [job EXCEPT ![j] = NewTask(o)]
  PROVE  JobsMove
<1>1. job[j] = Absent /\ job'[j] = NewTask(o)
  BY JobTypes DEF JobOK
<1>2. Moves(j)
  BY <1>1, NewTaskShape, DeadLettersAssumption
  DEF Moves, Keeps, JobOK, Exists, Waiting, Completed, Absent
<1> QED
  BY <1>2, NewTaskShape, OneMoves

(* The other steps that change one job: r is what becomes of it.           *)
LEMMA OneActs ==
  ASSUME LettersInv, NEW j \in Job, NEW r, job' = [job EXCEPT ![j] = r],
         r \in JobRecord, r.child = job[j].child, r.origin = job[j].origin,
         r.returnvalue = job[j].returnvalue,
         job[j].state \notin {"none", "waiting-children", "completed"},
         r.state \notin {"none", "waiting-children", "completed"},
         job[j].state = "failed" => r.state = "failed",
         r.event # "none" <=> r.state = "failed",
         r.state # "failed" => r.attemptsMade < Attempts,
         job[j].event = "kept" => r.event = "kept",
         r.event = "kept" => job[j].event = "kept" \/ j \in dlq'
  PROVE  JobsMove
<1>1. job'[j] = r
  BY JobTypes
<1>2. Moves(j)
  BY <1>1, JobTypes DEF Moves, Keeps, JobOK, Exists, Waiting, Completed
<1> QED
  BY <1>2, OneMoves

LEMMA TakeMoves ==
  ASSUME LettersInv, NEW j \in Job, Take(j)
  PROVE  JobsMove
<1> DEFINE r == [job[j] EXCEPT !.state = "active"]
<1>1. r \in JobRecord /\ job' = [job EXCEPT ![j] = r] /\ job[j] \in JobRecord /\ JobOK(j)
  BY JobTypes DEF Take, JobRecord, States
<1>2. r = [job[j] EXCEPT !.state = "active"] /\ job[j].state = "prioritized"
  BY DEF Take
<1> HIDE DEF r
<1> QED
  BY <1>1, <1>2, OneActs DEF JobOK, JobRecord, States

LEMMA FailAttemptMoves ==
  ASSUME LettersInv, NEW j \in Job, FailAttempt(j)
  PROVE  JobsMove
<1> DEFINE made == job[j].attemptsMade + 1
           r == [job[j] EXCEPT !.attemptsMade = made,
                               !.state = IF made < Attempts THEN "prioritized" ELSE "failed",
                               !.event = IF made < Attempts THEN "none" ELSE "due"]
<1>1. job[j] \in JobRecord /\ JobOK(j) /\ job[j].state = "active" /\ made \in 0..Attempts
  BY JobTypes, DeadLettersAssumption DEF FailAttempt, JobRecord, JobOK
<1>2. job' = [job EXCEPT ![j] = r]
  BY JobTypes DEF FailAttempt, JobRecord, States
<1>3. r \in JobRecord
  BY <1>1 DEF JobRecord, States
<1>4. /\ r.child = job[j].child /\ r.origin = job[j].origin
      /\ r.returnvalue = job[j].returnvalue /\ r.attemptsMade = made
      /\ r.state = IF made < Attempts THEN "prioritized" ELSE "failed"
      /\ r.event = IF made < Attempts THEN "none" ELSE "due"
  BY <1>1 DEF JobRecord, States
<1> HIDE DEF r, made
<1> QED
  BY <1>1, <1>2, <1>3, <1>4, OneActs DEF JobOK

LEMMA AddLetterMoves ==
  ASSUME LettersInv, NEW j \in Job, AddLetter(j)
  PROVE  JobsMove
<1> DEFINE r == [job[j] EXCEPT !.event = "kept"]
<1>1. r \in JobRecord /\ job' = [job EXCEPT ![j] = r] /\ job[j] \in JobRecord /\ JobOK(j)
  BY JobTypes DEF AddLetter, JobRecord
<1>2. r = [job[j] EXCEPT !.event = "kept"] /\ job[j].event = "due" /\ j \in dlq'
  BY DEF AddLetter
<1> HIDE DEF r
<1> QED
  BY <1>1, <1>2, OneActs DEF JobOK, JobRecord, States

LEMMA RecoverStalledMoves ==
  ASSUME LettersInv, NEW j \in Job, RecoverStalled(j)
  PROVE  JobsMove
<1>0. job[j] \in JobRecord /\ JobOK(j) /\ job[j].state = "stalled"
  BY JobTypes DEF RecoverStalled
<1>1. CASE job[j].stalled < MaxStalled
  <2> DEFINE r == [job[j] EXCEPT !.state = "prioritized",
                                 !.stalled = job[j].stalled + 1]
  <2>0. job' = [job EXCEPT ![j].state = "prioritized",
                            ![j].stalled = job[j].stalled + 1]
    BY <1>0, <1>1, DeadLettersAssumption DEF RecoverStalled, JobRecord
  <2>a. job[j].stalled + 1 \in 0..MaxStalled
    BY <1>0, <1>1, DeadLettersAssumption DEF JobRecord
  <2>b. r \in JobRecord
    BY <1>0, <2>a DEF JobRecord, States
  <2>1. r \in JobRecord /\ job' = [job EXCEPT ![j] = r]
    BY <2>0, <2>b, JobTypes DEF JobRecord
  <2>2. r = [job[j] EXCEPT !.state = "prioritized", !.stalled = job[j].stalled + 1]
    OBVIOUS
  <2> HIDE DEF r
  <2> QED
    BY <1>0, <2>1, <2>2, OneActs DEF JobOK, JobRecord, States
<1>2. CASE job[j].stalled >= MaxStalled
  <2> DEFINE r == [job[j] EXCEPT !.state = "failed", !.event = "lost"]
  <2>0. job' = [job EXCEPT ![j].state = "failed", ![j].event = "lost"]
    BY <1>0, <1>2, DeadLettersAssumption DEF RecoverStalled, JobRecord
  <2>1. r \in JobRecord /\ job' = [job EXCEPT ![j] = r]
    BY <1>0, <1>2, <2>0, JobTypes, DeadLettersAssumption DEF JobRecord, States
  <2>2. r = [job[j] EXCEPT !.state = "failed", !.event = "lost"]
    OBVIOUS
  <2> HIDE DEF r
  <2> QED
    BY <1>0, <2>1, <2>2, OneActs DEF JobOK, JobRecord, States
<1> QED
  BY <1>0, <1>1, <1>2, DeadLettersAssumption DEF JobRecord

LEMMA OutputTyped ==
  ASSUME LettersInv, NEW j \in Job
  PROVE  Output(j) \in Seq(Job) /\ Output(j) # <<>>
<1> DEFINE before == IF job[j].child = NoJob THEN <<>> ELSE job[job[j].child].returnvalue
<1>1. before \in Seq(Job)
  <2>1. job[j] \in JobRecord
    BY JobTypes
  <2>2. CASE job[j].child \in Job
    BY <2>2, JobTypes DEF JobRecord
  <2> QED
    BY <2>1, <2>2 DEF JobRecord
<1> HIDE DEF before
<1>2. Append(before, j) \in Seq(Job) /\ Append(before, j) # <<>>
  BY <1>1
<1> QED
  BY <1>2 DEF before, Output

LEMMA CompleteMoves ==
  ASSUME LettersInv, NEW j \in Job, Complete(j)
  PROVE  JobsMove
<1> DEFINE r == [job[j] EXCEPT !.state = "completed", !.returnvalue = Output(j)]
           Freed(k) == job[k].child = j /\ job[k].state = "waiting-children"
<1>1. /\ job[j] \in JobRecord /\ JobOK(j) /\ job[j].state = "active"
      /\ job' = [k \in Job |-> IF k = j THEN r
                  ELSE IF Freed(k) THEN [job[k] EXCEPT !.state = "prioritized"] ELSE job[k]]
  BY JobTypes DEF Complete
<1>2. /\ r \in JobRecord /\ r.state = "completed" /\ r.returnvalue = Output(j)
      /\ r.child = job[j].child /\ r.origin = job[j].origin /\ r.event = job[j].event
      /\ r.attemptsMade = job[j].attemptsMade
  BY <1>1, OutputTyped DEF JobRecord, States
<1>3. ASSUME NEW k \in Job, k # j, Freed(k)
      PROVE  /\ job'[k] \in JobRecord /\ job'[k].state = "prioritized"
             /\ job'[k].child = j /\ job'[k].origin = job[k].origin
             /\ job'[k].event = job[k].event /\ job'[k].returnvalue = job[k].returnvalue
             /\ job'[k].attemptsMade = job[k].attemptsMade
             /\ job[k].state = "waiting-children" /\ job[k].child = j
  <2>1. job[k] \in JobRecord /\ job'[k] = [job[k] EXCEPT !.state = "prioritized"]
    BY <1>1, <1>3, JobTypes
  <2> QED
    BY <1>3, <2>1 DEF JobRecord, States
<1>4. ASSUME NEW k \in Job, k # j, ~Freed(k) PROVE job'[k] = job[k]
  BY <1>1, <1>4
<1>5. job'[j] = r
  BY <1>1
<1> HIDE DEF r
<1>6. \A i \in Job : job'[i].state = "completed" <=> job[i].state = "completed" \/ i = j
  BY <1>1, <1>2, <1>3, <1>4, <1>5
<1>7. Moves(j)
  BY <1>1, <1>2, <1>5, OutputTyped DEF Moves, Keeps, JobOK, Exists, Waiting, Completed
<1>8. ASSUME NEW k \in Job, k # j, Freed(k) PROVE Moves(k)
  <2>1. JobOK(k)
    BY JobTypes
  <2> QED
    BY <1>3, <1>6, <1>8, <2>1 DEF Moves, Keeps, JobOK, Exists, Waiting, Completed
<1>9. ASSUME NEW k \in Job, k # j, ~Freed(k) PROVE Moves(k)
  <2>1. job[k] \in JobRecord /\ JobOK(k) /\ WaitOK(k) /\ job'[k] = job[k]
    BY <1>4, <1>9, JobTypes
  <2>2. JobOK(k)'
    BY <2>1 DEF JobOK, Exists
  <2> QED
    BY <1>6, <1>9, <2>1, <2>2 DEF Moves, Keeps, JobOK, WaitOK, Exists, Waiting, Completed, Absent
<1> QED
  <2>1. \A k \in Job : Moves(k)
    BY <1>7, <1>8, <1>9
  <2>2. \A k \in Job : job'[k] \in JobRecord
    BY <2>1 DEF Moves, Keeps
  <2> HIDE DEF Freed
  <2> QED
    BY <1>1, <2>1, <2>2 DEF JobsMove

LEMMA WorkerCrashMoves ==
  ASSUME LettersInv, WorkerCrash
  PROVE  JobsMove
<1>1. ASSUME NEW k \in Job PROVE Moves(k) /\ job'[k] \in JobRecord
  <2>0. job[k] \in JobRecord /\ JobOK(k) /\ WaitOK(k)
    BY JobTypes
  <2>1. job'[k] = IF job[k].state = "active" THEN [job[k] EXCEPT !.state = "stalled"]
                  ELSE IF job[k].event = "due" THEN [job[k] EXCEPT !.event = "lost"]
                  ELSE job[k]
    BY DEF WorkerCrash
  <2>2. /\ job'[k] \in JobRecord
        /\ job'[k].child = job[k].child /\ job'[k].origin = job[k].origin
        /\ job'[k].returnvalue = job[k].returnvalue
        /\ job'[k].attemptsMade = job[k].attemptsMade
        /\ job'[k].state = IF job[k].state = "active" THEN "stalled" ELSE job[k].state
        /\ job'[k].event = IF job[k].state # "active" /\ job[k].event = "due" THEN "lost"
                           ELSE job[k].event
        /\ ~Exists(k) => job'[k] = job[k]
    BY <2>0, <2>1 DEF JobRecord, States, Exists, JobOK, Absent
  <2>3. \A i \in Job : job'[i].state = "completed" <=> job[i].state = "completed"
    BY JobTypes DEF WorkerCrash, JobRecord, States
  <2>4. JobOK(k)'
    BY <2>0, <2>2 DEF JobOK, Exists
  <2> QED
    BY <2>0, <2>2, <2>3, <2>4 DEF Moves, Keeps, JobOK, WaitOK, Exists, Waiting, Completed, Absent
<1>2. job' = [j \in Job |-> job'[j]]
  BY DEF WorkerCrash
<1> QED
  BY <1>1, <1>2 DEF JobsMove

(* Every step of the queue, the worker and the operators.                  *)
LEMMA LettersMove ==
  ASSUME LettersInv, LettersNext
  PROVE  JobsMove
<1>1. ASSUME NEW j \in Job, Submit(j) PROVE JobsMove
  BY <1>1, NewTaskMoves DEF Submit
<1>2. ASSUME NEW j \in Job, WorkerStep(j) PROVE JobsMove
  BY <1>2, TakeMoves, CompleteMoves, FailAttemptMoves, AddLetterMoves, RecoverStalledMoves
  DEF WorkerStep
<1>3. ASSUME NEW o \in Operator, NEW k \in Job, AddCopy(o, k) PROVE JobsMove
  <2>1. retry[o].letter \in Job \cup {NoJob}
    BY DEF LettersInv, LettersTypeOK
  <2> QED
    BY <1>3, <2>1, NewTaskMoves DEF AddCopy
<1>4. ASSUME NEW o \in Operator, RetryStep(o) PROVE JobsMove
  BY <1>3, <1>4, JobsSame DEF RetryStep, FindLetter, RemoveLetter, RetryCutOff
<1> QED
  BY <1>1, <1>2, <1>4, WorkerCrashMoves DEF LettersNext

-----------------------------------------------------------------------------
(* Letters and copies.                                                     *)

(* No step but AddCopy makes a copy.                                       *)
LEMMA CopiesKept ==
  ASSUME LettersInv, JobsKeep, \A k \in Job : ~Exists(k) => job'[k].origin = NoJob
  PROVE  \A j \in Job : Copies(j)' = Copies(j)
<1>1. ASSUME NEW k \in Job PROVE job'[k].origin = job[k].origin
  <2>1. CASE Exists(k)
    BY <2>1 DEF JobsKeep, Keeps
  <2>2. CASE ~Exists(k)
    BY <2>2, JobTypes DEF JobOK, Absent
  <2> QED
    BY <2>1, <2>2
<1> QED
  BY <1>1 DEF Copies

LEMMA AbsentBlank ==
  ASSUME LettersInv, NEW k \in Job, ~Exists(k)
  PROVE  job[k].origin = NoJob /\ job[k].child = NoJob /\ job[k].event = "none"
BY JobTypes DEF JobOK, Absent

LEMMA CopiesFinite ==
  ASSUME LettersInv, NEW j \in Job
  PROVE  /\ IsFiniteSet(Copies(j)) /\ Cardinality(Copies(j)) \in Nat
         /\ \A pc \in {"found", "added"} :
              /\ At(pc, j) \subseteq Operator /\ IsFiniteSet(At(pc, j))
              /\ Cardinality(At(pc, j)) \in Nat
         /\ Cardinality(At("found", j)) + Cardinality(At("added", j)) <= Cardinality(Operator)
         /\ Cardinality(Operator) \in Nat /\ faults \in Nat
<1>1. IsFiniteSet(Copies(j))
  <2>1. Copies(j) \subseteq Job
    BY DEF Copies
  <2> QED
    BY <2>1, FS_Subset, DeadLettersAssumption
<1>2. \A pc \in {"found", "added"} : At(pc, j) \subseteq Operator /\ IsFiniteSet(At(pc, j))
  <2>1. \A pc \in {"found", "added"} : At(pc, j) \subseteq Operator
    BY DEF At
  <2> QED
    BY <2>1, FS_Subset, DeadLettersAssumption
<1>3. Cardinality(At("found", j)) + Cardinality(At("added", j)) <= Cardinality(Operator)
  <2> DEFINE F == At("found", j)
             A == At("added", j)
  <2>1. F \intersect A = {}
    BY DEF At
  <2>2. IsFiniteSet(F) /\ IsFiniteSet(A) /\ F \cup A \subseteq Operator
    BY <1>2
  <2> HIDE DEF F, A
  <2>3. Cardinality(F \cup A) = Cardinality(F) + Cardinality(A)
    <3>1. Cardinality(F \cup A) = Cardinality(F) + Cardinality(A) - Cardinality(F \intersect A)
      BY <2>2, FS_Union
    <3>2. Cardinality(F \intersect A) = 0
      BY <2>1, FS_EmptySet
    <3>3. Cardinality(F) \in Nat /\ Cardinality(A) \in Nat
      BY <2>2, FS_CardinalityType
    <3> QED
      BY <3>1, <3>2, <3>3
  <2>4. Cardinality(F \cup A) <= Cardinality(Operator)
    BY <2>2, FS_Subset, DeadLettersAssumption
  <2>5. Cardinality(F) + Cardinality(A) <= Cardinality(Operator)
    BY <2>3, <2>4
  <2> QED
    BY <2>5 DEF F, A
<1> QED
  BY <1>1, <1>2, <1>3, FS_CardinalityType, DeadLettersAssumption DEF LettersInv, LettersTypeOK

(* What a step that adds no copy needs of the letters.                     *)
LEMMA LettersSame ==
  ASSUME LettersInv, JobsKeep, \A k \in Job : ~Exists(k) => job'[k].origin = NoJob,
         dlq' \subseteq Job, \A j \in Job : j \in dlq' => job'[j].event = "kept",
         \A j \in Job : j \in dlq => j \in dlq' \/ Copies(j) # {}
  PROVE  \A j \in Job : LetterOK(j)'
<1> SUFFICES ASSUME NEW j \in Job PROVE LetterOK(j)'
  OBVIOUS
<1>1. LetterOK(j) /\ Keeps(j) /\ Copies(j)' = Copies(j)
  BY CopiesKept DEF LettersInv, JobsKeep
<1> QED
  BY <1>1 DEF LetterOK, Keeps

LEMMA RetrySame ==
  ASSUME LettersInv, JobsKeep, \A k \in Job : ~Exists(k) => job'[k].origin = NoJob,
         NEW o \in Operator, retry'[o] = retry[o]
  PROVE  RetryOK(o)'
<1>1. RetryOK(o)
  BY DEF LettersInv
<1>2. CASE retry[o].pc = "idle"
  <2>1. retry[o].pc # "added"
    BY <1>2
  <2> QED
    BY <1>2, <2>1 DEF RetryOK
<1>3. CASE retry[o].pc # "idle"
  <2>1. retry[o].letter \in Job /\ Keeps(retry[o].letter)
    BY <1>1, <1>3 DEF RetryOK, JobsKeep
  <2>2. Copies(retry[o].letter)' = Copies(retry[o].letter)
    <3>1. \A j \in Job : Copies(j)' = Copies(j)
      BY CopiesKept
    <3> DEFINE l == retry[o].letter
    <3>2. {k \in Job : job'[k].origin = l} = {k \in Job : job[k].origin = l}
      BY <2>1, <3>1 DEF Copies
    <3> QED
      BY <3>2 DEF Copies
  <2> QED
    BY <1>1, <1>3, <2>1, <2>2 DEF RetryOK, Keeps, Copies
<1> QED
  BY <1>2, <1>3

CopiesOK(j) ==
  /\ j \in dlq => Cardinality(Copies(j)) <= Cardinality(At("added", j)) + faults
  /\ Cardinality(Copies(j)) + Cardinality(At("found", j)) <= Cardinality(Operator) + faults

LEMMA CopiesExplainedOK == CopiesExplained <=> \A j \in Job : CopiesOK(j)
BY DEF CopiesExplained, CopiesOK

LEMMA MovesOK ==
  ASSUME LettersInv, JobsMove
  PROVE  \A j \in Job : JobOK(j)' /\ WaitOK(j)'
<1> SUFFICES ASSUME NEW j \in Job PROVE JobOK(j)' /\ WaitOK(j)'
  OBVIOUS
<1>1. Moves(j) /\ WaitOK(j) /\ JobOK(j)'
  BY DEF JobsMove, Moves, Keeps, LettersInv
<1>2. ASSUME Waiting(j)' PROVE job'[j].child \in Job /\ job'[job'[j].child].state # "completed"
  <2>1. Waiting(j) /\ Exists(j)
    BY <1>1, <1>2 DEF Moves, Keeps, Waiting, Exists
  <2>2. job[j].child \in Job /\ job'[j].child = job[j].child
    BY <1>1, <2>1 DEF Moves, Keeps, WaitOK, Waiting
  <2> QED
    BY <1>1, <1>2, <2>1, <2>2 DEF Moves, Keeps, Waiting
<1> QED
  BY <1>1, <1>2 DEF WaitOK, Waiting

(* A step of the queue that touches neither letters nor operators.         *)
LEMMA QuietStep ==
  ASSUME LettersInv, JobsKeep, \A j \in Job : WaitOK(j)',
         \A k \in Job : ~Exists(k) => job'[k].origin = NoJob,
         UNCHANGED <<dlq, retry>>, faults' \in 0..MaxFaults, faults' >= faults
  PROVE  LettersInv'
<1>1. LettersTypeOK'
  BY DEF LettersInv, LettersTypeOK, JobsKeep
<1>2. \A j \in Job : JobOK(j)' /\ WaitOK(j)'
  BY DEF JobsKeep, Keeps
<1>3. ASSUME NEW j \in Job, j \in dlq PROVE job'[j].event = "kept"
  BY <1>3 DEF LettersInv, LetterOK, JobsKeep, Keeps
<1>4. \A j \in Job : LetterOK(j)'
  BY <1>3, LettersSame DEF LettersInv, LettersTypeOK
<1>5. \A o \in Operator : RetryOK(o)'
  BY RetrySame
<1>6. ASSUME NEW j \in Job PROVE CopiesOK(j)'
  <2>1. Copies(j)' = Copies(j) /\ CopiesOK(j)
    BY CopiesKept, CopiesExplainedOK DEF LettersInv
  <2>2. At("found", j)' = At("found", j) /\ At("added", j)' = At("added", j)
    BY DEF At
  <2>3. faults' \in Nat
    BY DeadLettersAssumption
  <2> QED
    BY <2>1, <2>2, <2>3, CopiesFinite DEF CopiesOK
<1>7. CopiesExplained'
  BY <1>6 DEF CopiesExplained, CopiesOK
<1> QED
  BY <1>1, <1>2, <1>4, <1>5, <1>7 DEF LettersInv

LEMMA AddLetterOK ==
  ASSUME LettersInv, NEW l \in Job, AddLetter(l)
  PROVE  LettersInv'
<1>0. JobsMove /\ JobsKeep
  BY AddLetterMoves, MoveKeeps
<1>a. job \in [Job -> JobRecord] /\ job[l].event = "due" /\ dlq' = dlq \cup {l}
      /\ retry' = retry /\ faults' = faults /\ job' = [job EXCEPT ![l].event = "kept"]
  BY DEF AddLetter, LettersInv, LettersTypeOK
<1>b. \A k \in Job : ~Exists(k) => job'[k].origin = NoJob
  BY <1>a, AbsentBlank DEF JobRecord
<1>1. LettersTypeOK'
  BY <1>0, <1>a DEF LettersInv, LettersTypeOK, JobsMove
<1>2. \A j \in Job : JobOK(j)' /\ WaitOK(j)'
  BY <1>0, MovesOK
<1>3. ASSUME NEW j \in Job, j \in dlq' PROVE job'[j].event = "kept"
  <2>1. CASE j = l
    BY <1>a, <2>1 DEF JobRecord
  <2>2. CASE j \in dlq
    BY <1>0, <2>2 DEF LettersInv, LetterOK, JobsMove, Moves, Keeps
  <2> QED
    BY <1>a, <1>3, <2>1, <2>2
<1>4. \A j \in Job : LetterOK(j)'
  <2>1. dlq' \subseteq Job /\ dlq \subseteq dlq'
    BY <1>a DEF LettersInv, LettersTypeOK
  <2> QED
    BY <1>0, <1>b, <1>3, <2>1, LettersSame
<1>5. \A o \in Operator : RetryOK(o)'
  BY <1>0, <1>a, <1>b, RetrySame
<1>6. ASSUME NEW j \in Job PROVE CopiesOK(j)'
  <2>1. Copies(j)' = Copies(j) /\ CopiesOK(j)
    BY <1>0, <1>b, CopiesKept, CopiesExplainedOK DEF LettersInv
  <2>2. At("found", j)' = At("found", j) /\ At("added", j)' = At("added", j)
    BY <1>a DEF At
  <2>3. j = l => Cardinality(Copies(j)) = 0
    BY <1>a, FS_EmptySet DEF LettersInv, LetterOK
  <2> QED
    BY <1>a, <2>1, <2>2, <2>3, CopiesFinite DEF CopiesOK
<1>7. CopiesExplained'
  BY <1>6 DEF CopiesExplained, CopiesOK
<1> QED
  BY <1>1, <1>2, <1>4, <1>5, <1>7 DEF LettersInv

-----------------------------------------------------------------------------
(* retryFromDlq.                                                           *)

LEMMA RetryTypes ==
  ASSUME LettersInv, NEW o \in Operator
  PROVE  /\ retry \in [Operator -> [pc : {"idle", "found", "added"}, letter : Job \cup {NoJob}]]
         /\ retry[o] \in [pc : {"idle", "found", "added"}, letter : Job \cup {NoJob}]
         /\ RetryOK(o)
         /\ retry[o].pc # "idle" => retry[o].letter \in Job
         /\ \A pc \in {"found", "added"}, j \in Job :
              o \in At(pc, j) <=> retry[o].pc = pc /\ retry[o].letter = j
BY DEF LettersInv, LettersTypeOK, RetryOK, At

(* How the sets of operators change when one of them steps.                *)
AtIn(now, pc, j) == {o \in Operator : now[o].pc = pc /\ now[o].letter = j}

LEMMA OperatorsCount ==
  ASSUME LettersInv, NEW o \in Operator,
         NEW r \in [pc : {"idle", "found", "added"}, letter : Job \cup {NoJob}],
         retry' = [retry EXCEPT ![o] = r], NEW j \in Job
  PROVE  /\ Cardinality(AtIn(retry', "added", j)) =
              Cardinality(AtIn(retry, "added", j))
                - (IF retry[o].pc = "added" /\ retry[o].letter = j THEN 1 ELSE 0)
                + (IF r.pc = "added" /\ r.letter = j THEN 1 ELSE 0)
         /\ Cardinality(AtIn(retry', "found", j)) =
              Cardinality(AtIn(retry, "found", j))
                - (IF retry[o].pc = "found" /\ retry[o].letter = j THEN 1 ELSE 0)
                + (IF r.pc = "found" /\ r.letter = j THEN 1 ELSE 0)
<1>1. ASSUME NEW pc \in {"found", "added"}
      PROVE  Cardinality(AtIn(retry', pc, j)) =
              Cardinality(AtIn(retry, pc, j))
                - (IF retry[o].pc = pc /\ retry[o].letter = j THEN 1 ELSE 0)
                + (IF r.pc = pc /\ r.letter = j THEN 1 ELSE 0)
  <2> DEFINE A == AtIn(retry, pc, j)
             B == A \ {o}
  <2>1. \A q \in Operator : retry'[q] = IF q = o THEN r ELSE retry[q]
    BY RetryTypes
  <2>2. AtIn(retry', pc, j) = IF r.pc = pc /\ r.letter = j THEN B \cup {o} ELSE B
    BY <2>1 DEF AtIn
  <2>3. o \in A <=> retry[o].pc = pc /\ retry[o].letter = j
    BY DEF AtIn
  <2>4. IsFiniteSet(A) /\ Cardinality(A) \in Nat
    <3>1. A = At(pc, j)
      BY DEF At, AtIn
    <3> QED
      BY <3>1, CopiesFinite
  <2> HIDE DEF A
  <2>5. IsFiniteSet(B) /\ Cardinality(B) = Cardinality(A) - (IF o \in A THEN 1 ELSE 0)
    <3>1. CASE o \in A
      BY <2>4, <3>1, FS_RemoveElement
    <3>2. CASE o \notin A
      <4>1. B = A
        BY <3>2
      <4> HIDE DEF B
      <4> QED
        BY <2>4, <3>2, <4>1
    <3> QED
      BY <3>1, <3>2
  <2>6. Cardinality(B \cup {o}) = Cardinality(B) + 1
    <3>1. o \notin B
      OBVIOUS
    <3> HIDE DEF B
    <3> QED
      BY <2>5, <3>1, FS_AddElement
  <2>7. Cardinality(B) \in Int
    BY <2>4, <2>5
  <2> HIDE DEF B
  <2>8. CASE r.pc = pc /\ r.letter = j
    BY <2>2, <2>3, <2>5, <2>6, <2>7, <2>8 DEF A
  <2>9. CASE ~(r.pc = pc /\ r.letter = j)
    <3>1. Cardinality(AtIn(retry', pc, j)) = Cardinality(B) + 0
      BY <2>2, <2>7, <2>9
    <3> QED
      BY <2>3, <2>5, <2>9, <3>1 DEF A
  <2> QED
    BY <2>8, <2>9
<1> QED
  BY <1>1

(* The same of the operators in a step: before and after it.               *)
LEMMA AtStep ==
  ASSUME LettersInv, NEW j \in Job
  PROVE  /\ At("found", j) = AtIn(retry, "found", j) /\ At("added", j) = AtIn(retry, "added", j)
         /\ Cardinality(AtIn(retry, "found", j)) \in Nat
         /\ Cardinality(AtIn(retry, "added", j)) \in Nat
<1>1. At("found", j) = AtIn(retry, "found", j) /\ At("added", j) = AtIn(retry, "added", j)
  BY DEF At, AtIn
<1> QED
  BY <1>1, CopiesFinite

(* The steps that leave the jobs alone: what happens to the letters.       *)
LEMMA OperatorStep ==
  ASSUME LettersInv, NEW o \in Operator, job' = job,
         NEW r \in [pc : {"idle", "found", "added"}, letter : Job \cup {NoJob}],
         retry' = [retry EXCEPT ![o] = r], RetryOK(o)',
         dlq' \subseteq dlq, \A j \in dlq : j \in dlq' \/ Copies(j) # {},
         faults' \in 0..MaxFaults, \A j \in Job : CopiesOK(j)'
  PROVE  LettersInv'
<1>0. JobsMove /\ JobsKeep
  BY JobsSame, MoveKeeps
<1>b. \A k \in Job : ~Exists(k) => job'[k].origin = NoJob
  BY AbsentBlank
<1>1. LettersTypeOK'
  BY <1>0 DEF LettersInv, LettersTypeOK, JobsMove
<1>2. \A j \in Job : JobOK(j)' /\ WaitOK(j)'
  BY <1>0, MovesOK
<1>3. \A j \in Job : j \in dlq' => job'[j].event = "kept"
  BY DEF LettersInv, LetterOK
<1>4. \A j \in Job : LetterOK(j)'
  <2>1. dlq' \subseteq Job
    BY DEF LettersInv, LettersTypeOK
  <2> QED
    BY <1>0, <1>b, <1>3, <2>1, LettersSame
<1>5. ASSUME NEW q \in Operator PROVE RetryOK(q)'
  <2>1. CASE q = o
    BY <2>1
  <2>2. CASE q # o
    <3>1. retry'[q] = retry[q]
      BY <2>2, RetryTypes
    <3> QED
      BY <1>0, <1>b, <3>1, RetrySame
  <2> QED
    BY <2>1, <2>2
<1>6. CopiesExplained'
  BY DEF CopiesExplained, CopiesOK
<1> QED
  BY <1>1, <1>2, <1>4, <1>5, <1>6 DEF LettersInv

LEMMA FindLetterOK ==
  ASSUME LettersInv, NEW o \in Operator, NEW l \in Job, FindLetter(o, l)
  PROVE  LettersInv'
<1> DEFINE r == [pc |-> "found", letter |-> l]
<1>1. /\ retry[o].pc = "idle" /\ l \in dlq /\ retry' = [retry EXCEPT ![o] = r]
      /\ job' = job /\ dlq' = dlq /\ faults' = faults
  BY DEF FindLetter
<1>2. r \in [pc : {"idle", "found", "added"}, letter : Job \cup {NoJob}]
      /\ r.pc = "found" /\ r.letter = l
  OBVIOUS
<1> HIDE DEF r
<1>a. retry' = [retry EXCEPT ![o] = r]
  BY <1>1
<1>b. r \in [pc : {"idle", "found", "added"}, letter : Job \cup {NoJob}]
  BY <1>2
<1>3. retry'[o] = r
  BY <1>1, RetryTypes
<1>4. RetryOK(o)'
  BY <1>1, <1>2, <1>3 DEF RetryOK, LettersInv, LetterOK
<1>5. ASSUME NEW j \in Job PROVE CopiesOK(j)'
  <2>1. Copies(j)' = Copies(j)
    BY <1>1 DEF Copies
  <2>2. CopiesOK(j)
    BY CopiesExplainedOK DEF LettersInv
  <2>0. At("added", j)' = AtIn(retry', "added", j) /\ At("found", j)' = AtIn(retry', "found", j)
    BY DEF At, AtIn
  <2>a. /\ Cardinality(AtIn(retry', "added", j)) =
              Cardinality(AtIn(retry, "added", j))
                - (IF retry[o].pc = "added" /\ retry[o].letter = j THEN 1 ELSE 0)
                + (IF r.pc = "added" /\ r.letter = j THEN 1 ELSE 0)
        /\ Cardinality(AtIn(retry', "found", j)) =
              Cardinality(AtIn(retry, "found", j))
                - (IF retry[o].pc = "found" /\ retry[o].letter = j THEN 1 ELSE 0)
                + (IF r.pc = "found" /\ r.letter = j THEN 1 ELSE 0)
    BY <1>a, <1>b, OperatorsCount
  <2>3. Cardinality(At("added", j)') = Cardinality(At("added", j))
    BY <1>1, <1>2, <2>0, <2>a, AtStep
  <2>4. Cardinality(At("found", j)') = Cardinality(At("found", j)) + (IF l = j THEN 1 ELSE 0)
    BY <1>1, <1>2, <2>0, <2>a, AtStep
  <2>5. j = l => Cardinality(At("found", j)') + Cardinality(At("added", j)') <= Cardinality(Operator)
    <3> DEFINE F == At("found", j)'
               A == At("added", j)'
    <3>1. F \intersect A = {}
      BY DEF At
    <3>2. F \subseteq Operator /\ A \subseteq Operator
      BY DEF At
    <3> HIDE DEF F, A
    <3>3. IsFiniteSet(F) /\ IsFiniteSet(A) /\ IsFiniteSet(F \cup A)
          /\ Cardinality(F \cup A) <= Cardinality(Operator)
      BY <3>2, FS_Subset, FS_Union, DeadLettersAssumption
    <3>4. Cardinality(F \cup A) = Cardinality(F) + Cardinality(A) - Cardinality(F \intersect A)
      BY <3>3, FS_Union
    <3>5. Cardinality(F \intersect A) = 0
      BY <3>1, FS_EmptySet
    <3>6. Cardinality(F) + Cardinality(A) <= Cardinality(Operator)
      BY <3>3, <3>4, <3>5, FS_CardinalityType
    <3> QED
      BY <3>6 DEF F, A
  <2> HIDE DEF CopiesOK
  <2>6. Cardinality(At("found", j)') \in Nat /\ Cardinality(At("added", j)') \in Nat
    BY <2>3, <2>4, CopiesFinite
  <2> QED
    BY <1>1, <2>1, <2>2, <2>3, <2>4, <2>5, <2>6, CopiesFinite DEF CopiesOK
<1> QED
  BY <1>1, <1>2, <1>4, <1>5, OperatorStep DEF LettersInv, LettersTypeOK

LEMMA RemoveLetterOK ==
  ASSUME LettersInv, NEW o \in Operator, RemoveLetter(o)
  PROVE  LettersInv'
<1> DEFINE r == [pc |-> "idle", letter |-> NoJob]
           l == retry[o].letter
<1>1. /\ retry[o].pc = "added" /\ retry' = [retry EXCEPT ![o] = r]
      /\ job' = job /\ dlq' = dlq \ {l} /\ faults' = faults
  BY DEF RemoveLetter
<1>2. r \in [pc : {"idle", "found", "added"}, letter : Job \cup {NoJob}] /\ r.pc = "idle"
  OBVIOUS
<1>3. l \in Job /\ Copies(l) # {}
  BY <1>1, RetryTypes DEF RetryOK
<1>4. retry'[o] = r
  BY <1>1, RetryTypes
<1> HIDE DEF r
<1>5. RetryOK(o)'
  BY <1>2, <1>4 DEF RetryOK
<1>6. ASSUME NEW j \in Job PROVE CopiesOK(j)'
  <2>1. Copies(j)' = Copies(j)
    BY <1>1 DEF Copies
  <2>2. CopiesOK(j)
    BY CopiesExplainedOK DEF LettersInv
  <2>0. At("added", j)' = AtIn(retry', "added", j) /\ At("found", j)' = AtIn(retry', "found", j)
    BY DEF At, AtIn
  <2>a. /\ Cardinality(AtIn(retry', "added", j)) =
              Cardinality(AtIn(retry, "added", j))
                - (IF retry[o].pc = "added" /\ retry[o].letter = j THEN 1 ELSE 0)
                + (IF r.pc = "added" /\ r.letter = j THEN 1 ELSE 0)
        /\ Cardinality(AtIn(retry', "found", j)) =
              Cardinality(AtIn(retry, "found", j))
                - (IF retry[o].pc = "found" /\ retry[o].letter = j THEN 1 ELSE 0)
                + (IF r.pc = "found" /\ r.letter = j THEN 1 ELSE 0)
    BY <1>1, <1>2, OperatorsCount
  <2>3. Cardinality(At("added", j)') = Cardinality(At("added", j)) - (IF l = j THEN 1 ELSE 0)
    BY <1>1, <1>2, <2>0, <2>a, AtStep
  <2>4. Cardinality(At("found", j)') = Cardinality(At("found", j))
    BY <1>1, <1>2, <2>0, <2>a, AtStep
  <2> HIDE DEF l
  <2> QED
    BY <1>1, <2>1, <2>2, <2>3, <2>4, CopiesFinite DEF CopiesOK
<1>7. \A j \in dlq : j \in dlq' \/ Copies(j) # {}
  BY <1>1, <1>3
<1> QED
  BY <1>1, <1>2, <1>5, <1>6, <1>7, OperatorStep DEF LettersInv, LettersTypeOK

LEMMA RetryCutOffOK ==
  ASSUME LettersInv, NEW o \in Operator, RetryCutOff(o)
  PROVE  LettersInv'
<1> DEFINE r == [pc |-> "idle", letter |-> NoJob]
<1>1. /\ retry' = [retry EXCEPT ![o] = r] /\ faults < MaxFaults
      /\ job' = job /\ dlq' = dlq /\ faults' = faults + 1
  BY DEF RetryCutOff
<1>2. r \in [pc : {"idle", "found", "added"}, letter : Job \cup {NoJob}] /\ r.pc = "idle"
  OBVIOUS
<1>4. retry'[o] = r
  BY <1>1, RetryTypes
<1> HIDE DEF r
<1>5. RetryOK(o)'
  BY <1>2, <1>4 DEF RetryOK
<1>6. ASSUME NEW j \in Job PROVE CopiesOK(j)'
  <2>1. Copies(j)' = Copies(j)
    BY <1>1 DEF Copies
  <2>2. CopiesOK(j)
    BY CopiesExplainedOK DEF LettersInv
  <2>0. At("added", j)' = AtIn(retry', "added", j) /\ At("found", j)' = AtIn(retry', "found", j)
    BY DEF At, AtIn
  <2>a. /\ Cardinality(AtIn(retry', "added", j)) =
              Cardinality(AtIn(retry, "added", j))
                - (IF retry[o].pc = "added" /\ retry[o].letter = j THEN 1 ELSE 0)
                + (IF r.pc = "added" /\ r.letter = j THEN 1 ELSE 0)
        /\ Cardinality(AtIn(retry', "found", j)) =
              Cardinality(AtIn(retry, "found", j))
                - (IF retry[o].pc = "found" /\ retry[o].letter = j THEN 1 ELSE 0)
                + (IF r.pc = "found" /\ r.letter = j THEN 1 ELSE 0)
    BY <1>1, <1>2, OperatorsCount
  <2>3. Cardinality(At("added", j)') \in
          {Cardinality(At("added", j)), Cardinality(At("added", j)) - 1}
    BY <1>1, <1>2, <2>0, <2>a, AtStep
  <2>4. Cardinality(At("found", j)') \in
          {Cardinality(At("found", j)), Cardinality(At("found", j)) - 1}
    BY <1>1, <1>2, <2>0, <2>a, AtStep
  <2> QED
    BY <1>1, <2>1, <2>2, <2>3, <2>4, CopiesFinite DEF CopiesOK
<1>7. faults' \in 0..MaxFaults
  BY <1>1, DeadLettersAssumption DEF LettersInv, LettersTypeOK
<1> QED
  BY <1>1, <1>2, <1>5, <1>6, <1>7, OperatorStep

LEMMA AddCopyOK ==
  ASSUME LettersInv, NEW o \in Operator, NEW k \in Job, AddCopy(o, k)
  PROVE  LettersInv'
<1> DEFINE l == retry[o].letter
           r == [pc |-> "added", letter |-> l]
<1>1. /\ retry[o].pc = "found" /\ l \in Job /\ l # NoJob
      /\ k \notin FlowJob /\ ~Exists(k) /\ dlq' = dlq /\ faults' = faults
      /\ job' = [job EXCEPT ![k] = NewTask(l)]
  BY RetryTypes, DeadLettersAssumption DEF AddCopy
<1>2. retry' = [retry EXCEPT ![o] = r]
  <2>1. retry' = [retry EXCEPT ![o].pc = "added"]
    BY DEF AddCopy
  <2>2. [retry[o] EXCEPT !.pc = "added"] = r
    BY RetryTypes
  <2>3. \A q \in Operator : retry'[q] = [retry EXCEPT ![o] = r][q]
    BY <2>1, <2>2, RetryTypes
  <2> QED
    BY <2>1, <2>3, RetryTypes
<1>3. r \in [pc : {"idle", "found", "added"}, letter : Job \cup {NoJob}]
      /\ r.pc = "added" /\ r.letter = l /\ retry'[o] = r
  BY <1>1, <1>2, RetryTypes
<1>4. JobsMove /\ JobsKeep
  BY <1>1, NewTaskMoves, MoveKeeps
<1>5. \A j \in Job : /\ job'[j].event = job[j].event
                     /\ job'[j].origin = IF j = k THEN l ELSE job[j].origin
  BY <1>1, JobTypes, AbsentBlank, NewTaskShape
<1>6. k \notin dlq /\ job[k].origin = NoJob
  BY <1>1, AbsentBlank DEF LettersInv, LetterOK
<1>7. \A j \in Job : Copies(j)' = IF j = l THEN Copies(j) \cup {k} ELSE Copies(j)
  BY <1>1, <1>5, <1>6, DeadLettersAssumption DEF Copies
<1> HIDE DEF l, r
<1>8. LettersTypeOK'
  BY <1>1, <1>2, <1>3, <1>4 DEF LettersInv, LettersTypeOK, JobsMove
<1>9. \A j \in Job : JobOK(j)' /\ WaitOK(j)'
  BY <1>4, MovesOK
<1>10. ASSUME NEW j \in Job PROVE LetterOK(j)'
  <2>1. LetterOK(j) /\ RetryOK(o)
    BY RetryTypes DEF LettersInv
  <2>2. j = l => job[j].event = "kept"
    BY <1>1, <2>1 DEF RetryOK, l
  <2> QED
    BY <1>1, <1>5, <1>7, <2>1, <2>2 DEF LetterOK
<1>11. ASSUME NEW q \in Operator PROVE RetryOK(q)'
  <2>1. CASE q = o
    <3>1. job[l].event = "kept"
      BY <1>1, RetryTypes DEF RetryOK, l
    <3>2. job'[l].event = "kept"
      BY <1>1, <1>5, <3>1
    <3>3. {i \in Job : job'[i].origin = l} # {}
      BY <1>5
    <3> QED
      BY <1>1, <1>3, <2>1, <3>2, <3>3 DEF RetryOK, Copies
  <2>2. CASE q # o
    <3>1. retry'[q] = retry[q] /\ RetryOK(q)
      BY <1>2, <2>2, RetryTypes DEF LettersInv
    <3>2. {i \in Job : job[i].origin = retry[q].letter} # {} =>
             {i \in Job : job'[i].origin = retry[q].letter} # {} \/ retry[q].letter \notin Job
      BY <1>5, <1>6, DeadLettersAssumption
    <3> QED
      BY <1>5, <3>1, <3>2 DEF RetryOK, Copies
  <2> QED
    BY <2>1, <2>2
<1>12. ASSUME NEW j \in Job PROVE CopiesOK(j)'
  <2>1. CopiesOK(j)
    BY CopiesExplainedOK DEF LettersInv
  <2>2. Cardinality(Copies(j)') = Cardinality(Copies(j)) + (IF j = l THEN 1 ELSE 0)
    <3>1. k \notin Copies(j)
      BY <1>6, DeadLettersAssumption DEF Copies
    <3>2. Cardinality(Copies(j) \cup {k}) = Cardinality(Copies(j)) + 1
      BY <3>1, CopiesFinite, FS_AddElement
    <3>3. Cardinality(Copies(j)) + 0 = Cardinality(Copies(j))
      BY CopiesFinite
    <3>4. Copies(j)' = IF j = l THEN Copies(j) \cup {k} ELSE Copies(j)
      BY <1>7
    <3> QED
      BY <3>2, <3>3, <3>4
  <2>0. At("added", j)' = AtIn(retry', "added", j) /\ At("found", j)' = AtIn(retry', "found", j)
    BY DEF At, AtIn
  <2>a. /\ Cardinality(AtIn(retry', "added", j)) =
              Cardinality(AtIn(retry, "added", j))
                - (IF retry[o].pc = "added" /\ retry[o].letter = j THEN 1 ELSE 0)
                + (IF r.pc = "added" /\ r.letter = j THEN 1 ELSE 0)
        /\ Cardinality(AtIn(retry', "found", j)) =
              Cardinality(AtIn(retry, "found", j))
                - (IF retry[o].pc = "found" /\ retry[o].letter = j THEN 1 ELSE 0)
                + (IF r.pc = "found" /\ r.letter = j THEN 1 ELSE 0)
    BY <1>2, <1>3, OperatorsCount
  <2>c. retry[o].letter = l
    BY DEF l
  <2>3. Cardinality(At("added", j)') = Cardinality(At("added", j)) + (IF j = l THEN 1 ELSE 0)
    BY <1>1, <1>3, <2>0, <2>a, <2>c, AtStep
  <2>4. Cardinality(At("found", j)') = Cardinality(At("found", j)) - (IF j = l THEN 1 ELSE 0)
    BY <1>1, <1>3, <2>0, <2>a, <2>c, AtStep
  <2> QED
    BY <1>1, <2>1, <2>2, <2>3, <2>4, CopiesFinite DEF CopiesOK
<1>13. CopiesExplained'
  BY <1>12 DEF CopiesExplained, CopiesOK
<1> QED
  BY <1>8, <1>9, <1>10, <1>11, <1>13 DEF LettersInv

(* What every step keeps.                                                  *)
LEMMA LettersStep ==
  ASSUME LettersInv, LettersNext
  PROVE  LettersInv'
<1>1. JobsKeep /\ \A j \in Job : WaitOK(j)'
  BY LettersMove, MoveKeeps, MovesOK
<1>2. faults \in 0..MaxFaults
  BY DEF LettersInv, LettersTypeOK
<1>3. ASSUME NEW j \in Job, Submit(j) PROVE LettersInv'
  <2>1. \A k \in Job : ~Exists(k) => job'[k].origin = NoJob
    BY <1>3, JobTypes, AbsentBlank, NewTaskShape DEF Submit
  <2> QED
    BY <1>1, <1>2, <1>3, <2>1, QuietStep DEF Submit
<1>4. ASSUME NEW j \in Job, Take(j) \/ Complete(j) \/ FailAttempt(j) \/ RecoverStalled(j)
      PROVE  LettersInv'
  <2>1. \A k \in Job : ~Exists(k) => job'[k] = job[k]
    <3>1. Exists(j)
      BY <1>4 DEF Take, Complete, FailAttempt, RecoverStalled, Exists
    <3> SUFFICES ASSUME NEW k \in Job, ~Exists(k) PROVE job'[k] = job[k]
      OBVIOUS
    <3>2. CASE Complete(j)
      BY <3>1, <3>2 DEF Complete, Exists
    <3>3. CASE Take(j) \/ FailAttempt(j) \/ RecoverStalled(j)
      BY <3>1, <3>3, JobTypes DEF Take, FailAttempt, RecoverStalled
    <3> QED
      BY <1>4, <3>2, <3>3
  <2>2. \A k \in Job : ~Exists(k) => job'[k].origin = NoJob
    BY <2>1, AbsentBlank
  <2> QED
    BY <1>1, <1>2, <1>4, <2>2, QuietStep DEF Take, Complete, FailAttempt, RecoverStalled
<1>5. ASSUME WorkerCrash PROVE LettersInv'
  <2>1. \A k \in Job : ~Exists(k) => job'[k].origin = NoJob
    BY <1>5, AbsentBlank DEF WorkerCrash, Exists
  <2>2. faults' \in 0..MaxFaults /\ faults' >= faults
    BY <1>2, <1>5, DeadLettersAssumption DEF WorkerCrash
  <2> QED
    BY <1>1, <1>5, <2>1, <2>2, QuietStep DEF WorkerCrash
<1>6. ASSUME NEW o \in Operator, RetryStep(o) PROVE LettersInv'
  BY <1>6, FindLetterOK, AddCopyOK, RemoveLetterOK, RetryCutOffOK DEF RetryStep
<1>7. ASSUME NEW j \in Job, AddLetter(j) PROVE LettersInv'
  BY <1>7, AddLetterOK
<1> QED
  BY <1>3, <1>4, <1>5, <1>6, <1>7 DEF LettersNext, WorkerStep

-----------------------------------------------------------------------------
(* The chain.                                                              *)

(* The jobs of the steps exist once createChain has added them.            *)
FlowOK ==
  /\ create = "idle" => \A j \in FlowJob : ~Exists(j)
  /\ meta => create = "done"
  /\ create # "idle" => \A i \in Step : Exists(Steps[i]) /\ job[Steps[i]].child = ChildOf(i)

(* A step that does not wait is behind completed ones, whose outputs were  *)
(* put together in order.                                                  *)
OrderOK ==
  create # "idle" => \A i \in Step :
    /\ ~Waiting(Steps[i]) => \A k \in 1..(i - 1) : Completed(Steps[k])
    /\ Completed(Steps[i]) => job[Steps[i]].returnvalue = SubSeq(Steps, 1, i)

(* What findOne has read is still so: a step shown as failed has failed,   *)
(* and a result was read from a completed job.                             *)
FindOK ==
  /\ find.pc # "idle" => meta
  /\ find.pc = "idle" => find.steps = <<>>
  /\ Len(find.steps) <= Len(Steps)
  /\ find.pc \in {"getJob", "getState"} => Len(find.steps) < Len(Steps)
  /\ find.pc = "getState" /\ find.returnvalue # <<>> => Completed(Steps[Next1])
  /\ \A i \in 1..Len(find.steps) :
       /\ find.steps[i].status = "FAILED" => job[Steps[i]].state = "failed"
       /\ find.steps[i].result # <<>> => find.steps[i].status = "COMPLETED"
  /\ \A i, k \in 1..Len(find.steps) :
       i < k /\ find.steps[i].status = "FAILED" => find.steps[k].status = "PENDING"

CInv == LettersInv /\ ChainTypeOK /\ FlowOK /\ OrderOK /\ FindOK

LEMMA StepsShape ==
  /\ Steps \in Seq(FlowJob) /\ Len(Steps) \in Nat /\ Len(Steps) >= 2 /\ Step = 1..Len(Steps)
  /\ FlowJob \subseteq Job /\ NoJob \notin Job
  /\ \A i \in Step : Steps[i] \in FlowJob /\ Steps[i] \in Job /\ Steps[i] # NoJob
  /\ \A i, k \in Step : Steps[i] = Steps[k] => i = k
  /\ \A i \in Step : \A k \in 1..(i - 1) : k \in Step /\ k < i
  /\ \A i \in Step : ChildOf(i) = IF i = 1 THEN NoJob ELSE Steps[i - 1]
  /\ \A i \in Step : i # 1 => i - 1 \in Step /\ i - 1 \in 1..(i - 1)
<1>1. Steps \in Seq(FlowJob) /\ Len(Steps) \in Nat /\ Len(Steps) >= 2 /\ Step = 1..Len(Steps)
  BY ChainAssumption DEF Step
<1>2. \A i \in Step : Steps[i] \in FlowJob
  BY <1>1
<1> QED
  BY <1>1, <1>2, ChainAssumption, DeadLettersAssumption DEF Step, ChildOf

LEMMA Provenance ==
  ASSUME NEW i \in Step
  PROVE  /\ i = 1 => Append(<<>>, Steps[i]) = SubSeq(Steps, 1, i)
         /\ i # 1 => Append(SubSeq(Steps, 1, i - 1), Steps[i]) = SubSeq(Steps, 1, i)
         /\ SubSeq(Steps, 1, i) # <<>>
<1>1. i \in 1..Len(Steps) /\ Len(Steps) \in Nat /\ Steps \in Seq(FlowJob)
  BY StepsShape
<1>2. /\ SubSeq(Steps, 1, i) \in Seq(FlowJob) /\ Len(SubSeq(Steps, 1, i)) = i
      /\ \A k \in 1..i : SubSeq(Steps, 1, i)[k] = Steps[k]
  BY <1>1
<1>3. ASSUME i # 1
      PROVE  /\ SubSeq(Steps, 1, i - 1) \in Seq(FlowJob) /\ Len(SubSeq(Steps, 1, i - 1)) = i - 1
             /\ \A k \in 1..(i - 1) : SubSeq(Steps, 1, i - 1)[k] = Steps[k]
  BY <1>1, <1>3
<1>4. CASE i = 1
  <2>1. Append(<<>>, Steps[1]) = <<Steps[1]>>
    BY <1>1
  <2> QED
    BY <1>1, <1>2, <1>4, <2>1
<1>5. CASE i # 1
  <2> DEFINE a == Append(SubSeq(Steps, 1, i - 1), Steps[i])
             b == SubSeq(Steps, 1, i)
  <2>1. /\ a \in Seq(FlowJob) /\ Len(a) = i
        /\ \A k \in 1..i : a[k] = Steps[k]
    BY <1>1, <1>3, <1>5
  <2>2. b \in Seq(FlowJob) /\ Len(b) = i /\ \A k \in 1..i : b[k] = Steps[k]
    BY <1>2
  <2> HIDE DEF a, b
  <2>3. a = b
    BY <1>1, <2>1, <2>2
  <2>4. b # <<>>
    BY <1>1, <2>2
  <2> QED
    BY <1>5, <2>3, <2>4 DEF a, b
<1> QED
  BY <1>4, <1>5

(* Steps of DeadLetters keep the order of the chain.                       *)
LEMMA LettersOrder ==
  ASSUME CInv, JobsMove, UNCHANGED chainVars
  PROVE  FlowOK' /\ OrderOK'
<1>1. create' = create /\ meta' = meta
  BY DEF chainVars
<1>2. FlowOK'
  <2>1. CASE create = "idle"
    BY <1>1, <2>1, StepsShape DEF CInv, FlowOK, JobsMove, Moves, Exists
  <2>2. CASE create # "idle"
    BY <1>1, <2>2, StepsShape DEF CInv, FlowOK, JobsMove, Moves, Keeps
  <2> QED
    BY <2>1, <2>2
<1>3. OrderOK'
  <2> SUFFICES ASSUME create # "idle", NEW i \in Step
      PROVE  /\ ~Waiting(Steps[i])' => \A k \in 1..(i - 1) : Completed(Steps[k])'
             /\ Completed(Steps[i])' => job'[Steps[i]].returnvalue = SubSeq(Steps, 1, i)
    BY <1>1 DEF OrderOK
  <2>1. \A k \in Step : /\ Steps[k] \in Job /\ Moves(Steps[k]) /\ Exists(Steps[k])
                        /\ job[Steps[k]].child = ChildOf(k)
                        /\ Completed(Steps[k]) => Completed(Steps[k])'
                        /\ ~Waiting(Steps[k]) => \A m \in 1..(k - 1) : Completed(Steps[m])
                        /\ Completed(Steps[k]) => job[Steps[k]].returnvalue = SubSeq(Steps, 1, k)
    BY StepsShape DEF CInv, FlowOK, OrderOK, JobsMove, Moves, Keeps, Completed
  <2>2. ASSUME ~Waiting(Steps[i])', NEW k \in 1..(i - 1) PROVE Completed(Steps[k])'
    <3>1. CASE ~Waiting(Steps[i])
      BY <2>1, <2>2, <3>1, StepsShape
    <3>2. CASE Waiting(Steps[i])
      <4>1. WaitOK(Steps[i]) /\ i # 1 /\ i - 1 \in Step
        BY <2>2, StepsShape DEF CInv, LettersInv
      <4>2. ChildOf(i) = Steps[i - 1]
        BY <4>1, StepsShape
      <4>3. ~Completed(Steps[i - 1]) /\ Completed(Steps[i - 1])'
        BY <2>1, <2>2, <3>2, <4>1, <4>2 DEF WaitOK, Waiting, Completed, Moves
      <4>4. ~Waiting(Steps[i - 1])
        BY <2>1, <4>1, <4>3 DEF Moves, Waiting
      <4>5. k = i - 1 \/ k \in 1..((i - 1) - 1)
        BY <2>2, <4>1, StepsShape
      <4> QED
        BY <2>1, <2>2, <4>1, <4>3, <4>4, <4>5, StepsShape
    <3> QED
      BY <3>1, <3>2
  <2>3. ASSUME Completed(Steps[i])' PROVE job'[Steps[i]].returnvalue = SubSeq(Steps, 1, i)
    <3>1. CASE Completed(Steps[i])
      BY <2>1, <3>1 DEF Moves, Keeps, Completed
    <3>2. CASE ~Completed(Steps[i])
      <4>1. ~Waiting(Steps[i]) /\ job'[Steps[i]].returnvalue = Output(Steps[i])
        BY <2>1, <2>3, <3>2 DEF Moves, Waiting
      <4>2. CASE i = 1
        BY <2>1, <4>1, <4>2, StepsShape, Provenance DEF Output
      <4>3. CASE i # 1
        <5>1. /\ job[Steps[i]].child = Steps[i - 1] /\ Steps[i - 1] # NoJob
              /\ job[Steps[i - 1]].returnvalue = SubSeq(Steps, 1, i - 1)
          BY <2>1, <4>1, <4>3, StepsShape
        <5> QED
          BY <4>1, <4>3, <5>1, Provenance DEF Output
      <4> QED
        BY <4>2, <4>3
    <3> QED
      BY <3>1, <3>2
  <2> QED
    BY <2>2, <2>3
<1> QED
  BY <1>2, <1>3

LEMMA FindTypes ==
  ASSUME CInv
  PROVE  /\ find \in [pc : {"idle", "getJob", "getState", "done"}, returnvalue : Seq(Job),
                     steps : Seq(Shown)]
         /\ find.steps \in Seq(Shown) /\ Len(find.steps) \in Nat
         /\ \A i \in 1..Len(find.steps) : i \in Step /\ find.steps[i] \in Shown
         /\ find.pc \in {"getJob", "getState"} => Next1 \in Step /\ create # "idle"
<1>1. find \in [pc : {"idle", "getJob", "getState", "done"}, returnvalue : Seq(Job),
               steps : Seq(Shown)]
  BY DEF CInv, ChainTypeOK
<1>2. find.steps \in Seq(Shown) /\ Len(find.steps) \in Nat
  BY <1>1
<1> QED
  BY <1>1, <1>2, StepsShape DEF CInv, FindOK, FlowOK, Next1

(* What was read stays so in every step that keeps decided jobs.           *)
LEMMA FindSame ==
  ASSUME CInv, JobsKeep, meta => meta', find' = find
  PROVE  FindOK'
<1>1. \A i \in Step : /\ Completed(Steps[i]) => Completed(Steps[i])'
                      /\ job[Steps[i]].state = "failed" => job'[Steps[i]].state = "failed"
  BY StepsShape DEF JobsKeep, Keeps, Completed
<1>2. FindOK
  BY DEF CInv
<1> QED
  BY <1>1, <1>2, FindTypes DEF FindOK, Next1

LEMMA StepJobShape ==
  ASSUME NEW i \in Step
  PROVE  /\ StepJob(i) \in JobRecord
         /\ StepJob(i).state = (IF i = 1 THEN "prioritized" ELSE "waiting-children")
         /\ StepJob(i).child = ChildOf(i) /\ StepJob(i).origin = NoJob
         /\ StepJob(i).event = "none" /\ StepJob(i).attemptsMade = 0
         /\ StepJob(i).returnvalue = <<>>
<1>1. Absent \in JobRecord
  BY DeadLettersAssumption DEF JobRecord, States, Absent
<1>2. ChildOf(i) \in Job \cup {NoJob} /\ (ChildOf(i) = NoJob <=> i = 1)
  BY StepsShape
<1>3. StepJob(i) \in JobRecord
  BY <1>1, <1>2 DEF JobRecord, States, StepJob
<1> QED
  BY <1>1, <1>2, <1>3 DEF JobRecord, States, StepJob, Absent

LEMMA AddFlowOK ==
  ASSUME CInv, AddFlow
  PROVE  CInv'
<1>0. LettersInv /\ create = "idle" /\ create' = "added" /\ ~meta
      /\ UNCHANGED <<dlq, retry, faults, meta, find>>
  BY DEF CInv, AddFlow, FlowOK
<1>1. job' \in [Job -> JobRecord]
  <2>1. \A j \in Job : (\E i \in Step : Steps[i] = j) =>
           (CHOOSE i \in Step : Steps[i] = j) \in Step
    OBVIOUS
  <2>2. \A j \in Job : job[j] \in JobRecord
    BY <1>0, JobTypes
  <2> QED
    BY <2>1, <2>2, StepJobShape DEF AddFlow
<1>2. \A i \in Step : job'[Steps[i]] = StepJob(i) /\ ~Exists(Steps[i])
  <2> SUFFICES ASSUME NEW i \in Step PROVE job'[Steps[i]] = StepJob(i) /\ ~Exists(Steps[i])
    OBVIOUS
  <2>1. (CHOOSE k \in Step : Steps[k] = Steps[i]) = i
    BY StepsShape
  <2> QED
    BY <1>0, <2>1, StepsShape DEF AddFlow, CInv, FlowOK
<1>3. \A j \in Job : (\A i \in Step : Steps[i] # j) => job'[j] = job[j]
  BY DEF AddFlow
<1>4. JobsKeep
  <2> SUFFICES ASSUME NEW k \in Job PROVE Keeps(k)
    BY <1>1 DEF JobsKeep
  <2>0. JobOK(k)
    BY <1>0, JobTypes
  <2>1. ASSUME NEW i \in Step, Steps[i] = k PROVE Keeps(k)
    <3>1. job[k] = Absent /\ job'[k] = StepJob(i)
      BY <1>2, <2>0, <2>1 DEF JobOK
    <3> QED
      BY <3>1, StepJobShape, DeadLettersAssumption DEF Keeps, JobOK, Exists, Absent
  <2>2. ASSUME \A i \in Step : Steps[i] # k PROVE Keeps(k)
    <3>1. job'[k] = job[k]
      BY <1>3, <2>2
    <3> QED
      BY <2>0, <3>1 DEF Keeps, JobOK, Exists
  <2> QED
    BY <2>1, <2>2
<1>5. \A j \in Job : job'[j].state = "completed" => job[j].state = "completed"
  BY <1>2, <1>3, StepJobShape
<1>6. ASSUME NEW j \in Job PROVE WaitOK(j)'
  <2>1. ASSUME NEW i \in Step, Steps[i] = j, i # 1 PROVE WaitOK(j)'
    <3>1. job'[j].child = Steps[i - 1] /\ Steps[i - 1] \in Job
      BY <1>2, <2>1, StepJobShape, StepsShape
    <3>2. job'[Steps[i - 1]].state # "completed"
      BY <1>2, <2>1, StepJobShape, StepsShape
    <3> QED
      BY <3>1, <3>2 DEF WaitOK
  <2>2. ASSUME NEW i \in Step, Steps[i] = j, i = 1 PROVE WaitOK(j)'
    BY <1>2, <2>2, StepJobShape DEF WaitOK
  <2>3. ASSUME \A i \in Step : Steps[i] # j PROVE WaitOK(j)'
    <3>1. job'[j] = job[j] /\ WaitOK(j)
      BY <1>0, <1>3, <2>3, JobTypes
    <3> QED
      BY <1>5, <3>1 DEF WaitOK
  <2> QED
    BY <2>1, <2>2, <2>3
<1>7. \A k \in Job : ~Exists(k) => job'[k].origin = NoJob
  BY <1>0, <1>2, <1>3, StepJobShape, AbsentBlank
<1>8. LettersInv'
  BY <1>0, <1>4, <1>6, <1>7, QuietStep DEF LettersInv, LettersTypeOK
<1>9. FlowOK'
  BY <1>0, <1>2, StepJobShape DEF FlowOK, Exists
<1>10. OrderOK'
  <2>1. ASSUME NEW i \in Step
        PROVE  /\ ~Completed(Steps[i])'
               /\ ~Waiting(Steps[i])' => i = 1
    BY <1>2, StepJobShape DEF Completed, Waiting
  <2>2. \A i \in Step : i = 1 => \A k \in 1..(i - 1) : FALSE
    OBVIOUS
  <2> QED
    BY <2>1, <2>2 DEF OrderOK
<1>11. FindOK'
  BY <1>0, <1>4, FindSame
<1>12. ChainTypeOK'
  BY <1>0, <1>8 DEF ChainTypeOK, CInv, LettersInv
<1> QED
  BY <1>8, <1>9, <1>10, <1>11, <1>12 DEF CInv

(* A step that reads, or writes the metadata: the jobs are as before.      *)
LEMMA JobsAlike ==
  ASSUME CInv, UNCHANGED lettersVars
  PROVE  LettersInv' /\ LettersTypeOK' /\ JobsKeep
         /\ \A j \in Job : /\ Exists(j)' = Exists(j) /\ Waiting(j)' = Waiting(j)
                            /\ Completed(j)' = Completed(j) /\ job'[j] = job[j]
<1>1. job' = job /\ dlq' = dlq /\ retry' = retry /\ faults' = faults /\ LettersInv
  BY DEF lettersVars, CInv
<1>2. LettersInv'
  <2>1. JobsKeep /\ \A j \in Job : WaitOK(j)'
    BY <1>1, JobsSame, MoveKeeps, MovesOK
  <2>2. \A k \in Job : ~Exists(k) => job'[k].origin = NoJob
    BY <1>1, AbsentBlank
  <2>3. faults' \in 0..MaxFaults /\ faults' >= faults
    BY <1>1, DeadLettersAssumption DEF LettersInv, LettersTypeOK
  <2> QED
    BY <1>1, <2>1, <2>2, <2>3, QuietStep
<1>3. JobsKeep
  BY <1>1, JobsSame, MoveKeeps
<1> QED
  BY <1>1, <1>2, <1>3 DEF LettersInv, Exists, Waiting, Completed

LEMMA MetaStepOK ==
  ASSUME CInv, SetMeta
  PROVE  CInv'
<1>1. UNCHANGED lettersVars /\ create = "added" /\ create' = "done" /\ meta' /\ find' = find
  BY DEF SetMeta
<1>2. FlowOK' /\ OrderOK'
  BY <1>1, JobsAlike, StepsShape DEF FlowOK, OrderOK, CInv
<1>3. FindOK'
  BY <1>1, JobsAlike, FindSame
<1>4. ChainTypeOK'
  BY <1>1, JobsAlike DEF ChainTypeOK, CInv, SetMeta
<1> QED
  BY <1>1, <1>2, <1>3, <1>4, JobsAlike DEF CInv

LEMMA CreateCutOffOK ==
  ASSUME CInv, CreateCutOff
  PROVE  CInv'
<1>1. /\ UNCHANGED <<job, dlq, retry, meta, find>> /\ create = "added" /\ create' = "lost"
      /\ faults' = faults + 1 /\ faults < MaxFaults /\ ~meta
  BY DEF CreateCutOff, CInv, FlowOK
<1>2. JobsKeep /\ \A j \in Job : WaitOK(j)'
  BY <1>1, JobsSame, MoveKeeps, MovesOK DEF CInv
<1>3. LettersInv'
  <2>1. \A k \in Job : ~Exists(k) => job'[k].origin = NoJob
    BY <1>1, AbsentBlank DEF CInv
  <2>2. faults' \in 0..MaxFaults /\ faults' >= faults
    BY <1>1, DeadLettersAssumption DEF CInv, LettersInv, LettersTypeOK
  <2> QED
    BY <1>1, <1>2, <2>1, <2>2, QuietStep DEF CInv
<1>4. \A j \in Job : Exists(j)' = Exists(j) /\ Waiting(j)' = Waiting(j) /\ Completed(j)' = Completed(j)
  BY <1>1 DEF Exists, Waiting, Completed
<1>5. FlowOK' /\ OrderOK'
  BY <1>1, <1>4, StepsShape DEF FlowOK, OrderOK, CInv
<1>6. FindOK'
  BY <1>1, <1>2, FindSame
<1>7. ChainTypeOK'
  BY <1>1, <1>3 DEF ChainTypeOK, CInv, LettersInv
<1> QED
  BY <1>3, <1>5, <1>6, <1>7 DEF CInv

(* The commands of findOne.                                                *)
LEMMA ReadStep ==
  ASSUME CInv, UNCHANGED <<lettersVars, create, meta>>, FindOK',
         find' \in [pc : {"idle", "getJob", "getState", "done"}, returnvalue : Seq(Job),
                   steps : Seq(Shown)]
  PROVE  CInv'
<1>1. FlowOK' /\ OrderOK'
  BY JobsAlike, StepsShape DEF FlowOK, OrderOK, CInv
<1>2. ChainTypeOK'
  BY JobsAlike DEF ChainTypeOK, CInv
<1> QED
  BY <1>1, <1>2, JobsAlike DEF CInv

LEMMA FindMetaOK ==
  ASSUME CInv, FindMeta
  PROVE  CInv'
<1>1. /\ find.pc = "idle" /\ meta /\ UNCHANGED <<lettersVars, create, meta>>
      /\ find' = [find EXCEPT !.pc = "getJob"] /\ FindOK
  BY DEF FindMeta, CInv
<1>2. /\ find'.pc = "getJob" /\ find'.steps = find.steps /\ find'.returnvalue = find.returnvalue
      /\ find' \in [pc : {"idle", "getJob", "getState", "done"}, returnvalue : Seq(Job),
                    steps : Seq(Shown)]
  BY <1>1, FindTypes
<1>3. find.steps = <<>> /\ Len(find.steps) = 0
  BY <1>1 DEF FindOK
<1>4. FindOK'
  BY <1>1, <1>2, <1>3, StepsShape DEF FindOK
<1> QED
  BY <1>1, <1>2, <1>4, ReadStep

LEMMA GetJobOK ==
  ASSUME CInv, GetJob
  PROVE  CInv'
<1>1. /\ find.pc = "getJob" /\ UNCHANGED <<lettersVars, create, meta>> /\ FindOK
      /\ find' = [find EXCEPT !.pc = "getState",
                             !.returnvalue = job[Steps[Next1]].returnvalue]
  BY DEF GetJob, CInv
<1>2. Next1 \in Step /\ Steps[Next1] \in Job
  BY <1>1, FindTypes, StepsShape
<1>3. job[Steps[Next1]] \in JobRecord /\ JobOK(Steps[Next1])
  BY <1>2, JobTypes DEF CInv
<1>4. /\ find'.pc = "getState" /\ find'.steps = find.steps
      /\ find'.returnvalue = job[Steps[Next1]].returnvalue
      /\ find' \in [pc : {"idle", "getJob", "getState", "done"}, returnvalue : Seq(Job),
                    steps : Seq(Shown)]
  BY <1>1, <1>3, FindTypes DEF JobRecord
<1>5. find'.returnvalue # <<>> => Completed(Steps[Next1])
  BY <1>3, <1>4 DEF JobOK, Completed
<1>6. job' = job
  BY <1>1 DEF lettersVars
<1>7. FindOK'
  BY <1>1, <1>4, <1>5, <1>6 DEF FindOK, Next1, Completed
<1> QED
  BY <1>1, <1>4, <1>7, ReadStep

LEMMA GetStateOK ==
  ASSUME CInv, GetState
  PROVE  CInv'
<1> DEFINE j == Steps[Next1]
           shown == [status |-> Status(job[j].state), result |-> find.returnvalue]
           n == Len(find.steps)
<1>1. /\ find.pc = "getState" /\ UNCHANGED <<lettersVars, create, meta>> /\ FindOK
      /\ find' = [pc |-> IF Next1 = Len(Steps) THEN "done" ELSE "getJob",
                 returnvalue |-> <<>>, steps |-> Append(find.steps, shown)]
  BY DEF GetState, CInv
<1>2. /\ Next1 \in Step /\ create # "idle" /\ Next1 = n + 1 /\ n \in Nat /\ j \in Job
      /\ find.steps \in Seq(Shown) /\ find.returnvalue \in Seq(Job)
      /\ \A i \in 1..n : i \in Step
  BY <1>1, FindTypes, StepsShape DEF Next1
<1>3. shown \in Shown
  BY <1>2 DEF Shown, Status
<1>4. /\ shown.result = find.returnvalue
      /\ job[j].state = "failed" <=> shown.status = "FAILED"
      /\ Completed(j) => shown.status = "COMPLETED"
      /\ Waiting(j) => shown.status = "PENDING"
  BY DEF Status, Completed, Waiting
<1>5. shown.result # <<>> => shown.status = "COMPLETED"
  BY <1>1, <1>4 DEF FindOK
<1>6. ASSUME NEW i \in 1..n, find.steps[i].status = "FAILED" PROVE shown.status = "PENDING"
  <2>1. job[Steps[i]].state = "failed"
    BY <1>1, <1>6 DEF FindOK
  <2>2. i \in 1..(Next1 - 1)
    BY <1>2, <1>6
  <2>3. Waiting(j)
    BY <1>2, <2>1, <2>2 DEF CInv, OrderOK, Completed
  <2> QED
    BY <1>4, <2>3
<1> HIDE DEF shown, n, j
<1>7. /\ find'.steps = Append(find.steps, shown) /\ find'.returnvalue = <<>>
      /\ find'.pc = IF Next1 = Len(Steps) THEN "done" ELSE "getJob"
  BY <1>1
<1>8. /\ find'.steps \in Seq(Shown) /\ Len(find'.steps) = n + 1
      /\ \A i \in 1..(n + 1) : find'.steps[i] = IF i = n + 1 THEN shown ELSE find.steps[i]
  BY <1>2, <1>3, <1>7 DEF n
<1>9. job' = job /\ meta' = meta
  BY <1>1 DEF lettersVars
<1>10. FindOK'
  <2>1. /\ find'.pc # "idle" => meta'
        /\ find'.pc # "idle" /\ find'.pc # "getState"
        /\ Len(find'.steps) <= Len(Steps)
        /\ find'.pc \in {"getJob", "getState"} => Len(find'.steps) < Len(Steps)
    BY <1>1, <1>2, <1>7, <1>8, <1>9, StepsShape DEF FindOK
  <2>2. ASSUME NEW i \in 1..(n + 1)
        PROVE  /\ find'.steps[i].status = "FAILED" => job'[Steps[i]].state = "failed"
               /\ find'.steps[i].result # <<>> => find'.steps[i].status = "COMPLETED"
    <3>1. CASE i = n + 1
      BY <1>2, <1>4, <1>5, <1>8, <1>9, <3>1 DEF j
    <3>2. CASE i \in 1..n
      BY <1>1, <1>2, <1>8, <1>9, <3>2 DEF FindOK, n
    <3> QED
      BY <1>2, <2>2, <3>1, <3>2
  <2>3. ASSUME NEW i \in 1..(n + 1), NEW k \in 1..(n + 1), i < k,
               find'.steps[i].status = "FAILED"
        PROVE  find'.steps[k].status = "PENDING"
    <3>1. i \in 1..n /\ find.steps[i].status = "FAILED"
      BY <1>2, <1>8, <2>3
    <3>2. CASE k = n + 1
      BY <1>6, <1>8, <3>1, <3>2
    <3>3. CASE k \in 1..n
      BY <1>1, <1>2, <1>8, <2>3, <3>1, <3>3 DEF FindOK, n
    <3> QED
      BY <1>2, <2>3, <3>2, <3>3
  <2>4. Len(find'.steps) = n + 1
    BY <1>8
  <2> QED
    BY <2>1, <2>2, <2>3, <2>4 DEF FindOK
<1>11. find' \in [pc : {"idle", "getJob", "getState", "done"}, returnvalue : Seq(Job),
                 steps : Seq(Shown)]
  BY <1>1, <1>7, <1>8
<1> QED
  BY <1>1, <1>10, <1>11, ReadStep

-----------------------------------------------------------------------------
(* The invariant.                                                          *)

LEMMA ChainInitInv == ChainInit => CInv
<1> SUFFICES ASSUME ChainInit PROVE CInv
  OBVIOUS
<1>1. Absent \in JobRecord
  BY DeadLettersAssumption DEF JobRecord, States, Absent
<1>2. LettersTypeOK
  BY <1>1, DeadLettersAssumption DEF LettersTypeOK, ChainInit, Init
<1>3. \A j \in Job : job[j] = Absent /\ Copies(j) = {} /\ At("found", j) = {} /\ At("added", j) = {}
  BY DeadLettersAssumption DEF ChainInit, Init, Copies, At, Absent
<1>4. \A j \in Job : JobOK(j) /\ WaitOK(j) /\ LetterOK(j)
  BY <1>3, DeadLettersAssumption DEF JobOK, WaitOK, LetterOK, ChainInit, Init, Absent, Exists
<1>5. \A o \in Operator : RetryOK(o)
  BY DEF RetryOK, ChainInit, Init
<1>6. CopiesExplained
  <2>1. Cardinality({}) = 0 /\ Cardinality(Operator) \in Nat /\ faults = 0
    BY FS_EmptySet, FS_CardinalityType, DeadLettersAssumption DEF ChainInit, Init
  <2> QED
    BY <1>3, <2>1 DEF CopiesExplained
<1>7. FlowOK /\ OrderOK
  BY <1>3, StepsShape DEF FlowOK, OrderOK, ChainInit, Exists, Absent
<1>8. FindOK
  BY StepsShape DEF FindOK, ChainInit
<1>9. ChainTypeOK
  <2>1. <<>> \in Seq(Job) /\ <<>> \in Seq(Shown)
    OBVIOUS
  <2>2. find \in [pc : {"idle", "getJob", "getState", "done"}, returnvalue : Seq(Job),
                 steps : Seq(Shown)]
    BY <2>1 DEF ChainInit
  <2> QED
    BY <1>2, <2>2 DEF ChainTypeOK, ChainInit
<1> QED
  BY <1>2, <1>4, <1>5, <1>6, <1>7, <1>8, <1>9 DEF CInv, LettersInv

LEMMA ChainNextInv == CInv /\ [Next]_vars => CInv'
<1> SUFFICES ASSUME CInv, [Next]_vars PROVE CInv'
  OBVIOUS
<1>1. CASE LettersNext /\ UNCHANGED chainVars
  <2>1. LettersInv' /\ JobsMove /\ JobsKeep
    BY <1>1, LettersStep, LettersMove, MoveKeeps DEF CInv
  <2>2. FlowOK' /\ OrderOK'
    BY <1>1, <2>1, LettersOrder
  <2>3. FindOK'
    BY <1>1, <2>1, FindSame DEF chainVars
  <2>4. ChainTypeOK'
    BY <1>1, <2>1 DEF ChainTypeOK, CInv, LettersInv, chainVars
  <2> QED
    BY <2>1, <2>2, <2>3, <2>4 DEF CInv
<1>2. CASE ChainStep
  BY <1>2, AddFlowOK, MetaStepOK, CreateCutOffOK, FindMetaOK, GetJobOK, GetStateOK DEF ChainStep
<1>3. CASE UNCHANGED vars
  BY <1>3, ReadStep, JobsAlike, FindSame, FindTypes DEF vars, chainVars
<1> QED
  BY <1>1, <1>2, <1>3 DEF Next

(* The inductive invariant holds in every reachable state.                 *)
THEOREM ChainInvariance == Spec => []CInv
BY ChainInitInv, ChainNextInv, PTL DEF Spec

(* Jobs, letters, operators and what findOne has read have their types.    *)
THEOREM ChainTypeCorrect == Spec => []ChainTypeOK
<1>1. CInv => ChainTypeOK
  BY DEF CInv
<1> QED
  BY <1>1, ChainInvariance, PTL

(* No task is lost but in the two ways that NothingLost names: by a crash  *)
(* between BullMQ's failure and the letter, and by too many stalls.        *)
THEOREM NoTaskLost == Spec => []NothingLost
<1>1. CInv => NothingLost
  <2> SUFFICES ASSUME CInv, NEW j \in Job, Exists(j)
      PROVE  \/ job[j].state \in {"prioritized", "active", "stalled", "completed"}
             \/ job[j].state = "waiting-children" /\ job[job[j].child].state # "completed"
             \/ job[j].event \in {"due", "lost"}
             \/ j \in dlq
             \/ Copies(j) # {}
    BY DEF NothingLost
  <2>1. job[j] \in JobRecord /\ JobOK(j) /\ WaitOK(j) /\ LetterOK(j)
    BY JobTypes DEF CInv, LettersInv
  <2> QED
    BY <2>1 DEF JobRecord, States, JobOK, WaitOK, LetterOK, Exists
<1> QED
  BY <1>1, ChainInvariance, PTL

(* A dead letter is copied at most once per operator who had found it and  *)
(* per fault.                                                              *)
THEOREM CopiesAreExplained == Spec => []CopiesExplained
<1>1. CInv => CopiesExplained
  BY DEF CInv, LettersInv
<1> QED
  BY <1>1, ChainInvariance, PTL

(* A step runs on the output of the step before, whatever was retried.     *)
THEOREM ChainRunsInOrder == Spec => []StepsInOrder
<1>1. CInv => StepsInOrder
  <2> SUFFICES ASSUME CInv, NEW i \in Step
      PROVE  job[Steps[i]].returnvalue \in {<<>>, SubSeq(Steps, 1, i)}
    BY DEF StepsInOrder
  <2>1. Steps[i] \in FlowJob /\ Steps[i] \in Job
    BY StepsShape
  <2>2. JobOK(Steps[i])
    BY <2>1, JobTypes DEF CInv
  <2>3. CASE create = "idle"
    BY <2>1, <2>2, <2>3 DEF CInv, FlowOK, JobOK, Absent
  <2>4. CASE create # "idle"
    BY <2>2, <2>4 DEF CInv, OrderOK, JobOK, Completed
  <2> QED
    BY <2>3, <2>4
<1> QED
  BY <1>1, ChainInvariance, PTL

(* However its reads interleave with the workers, findOne never shows a    *)
(* step that started behind a failed one, nor a result without completion. *)
THEOREM FindOneIsCoherent == Spec => []ShownChain
<1>1. CInv => ShownChain
  BY DEF CInv, FlowOK, FindOK, ShownChain
<1> QED
  BY <1>1, ChainInvariance, PTL

=============================================================================
