---------------------------- MODULE DeadLetters ----------------------------
(***************************************************************************)
(* The life of a job in a user's queue up to its dead letter, and          *)
(* POST /tasks/dlq/:id/retry.  The worker emits 'failed' after BullMQ has  *)
(* committed the failure; its handler writes the letter in a step of its   *)
(* own.  retryFromDlq reads the letter, adds a copy of the task under a    *)
(* new id and only then removes the letter: three commands of Redis, with  *)
(* other operators and failures in between.                                *)
(*                                                                         *)
(* A job may have a child, the job that must complete before it (module    *)
(* Chain).  What a job returns is abstracted to its provenance: the jobs   *)
(* whose outputs went into it, in order.                                   *)
(***************************************************************************)
EXTENDS Naturals, Sequences, FiniteSets

CONSTANTS
  Job,         \* job ids
  NoJob,       \* no job
  FlowJob,     \* the ids that are given to the steps of a chain
  Operator,    \* concurrent requests to retry a dead letter
  Attempts,    \* attempts of a job
  MaxStalled,  \* BullMQ's maxStalledCount
  MaxFaults    \* bound: crashes and refused commands

ASSUME DeadLettersAssumption ==
  /\ IsFiniteSet(Job) /\ NoJob \notin Job /\ FlowJob \subseteq Job
  /\ IsFiniteSet(Operator)
  /\ Attempts \in Nat \ {0} /\ MaxStalled \in Nat /\ MaxFaults \in Nat

VARIABLES
  job,     \* the jobs in the user's queue
  dlq,     \* the jobs whose letter is in the dead letter queue
  retry,   \* retryFromDlq of each operator: its next command and its letter
  faults   \* bound: faults so far

lettersVars == <<job, dlq, retry, faults>>

States ==
  {"none", "waiting-children", "prioritized", "active", "stalled", "completed", "failed"}

\* event is what became of the 'failed' handler of the last attempt:
\* due to write the letter, "kept" when written, "lost" when it never will be.
JobRecord ==
  [state : States, attemptsMade : 0..Attempts, stalled : 0..MaxStalled,
   child : Job \cup {NoJob}, origin : Job \cup {NoJob},
   event : {"none", "due", "kept", "lost"}, returnvalue : Seq(Job)]

Absent ==
  [state |-> "none", attemptsMade |-> 0, stalled |-> 0, child |-> NoJob,
   origin |-> NoJob, event |-> "none", returnvalue |-> <<>>]

LettersTypeOK ==
  /\ job \in [Job -> JobRecord]
  /\ dlq \subseteq Job
  /\ retry \in [Operator -> [pc : {"idle", "found", "added"}, letter : Job \cup {NoJob}]]
  /\ faults \in 0..MaxFaults

Init ==
  /\ job = [j \in Job |-> Absent]
  /\ dlq = {}
  /\ retry = [o \in Operator |-> [pc |-> "idle", letter |-> NoJob]]
  /\ faults = 0

-----------------------------------------------------------------------------
(* The queue and the worker.                                               *)

Exists(j) == job[j].state # "none"

\* A job as create and retryFromDlq add it: no parent, no children.
NewTask(origin) == [Absent EXCEPT !.state = "prioritized", !.origin = origin]

Submit(j) ==
  /\ j \notin FlowJob /\ ~Exists(j)
  /\ job' = [job EXCEPT ![j] = NewTask(NoJob)]
  /\ UNCHANGED <<dlq, retry, faults>>

Take(j) ==
  /\ job[j].state = "prioritized"
  /\ job' = [job EXCEPT ![j].state = "active"]
  /\ UNCHANGED <<dlq, retry, faults>>

\* processJob puts the child's return value into the payload as previousResult.
Output(j) ==
  Append(IF job[j].child = NoJob THEN <<>> ELSE job[job[j].child].returnvalue, j)

\* The job is completed and BullMQ moves its parent from waiting-children.
Complete(j) ==
  /\ job[j].state = "active"
  /\ job' = [k \in Job |->
       IF k = j THEN [job[j] EXCEPT !.state = "completed", !.returnvalue = Output(j)]
       ELSE IF job[k].child = j /\ job[k].state = "waiting-children"
       THEN [job[k] EXCEPT !.state = "prioritized"] ELSE job[k]]
  /\ UNCHANGED <<dlq, retry, faults>>

\* Mutant: a parent runs whether its child completed or failed.
FailAttemptReleasing(j) ==
  /\ job[j].state = "active"
  /\ LET made == job[j].attemptsMade + 1 IN
     job' = [k \in Job |->
       IF k = j THEN [job[j] EXCEPT
         !.attemptsMade = made,
         !.state = IF made < Attempts THEN "prioritized" ELSE "failed",
         !.event = IF made < Attempts THEN "none" ELSE "due"]
       ELSE IF job[k].child = j /\ made = Attempts
       THEN [job[k] EXCEPT !.state = "prioritized"] ELSE job[k]]
  /\ UNCHANGED <<dlq, retry, faults>>

\* An attempt throws.  BullMQ retries the job while attempts are left; a parent
\* of a job that failed for good stays in waiting-children.
FailAttempt(j) ==
  /\ job[j].state = "active"
  /\ LET made == job[j].attemptsMade + 1 IN
     job' = [job EXCEPT
       ![j].attemptsMade = made,
       ![j].state = IF made < Attempts THEN "prioritized" ELSE "failed",
       ![j].event = IF made < Attempts THEN "none" ELSE "due"]
  /\ UNCHANGED <<dlq, retry, faults>>

\* The 'failed' handler writes the dead letter.
AddLetter(j) ==
  /\ job[j].event = "due"
  /\ job' = [job EXCEPT ![j].event = "kept"]
  /\ dlq' = dlq \cup {j}
  /\ UNCHANGED <<retry, faults>>

\* The worker process ends: its handlers end where they are, and its attempts
\* stay active in the queue, without an owner.
WorkerCrash ==
  /\ faults < MaxFaults
  /\ faults' = faults + 1
  /\ job' = [j \in Job |-> IF job[j].state = "active" THEN [job[j] EXCEPT !.state = "stalled"]
                           ELSE IF job[j].event = "due" THEN [job[j] EXCEPT !.event = "lost"]
                           ELSE job[j]]
  /\ UNCHANGED <<dlq, retry>>

\* Mutant: no limit on stalls.
RecoverStalledAlways(j) ==
  /\ job[j].state = "stalled"
  /\ job' = [job EXCEPT ![j].state = "prioritized", ![j].stalled = @ + 1]
  /\ UNCHANGED <<dlq, retry, faults>>

\* The next worker finds such a job: it waits again, or is failed when it stalled
\* too often; the handler of that failure compares attemptsMade and writes no letter.
RecoverStalled(j) ==
  /\ job[j].state = "stalled"
  /\ \/ /\ job[j].stalled < MaxStalled
        /\ job' = [job EXCEPT ![j].state = "prioritized", ![j].stalled = @ + 1]
     \/ /\ job[j].stalled >= MaxStalled
        /\ job' = [job EXCEPT ![j].state = "failed", ![j].event = "lost"]
  /\ UNCHANGED <<dlq, retry, faults>>

-----------------------------------------------------------------------------
(* retryFromDlq.  A letter that is not found is a 404 and changes nothing. *)

\* Mutant: the letter is removed before the copy is added.
FindLetterTaking(o, j) ==
  /\ retry[o].pc = "idle" /\ j \in dlq
  /\ retry' = [retry EXCEPT ![o] = [pc |-> "found", letter |-> j]]
  /\ dlq' = dlq \ {j}
  /\ UNCHANGED <<job, faults>>

FindLetter(o, j) ==
  /\ retry[o].pc = "idle" /\ j \in dlq
  /\ retry' = [retry EXCEPT ![o] = [pc |-> "found", letter |-> j]]
  /\ UNCHANGED <<job, dlq, faults>>

AddCopy(o, k) ==
  /\ retry[o].pc = "found"
  /\ k \notin FlowJob /\ ~Exists(k)
  /\ job' = [job EXCEPT ![k] = NewTask(retry[o].letter)]
  /\ retry' = [retry EXCEPT ![o].pc = "added"]
  /\ UNCHANGED <<dlq, faults>>

\* Mutant: the letter stays.
RemoveLetterKept(o) ==
  /\ retry[o].pc = "added"
  /\ retry' = [retry EXCEPT ![o] = [pc |-> "idle", letter |-> NoJob]]
  /\ UNCHANGED <<job, dlq, faults>>

\* Removing a letter that another operator has removed is no error.
RemoveLetter(o) ==
  /\ retry[o].pc = "added"
  /\ dlq' = dlq \ {retry[o].letter}
  /\ retry' = [retry EXCEPT ![o] = [pc |-> "idle", letter |-> NoJob]]
  /\ UNCHANGED <<job, faults>>

\* The next command is refused, or the API process ends.
RetryCutOff(o) ==
  /\ faults < MaxFaults
  /\ retry[o].pc # "idle"
  /\ faults' = faults + 1
  /\ retry' = [retry EXCEPT ![o] = [pc |-> "idle", letter |-> NoJob]]
  /\ UNCHANGED <<job, dlq>>

WorkerStep(j) ==
  Take(j) \/ Complete(j) \/ FailAttempt(j) \/ AddLetter(j) \/ RecoverStalled(j)

RetryStep(o) ==
  \/ \E j \in Job : FindLetter(o, j) \/ AddCopy(o, j)
  \/ RemoveLetter(o) \/ RetryCutOff(o)

LettersNext ==
  \/ \E j \in Job : Submit(j) \/ WorkerStep(j)
  \/ \E o \in Operator : RetryStep(o)
  \/ WorkerCrash

LettersSpec == Init /\ [][LettersNext]_lettersVars

-----------------------------------------------------------------------------
(* Properties.                                                             *)

Copies(j) == {k \in Job : job[k].origin = j}

\* No task is lost: it is with the worker or completed, waits for a step that is
\* not completed, is dead-lettered, or runs on as a copy of its letter, which
\* retryFromDlq adds before it removes the letter.  The exceptions: the worker died
\* between BullMQ's failure and the letter, or the job stalled too often.
NothingLost ==
  \A j \in Job : Exists(j) =>
    \/ job[j].state \in {"prioritized", "active", "stalled", "completed"}
    \/ job[j].state = "waiting-children" /\ job[job[j].child].state # "completed"
    \/ job[j].event \in {"due", "lost"}
    \/ j \in dlq
    \/ Copies(j) # {}

At(pc, j) == {o \in Operator : retry[o].pc = pc /\ retry[o].letter = j}

\* retryFromDlq is not atomic and may run a task more than once, but only so far:
\* while the letter is there, each copy is that of an operator who is about to
\* remove the letter, or of one who was cut off; once it is gone, only operators
\* who had found it before add another.
CopiesExplained ==
  \A j \in Job :
    /\ j \in dlq => Cardinality(Copies(j)) <= Cardinality(At("added", j)) + faults
    /\ Cardinality(Copies(j)) + Cardinality(At("found", j)) <= Cardinality(Operator) + faults

=============================================================================
