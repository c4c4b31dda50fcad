------------------------------- MODULE Chain -------------------------------
(***************************************************************************)
(* Sequential chains: POST /workflows/chain and GET /workflows/:id, on the *)
(* jobs of DeadLetters.  createChain adds the steps as one BullMQ flow,    *)
(* each the parent of the step before, and then stores the workflow's      *)
(* metadata.  findOne reads the metadata and then every step with two      *)
(* commands, while workers go on; GET /tasks/:id reads one job so.         *)
(***************************************************************************)
EXTENDS DeadLetters

CONSTANT Steps   \* stepJobIds of the chain, first step first

ASSUME ChainAssumption ==
  /\ Steps \in Seq(FlowJob) /\ Len(Steps) >= 2
  /\ \A i, k \in 1..Len(Steps) : Steps[i] = Steps[k] => i = k

VARIABLES
  create,  \* createChain: its next command
  meta,    \* the metadata of the workflow is stored
  find     \* findOne: its next command, the job it has read, the steps so far

chainVars == <<create, meta, find>>
vars == <<lettersVars, chainVars>>

Step == 1..Len(Steps)
Shown == [status : {"PENDING", "ACTIVE", "COMPLETED", "FAILED"}, result : Seq(Job)]

ChainTypeOK ==
  /\ LettersTypeOK
  /\ create \in {"idle", "added", "done", "lost"}
  /\ meta \in BOOLEAN
  /\ find \in [pc : {"idle", "getJob", "getState", "done"}, returnvalue : Seq(Job),
               steps : Seq(Shown)]

ChainInit ==
  /\ Init
  /\ create = "idle" /\ meta = FALSE
  /\ find = [pc |-> "idle", returnvalue |-> <<>>, steps |-> <<>>]

\* Mutant: the tree is built the other way round.
ChildOfLater(i) == IF i = Len(Steps) THEN NoJob ELSE Steps[i + 1]

\* buildNode: steps[0] is the leaf, each later step has the one before as child.
ChildOf(i) == IF i = 1 THEN NoJob ELSE Steps[i - 1]

StepJob(i) ==
  [Absent EXCEPT !.state = IF ChildOf(i) = NoJob THEN "prioritized" ELSE "waiting-children",
                 !.child = ChildOf(i)]

\* flowProducer.add puts the whole tree into Redis in one transaction.
AddFlow ==
  /\ create = "idle"
  /\ create' = "added"
  /\ job' = [j \in Job |-> IF \E i \in Step : Steps[i] = j
                           THEN StepJob(CHOOSE i \in Step : Steps[i] = j) ELSE job[j]]
  /\ UNCHANGED <<dlq, retry, faults, meta, find>>

SetMeta ==
  /\ create = "added"
  /\ create' = "done" /\ meta' = TRUE
  /\ UNCHANGED <<lettersVars, find>>

CreateCutOff ==
  /\ create = "added" /\ faults < MaxFaults
  /\ create' = "lost" /\ faults' = faults + 1
  /\ UNCHANGED <<job, dlq, retry, meta, find>>

-----------------------------------------------------------------------------
(* findOne.                                                                *)

FindMeta ==
  /\ find.pc = "idle" /\ meta
  /\ find' = [find EXCEPT !.pc = "getJob"]
  /\ UNCHANGED <<lettersVars, create, meta>>

Next1 == Len(find.steps) + 1

\* getJob reads the job's hash, with the return value it has by now.
GetJob ==
  /\ find.pc = "getJob"
  /\ find' = [find EXCEPT !.pc = "getState", !.returnvalue = job[Steps[Next1]].returnvalue]
  /\ UNCHANGED <<lettersVars, create, meta>>

\* STATE_MAP
Status(state) ==
  CASE state \in {"active", "stalled"} -> "ACTIVE"
    [] state = "completed" -> "COMPLETED"
    [] state = "failed"    -> "FAILED"
    [] OTHER               -> "PENDING"

GetState ==
  /\ find.pc = "getState"
  /\ find' = [pc |-> IF Next1 = Len(Steps) THEN "done" ELSE "getJob",
              returnvalue |-> <<>>,
              steps |-> Append(find.steps, [status |-> Status(job[Steps[Next1]].state),
                                            result |-> find.returnvalue])]
  /\ UNCHANGED <<lettersVars, create, meta>>

ChainStep == AddFlow \/ SetMeta \/ CreateCutOff \/ FindMeta \/ GetJob \/ GetState

Next ==
  \/ LettersNext /\ UNCHANGED chainVars
  \/ ChainStep

Spec == ChainInit /\ [][Next]_vars

-----------------------------------------------------------------------------
(* Properties.                                                             *)

\* A step runs after the one before, on its output: what step i returns comes
\* from the steps up to i, in order, whatever was retried or stalled in between.
StepsInOrder ==
  \A i \in Step : job[Steps[i]].returnvalue \in {<<>>, SubSeq(Steps, 1, i)}

\* What findOne puts together from reads at different moments never shows a step
\* that started behind one that failed, and a result only with its completion; a
\* workflow that can be asked about has the jobs of all its steps.
ShownChain ==
  /\ meta => \A i \in Step : Exists(Steps[i])
  /\ \A i, k \in 1..Len(find.steps) :
       /\ find.steps[i].result # <<>> => find.steps[i].status = "COMPLETED"
       /\ i < k /\ find.steps[i].status = "FAILED" => find.steps[k].status = "PENDING"

=============================================================================
