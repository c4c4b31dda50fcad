------------------------ MODULE TaskAdmission_proofs ------------------------
(***************************************************************************)
(* While an Idempotency-Key lives, at most one task is created under it,   *)
(* for any number of requests, keys, crashes and failures.                 *)
(***************************************************************************)
EXTENDS TaskAdmission, SequenceTheorems, FiniteSetTheorems, TLAPS

Holds(r, k) == call[r].key = k /\ call[r].pc = "handler"

Under(k) == {t \in DOMAIN tasks : tasks[t].key = k}

(* Only requests with the header reach the key and have an answer to       *)
(* store, and only once answered; an absent key is NoEntry.                *)
Keyed ==
  /\ \A r \in Request : /\ call[r].pc \in {"acquiring", "lookup"}
                             => call[r].key # NoKey
                        /\ call[r].save # "none"
                             => call[r].key # NoKey /\ call[r].pc = "created"
  /\ \A k \in Key : entry[k].status = "absent" => entry[k].response = NoTask

(* Until a key expires it is absent only before its first request reaches  *)
(* the handler; one request at most is let through, and only before there  *)
(* is a task.                                                              *)
KeyInv(k) ==
  expiries[k] = 0 =>
    /\ entry[k].status = "absent" =>
         /\ Under(k) = {}
         /\ \A r \in Request : call[r].key = k
                                 => call[r].pc \notin {"lookup", "handler"}
    /\ \A r, q \in Request : Holds(r, k) /\ Holds(q, k) => r = q
    /\ \A r \in Request : Holds(r, k) => Under(k) = {}
    /\ \A i, j \in Under(k) : i = j

IInv == AdmissionTypeOK /\ Keyed /\ \A k \in Key : KeyInv(k)

-----------------------------------------------------------------------------
(* Changing the state of a task keeps the sequence, its keys and its type. *)
LEMMA StateOnly ==
  ASSUME tasks \in Seq(Task), NEW t \in DOMAIN tasks, NEW s \in TaskStates,
         tasks' = [tasks EXCEPT ![t].state = s]
  PROVE  /\ tasks' \in Seq(Task)
         /\ DOMAIN tasks' = DOMAIN tasks
         /\ \A i \in DOMAIN tasks : tasks'[i].key = tasks[i].key
<1>1. tasks[t] \in Task
  OBVIOUS
<1>2. [tasks[t] EXCEPT !.state = s] \in Task
  BY <1>1 DEF Task
<1>3. tasks' = [tasks EXCEPT ![t] = [tasks[t] EXCEPT !.state = s]]
  OBVIOUS
<1>4. tasks' \in Seq(Task)
  BY <1>2, <1>3, ExceptSeq
<1>5. DOMAIN tasks' = DOMAIN tasks
  BY <1>3
<1>6. \A i \in DOMAIN tasks : tasks'[i].key = tasks[i].key
  BY <1>1, <1>3 DEF Task
<1> QED
  BY <1>4, <1>5, <1>6

(* Appending a task keeps the earlier ones.                                *)
LEMMA Appended ==
  ASSUME tasks \in Seq(Task), NEW t \in Task, tasks' = Append(tasks, t)
  PROVE  /\ tasks' \in Seq(Task)
         /\ DOMAIN tasks' = DOMAIN tasks \union {Len(tasks) + 1}
         /\ Len(tasks) + 1 \notin DOMAIN tasks
         /\ tasks'[Len(tasks) + 1] = t
         /\ \A i \in DOMAIN tasks : tasks'[i] = tasks[i]
<1>1. /\ tasks' \in Seq(Task)
      /\ Len(tasks') = Len(tasks) + 1
      /\ \A i \in 1..Len(tasks) : tasks'[i] = tasks[i]
      /\ tasks'[Len(tasks) + 1] = t
  BY AppendProperties
<1>2. /\ Len(tasks) \in Nat
      /\ DOMAIN tasks = 1..Len(tasks)
      /\ DOMAIN tasks' = 1..(Len(tasks) + 1)
  BY <1>1
<1> QED
  BY <1>1, <1>2

(* The counts of getQueueDepth are numbers.                                *)
LEMMA CountType ==
  ASSUME tasks \in Seq(Task), NEW s
  PROVE  CountOf(s) \in Nat
<1>1. IsFiniteSet(DOMAIN tasks)
  <2>1. DOMAIN tasks = 1..Len(tasks) /\ Len(tasks) \in Nat
    OBVIOUS
  <2> QED
    BY <2>1, FS_Interval
<1>2. IsFiniteSet({t \in DOMAIN tasks : tasks[t].state = s})
  BY <1>1, FS_Subset
<1> QED
  BY <1>2, FS_CardinalityType DEF CountOf

(* c is call after a step of r alone, which is now at pc with the key and  *)
(* has stored no answer by it.                                             *)
Moved(c, r, pc, key) ==
  /\ c \in [Request -> CallType]
  /\ c[r].pc = pc
  /\ c[r].key = key
  /\ c[r].save = call[r].save
  /\ \A q \in Request \ {r} : c[q] = call[q]

(* What the updates of the actions do.                                     *)
LEMMA Moves ==
  ASSUME call \in [Request -> CallType], NEW r \in Request, NEW pc \in CallPcs,
         NEW key \in Key \union {NoKey}, NEW named \in BOOLEAN,
         NEW depth \in Nat, NEW task \in Nat \union {NoTask}
  PROVE  /\ Moved([call EXCEPT ![r].pc = pc], r, pc, call[r].key)
         /\ Moved([call EXCEPT ![r].pc = pc, ![r].key = key,
                                ![r].named = named], r, pc, key)
         /\ Moved([call EXCEPT ![r].pc = pc, ![r].depth = depth],
                  r, pc, call[r].key)
         /\ Moved([call EXCEPT ![r].pc = pc, ![r].task = task],
                  r, pc, call[r].key)
<1>1. call[r] \in CallType
  OBVIOUS
<1>2. /\ [call[r] EXCEPT !.pc = pc] \in CallType
      /\ [call[r] EXCEPT !.pc = pc, !.key = key, !.named = named] \in CallType
      /\ [call[r] EXCEPT !.pc = pc, !.depth = depth] \in CallType
      /\ [call[r] EXCEPT !.pc = pc, !.task = task] \in CallType
  BY <1>1 DEF CallType
<1>3. Moved([call EXCEPT ![r].pc = pc], r, pc, call[r].key)
  BY <1>1, <1>2 DEF Moved, CallType
<1>4. Moved([call EXCEPT ![r].pc = pc, ![r].key = key, ![r].named = named],
            r, pc, key)
  BY <1>1, <1>2 DEF Moved, CallType
<1>5. Moved([call EXCEPT ![r].pc = pc, ![r].depth = depth], r, pc, call[r].key)
  BY <1>1, <1>2 DEF Moved, CallType
<1>6. Moved([call EXCEPT ![r].pc = pc, ![r].task = task], r, pc, call[r].key)
  BY <1>1, <1>2 DEF Moved, CallType
<1> QED
  BY <1>3, <1>4, <1>5, <1>6

(* Where each of a request's actions takes it.                             *)
LEMMA ActionMoves ==
  ASSUME AdmissionTypeOK, Keyed, NEW r \in Request
  PROVE  /\ \A k \in Key \union {NoKey}, named \in BOOLEAN :
              Arrive(r, k, named) => Moved(call', r, "guard", k)
         /\ CountWaiting(r) => Moved(call', r, "counting", call[r].key)
         /\ PastGuard(r) =>
              \/ Moved(call', r, "handler", NoKey) /\ call[r].key = NoKey
              \/ Moved(call', r, "acquiring", call[r].key) /\ call[r].key # NoKey
         /\ Refuse(r) => Moved(call', r, "tooMany", call[r].key)
         /\ Invalid(r) => Moved(call', r, "badRequest", call[r].key)
         /\ AddFails(r) => Moved(call', r, "error", call[r].key)
         /\ CountFails(r) \/ AcquireFails(r) \/ LookupFails(r)
              => Moved(call', r, "error", call[r].key)
         /\ AddTask(r) => Moved(call', r, "added", call[r].key)
<1> USE DEF AdmissionTypeOK
<1>1. CallPcs = {"idle", "guard", "counting", "acquiring", "lookup", "handler",
                 "added", "created", "cached", "conflict", "tooMany",
                 "badRequest", "error", "lost"}
  BY DEF CallPcs, InFlightPcs, Replies
<1>2. CountOf("waiting") \in Nat
  BY CountType
<1>3. Len(tasks) + 1 \in Nat
  OBVIOUS
<1>4. ASSUME NEW k \in Key \union {NoKey}, NEW named \in BOOLEAN,
             Arrive(r, k, named)
      PROVE  Moved(call', r, "guard", k)
  BY <1>1, <1>4, Moves DEF Arrive
<1>5. CountWaiting(r) => Moved(call', r, "counting", call[r].key)
  <2>1. Moved([call EXCEPT ![r].pc = "counting", ![r].depth = CountOf("waiting")],
              r, "counting", call[r].key)
    BY <1>1, <1>2, Moves
  <2> QED
    BY <2>1 DEF CountWaiting
<1>6. ASSUME PastGuard(r)
      PROVE  \/ Moved(call', r, "handler", NoKey) /\ call[r].key = NoKey
             \/ /\ Moved(call', r, "acquiring", call[r].key)
                /\ call[r].key # NoKey
  <2>1. CASE call[r].key = NoKey
    BY <1>1, <1>6, <2>1, Moves DEF PastGuard, Goto
  <2>2. CASE call[r].key # NoKey
    BY <1>1, <1>6, <2>2, Moves DEF PastGuard, Goto
  <2> QED
    BY <2>1, <2>2
<1>7. /\ Refuse(r) => Moved(call', r, "tooMany", call[r].key)
      /\ Invalid(r) => Moved(call', r, "badRequest", call[r].key)
      /\ AddFails(r) => Moved(call', r, "error", call[r].key)
      /\ CountFails(r) \/ AcquireFails(r) \/ LookupFails(r)
           => Moved(call', r, "error", call[r].key)
  <2>1. \A pc \in CallPcs : Goto(r, pc) => Moved(call', r, pc, call[r].key)
    <3> SUFFICES ASSUME NEW pc \in CallPcs, Goto(r, pc)
                 PROVE  Moved(call', r, pc, call[r].key)
      OBVIOUS
    <3>1. Moved([call EXCEPT ![r].pc = pc], r, pc, call[r].key)
      BY Moves
    <3> QED
      BY <3>1 DEF Goto
  <2>2. {"tooMany", "badRequest", "error"} \subseteq CallPcs
    BY <1>1
  <2> QED
    BY <2>1, <2>2
       DEF Refuse, Invalid, AddFails, CountFails, AcquireFails, LookupFails
<1>8. AddTask(r) => Moved(call', r, "added", call[r].key)
  <2>1. Moved([call EXCEPT ![r].pc = "added", ![r].task = Len(tasks) + 1],
              r, "added", call[r].key)
    BY <1>1, <1>3, Moves
  <2> QED
    BY <2>1 DEF AddTask
<1> QED
  BY <1>4, <1>5, <1>6, <1>7, <1>8

(* Acquire takes an absent key, and only then reaches the handler.         *)
LEMMA AcquireMoves ==
  ASSUME AdmissionTypeOK, Keyed, NEW r \in Request, Acquire(r)
  PROVE  LET k == call[r].key
         IN /\ k \in Key
            /\ entry' \in [Key -> EntryType]
            /\ entry'[k].status # "absent"
            /\ \A h \in Key \ {k} : entry'[h] = entry[h]
            /\ \/ entry[k].status = "absent" /\ Moved(call', r, "handler", k)
               \/ entry[k].status # "absent" /\ Moved(call', r, "lookup", k)
<1> USE DEF AdmissionTypeOK
<1>1. {"lookup", "handler"} \subseteq CallPcs
  BY DEF CallPcs, InFlightPcs
<1>2. call[r].key \in Key
  BY DEF Acquire, Keyed, CallType
<1>3. entry[call[r].key] \in EntryType
  BY <1>2
<1>4. CASE entry[call[r].key] = NoEntry
  <2>1. entry[call[r].key].status = "absent"
    BY <1>4 DEF NoEntry
  <2>2. [entry[call[r].key] EXCEPT !.status = "processing"] \in EntryType
    BY <1>3 DEF EntryType
  <2>3. entry' = [entry EXCEPT ![call[r].key] =
                    [entry[call[r].key] EXCEPT !.status = "processing"]]
    BY <1>4 DEF Acquire
  <2>4. Moved(call', r, "handler", call[r].key)
    <3>1. Goto(r, "handler") /\ "handler" \in CallPcs
      BY <1>1, <1>4 DEF Acquire
    <3> QED
      BY <3>1, Moves DEF Goto
  <2>5. [entry[call[r].key] EXCEPT !.status = "processing"].status # "absent"
    BY <1>3 DEF EntryType
  <2> QED
    BY <1>2, <2>1, <2>2, <2>3, <2>4, <2>5
<1>5. CASE entry[call[r].key] # NoEntry
  <2>1. entry[call[r].key].status # "absent"
    BY <1>2, <1>3, <1>5 DEF Keyed, NoEntry, EntryType
  <2> QED
    BY <1>1, <1>2, <1>5, <2>1, Moves DEF Acquire, Goto
<1> QED
  BY <1>4, <1>5

(* Lookup reaches the handler only if the key is absent again.             *)
LEMMA LookupMoves ==
  ASSUME AdmissionTypeOK, Keyed, NEW r \in Request, Lookup(r)
  PROVE  LET k == call[r].key
         IN /\ k \in Key
            /\ \/ entry[k].status = "absent" /\ Moved(call', r, "handler", k)
               \/ Moved(call', r, "conflict", k)
               \/ Moved(call', r, "cached", k)
<1> USE DEF AdmissionTypeOK
<1>1. {"handler", "conflict", "cached"} \subseteq CallPcs
  BY DEF CallPcs, InFlightPcs, Replies
<1>2. call[r].key \in Key
  BY DEF Lookup, Keyed, CallType
<1>3. /\ entry[call[r].key].status \in {"absent", "processing", "done"}
      /\ entry[call[r].key].response \in Nat \union {NoTask}
  BY <1>2 DEF EntryType
<1>4. CASE entry[call[r].key].status = "absent"
  BY <1>1, <1>2, <1>3, <1>4, Moves DEF Lookup
<1>5. CASE entry[call[r].key].status = "processing"
  BY <1>1, <1>2, <1>3, <1>5, Moves DEF Lookup
<1>6. CASE entry[call[r].key].status = "done"
  BY <1>1, <1>2, <1>3, <1>6, Moves DEF Lookup
<1> QED
  BY <1>3, <1>4, <1>5, <1>6

(* What the steps of an answer's storage do to the request.                *)
LEMMA SaveMoves ==
  ASSUME AdmissionTypeOK, NEW r \in Request
  PROVE  /\ Respond(r) =>
              /\ call' \in [Request -> CallType]
              /\ call'[r].pc = "created"
              /\ call'[r].save = IF call[r].key = NoKey THEN "none" ELSE "sent"
              /\ call'[r].key = call[r].key /\ call'[r].task = call[r].task
              /\ \A q \in Request \ {r} : call'[q] = call[q]
         /\ Complete(r) =>
              /\ call' \in [Request -> CallType]
              /\ call'[r].save = "stored"
              /\ call'[r].pc = call[r].pc
              /\ call'[r].key = call[r].key /\ call'[r].task = call[r].task
              /\ \A q \in Request \ {r} : call'[q] = call[q]
<1> USE DEF AdmissionTypeOK
<1>1. call[r] \in CallType /\ "created" \in CallPcs
  BY DEF CallPcs, Replies
<1>2. \A s \in Saves : [call[r] EXCEPT !.pc = "created", !.save = s] \in CallType
  BY <1>1 DEF CallType
<1>3. [call[r] EXCEPT !.save = "stored"] \in CallType
  BY <1>1 DEF CallType, Saves
<1>4. (IF call[r].key = NoKey THEN "none" ELSE "sent") \in Saves
  BY DEF Saves
<1>5. ASSUME Respond(r)
      PROVE  /\ call' \in [Request -> CallType]
             /\ call'[r].pc = "created"
             /\ call'[r].save = IF call[r].key = NoKey THEN "none" ELSE "sent"
             /\ call'[r].key = call[r].key /\ call'[r].task = call[r].task
             /\ \A q \in Request \ {r} : call'[q] = call[q]
  BY <1>1, <1>2, <1>4, <1>5 DEF Respond, CallType
<1>6. ASSUME Complete(r)
      PROVE  /\ call' \in [Request -> CallType]
             /\ call'[r].save = "stored"
             /\ call'[r].pc = call[r].pc
             /\ call'[r].key = call[r].key /\ call'[r].task = call[r].task
             /\ \A q \in Request \ {r} : call'[q] = call[q]
  BY <1>1, <1>3, <1>6 DEF Complete, CallType
<1> QED
  BY <1>5, <1>6

(* Complete leaves its key "done" and the others as they are.              *)
LEMMA CompleteStores ==
  ASSUME AdmissionTypeOK, Keyed, NEW r \in Request, Complete(r)
  PROVE  /\ call[r].key \in Key /\ call[r].pc = "created"
         /\ entry' \in [Key -> EntryType]
         /\ entry'[call[r].key] = [status |-> "done", response |-> call[r].task]
         /\ entry'[call[r].key].status = "done"
         /\ \A h \in Key \ {call[r].key} : entry'[h] = entry[h]
<1>1. call[r].key \in Key /\ call[r].pc = "created"
  BY DEF Complete, Keyed, AdmissionTypeOK, CallType
<1>2. [status |-> "done", response |-> call[r].task] \in EntryType
  BY DEF AdmissionTypeOK, CallType, EntryType
<1> QED
  BY <1>1, <1>2 DEF Complete, AdmissionTypeOK

(* A SET NX that rejects leaves the entries alone or takes an absent key.  *)
LEMMA AcquireFailsStores ==
  ASSUME AdmissionTypeOK, Keyed, NEW r \in Request, AcquireFails(r)
  PROVE  /\ call[r].key \in Key
         /\ entry' \in [Key -> EntryType]
         /\ \/ entry' = entry
            \/ /\ entry[call[r].key].status = "absent"
               /\ entry'[call[r].key].status = "processing"
               /\ \A h \in Key \ {call[r].key} : entry'[h] = entry[h]
<1>1. call[r].key \in Key
  BY DEF AcquireFails, Keyed, AdmissionTypeOK, CallType
<1>2. entry[call[r].key] \in EntryType
  BY <1>1 DEF AdmissionTypeOK
<1>3. CASE entry' = entry
  BY <1>1, <1>3 DEF AdmissionTypeOK
<1>4. CASE entry' # entry
  <2>1. /\ entry[call[r].key] = NoEntry
        /\ entry' = [entry EXCEPT ![call[r].key] =
                       [entry[call[r].key] EXCEPT !.status = "processing"]]
    BY <1>4 DEF AcquireFails
  <2>2. /\ [entry[call[r].key] EXCEPT !.status = "processing"] \in EntryType
        /\ [entry[call[r].key] EXCEPT !.status = "processing"].status = "processing"
    BY <1>2 DEF EntryType
  <2>3. entry[call[r].key].status = "absent"
    BY <2>1 DEF NoEntry
  <2> QED
    BY <1>1, <2>1, <2>2, <2>3 DEF AdmissionTypeOK
<1> QED
  BY <1>3, <1>4

(* A crash only moves requests in flight, to "lost", and loses answers     *)
(* that were being stored.                                                 *)
LEMMA CrashMoves ==
  ASSUME AdmissionTypeOK, NEW dead, ApiCrash(dead)
  PROVE  /\ call' \in [Request -> CallType]
         /\ \A r \in Request :
              /\ call'[r].key = call[r].key /\ call'[r].task = call[r].task
              /\ \/ call'[r] = call[r]
                 \/ /\ call[r].pc \in InFlightPcs /\ call'[r].pc = "lost"
                    /\ call'[r].save = call[r].save
                 \/ /\ call'[r].pc = call[r].pc
                    /\ call[r].save = "sent" /\ call'[r].save = "lost"
<1>1. \A r \in Request : /\ call[r] \in CallType
                         /\ [call[r] EXCEPT !.pc = "lost"] \in CallType
                         /\ [call[r] EXCEPT !.save = "lost"] \in CallType
  BY DEF AdmissionTypeOK, CallType, CallPcs, Replies, Saves
<1> QED
  BY <1>1 DEF ApiCrash, Underway, InFlight, CallType

(* A step that is not one of a single request.                             *)
LEMMA OtherMoves ==
  ASSUME AdmissionTypeOK, NEW t \in DOMAIN tasks,
         Start(t) \/ FinishTask(t) \/ Stall(t)
  PROVE  /\ tasks' \in Seq(Task)
         /\ \A k : Under(k)' = Under(k)
         /\ UNCHANGED <<call, entry, expiries>>
<1>1. PICK s \in TaskStates : tasks' = [tasks EXCEPT ![t].state = s]
  BY DEF Start, FinishTask, Stall, TaskStates
<1>2. /\ tasks' \in Seq(Task)
      /\ DOMAIN tasks' = DOMAIN tasks
      /\ \A i \in DOMAIN tasks : tasks'[i].key = tasks[i].key
  BY <1>1, StateOnly DEF AdmissionTypeOK
<1> QED
  BY <1>2 DEF Under, Start, FinishTask, Stall

(* Every variable stays in its domain: one step per action.                *)
LEMMA TypeStep ==
  ASSUME AdmissionTypeOK, Keyed, [Next]_vars
  PROVE  AdmissionTypeOK'
<1>1. ASSUME NEW r \in Request, NEW k \in Key \union {NoKey},
             NEW named \in BOOLEAN, Arrive(r, k, named)
      PROVE  AdmissionTypeOK'
  BY <1>1, ActionMoves DEF AdmissionTypeOK, Moved, Arrive
<1>2. ASSUME NEW r \in Request,
             \/ CountWaiting(r) \/ AdmitUnnamed(r) \/ Admit(r) \/ Refuse(r)
             \/ Invalid(r) \/ AddFails(r) \/ CountFails(r) \/ LookupFails(r)
      PROVE  AdmissionTypeOK'
  BY <1>2, ActionMoves
     DEF AdmissionTypeOK, Moved, CountWaiting, AdmitUnnamed, Admit, Refuse,
         Invalid, AddFails, CountFails, LookupFails
<1>3. ASSUME NEW r \in Request, Acquire(r)
      PROVE  AdmissionTypeOK'
  BY <1>3, AcquireMoves DEF AdmissionTypeOK, Moved, Acquire
<1>4. ASSUME NEW r \in Request, Lookup(r)
      PROVE  AdmissionTypeOK'
  BY <1>4, LookupMoves DEF AdmissionTypeOK, Moved, Lookup
<1>5. ASSUME NEW r \in Request, AddTask(r)
      PROVE  AdmissionTypeOK'
  <2>1. [key |-> call[r].key, state |-> "prioritized"] \in Task
    BY DEF AdmissionTypeOK, CallType, Task, TaskStates
  <2>2. tasks' \in Seq(Task)
    BY <1>5, <2>1, Appended DEF AdmissionTypeOK, AddTask
  <2> QED
    BY <1>5, <2>2, ActionMoves DEF AdmissionTypeOK, Moved, AddTask
<1>6. ASSUME NEW r \in Request, Respond(r)
      PROVE  AdmissionTypeOK'
  BY <1>6, SaveMoves DEF AdmissionTypeOK, Respond
<1>61. ASSUME NEW r \in Request, Complete(r)
      PROVE  AdmissionTypeOK'
  BY <1>61, SaveMoves, CompleteStores DEF AdmissionTypeOK, Complete
<1>62. ASSUME NEW r \in Request, AcquireFails(r)
      PROVE  AdmissionTypeOK'
  BY <1>62, ActionMoves, AcquireFailsStores
     DEF AdmissionTypeOK, Moved, AcquireFails
<1>7. ASSUME NEW dead, ApiCrash(dead)
      PROVE  AdmissionTypeOK'
  BY <1>7, CrashMoves DEF AdmissionTypeOK, ApiCrash
<1>8. ASSUME NEW k \in Key, Expire(k)
      PROVE  AdmissionTypeOK'
  <2>1. NoEntry \in EntryType
    BY DEF NoEntry, EntryType
  <2>2. expiries' \in [Key -> 0..MaxExpiries]
    BY <1>8, AdmissionBounds DEF AdmissionTypeOK, Expire
  <2> QED
    BY <1>8, <2>1, <2>2 DEF AdmissionTypeOK, Expire
<1>9. ASSUME NEW t \in DOMAIN tasks, Start(t) \/ FinishTask(t) \/ Stall(t)
      PROVE  AdmissionTypeOK'
  <2>1. stalls' \in 0..MaxStalls
    BY <1>9, AdmissionBounds DEF AdmissionTypeOK, Start, FinishTask, Stall
  <2> QED
    BY <1>9, <2>1, OtherMoves DEF AdmissionTypeOK
<1>10. CASE UNCHANGED vars
  BY <1>10 DEF AdmissionTypeOK, vars
<1> QED
  BY <1>1, <1>2, <1>3, <1>4, <1>5, <1>6, <1>61, <1>62, <1>7, <1>8, <1>9, <1>10 DEF Next

(* Keyed is preserved.                                                     *)
LEMMA KeyedStep ==
  ASSUME AdmissionTypeOK, Keyed, [Next]_vars
  PROVE  Keyed'
<1> USE KeyAssumption DEF Keyed
<1>1. ASSUME NEW r \in Request, NEW k \in Key \union {NoKey},
             NEW named \in BOOLEAN, Arrive(r, k, named)
      PROVE  Keyed'
  BY <1>1, ActionMoves DEF Moved, Arrive
<1>2. ASSUME NEW r \in Request,
             \/ CountWaiting(r) \/ AdmitUnnamed(r) \/ Admit(r) \/ Refuse(r)
             \/ Invalid(r) \/ AddFails(r) \/ AddTask(r) \/ CountFails(r)
             \/ LookupFails(r)
      PROVE  Keyed'
  <2>1. entry' = entry /\ call[r].pc # "created"
    BY <1>2 DEF CountWaiting, AdmitUnnamed, Admit, Refuse, Invalid, AddFails,
                AddTask, CountFails, LookupFails
  <2>2. call[r].save = "none"
    BY <2>1
  <2>3. \/ \E pc \in {"counting", "handler", "tooMany", "badRequest", "error",
                     "added"} : \E h : Moved(call', r, pc, h)
        \/ Moved(call', r, "acquiring", call[r].key) /\ call[r].key # NoKey
    BY <1>2, ActionMoves DEF AdmitUnnamed, Admit
  <2> QED
    BY <2>1, <2>2, <2>3 DEF Moved
<1>3. ASSUME NEW r \in Request, Acquire(r)
      PROVE  Keyed'
  BY <1>3, AcquireMoves DEF Moved, Acquire
<1>4. ASSUME NEW r \in Request, Lookup(r)
      PROVE  Keyed'
  BY <1>4, LookupMoves DEF Moved, Lookup
<1>5. ASSUME NEW r \in Request, Respond(r)
      PROVE  Keyed'
  BY <1>5, SaveMoves DEF Respond
<1>51. ASSUME NEW r \in Request, Complete(r)
      PROVE  Keyed'
  <2>1. \A k \in Key : entry'[k].status = "absent" => entry'[k].response = NoTask
    <3> TAKE k \in Key
    <3>1. CASE k = call[r].key
      BY <1>51, <3>1, CompleteStores
    <3>2. CASE k # call[r].key
      BY <1>51, <3>2, CompleteStores
    <3> QED
      BY <3>1, <3>2
  <2>2. /\ call[r].key # NoKey /\ call[r].pc = "created"
        /\ call'[r].key = call[r].key /\ call'[r].pc = call[r].pc
    BY <1>51, CompleteStores, SaveMoves
  <2>3. \A q \in Request \ {r} : call'[q] = call[q]
    BY <1>51, SaveMoves
  <2> QED
    BY <2>1, <2>2, <2>3
<1>52. ASSUME NEW r \in Request, AcquireFails(r)
      PROVE  Keyed'
  BY <1>52, ActionMoves, AcquireFailsStores DEF Moved, AcquireFails
<1>6. ASSUME NEW dead, ApiCrash(dead)
      PROVE  Keyed'
  <2>1. entry' = entry
    BY <1>6 DEF ApiCrash
  <2>2. ASSUME NEW r \in Request
        PROVE  /\ call'[r].pc \in {"acquiring", "lookup"} => call'[r].key # NoKey
               /\ call'[r].save # "none"
                    => call'[r].key # NoKey /\ call'[r].pc = "created"
    <3>1. CASE call'[r] = call[r]
      BY <3>1
    <3>2. CASE /\ call[r].pc \in InFlightPcs /\ call'[r].pc = "lost"
               /\ call'[r].save = call[r].save
      BY <3>2 DEF InFlightPcs
    <3>3. CASE /\ call'[r].pc = call[r].pc
               /\ call[r].save = "sent" /\ call'[r].save = "lost"
      BY <1>6, <3>3, CrashMoves
    <3> QED
      BY <1>6, <3>1, <3>2, <3>3, CrashMoves
  <2> QED
    BY <2>1, <2>2
<1>7. ASSUME NEW k \in Key, Expire(k)
      PROVE  Keyed'
  BY <1>7 DEF Expire, NoEntry, AdmissionTypeOK
<1>8. ASSUME NEW t \in DOMAIN tasks, Start(t) \/ FinishTask(t) \/ Stall(t)
      PROVE  Keyed'
  BY <1>8, OtherMoves
<1>9. CASE UNCHANGED vars
  BY <1>9 DEF vars
<1> QED
  BY <1>1, <1>2, <1>3, <1>4, <1>5, <1>51, <1>52, <1>6, <1>7, <1>8, <1>9 DEF Next

(* KeyInv of every key is preserved: one step per kind of action.          *)
LEMMA KeyInvStep ==
  ASSUME AdmissionTypeOK, Keyed, [Next]_vars, NEW k \in Key, KeyInv(k)
  PROVE  KeyInv(k)'
<1> USE KeyAssumption DEF KeyInv, Holds
<1>1. ASSUME NEW r \in Request, NEW h \in Key \union {NoKey},
             NEW named \in BOOLEAN, Arrive(r, h, named)
      PROVE  KeyInv(k)'
  <2>1. UNCHANGED <<entry, expiries>> /\ Under(k)' = Under(k)
    BY <1>1 DEF Arrive, Under
  <2> QED
    BY <1>1, <2>1, ActionMoves DEF Moved
<1>2. ASSUME NEW r \in Request,
             \/ CountWaiting(r) \/ AdmitUnnamed(r) \/ Admit(r) \/ Refuse(r)
             \/ Invalid(r) \/ AddFails(r) \/ CountFails(r) \/ LookupFails(r)
      PROVE  KeyInv(k)'
  <2>1. UNCHANGED <<entry, expiries>> /\ Under(k)' = Under(k)
    BY <1>2 DEF CountWaiting, AdmitUnnamed, Admit, Refuse, Invalid, AddFails,
               CountFails, LookupFails, Under
  <2>2. \E pc \in CallPcs \ {"lookup", "handler"} :
          Moved(call', r, pc, call[r].key)
        \/ Moved(call', r, "handler", NoKey)
    BY <1>2, ActionMoves
       DEF CallPcs, InFlightPcs, Replies, AdmitUnnamed, Admit
  <2> QED
    BY <2>1, <2>2 DEF Moved
<1>3. ASSUME NEW r \in Request, Acquire(r)
      PROVE  KeyInv(k)'
  <2>1. UNCHANGED <<tasks, expiries>> /\ Under(k)' = Under(k)
    BY <1>3 DEF Acquire, Under
  <2>2. CASE call[r].key = k
    BY <1>3, <2>1, <2>2, AcquireMoves DEF Moved
  <2>3. CASE call[r].key # k
    BY <1>3, <2>1, <2>3, AcquireMoves DEF Moved
  <2> QED
    BY <2>2, <2>3
<1>4. ASSUME NEW r \in Request, Lookup(r)
      PROVE  KeyInv(k)'
  <2>1. UNCHANGED <<entry, tasks, expiries>> /\ Under(k)' = Under(k)
    BY <1>4 DEF Lookup, Under
  <2>2. call[r].pc = "lookup"
    BY <1>4 DEF Lookup
  <2> QED
    BY <1>4, <2>1, <2>2, LookupMoves DEF Moved
<1>5. ASSUME NEW r \in Request, AddTask(r)
      PROVE  KeyInv(k)'
  <2> DEFINE n == Len(tasks) + 1
  <2>1. [key |-> call[r].key, state |-> "prioritized"] \in Task
    BY DEF AdmissionTypeOK, CallType, Task, TaskStates
  <2>2. /\ DOMAIN tasks' = DOMAIN tasks \union {n}
        /\ n \notin DOMAIN tasks
        /\ tasks'[n].key = call[r].key
        /\ \A i \in DOMAIN tasks : tasks'[i] = tasks[i]
    BY <1>5, <2>1, Appended DEF AdmissionTypeOK, AddTask
  <2> HIDE DEF n
  <2>3. Under(k)' = IF call[r].key = k THEN Under(k) \union {n} ELSE Under(k)
    BY <2>2 DEF Under
  <2>4. /\ Moved(call', r, "added", call[r].key)
        /\ call[r].pc = "handler"
        /\ UNCHANGED <<entry, expiries>>
    BY <1>5, ActionMoves DEF AddTask
  <2>5. CASE call[r].key = k
    <3>1. expiries[k] = 0 => /\ Under(k) = {}
                             /\ Under(k)' = {n}
                             /\ entry[k].status # "absent"
      BY <2>3, <2>4, <2>5
    <3>2. expiries[k] = 0 => \A q \in Request : ~ Holds(q, k)'
      BY <2>4, <2>5 DEF Moved
    <3> QED
      BY <2>4, <3>1, <3>2
  <2>6. CASE call[r].key # k
    BY <2>3, <2>4, <2>6 DEF Moved
  <2> QED
    BY <2>5, <2>6
<1>6. ASSUME NEW r \in Request, Respond(r)
      PROVE  KeyInv(k)'
  <2>1. UNCHANGED <<entry, tasks, expiries>> /\ Under(k)' = Under(k)
    BY <1>6 DEF Respond, Under
  <2> QED
    BY <1>6, <2>1, SaveMoves
<1>61. ASSUME NEW r \in Request, Complete(r)
      PROVE  KeyInv(k)'
  <2>1. UNCHANGED <<tasks, expiries>> /\ Under(k)' = Under(k)
    BY <1>61 DEF Complete, Under
  <2>2. entry'[k].status = "absent" => entry[k].status = "absent"
    BY <1>61, CompleteStores
  <2>3. \A q \in Request : /\ call'[q].key = call[q].key
                          /\ call'[q].pc = call[q].pc
    BY <1>61, SaveMoves
  <2> QED
    BY <2>1, <2>2, <2>3
<1>62. ASSUME NEW r \in Request, AcquireFails(r)
      PROVE  KeyInv(k)'
  <2>1. UNCHANGED <<tasks, expiries>> /\ Under(k)' = Under(k)
    BY <1>62 DEF AcquireFails, Under
  <2>2. entry'[k].status = "absent" => entry[k].status = "absent"
    BY <1>62, AcquireFailsStores
  <2>3. Moved(call', r, "error", call[r].key)
    BY <1>62, ActionMoves
  <2> QED
    BY <2>1, <2>2, <2>3 DEF Moved
<1>7. ASSUME NEW dead, ApiCrash(dead)
      PROVE  KeyInv(k)'
  <2>1. UNCHANGED <<entry, tasks, expiries>> /\ Under(k)' = Under(k)
    BY <1>7 DEF ApiCrash, Under
  <2>2. \A q \in Request : /\ call'[q].key = call[q].key
                          /\ call'[q].pc \in {call[q].pc, "lost"}
    BY <1>7, CrashMoves
  <2> QED
    BY <2>1, <2>2
<1>8. ASSUME NEW h \in Key, Expire(h)
      PROVE  KeyInv(k)'
  <2>1. UNCHANGED <<tasks, call>> /\ Under(k)' = Under(k)
    BY <1>8 DEF Expire, Under
  <2>2. CASE h = k
    <3>1. expiries'[k] # 0
      BY <1>8, <2>2, AdmissionBounds DEF Expire, AdmissionTypeOK
    <3> QED
      BY <3>1
  <2>3. CASE h # k
    BY <1>8, <2>1, <2>3 DEF Expire, AdmissionTypeOK
  <2> QED
    BY <2>2, <2>3
<1>9. ASSUME NEW t \in DOMAIN tasks, Start(t) \/ FinishTask(t) \/ Stall(t)
      PROVE  KeyInv(k)'
  <2>1. UNCHANGED <<call, entry, expiries>> /\ Under(k)' = Under(k)
    BY <1>9, OtherMoves
  <2> QED
    BY <2>1
<1>10. CASE UNCHANGED vars
  BY <1>10 DEF vars, Under
<1> QED
  BY <1>1, <1>2, <1>3, <1>4, <1>5, <1>6, <1>61, <1>62, <1>7, <1>8, <1>9, <1>10 DEF Next

-----------------------------------------------------------------------------
(* The inductive invariant holds.                                          *)
THEOREM AdmissionInvariance == Spec => []IInv
<1>1. Init => IInv
  <2> SUFFICES ASSUME Init PROVE IInv
    OBVIOUS
  <2>1. AdmissionTypeOK
    BY AdmissionBounds DEF Init, AdmissionTypeOK, NoEntry, CallType, CallPcs,
       EntryType, Saves
  <2>2. Keyed
    BY DEF Init, Keyed, NoEntry
  <2>3. \A k \in Key : KeyInv(k)
    BY KeyAssumption DEF Init, KeyInv, Under, Holds
  <2> QED
    BY <2>1, <2>2, <2>3 DEF IInv
<1>2. IInv /\ [Next]_vars => IInv'
  BY TypeStep, KeyedStep, KeyInvStep DEF IInv
<1> QED
  BY <1>1, <1>2, PTL DEF Spec

(* Every variable of TaskAdmission stays in its domain.                    *)
THEOREM AdmissionTypeCorrect == Spec => []AdmissionTypeOK
<1>1. IInv => AdmissionTypeOK
  BY DEF IInv
<1> QED
  BY <1>1, AdmissionInvariance, PTL

(* While a key lives, at most one task is created under it, for every set  *)
(* of requests and keys: retries, concurrent duplicates, 400s, failures of *)
(* Redis commands and API crashes included (IdempotencyService.acquire).   *)
THEOREM OneTask == Spec => []OneTaskPerKey
<1>1. IInv => OneTaskPerKey
  BY DEF IInv, KeyInv, Under, OneTaskPerKey
<1> QED
  BY <1>1, AdmissionInvariance, PTL

-----------------------------------------------------------------------------
(* The answers.                                                            *)

Owns(r, k) ==
  /\ call[r].key = k
  /\ \/ call[r].pc \in {"handler", "added", "badRequest", "error", "lost"}
     \/ call[r].pc = "created" /\ call[r].save \in {"sent", "lost"}

(* A step that leaves the status of k alone and keeps its owners keeps k   *)
(* owned.                                                                  *)
LEMMA StillOwned ==
  ASSUME NEW k \in Key, entry'[k].status = entry[k].status,
         \A r \in Request : Owns(r, k) => Owns(r, k)',
         entry[k].status = "processing" => \E r \in Request : Owns(r, k)
  PROVE  entry'[k].status = "processing" => \E r \in Request : Owns(r, k)'
OBVIOUS

(* No step brings "processing" back once the answer is stored: a key says  *)
(* so only while its request is handled, after an error, a 400 or a crash, *)
(* or while complete's SET is on its way, and for good if it is refused.   *)
THEOREM ProcessingIsOwned == Spec => []ProcessingOwned
<1>1. Init => ProcessingOwned
  BY DEF Init, ProcessingOwned, NoEntry
<1>2. ASSUME IInv, ProcessingOwned, [Next]_vars PROVE ProcessingOwned'
  <2> USE DEF Owns
  <2>0. AdmissionTypeOK /\ Keyed
    BY <1>2 DEF IInv
  <2> SUFFICES ASSUME NEW k \in Key
               PROVE  entry'[k].status = "processing" => \E r \in Request : Owns(r, k)'
    BY DEF ProcessingOwned
  <2>00. entry[k].status = "processing" => \E r \in Request : Owns(r, k)
    BY <1>2 DEF ProcessingOwned
  <2>1. ASSUME NEW r \in Request, NEW h \in Key \union {NoKey},
               NEW named \in BOOLEAN, Arrive(r, h, named)
        PROVE  entry'[k].status = "processing" => \E q \in Request : Owns(q, k)'
    <3>1. /\ entry' = entry /\ call[r].pc = "idle"
          /\ \A q \in Request \ {r} : call'[q] = call[q]
      BY <2>0, <2>1, ActionMoves DEF Moved, Arrive
    <3> QED
      BY <2>00, <3>1, StillOwned
  <2>2. ASSUME NEW r \in Request, \/ CountWaiting(r) \/ AdmitUnnamed(r) \/ Admit(r)
                                  \/ Refuse(r) \/ CountFails(r) \/ LookupFails(r)
        PROVE  entry'[k].status = "processing" => \E q \in Request : Owns(q, k)'
    <3>1. entry' = entry /\ call[r].pc \in {"guard", "counting", "lookup"}
      BY <2>2 DEF CountWaiting, AdmitUnnamed, Admit, Refuse, CountFails, LookupFails
    <3>2. \A q \in Request \ {r} : call'[q] = call[q]
      BY <2>0, <2>2, ActionMoves DEF Moved, AdmitUnnamed, Admit
    <3> QED
      BY <2>00, <3>1, <3>2, StillOwned
  <2>3. ASSUME NEW r \in Request, Invalid(r) \/ AddFails(r) \/ AddTask(r)
        PROVE  entry'[k].status = "processing" => \E q \in Request : Owns(q, k)'
    <3>1. entry' = entry
      BY <2>3 DEF Invalid, AddFails, AddTask
    <3>2. \E pc \in {"badRequest", "error", "added"} : Moved(call', r, pc, call[r].key)
      BY <2>0, <2>3, ActionMoves
    <3> QED
      BY <2>00, <3>1, <3>2, StillOwned DEF Moved
  <2>4. ASSUME NEW r \in Request, Acquire(r)
        PROVE  entry'[k].status = "processing" => \E q \in Request : Owns(q, k)'
    <3>1. call[r].pc = "acquiring"
      BY <2>4 DEF Acquire
    <3>2. CASE entry[call[r].key] = NoEntry /\ call[r].key = k
      <4>1. Moved(call', r, "handler", k)
        BY <2>0, <2>4, <3>2, AcquireMoves DEF NoEntry
      <4> QED
        BY <4>1 DEF Moved
    <3>3. CASE entry[call[r].key] # NoEntry \/ call[r].key # k
      <4>1. entry'[k] = entry[k]
        BY <2>0, <2>4, <3>3, AcquireMoves DEF Acquire
      <4>2. \A q \in Request \ {r} : call'[q] = call[q]
        BY <2>0, <2>4, AcquireMoves DEF Moved
      <4> QED
        BY <2>00, <3>1, <4>1, <4>2, StillOwned
    <3> QED
      BY <3>2, <3>3
  <2>5. ASSUME NEW r \in Request, AcquireFails(r)
        PROVE  entry'[k].status = "processing" => \E q \in Request : Owns(q, k)'
    <3>1. call[r].pc = "acquiring" /\ Moved(call', r, "error", call[r].key)
      BY <2>0, <2>5, ActionMoves DEF AcquireFails
    <3>2. CASE call[r].key = k
      BY <3>1, <3>2 DEF Moved
    <3>3. CASE call[r].key # k
      <4>1. entry'[k] = entry[k]
        BY <2>0, <2>5, <3>3, AcquireFailsStores
      <4> QED
        BY <2>00, <3>1, <4>1, StillOwned DEF Moved
    <3> QED
      BY <3>2, <3>3
  <2>6. ASSUME NEW r \in Request, Lookup(r)
        PROVE  entry'[k].status = "processing" => \E q \in Request : Owns(q, k)'
    <3>1. /\ entry' = entry /\ call[r].pc = "lookup"
          /\ \A q \in Request \ {r} : call'[q] = call[q]
      BY <2>0, <2>6, LookupMoves DEF Moved, Lookup
    <3> QED
      BY <2>00, <3>1, StillOwned
  <2>7. ASSUME NEW r \in Request, Respond(r)
        PROVE  entry'[k].status = "processing" => \E q \in Request : Owns(q, k)'
    <3>1. entry' = entry
      BY <2>7 DEF Respond
    <3>2. ASSUME NEW q \in Request, Owns(q, k) PROVE Owns(q, k)'
      <4>1. CASE q = r
        BY <2>0, <2>7, <3>2, <4>1, SaveMoves, KeyAssumption
      <4>2. CASE q # r
        BY <2>0, <2>7, <3>2, <4>2, SaveMoves
      <4> QED
        BY <4>1, <4>2
    <3> QED
      BY <2>00, <3>1, <3>2, StillOwned
  <2>8. ASSUME NEW r \in Request, Complete(r)
        PROVE  entry'[k].status = "processing" => \E q \in Request : Owns(q, k)'
    <3>1. CASE call[r].key = k
      BY <2>0, <2>8, <3>1, CompleteStores
    <3>2. CASE call[r].key # k
      <4>1. /\ entry'[k] = entry[k]
            /\ \A q \in Request \ {r} : call'[q] = call[q]
        BY <2>0, <2>8, <3>2, CompleteStores, SaveMoves
      <4> QED
        BY <2>00, <3>2, <4>1, StillOwned
    <3> QED
      BY <3>1, <3>2
  <2>9. ASSUME NEW dead, ApiCrash(dead)
        PROVE  entry'[k].status = "processing" => \E q \in Request : Owns(q, k)'
    <3>1. entry' = entry
      BY <2>9 DEF ApiCrash
    <3>2. \A q \in Request : Owns(q, k) => Owns(q, k)'
      BY <2>0, <2>9, CrashMoves
    <3> QED
      BY <2>00, <3>1, <3>2, StillOwned
  <2>10. ASSUME NEW h \in Key, Expire(h)
        PROVE  entry'[k].status = "processing" => \E q \in Request : Owns(q, k)'
    <3>1. CASE h = k
      BY <2>0, <2>10, <3>1 DEF Expire, NoEntry, AdmissionTypeOK
    <3>2. CASE h # k
      BY <2>00, <2>10, <3>2, StillOwned DEF Expire
    <3> QED
      BY <3>1, <3>2
  <2>11. ASSUME NEW t \in DOMAIN tasks, Start(t) \/ FinishTask(t) \/ Stall(t)
        PROVE  entry'[k].status = "processing" => \E q \in Request : Owns(q, k)'
    BY <2>0, <2>00, <2>11, OtherMoves, StillOwned
  <2>12. CASE UNCHANGED vars
    BY <2>00, <2>12 DEF vars
  <2> QED
    BY <1>2, <2>1, <2>2, <2>3, <2>4, <2>5, <2>6, <2>7, <2>8, <2>9, <2>10, <2>11,
       <2>12 DEF Next
<1> QED
  BY <1>1, <1>2, AdmissionInvariance, PTL DEF Spec

(* A request that got past its key, and has not failed.                    *)
Through(r, k) == call[r].key = k /\ call[r].pc \in {"handler", "added", "created"}

(* Until it expires a key belongs to one such request: it is "processing"  *)
(* until the answer of that one is stored, and then stands for its task.   *)
AnswerInv(k) ==
  expiries[k] = 0 =>
    /\ entry[k].status = "absent" =>
         \A r \in Request : call[r].key = k => ~ Through(r, k) /\ call[r].pc # "lookup"
    /\ \A r, q \in Request : Through(r, k) /\ Through(q, k) => r = q
    /\ \A r \in Request : Through(r, k) /\ call[r].save # "stored"
                            => entry[k].status = "processing"
    /\ \A r \in Request : Through(r, k) /\ call[r].save = "stored"
         => entry[k] = [status |-> "done", response |-> call[r].task]
    /\ \A q \in Request : call[q].key = k /\ call[q].pc = "cached"
         => entry[k].status = "done" /\ entry[k].response = call[q].task

(* A step that leaves the entry alone and makes no answer.                 *)
LEMMA AnswerKept ==
  ASSUME NEW k \in Key, AnswerInv(k), entry'[k] = entry[k], expiries' = expiries,
         \A r \in Request :
           /\ Through(r, k)' => /\ Through(r, k)
                                /\ call'[r].save = "stored" <=> call[r].save = "stored"
                                /\ call'[r].save = "stored" => call'[r].task = call[r].task
           /\ call'[r].key = k /\ call'[r].pc \in {"lookup", "cached"}
                => \/ call'[r].key = call[r].key /\ call'[r].pc = call[r].pc
                      /\ call'[r].task = call[r].task
                   \/ call'[r].pc = "lookup" /\ entry[k].status # "absent"
  PROVE  AnswerInv(k)'
BY DEF AnswerInv, Through

(* Until it is answered, a request has no answer to store.                 *)
LEMMA NothingSaved ==
  ASSUME AdmissionTypeOK, Keyed, NEW r \in Request, call[r].pc # "created"
  PROVE  call[r].save = "none"
BY DEF Keyed

LEMMA AnswerStep ==
  ASSUME AdmissionTypeOK, Keyed, [Next]_vars, NEW k \in Key, AnswerInv(k)
  PROVE  AnswerInv(k)'
<1>1. ASSUME NEW r \in Request, NEW h \in Key \union {NoKey},
             NEW named \in BOOLEAN, Arrive(r, h, named)
      PROVE  AnswerInv(k)'
  <2>1. entry' = entry /\ expiries' = expiries /\ Moved(call', r, "guard", h)
    BY <1>1, ActionMoves DEF Arrive
  <2> QED
    BY <2>1, AnswerKept DEF Moved, Through
<1>2. ASSUME NEW r \in Request, \/ CountWaiting(r) \/ AdmitUnnamed(r) \/ Admit(r)
                                \/ Refuse(r) \/ Invalid(r) \/ AddFails(r)
                                \/ CountFails(r) \/ LookupFails(r)
      PROVE  AnswerInv(k)'
  <2>1. entry' = entry /\ expiries' = expiries
    BY <1>2 DEF CountWaiting, AdmitUnnamed, Admit, Refuse, Invalid, AddFails,
                CountFails, LookupFails
  <2>2. \/ \E pc \in {"counting", "acquiring", "tooMany", "badRequest", "error"} :
             Moved(call', r, pc, call[r].key)
        \/ Moved(call', r, "handler", NoKey)
    BY <1>2, ActionMoves DEF AdmitUnnamed, Admit
  <2> QED
    BY <2>1, <2>2, AnswerKept, KeyAssumption DEF Moved, Through
<1>3. ASSUME NEW r \in Request, Acquire(r) PROVE AnswerInv(k)'
  <2>1. expiries' = expiries /\ call[r].pc = "acquiring"
    BY <1>3 DEF Acquire
  <2>2. CASE entry[call[r].key] = NoEntry /\ call[r].key = k
    <3>1. Moved(call', r, "handler", k) /\ entry[k].status = "absent"
      BY <1>3, <2>2, AcquireMoves DEF NoEntry
    <3>2. entry'[k].status = "processing"
      BY <1>3, <2>2 DEF Acquire, AdmissionTypeOK, EntryType
    <3>3. call'[r].save = "none"
      BY <2>1, <3>1, NothingSaved DEF Moved
    <3>4. /\ expiries[k] = 0 => \A q \in Request : ~ Through(q, k)
          /\ expiries[k] = 0 => \A q \in Request :
                                  call[q].key = k => call[q].pc # "cached"
      BY <3>1 DEF AnswerInv, Through
    <3>5. expiries[k] = 0 => \A q \in Request : Through(q, k)' => q = r
      BY <3>1, <3>4 DEF Moved, Through
    <3>6. expiries[k] = 0 => \A q \in Request :
                               call'[q].key = k => call'[q].pc # "cached"
      BY <3>1, <3>4 DEF Moved
    <3> QED
      BY <2>1, <3>2, <3>3, <3>5, <3>6 DEF AnswerInv
  <2>3. CASE entry[call[r].key] = NoEntry /\ call[r].key # k
    <3>1. entry'[k] = entry[k] /\ \A q \in Request \ {r} : call'[q] = call[q]
      BY <1>3, <2>3, AcquireMoves DEF Moved
    <3>2. call'[r].key = call[r].key
      BY <1>3, AcquireMoves DEF Moved
    <3> QED
      BY <2>1, <2>3, <3>1, <3>2, AnswerKept DEF Through
  <2>4. CASE entry[call[r].key] # NoEntry
    <3>1. entry' = entry /\ Moved(call', r, "lookup", call[r].key)
          /\ call[r].key \in Key
      BY <1>3, <2>4, AcquireMoves, ActionMoves DEF Acquire, Moved, Goto
    <3>2. entry[call[r].key].status # "absent"
      BY <2>4, <3>1 DEF Keyed, AdmissionTypeOK, EntryType, NoEntry
    <3> QED
      BY <2>1, <3>1, <3>2, AnswerKept DEF Moved, Through
  <2> QED
    BY <2>2, <2>3, <2>4
<1>4. ASSUME NEW r \in Request, Lookup(r) PROVE AnswerInv(k)'
  <2> DEFINE e == entry[call[r].key]
  <2>1. entry' = entry /\ expiries' = expiries /\ call[r].pc = "lookup"
    BY <1>4 DEF Lookup
  <2>2. /\ call'[r].key = call[r].key
        /\ \A q \in Request \ {r} : call'[q] = call[q]
    BY <1>4, LookupMoves DEF Moved
  <2>3. CASE call[r].key # k
    BY <2>1, <2>2, <2>3, AnswerKept DEF Through
  <2>4. CASE call[r].key = k /\ expiries[k] = 0
    <3>1. e.status \in {"processing", "done"}
      BY <2>1, <2>4 DEF AnswerInv, Through, AdmissionTypeOK, EntryType
    <3>2. CASE e.status = "processing"
      <4>1. call'[r].pc = "conflict"
        BY <1>4, <3>2 DEF Lookup, AdmissionTypeOK, CallType
      <4> QED
        BY <2>1, <2>2, <2>4, <4>1, AnswerKept DEF Through
    <3>3. CASE e.status = "done"
      <4>1. call'[r].pc = "cached" /\ call'[r].task = e.response
        BY <1>4, <3>3 DEF Lookup, AdmissionTypeOK, CallType
      <4>2. \A q \in Request : Through(q, k)' <=> Through(q, k) /\ q # r
        BY <2>1, <2>2, <4>1 DEF Through
      <4>3. \A q \in Request : Through(q, k) => call'[q] = call[q]
        BY <2>1, <2>2 DEF Through
      <4> QED
        BY <2>1, <2>2, <2>4, <3>3, <4>1, <4>2, <4>3 DEF AnswerInv
    <3> QED
      BY <3>1, <3>2, <3>3
  <2>5. CASE expiries[k] # 0
    BY <2>1, <2>5 DEF AnswerInv
  <2> QED
    BY <2>3, <2>4, <2>5
<1>5. ASSUME NEW r \in Request, AddTask(r) PROVE AnswerInv(k)'
  <2>1. entry' = entry /\ expiries' = expiries /\ call[r].pc = "handler"
        /\ Moved(call', r, "added", call[r].key)
    BY <1>5, ActionMoves DEF AddTask
  <2>2. call'[r].save = "none"
    BY <2>1, NothingSaved DEF Moved
  <2> QED
    BY <2>1, <2>2, AnswerKept DEF Moved, Through
<1>6. ASSUME NEW r \in Request, Respond(r) PROVE AnswerInv(k)'
  <2>1. entry' = entry /\ expiries' = expiries /\ call[r].pc = "added"
    BY <1>6 DEF Respond
  <2>2. call[r].save = "none" /\ call'[r].save # "stored"
    BY <1>6, <2>1, NothingSaved, SaveMoves
  <2> QED
    BY <1>6, <2>1, <2>2, SaveMoves, AnswerKept DEF Through
<1>7. ASSUME NEW r \in Request, Complete(r) PROVE AnswerInv(k)'
  <2>1. expiries' = expiries /\ call[r].pc = "created" /\ call[r].save = "sent"
    BY <1>7, CompleteStores DEF Complete
  <2>2. /\ \A q \in Request \ {r} : call'[q] = call[q]
        /\ call'[r].pc = call[r].pc /\ call'[r].key = call[r].key
        /\ call'[r].task = call[r].task /\ call'[r].save = "stored"
    BY <1>7, SaveMoves
  <2>3. CASE call[r].key # k
    <3>1. entry'[k] = entry[k]
      BY <1>7, <2>3, CompleteStores
    <3> QED
      BY <2>1, <2>2, <2>3, <3>1, AnswerKept DEF Through
  <2>4. CASE call[r].key = k /\ expiries[k] = 0
    <3>1. entry'[k] = [status |-> "done", response |-> call[r].task]
      BY <1>7, <2>4, CompleteStores
    <3>2. entry[k].status = "processing" /\ \A q \in Request : Through(q, k) => q = r
      BY <2>1, <2>4 DEF AnswerInv, Through
    <3>3. \A q \in Request : Through(q, k)' => q = r
      BY <2>2, <3>2 DEF Through
    <3>4. \A q \in Request : call'[q].key = k => call'[q].pc # "cached"
      BY <2>1, <2>2, <2>4, <3>2 DEF AnswerInv
    <3> QED
      BY <2>1, <2>2, <3>1, <3>3, <3>4 DEF AnswerInv
  <2>5. CASE expiries[k] # 0
    BY <2>1, <2>5 DEF AnswerInv
  <2> QED
    BY <2>3, <2>4, <2>5
<1>8. ASSUME NEW r \in Request, AcquireFails(r) PROVE AnswerInv(k)'
  <2>1. expiries' = expiries /\ Moved(call', r, "error", call[r].key)
    BY <1>8, ActionMoves DEF AcquireFails
  <2>2. CASE entry'[k] = entry[k]
    BY <2>1, <2>2, AnswerKept DEF Moved, Through
  <2>3. CASE entry[k].status = "absent" /\ entry'[k].status = "processing"
    <3>1. expiries[k] = 0 => \A q \in Request :
                               /\ ~ Through(q, k)
                               /\ call[q].key = k => call[q].pc # "cached"
      BY <2>3 DEF AnswerInv, Through
    <3>2. expiries[k] = 0 => \A q \in Request :
                               /\ ~ Through(q, k)'
                               /\ call'[q].key = k => call'[q].pc # "cached"
      BY <2>1, <3>1 DEF Moved, Through
    <3> QED
      BY <2>1, <2>3, <3>2 DEF AnswerInv
  <2> QED
    BY <1>8, <2>2, <2>3, AcquireFailsStores
<1>9. ASSUME NEW dead, ApiCrash(dead) PROVE AnswerInv(k)'
  <2>1. entry' = entry /\ expiries' = expiries
    BY <1>9 DEF ApiCrash
  <2> QED
    BY <1>9, <2>1, CrashMoves, AnswerKept DEF Through
<1>10. ASSUME NEW h \in Key, Expire(h) PROVE AnswerInv(k)'
  <2>1. CASE h = k
    <3>1. expiries'[k] # 0
      BY <1>10, <2>1, AdmissionBounds DEF Expire, AdmissionTypeOK
    <3> QED
      BY <3>1 DEF AnswerInv
  <2>2. CASE h # k
    <3>1. entry'[k] = entry[k] /\ expiries'[k] = expiries[k] /\ call' = call
      BY <1>10, <2>2 DEF Expire, AdmissionTypeOK
    <3> QED
      BY <3>1 DEF AnswerInv, Through
  <2> QED
    BY <2>1, <2>2
<1>11. ASSUME NEW t \in DOMAIN tasks, Start(t) \/ FinishTask(t) \/ Stall(t)
      PROVE  AnswerInv(k)'
  BY <1>11, OtherMoves, AnswerKept DEF Through
<1>12. CASE UNCHANGED vars
  BY <1>12, AnswerKept DEF vars, Through
<1> QED
  BY <1>1, <1>2, <1>3, <1>4, <1>5, <1>6, <1>7, <1>8, <1>9, <1>10, <1>11, <1>12
     DEF Next

(* Until a key expires: once the answer of a request with a new task is    *)
(* stored, the key stands for this task and every answer from the cache    *)
(* names it; before that, and for good if complete's SET is refused, the   *)
(* key says "processing" and no answer is given from it.                   *)
THEOREM OriginalAnswer == Spec => []OriginalResponse
<1> DEFINE AllAnswers == \A k \in Key : AnswerInv(k)
<1>1. Init => AllAnswers
  BY DEF Init, AnswerInv, Through, NoEntry
<1>2. IInv /\ AllAnswers /\ [Next]_vars => AllAnswers'
  BY AnswerStep DEF IInv
<1>3. AllAnswers => OriginalResponse
  BY DEF AnswerInv, Through, OriginalResponse
<1> QED
  BY <1>1, <1>2, <1>3, AdmissionInvariance, PTL DEF Spec

=============================================================================
