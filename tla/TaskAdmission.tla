---------------------------- MODULE TaskAdmission ----------------------------
(***************************************************************************)
(* POST /tasks: BackpressureGuard, IdempotencyInterceptor, ValidationPipe  *)
(* and TasksService.create, in the order NestJS runs them, for concurrent  *)
(* requests of one user to any number of API processes, and the user's     *)
(* queue (BullMQ, external).  Users do not interact: queue and depth are   *)
(* per user.  A command to Redis may be refused; one that ioredis sends    *)
(* again by itself because its answer was lost is not modelled.            *)
(***************************************************************************)
EXTENDS Naturals, Sequences, FiniteSets

CONSTANTS
  Request,      \* the requests, each made once
  Key,          \* Idempotency-Key headers
  NoKey,        \* a request without the header
  NoTask,       \* no task
  Threshold,    \* BACKPRESSURE_THRESHOLD
  Concurrency,  \* jobs the user's worker runs at once
  MaxInFlight,  \* how many requests clients have in flight at once
  MaxExpiries,  \* bound: how often each key outlives its TTL
  MaxStalls     \* bound: how many jobs stall

ASSUME KeyAssumption == NoKey \notin Key

ASSUME AdmissionBounds ==
  {Threshold, Concurrency, MaxInFlight, MaxExpiries, MaxStalls} \subseteq Nat

ASSUME TaskAssumption == NoTask \notin Nat

VARIABLES
  call,         \* per request: where it is, its key, whether its body names
                \* a user, the depth counted so far, the task it made or
                \* returned, what became of complete's SET
  entry,        \* idempotency:{key}: its status and the task in its response
  tasks,        \* the user's tasks: the key each was made under, its state
  expiries,     \* per key, how often it expired
  stalls        \* how many jobs stalled

vars == <<call, entry, tasks, expiries, stalls>>

(* Before, in and after the handler; "created" to "lost" are replies.      *)
InFlightPcs == {"guard", "counting", "acquiring", "lookup", "handler", "added"}
Replies     == {"created", "cached", "conflict", "tooMany", "badRequest",
                "error", "lost"}
TaskStates  == {"prioritized", "waiting", "active", "finished"}

NoEntry == [status |-> "absent", response |-> NoTask]

(* The SET of complete: not sent, on its way, done, refused or lost.       *)
Saves == {"none", "sent", "stored", "lost"}

InFlight == {r \in Request : call[r].pc \in InFlightPcs}

(* The requests an API process still works for.                            *)
Underway == InFlight \union {r \in Request : call[r].save = "sent"}

CountOf(state) == Cardinality({t \in DOMAIN tasks : tasks[t].state = state})

Init ==
  /\ call = [r \in Request |-> [pc |-> "idle", key |-> NoKey, named |-> TRUE,
                                depth |-> 0, task |-> NoTask, save |-> "none"]]
  /\ entry = [k \in Key |-> NoEntry]
  /\ tasks = <<>>
  /\ expiries = [k \in Key |-> 0]
  /\ stalls = 0

Arrive(r, k, named) ==
  /\ call[r].pc = "idle"
  /\ Cardinality(InFlight) < MaxInFlight
  /\ call' = [call EXCEPT ![r].pc = "guard", ![r].key = k, ![r].named = named]
  /\ UNCHANGED <<entry, tasks, expiries, stalls>>

Goto(r, pc) == call' = [call EXCEPT ![r].pc = pc]

-----------------------------------------------------------------------------
(* BackpressureGuard over getQueueDepth: two counts, one after the other.  *)
(* getWaitingCount (external) does not count prioritized jobs.             *)
CountWaiting(r) ==
  /\ call[r].pc = "guard"
  /\ call[r].named
  /\ call' = [call EXCEPT ![r].pc = "counting", ![r].depth = CountOf("waiting")]
  /\ UNCHANGED <<entry, tasks, expiries, stalls>>

Depth(r) == call[r].depth + CountOf("active")

PastGuard(r) == Goto(r, IF call[r].key = NoKey THEN "handler" ELSE "acquiring")

(* A body without userId has no queue: the guard lets it through.          *)
AdmitUnnamed(r) ==
  /\ call[r].pc = "guard"
  /\ ~ call[r].named
  /\ PastGuard(r)
  /\ UNCHANGED <<entry, tasks, expiries, stalls>>

Admit(r) ==
  /\ call[r].pc = "counting"
  /\ Depth(r) < Threshold
  /\ PastGuard(r)
  /\ UNCHANGED <<entry, tasks, expiries, stalls>>

Refuse(r) ==
  /\ call[r].pc = "counting"
  /\ Depth(r) >= Threshold
  /\ Goto(r, "tooMany")
  /\ UNCHANGED <<entry, tasks, expiries, stalls>>

(* A count rejects: a 500.                                                 *)
CountFails(r) ==
  /\ \/ call[r].pc = "guard" /\ call[r].named
     \/ call[r].pc = "counting"
  /\ Goto(r, "error")
  /\ UNCHANGED <<entry, tasks, expiries, stalls>>

-----------------------------------------------------------------------------
(* Mutant of Acquire: SET without NX.                                      *)
AcquireAlways(r) ==
  /\ call[r].pc = "acquiring"
  /\ entry' = [entry EXCEPT ![call[r].key].status = "processing"]
  /\ Goto(r, "handler")
  /\ UNCHANGED <<tasks, expiries, stalls>>

(* IdempotencyService.acquire: SET NX, then GET if the key was there.      *)
Acquire(r) ==
  /\ call[r].pc = "acquiring"
  /\ LET k == call[r].key
     IN IF entry[k] = NoEntry
        THEN /\ entry' = [entry EXCEPT ![k].status = "processing"]
             /\ Goto(r, "handler")
        ELSE /\ Goto(r, "lookup")
             /\ UNCHANGED entry
  /\ UNCHANGED <<tasks, expiries, stalls>>

(* SET NX rejects, before or after Redis has done it: a 500.               *)
AcquireFails(r) ==
  /\ call[r].pc = "acquiring"
  /\ Goto(r, "error")
  /\ \/ UNCHANGED entry
     \/ /\ entry[call[r].key] = NoEntry
        /\ entry' = [entry EXCEPT ![call[r].key].status = "processing"]
  /\ UNCHANGED <<tasks, expiries, stalls>>

(* Mutant of Lookup: a hit starts the entry's life again.                  *)
LookupRefreshes(r) ==
  /\ call[r].pc = "lookup"
  /\ LET e == entry[call[r].key]
     IN call' = [call EXCEPT
                   ![r].pc = CASE e.status = "absent"     -> "handler"
                               [] e.status = "processing" -> "conflict"
                               [] e.status = "done"       -> "cached",
                   ![r].task = e.response]
  /\ entry' = [entry EXCEPT ![call[r].key].status = "processing"]
  /\ UNCHANGED <<tasks, expiries, stalls>>

(* The key may have expired since: then the request is treated as new.     *)
Lookup(r) ==
  /\ call[r].pc = "lookup"
  /\ LET e == entry[call[r].key]
     IN call' = [call EXCEPT
                   ![r].pc = CASE e.status = "absent"     -> "handler"
                               [] e.status = "processing" -> "conflict"
                               [] e.status = "done"       -> "cached",
                   ![r].task = e.response]
  /\ UNCHANGED <<entry, tasks, expiries, stalls>>

(* GET rejects: a 500.                                                     *)
LookupFails(r) ==
  /\ call[r].pc = "lookup"
  /\ Goto(r, "error")
  /\ UNCHANGED <<entry, tasks, expiries, stalls>>

(* Pipes run after interceptors: the body is validated under the key, and  *)
(* one that names no user never passes.                                    *)
Invalid(r) ==
  /\ call[r].pc = "handler"
  /\ Goto(r, "badRequest")
  /\ UNCHANGED <<entry, tasks, expiries, stalls>>

(* TasksService.create: queue.add with a priority of PRIORITY_MAP, never 0,*)
(* so BullMQ (external) puts the job among the prioritized ones.           *)
AddTask(r) ==
  /\ call[r].pc = "handler"
  /\ call[r].named
  /\ tasks' = Append(tasks, [key |-> call[r].key, state |-> "prioritized"])
  /\ call' = [call EXCEPT ![r].pc = "added", ![r].task = Len(tasks) + 1]
  /\ UNCHANGED <<entry, expiries, stalls>>

(* queue.add rejects, before or after Redis has done it: a 500.            *)
AddFails(r) ==
  /\ call[r].pc \in {"handler", "added"}
  /\ call[r].named
  /\ Goto(r, "error")
  /\ UNCHANGED <<entry, tasks, expiries, stalls>>

(* The reply leaves.  With a key, tap has sent the SET of complete, and    *)
(* nobody waits for it.                                                    *)
Respond(r) ==
  /\ call[r].pc = "added"
  /\ call' = [call EXCEPT
                ![r].pc = "created",
                ![r].save = IF call[r].key = NoKey THEN "none" ELSE "sent"]
  /\ UNCHANGED <<entry, tasks, expiries, stalls>>

(* Mutants of Complete: the response is dropped; SET with NX, as acquire's.*)
CompleteEmpty(r) ==
  /\ call[r].save = "sent"
  /\ entry' = [entry EXCEPT ![call[r].key] = [status |-> "done"]]
  /\ call' = [call EXCEPT ![r].save = "stored"]
  /\ UNCHANGED <<tasks, expiries, stalls>>

CompleteNX(r) ==
  /\ call[r].save = "sent"
  /\ entry' = [entry EXCEPT ![call[r].key] =
                 IF @ = NoEntry
                 THEN [status |-> "done", response |-> call[r].task]
                 ELSE @]
  /\ call' = [call EXCEPT ![r].save = "stored"]
  /\ UNCHANGED <<tasks, expiries, stalls>>

(* IdempotencyService.complete: Redis has its SET, which needs no key.     *)
Complete(r) ==
  /\ call[r].save = "sent"
  /\ entry' = [entry EXCEPT ![call[r].key] =
                 [status |-> "done", response |-> call[r].task]]
  /\ call' = [call EXCEPT ![r].save = "stored"]
  /\ UNCHANGED <<tasks, expiries, stalls>>

(* An API process ends with all it has under way: killed, or because the   *)
(* SET of complete was refused, which nothing catches.  Redis stays.       *)
ApiCrash(dead) ==
  /\ dead # {}
  /\ dead \subseteq Underway
  /\ call' = [r \in Request |->
                IF r \notin dead THEN call[r]
                ELSE IF call[r].pc \in InFlightPcs
                     THEN [call[r] EXCEPT !.pc = "lost"]
                     ELSE [call[r] EXCEPT !.save = "lost"]]
  /\ UNCHANGED <<entry, tasks, expiries, stalls>>

(* IDEMPOTENCY_TTL_SECONDS have passed since the key was set.              *)
Expire(k) ==
  /\ entry[k] # NoEntry
  /\ expiries[k] < MaxExpiries
  /\ entry' = [entry EXCEPT ![k] = NoEntry]
  /\ expiries' = [expiries EXCEPT ![k] = @ + 1]
  /\ UNCHANGED <<call, tasks, stalls>>

-----------------------------------------------------------------------------
(* The user's worker (see DagExecution for how a job runs).                *)
Start(t) ==
  /\ tasks[t].state \in {"prioritized", "waiting"}
  /\ CountOf("active") < Concurrency
  /\ tasks' = [tasks EXCEPT ![t].state = "active"]
  /\ UNCHANGED <<call, entry, expiries, stalls>>

FinishTask(t) ==
  /\ tasks[t].state = "active"
  /\ tasks' = [tasks EXCEPT ![t].state = "finished"]
  /\ UNCHANGED <<call, entry, expiries, stalls>>

(* The stalled check puts a job back into the waiting list (external).     *)
Stall(t) ==
  /\ tasks[t].state = "active"
  /\ stalls < MaxStalls
  /\ stalls' = stalls + 1
  /\ tasks' = [tasks EXCEPT ![t].state = "waiting"]
  /\ UNCHANGED <<call, entry, expiries>>

Next ==
  \/ \E r \in Request :
       \/ \E k \in Key \union {NoKey}, named \in BOOLEAN : Arrive(r, k, named)
       \/ CountWaiting(r) \/ AdmitUnnamed(r) \/ Admit(r) \/ Refuse(r)
       \/ Acquire(r) \/ Lookup(r) \/ Invalid(r)
       \/ AddTask(r) \/ Respond(r) \/ Complete(r)
       \/ CountFails(r) \/ AcquireFails(r) \/ LookupFails(r) \/ AddFails(r)
  \/ \E dead \in SUBSET Underway : ApiCrash(dead)
  \/ \E k \in Key : Expire(k)
  \/ \E t \in DOMAIN tasks : Start(t) \/ FinishTask(t) \/ Stall(t)

Spec == Init /\ [][Next]_vars

-----------------------------------------------------------------------------
(* Correctness.                                                            *)

CallPcs == {"idle"} \union InFlightPcs \union Replies

CallType == [pc : CallPcs, key : Key \union {NoKey}, named : BOOLEAN,
             depth : Nat, task : Nat \union {NoTask}, save : Saves]

EntryType == [status : {"absent", "processing", "done"},
              response : Nat \union {NoTask}]

Task == [key : Key \union {NoKey}, state : TaskStates]

(* Every variable stays in its domain.                                     *)
AdmissionTypeOK ==
  /\ call \in [Request -> CallType]
  /\ entry \in [Key -> EntryType]
  /\ tasks \in Seq(Task)
  /\ expiries \in [Key -> 0..MaxExpiries]
  /\ stalls \in 0..MaxStalls

(* The Idempotency-Key header "prevents duplicate task creation": while a  *)
(* key lives, whatever is retried, refused, lost or concurrent, one task.  *)
OneTaskPerKey ==
  \A i, j \in DOMAIN tasks :
    /\ tasks[i].key = tasks[j].key
    /\ tasks[i].key \in Key
    /\ expiries[tasks[i].key] = 0
    => i = j

(* "Sending the same key twice returns the original response": once a      *)
(* request was answered with its new task, and until its key expires, the  *)
(* stored answer and every one given from it name this task.  Before the   *)
(* answer is stored, and for good if complete's SET is refused or lost,    *)
(* the key says "processing": a repetition gets 409, never a second task.  *)
OriginalResponse ==
  \A r \in Request :
    LET k == call[r].key
    IN (call[r].pc = "created" /\ k \in Key /\ expiries[k] = 0) =>
         /\ call[r].save = "stored" =>
              entry[k] = [status |-> "done", response |-> call[r].task]
         /\ call[r].save # "stored" => entry[k].status = "processing"
         /\ \A q \in Request : call[q].pc = "cached" /\ call[q].key = k =>
              call[r].save = "stored" /\ call[q].task = call[r].task

(* A key says "processing" (409 for every retry) only while its request is *)
(* being handled, when that one ended with an error, a 400 or a crash, or  *)
(* when its SET of complete is on its way or was refused or lost: no order *)
(* of requests, hits and expiries brings it back once an answer is stored. *)
ProcessingOwned ==
  \A k \in Key : entry[k].status = "processing" =>
    \E r \in Request :
      /\ call[r].key = k
      /\ \/ call[r].pc \in {"handler", "added", "badRequest", "error", "lost"}
         \/ call[r].pc = "created" /\ call[r].save \in {"sent", "lost"}

=============================================================================
