----------------------------- MODULE EventFeed -----------------------------
(***************************************************************************)
(* The live event feed: StreamService records BullMQ's job events in a     *)
(* ring buffer, StreamController pushes them over one SSE connection per   *)
(* page with a cursor, and useQueueStream shows them, leaving out what it  *)
(* has seen.  The browser reconnects by itself when a connection is lost.  *)
(*                                                                         *)
(* An event is its number in the order of recording.  Snapshots of queue   *)
(* counts travel on the same connection; they carry no history and are     *)
(* left out, but that producing one may fail is not.                       *)
(***************************************************************************)
EXTENDS Naturals, Sequences

CONSTANTS
  Sources,    \* BullMQ queues whose events are of interest
  Dlq,        \* the dead letter queue, subscribed to from the start
  RingSize,   \* StreamService.RING_SIZE
  SeenMax,    \* size of the page's seen set that triggers its truncation
  SeenKeep,   \* what the truncation keeps
  FlowMax,    \* FLOW_BUFFER_MAX
  MaxEvents,  \* bound: events recorded
  MaxConns,   \* bound: connections of the page
  MaxScans,   \* bound: discovery rounds in flight
  MaxErrors   \* bound: snapshots that fail

(* The page remembers what the server can replay, and what it may have     *)
(* recorded in the meantime: in the code RingSize is 50 and SeenKeep 200.  *)
ASSUME FeedAssumption ==
  /\ Dlq \in Sources
  /\ {RingSize, SeenKeep, SeenMax, FlowMax} \subseteq Nat \ {0}
  /\ 2 * RingSize <= SeenKeep + 1 /\ SeenKeep <= SeenMax
  /\ {MaxEvents, MaxConns, MaxScans, MaxErrors} \subseteq Nat

VARIABLES
  known,     \* sources whose meta key exists in Redis
  scans,     \* replies of KEYS not yet handled, in order
  subs,      \* number of QueueEvents objects per source
  ring,      \* ringBuffer
  recorded,  \* number of events recorded so far
  handler,   \* per connection: where streamQueues is
  cursor,    \* per connection: lastEventCursor
  wire,      \* per connection: messages sent and not received yet
  errors,    \* snapshots that failed so far
  page       \* the page's EventSource and state

api   == <<known, scans, subs, ring, recorded>>
conns == <<handler, cursor, wire, errors>>
vars  == <<api, conns, page>>

Conns     == 1..MaxConns
Event     == 1..MaxEvents
\* One QueueEvents object records an event once, each in an entry of its own.
Entry     == [event : Event, sub : {1, 2}]
ErrorMsg  == [event |-> 0, sub |-> 1]
Message   == Entry \cup {ErrorMsg}
HandlerPc == {"none", "opening", "live", "leaked", "stopped"}
NoConn    == 0

\* conn is the connection in use, last the latest one opened; shown is the
\* history of what was put in its list.
PageState == [conn : Conns \cup {NoConn}, last : 0..MaxConns,
              status : {"connecting", "open", "error"},
              seen : Seq(Entry), flow : Seq(Entry), shown : Seq(Event)]

TypeOK ==
  /\ known \subseteq Sources
  /\ scans \in Seq(SUBSET Sources) /\ Len(scans) <= MaxScans
  /\ subs \in [Sources -> 0..2]
  /\ ring \in Seq(Entry) /\ Len(ring) <= RingSize
  /\ recorded \in 0..MaxEvents
  /\ handler \in [Conns -> HandlerPc]
  /\ cursor \in [Conns -> 0..RingSize]
  /\ wire \in [Conns -> Seq(Message)]
  /\ errors \in 0..MaxErrors
  /\ page \in PageState
  /\ Len(page.seen) <= SeenMax /\ Len(page.flow) <= FlowMax

Init ==
  /\ known = {Dlq}
  /\ scans = << >>
  /\ subs = [s \in Sources |-> IF s = Dlq THEN 1 ELSE 0]
  /\ ring = << >>
  /\ recorded = 0
  /\ handler = [c \in Conns |-> "none"]
  /\ cursor = [c \in Conns |-> 0]
  /\ wire = [c \in Conns |-> << >>]
  /\ errors = 0
  /\ page = [conn |-> NoConn, last |-> 0, status |-> "connecting",
             seen |-> << >>, flow |-> << >>, shown |-> << >>]

-----------------------------------------------------------------------------
(* The server: discovery and recording.                                    *)

\* A user's first job creates the queue's meta key.
QueueAppears(s) ==
  /\ s \notin known
  /\ known' = known \cup {s}
  /\ UNCHANGED <<scans, subs, ring, recorded, conns, page>>

\* The interval starts a round without waiting for the one before.  A round
\* that finds nothing new changes nothing and is left out.
StartScan ==
  /\ \E s \in known : subs[s] = 0
  /\ Len(scans) < MaxScans
  /\ scans' = Append(scans, known)
  /\ UNCHANGED <<known, subs, ring, recorded, conns, page>>

Subscribed(keys) ==
  [s \in Sources |-> IF s \in keys /\ subs[s] = 0 THEN 1 ELSE subs[s]]

\* After the await: the map is tested and filled without another one.
FinishScan ==
  /\ scans # << >>
  /\ subs' = Subscribed(Head(scans))
  /\ scans' = Tail(scans)
  /\ UNCHANGED <<known, ring, recorded, conns, page>>

\* Mutant of Push: the oldest event is not dropped.
PushKeeping(r, e) == Append(r, e)

Push(r, e) ==
  LET longer == Append(r, e) IN IF Len(longer) > RingSize THEN Tail(longer)
                                                          ELSE longer

\* recordEvent, by every QueueEvents object of the source (at most two).
Record(s) ==
  LET once == Push(ring, [event |-> recorded + 1, sub |-> 1]) IN
  /\ subs[s] > 0 /\ recorded < MaxEvents
  /\ recorded' = recorded + 1
  /\ ring' = IF subs[s] = 1 THEN once
             ELSE Push(once, [event |-> recorded + 1, sub |-> 2])
  /\ UNCHANGED <<known, scans, subs, conns, page>>

-----------------------------------------------------------------------------
(* The server: one streamQueues call per connection.                       *)

Connected(c) == page.conn = c

\* The socket of c as the server's writes find it.
Deliver(c, msgs) ==
  wire' = IF Connected(c) THEN [wire EXCEPT ![c] = @ \o msgs] ELSE wire

\* Mutant of Fresh: the slice starts one further.
FreshOffByOne(c) ==
  IF Len(ring) > cursor[c] THEN SubSeq(ring, cursor[c] + 2, Len(ring)) ELSE << >>

\* What a tick sends, with the cursor in front of it.
Fresh(c) ==
  CASE Len(ring) > cursor[c] -> SubSeq(ring, cursor[c] + 1, Len(ring))
    [] Len(ring) < cursor[c] -> ring
    [] OTHER                 -> << >>

\* The part of a tick after `await snapshot()`; nothing it uses is older.
SendFresh(c) ==
  /\ Deliver(c, Fresh(c))
  /\ cursor' = [cursor EXCEPT ![c] = Len(ring)]
  /\ UNCHANGED errors

\* Mutant of SendError: the cursor is advanced although nothing was sent.
SendErrorAdvancing(c) ==
  /\ errors < MaxErrors
  /\ errors' = errors + 1
  /\ Deliver(c, <<ErrorMsg>>)
  /\ cursor' = [cursor EXCEPT ![c] = Len(ring)]

SendError(c) ==
  /\ errors < MaxErrors
  /\ errors' = errors + 1
  /\ Deliver(c, <<ErrorMsg>>)
  /\ UNCHANGED cursor

\* The first tick is awaited; only then do the intervals and the 'close'
\* listener exist.  A connection that closed before is never noticed.
FirstTick(c) ==
  /\ handler[c] = "opening"
  /\ SendFresh(c) \/ SendError(c)
  /\ handler' = [handler EXCEPT ![c] = IF Connected(c) THEN "live" ELSE "leaked"]
  /\ UNCHANGED <<api, page>>

\* The ticks of a connection that the page has left write to nobody.
Tick(c) ==
  /\ handler[c] = "live" /\ Connected(c)
  /\ SendFresh(c) \/ SendError(c)
  /\ UNCHANGED <<api, handler, page>>

\* 'close': both intervals are cleared.
Close(c) ==
  /\ handler[c] = "live" /\ ~Connected(c)
  /\ handler' = [handler EXCEPT ![c] = "stopped"]
  /\ UNCHANGED <<api, cursor, wire, errors, page>>

-----------------------------------------------------------------------------
(* The page.                                                               *)

\* The page loads, or EventSource reconnects; the handler starts at cursor 0.
Connect ==
  LET c == page.last + 1 IN
  /\ page.conn = NoConn /\ c \in Conns
  /\ page' = [page EXCEPT !.conn = c, !.last = c, !.status = "open"]
  /\ handler' = [handler EXCEPT ![c] = "opening"]
  /\ cursor' = [cursor EXCEPT ![c] = 0]
  /\ UNCHANGED <<api, wire, errors>>

\* What was on its way is gone; the server's Close comes later.
Disconnect ==
  /\ page.conn # NoConn
  /\ page' = [page EXCEPT !.conn = NoConn, !.status = "error"]
  /\ wire' = [wire EXCEPT ![page.conn] = << >>]
  /\ UNCHANGED <<api, handler, cursor, errors>>

\* Mutant of Remember: the truncation keeps the oldest members.
RememberOldest(seen, e) ==
  LET longer == Append(seen, e) IN
  IF Len(longer) > SeenMax THEN SubSeq(longer, 1, SeenKeep) ELSE longer

\* `seen`: a Set in insertion order, cut to its last SeenKeep members.
Remember(seen, e) ==
  LET longer == Append(seen, e) IN
  IF Len(longer) > SeenMax
  THEN SubSeq(longer, Len(longer) - SeenKeep + 1, Len(longer)) ELSE longer

Show(flow, e) ==
  LET longer == Append(flow, e) IN
  IF Len(longer) > FlowMax
  THEN SubSeq(longer, Len(longer) - FlowMax + 1, Len(longer)) ELSE longer

Remembered(p, m) == \E i \in DOMAIN p.seen : p.seen[i] = m

Handle(p, m) ==
  CASE m = ErrorMsg       -> [p EXCEPT !.status = "error"]
    [] Remembered(p, m)   -> p
    [] OTHER -> [p EXCEPT !.seen = Remember(@, m), !.flow = Show(@, m),
                          !.shown = Append(@, m.event)]

\* The 'flow' and 'error' listeners.
Receive ==
  LET c == page.conn IN
  /\ c # NoConn /\ wire[c] # << >>
  /\ page' = Handle(page, Head(wire[c]))
  /\ wire' = [wire EXCEPT ![c] = Tail(@)]
  /\ UNCHANGED <<api, handler, cursor, errors>>

-----------------------------------------------------------------------------
Server == \/ \E s \in Sources : QueueAppears(s) \/ Record(s)
          \/ StartScan \/ FinishScan
          \/ \E c \in Conns : FirstTick(c) \/ Tick(c) \/ Close(c)

Next == Server \/ Connect \/ Disconnect \/ Receive

\* Timers fire and what TCP has delivered is read; queues, events and
\* connections may stop coming.
Fairness ==
  /\ WF_vars(Receive)
  /\ \A c \in Conns : WF_vars(FirstTick(c) \/ Tick(c))

Spec     == Init /\ [][Next]_vars
FairSpec == Spec /\ Fairness

-----------------------------------------------------------------------------
InRing(n) == \E i \in DOMAIN ring : ring[i].event = n
Shown(n)  == \E i \in DOMAIN page.shown : page.shown[i] = n
Online    == page.conn # NoConn

\* Whatever is lost, replayed after a reconnection or discovered by two
\* overlapping rounds, no event is on the screen twice, and none comes back
\* after it left the list: an event that the server can still send has not
\* been cut from `seen` (the seen set of useQueueStream, the ring buffer, the
\* map test after the await of discoverEventSources).  Not in order: a replay
\* may bring what a tick skipped when the ring rotated.
ShownOnce ==
  /\ \A i, j \in DOMAIN page.shown : page.shown[i] = page.shown[j] => i = j
  /\ \A i, j \in DOMAIN page.flow :
       page.flow[i].event = page.flow[j].event => i = j

\* What the ring buffer still holds when a page connects reaches that page,
\* although its first snapshots may fail, unless it leaves the ring or the
\* connection is lost first (the handler's cursor starts at 0).
CatchesUp ==
  \A n \in Event :
    (Online /\ cursor[page.conn] = 0 /\ InRing(n))
      ~> (Shown(n) \/ ~InRing(n) \/ ~Online)

\* While the ring buffer has dropped nothing, every event recorded reaches the
\* connected page: the cursor never runs ahead of what was sent.
EarlyEventsArrive ==
  \A n \in Event :
    (Online /\ recorded >= n) ~> (Shown(n) \/ recorded > RingSize \/ ~Online)

\* The feed is an unlimited stream: an event that stays in the ring buffer
\* reaches a page that stays connected.
EveryEventArrives ==
  \A n \in Event :
    (Online /\ InRing(n)) ~> (Shown(n) \/ ~InRing(n) \/ ~Online)
=============================================================================
