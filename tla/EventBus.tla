------------------------------- MODULE EventBus -------------------------------
(***************************************************************************)
(* The in-memory event bus (core/events.py) that feeds the event streams   *)
(* of the nodes (api/v2/events.py).                                        *)
(*                                                                         *)
(* Handlers publish from the event loop, the watchdogs from a maintenance  *)
(* thread, both with publish_sync: it writes the history, takes a snapshot *)
(* of the subscribers and schedules one callback per subscriber in the     *)
(* loop.  The callbacks, the streams and the requests of the event loop    *)
(* exclude each other; a maintenance thread interleaves with all of them.  *)
(* The asynchronous publish is called by no handler.                       *)
(***************************************************************************)
EXTENDS Integers, Sequences, FiniteSets, Sublists

CONSTANTS
  Loop,         \* the event-loop thread
  Sweepers,     \* the maintenance threads
  Subs,         \* subscriber ids; each stream gets one of its own
  Types,        \* the types of the events handlers publish
  Filters,      \* per stream, the sets of types it may ask for
  QueueSize,    \* capacity of a subscriber's queue
  HistorySize,  \* events kept for recent()
  LagAt,        \* drops at which a subscriber is reported as lagging
  MaxEvents     \* bound: events published in a behaviour

Lagging == "subscriber_lagging"
Threads == {Loop} \cup Sweepers

ASSUME ThreadAssumption == Loop \notin Sweepers /\ IsFiniteSet(Sweepers)
ASSUME FilterAssumption ==
  Lagging \notin Types /\ Filters \in [Subs -> SUBSET SUBSET (Types \cup {Lagging})]
ASSUME SizeAssumption   == {QueueSize, HistorySize, LagAt} \subseteq Nat \ {0} /\ MaxEvents \in Nat

VARIABLES
  streams,   \* the registered subscribers, in the order of _subscribers
  wants,     \* their event_types
  client,    \* the stream's generator: new, waiting (in queue.get), holding, sending, closed
  hand,      \* the event it has taken from its queue and not yet yielded
  queue,     \* the bounded queue
  dropped,   \* events this subscriber lost
  ready,     \* the callbacks scheduled in the loop: a subscriber and its event
  history,   \* _history
  pub,       \* publish calls under way
  count,     \* events published so far
  sent,      \* what has been scheduled for a subscriber so far
  got        \* what a stream has yielded: the event and the dropped count it carries

busVars    == <<ready, history, pub, count, sent>>
streamVars == <<streams, wants, client, hand, queue, dropped, got>>
vars       == <<busVars, streamVars>>

-----------------------------------------------------------------------------
Idle     == [step |-> "idle"]
LoopFree == pub[Loop] = Idle

Wanting(type) == Sublist(streams, {s \in Subs : type \in wants[s]})

(* A publish call that still has to reach these subscribers.               *)
Sending(event, todo) ==
  IF todo = <<>> THEN Idle ELSE [step |-> "send", event |-> event, todo |-> todo]

-----------------------------------------------------------------------------
(* Plausible slips in the operators below.                                 *)

Overlong_OneMore        == Len(history) > HistorySize + 1
Available_Holding(s)    == client[s] \in {"waiting", "holding"} /\ queue[s] # <<>>
Available_Backlog(s)    == client[s] = "waiting" /\ Len(queue[s]) > 1

-----------------------------------------------------------------------------
(* publish_sync, on any thread.                                            *)

(* The event is made and appended to the history.                          *)
Publish(th, type) ==
  /\ pub[th] = Idle
  /\ count < MaxEvents
  /\ LET event == [type |-> type, by |-> th, no |-> count + 1] IN
       /\ history' = Append(history, event)
       /\ pub' = [pub EXCEPT ![th] = [step |-> "check", event |-> event]]
  /\ count' = count + 1
  /\ UNCHANGED <<ready, sent, streamVars>>

(* The length is compared, then the oldest event popped: two steps.        *)
Overlong == Len(history) > HistorySize

CheckHistory(th) ==
  /\ pub[th].step = "check"
  /\ pub' = [pub EXCEPT ![th] = [step |-> "trim", event |-> @.event, pop |-> Overlong]]
  /\ UNCHANGED <<ready, history, count, sent, streamVars>>

(* The pop, and the snapshot of the subscribers that want the event.       *)
TrimHistory(th) ==
  /\ pub[th].step = "trim"
  /\ history' = IF pub[th].pop THEN Tail(history) ELSE history
  /\ pub' = [pub EXCEPT ![th] = Sending(@.event, Wanting(@.event.type))]
  /\ UNCHANGED <<ready, count, sent, streamVars>>

(* call_soon_threadsafe for the next subscriber of the snapshot.           *)
Send(th) ==
  /\ pub[th].step = "send"
  /\ LET s     == Head(pub[th].todo)
         event == pub[th].event
     IN  /\ ready' = Append(ready, [sub |-> s, event |-> event])
         /\ sent'  = [sent EXCEPT ![s] = Append(@, event)]
         /\ pub'   = [pub EXCEPT ![th] = Sending(event, Tail(@.todo))]
  /\ UNCHANGED <<history, count, streamVars>>

-----------------------------------------------------------------------------
(* The event loop.                                                         *)

Full(s)       == Len(queue[s]) >= QueueSize
ReportsLag(n) == n = LagAt

(* The next callback: put_nowait.  A full queue costs the event; the       *)
(* LagAt-th loss is published to all streams, past the history.            *)
Deliver ==
  /\ LoopFree
  /\ ready # <<>>
  /\ LET s     == Head(ready).sub
         event == Head(ready).event
     IN  \/ /\ ~ Full(s)
            /\ queue' = [queue EXCEPT ![s] = Append(@, event)]
            /\ UNCHANGED <<dropped, pub>>
         \/ /\ Full(s)
            /\ dropped' = [dropped EXCEPT ![s] = @ + 1]
            /\ LET report == [type |-> Lagging, by |-> s, no |-> dropped'[s]] IN
                 pub' = IF ReportsLag(dropped'[s])
                        THEN [pub EXCEPT ![Loop] = Sending(report, Wanting(Lagging))]
                        ELSE pub
            /\ UNCHANGED queue
  /\ ready' = Tail(ready)
  /\ UNCHANGED <<history, count, sent, streams, wants, client, hand, got>>

(* subscribe: a stream registers and waits for its first event.            *)
Subscribe(s, filter) ==
  /\ LoopFree
  /\ client[s] = "new"
  /\ streams' = Append(streams, s)
  /\ wants'   = [wants EXCEPT ![s] = filter]
  /\ client'  = [client EXCEPT ![s] = "waiting"]
  /\ UNCHANGED <<busVars, hand, queue, dropped, got>>

(* queue.get of the waiting stream.                                        *)
Available(s) == client[s] = "waiting" /\ queue[s] # <<>>

Fetch(s) ==
  /\ LoopFree
  /\ Available(s)
  /\ hand'   = [hand EXCEPT ![s] = <<Head(queue[s])>>]
  /\ queue'  = [queue EXCEPT ![s] = Tail(@)]
  /\ client' = [client EXCEPT ![s] = "holding"]
  /\ UNCHANGED <<busVars, streams, wants, dropped, got>>

(* The event is yielded, with the number of drops up to now.               *)
Announced(s) == dropped[s]

Yield(s) ==
  /\ LoopFree
  /\ client[s] = "holding"
  /\ got'    = [got EXCEPT ![s] = Append(@, [event |-> hand[s][1], dropped |-> Announced(s)])]
  /\ hand'   = [hand EXCEPT ![s] = <<>>]
  /\ client' = [client EXCEPT ![s] = "sending"]
  /\ UNCHANGED <<busVars, streams, wants, queue, dropped>>

(* The client has taken the event; the stream waits for the next one.      *)
Resume(s) ==
  /\ LoopFree
  /\ client[s] = "sending"
  /\ client' = [client EXCEPT ![s] = "waiting"]
  /\ UNCHANGED <<busVars, streams, wants, hand, queue, dropped, got>>

(* The client disconnects.  Callbacks already scheduled still run.         *)
Disconnect(s) ==
  /\ LoopFree
  /\ client[s] \in {"waiting", "holding", "sending"}
  /\ streams' = Sublist(streams, Subs \ {s})
  /\ client'  = [client EXCEPT ![s] = "closed"]
  /\ UNCHANGED <<busVars, wants, hand, queue, dropped, got>>

-----------------------------------------------------------------------------
Init ==
  /\ streams = <<>>
  /\ wants = [s \in Subs |-> {}]
  /\ client = [s \in Subs |-> "new"]
  /\ hand = [s \in Subs |-> <<>>]
  /\ queue = [s \in Subs |-> <<>>]
  /\ dropped = [s \in Subs |-> 0]
  /\ ready = <<>>
  /\ history = <<>>
  /\ pub = [th \in Threads |-> Idle]
  /\ count = 0
  /\ sent = [s \in Subs |-> <<>>]
  /\ got = [s \in Subs |-> <<>>]

PublishStep(th) == CheckHistory(th) \/ TrimHistory(th) \/ Send(th)
StreamStep(s)   == Fetch(s) \/ Yield(s) \/ Resume(s)

Next ==
  \/ \E th \in Threads : PublishStep(th) \/ \E type \in Types : Publish(th, type)
  \/ Deliver
  \/ \E s \in Subs : \/ StreamStep(s)
                     \/ Disconnect(s)
                     \/ \E filter \in Filters[s] : Subscribe(s, filter)

(* A publish call under way returns, the loop runs its callbacks, and a    *)
(* client that stays connected reads its stream.                           *)
Fairness ==
  /\ \A th \in Threads : WF_vars(PublishStep(th))
  /\ WF_vars(Deliver)
  /\ \A s \in Subs : WF_vars(StreamStep(s))

Spec == Init /\ [][Next]_vars /\ Fairness

-----------------------------------------------------------------------------
Event == [type : Types, by : Threads, no : 1..MaxEvents]
         \cup [type : {Lagging}, by : Subs, no : {LagAt}]

PubState ==
  {Idle}
  \cup [step : {"check"}, event : Event]
  \cup [step : {"trim"}, event : Event, pop : BOOLEAN]
  \cup [step : {"send"}, event : Event, todo : Seq(Subs)]

(* Types; a queue never holds more than its capacity, and a stream that    *)
(* holds an event holds one.                                               *)
TypeOK ==
  /\ streams \in Seq(Subs)
  /\ wants \in [Subs -> SUBSET (Types \cup {Lagging})]
  /\ client \in [Subs -> {"new", "waiting", "holding", "sending", "closed"}]
  /\ hand \in [Subs -> Seq(Event)]
  /\ \A s \in Subs : client[s] # "closed" => Len(hand[s]) = IF client[s] = "holding" THEN 1 ELSE 0
  /\ queue \in [Subs -> Seq(Event)]
  /\ \A s \in Subs : Len(queue[s]) <= QueueSize
  /\ dropped \in [Subs -> Nat]
  /\ ready \in Seq([sub : Subs, event : Event])
  /\ history \in Seq(Event)
  /\ pub \in [Threads -> PubState]
  /\ count \in 0..MaxEvents
  /\ sent \in [Subs -> Seq(Event)]
  /\ got \in [Subs -> Seq([event : Event, dropped : Nat])]

(* The events a stream has yielded or is still to yield, in order.         *)
Scheduled(s) ==
  LET mine == Sublist(ready, [sub : {s}, event : Event]) IN [i \in DOMAIN mine |-> mine[i].event]
Stream(s) == [i \in DOMAIN got[s] |-> got[s][i].event] \o hand[s] \o queue[s] \o Scheduled(s)

Position(s, event) == CHOOSE i \in DOMAIN sent[s] : sent[s][i] = event

(* Every event meant for a subscriber is yielded, still on its way or      *)
(* counted as dropped, and none is doubled or overtakes another one,       *)
(* whatever publishers, callbacks and streams interleave.                  *)
NothingIsLostUncounted ==
  \A s \in Subs :
    LET all == Stream(s) IN
    /\ Len(sent[s]) = Len(all) + dropped[s]
    /\ \A i, j \in DOMAIN all : i < j => Position(s, all[i]) < Position(s, all[j])

(* X-Dropped: a client that reads an event after a gap finds the gap in    *)
(* the count of that very event, however late it reads.                    *)
GapsAreAnnounced ==
  \A s \in Subs : \A i \in DOMAIN got[s] :
    LET missing == Position(s, got[s][i].event) - i IN
    /\ missing <= got[s][i].dropped
    /\ got[s][i].dropped <= dropped[s]

(* No event disappears silently: what a stream misses is in the count, and *)
(* the client is told with the next event it reads.                        *)
LossIsReported == NothingIsLostUncounted /\ GapsAreAnnounced

(* A lagging subscriber is reported once, although the report itself may   *)
(* be dropped, by that subscriber or another one, and drops are counted    *)
(* on; the reports of several laggards do not set each other off again.    *)
LagIsReportedOnce ==
  \A s, x \in Subs :
    LET reports == {i \in DOMAIN sent[x] : sent[x][i].type = Lagging /\ sent[x][i].by = s} IN
    /\ Cardinality(reports) <= 1
    /\ dropped[s] < LagAt => reports = {}

(* recent() serves the newest events without a hole.  Publishers that trim *)
(* at the same time may keep one event more each while they are at it, and *)
(* may pop one too many.                                                   *)
HistoryIsRecent ==
  LET trimming == {th \in Threads : pub[th].step \in {"check", "trim"}}
      enough   == IF count < HistorySize THEN count ELSE HistorySize
  IN  /\ Len(history) <= HistorySize + Cardinality(trimming)
      /\ Len(history) > enough - Cardinality(Threads)
      /\ \A i \in DOMAIN history : history[i].no = count - Len(history) + i

(* Streams do not stall: what is queued or scheduled for a client that     *)
(* stays connected is yielded or dropped in the end.                       *)
StreamsDrain ==
  \A s \in Subs :
    []<>(client[s] = "closed" \/ hand[s] \o queue[s] \o Scheduled(s) = <<>>)
=============================================================================
