---------------------------- MODULE EventBusProofs ----------------------------
(***************************************************************************)
(* Proofs about EventBus: its types, the recent history under racing       *)
(* publishers, and that no event is lost uncounted or unannounced.         *)
(***************************************************************************)
EXTENDS EventBus, DataLemmas, FiniteSetTheorems

Distinct(seq)   == \A i, j \in 1..Len(seq) : seq[i] = seq[j] => i = j
Occurs(e, seq)  == \E i \in 1..Len(seq) : seq[i] = e

-----------------------------------------------------------------------------
(* The history.                                                            *)

Checking == {th \in Threads : pub[th].step = "check"}
Popping  == {th \in Threads : pub[th].step = "trim" /\ pub[th].pop}

(* A thread that has yet to compare, or has decided to pop, accounts for   *)
(* one event of the history: it is never popped empty, exceeds its limit   *)
(* by no more than these, and falls short of it by less than the threads.  *)
HistoryInv ==
  /\ Len(history) <= HistorySize + Cardinality(Checking \cup Popping)
  /\ Len(history) >= Cardinality(Checking \cup Popping)
  /\ Len(history) - Cardinality(Popping)
       > (IF count < HistorySize THEN count ELSE HistorySize) - Cardinality(Threads)
  /\ \A i \in 1..Len(history) : history[i].no = count - Len(history) + i

-----------------------------------------------------------------------------
(* The streams.                                                            *)

(* The subscribers of _subscribers are distinct and have all subscribed.   *)
StreamsInv ==
  /\ Distinct(streams)
  /\ \A i \in 1..Len(streams) : client[streams[i]] # "new"

(* An event that exists: published, or the report of a subscriber whose    *)
(* losses have reached the limit.                                          *)
MadeBy(event, number, losses) ==
  IF event.type = Lagging THEN losses[event.by] >= LagAt ELSE event.no <= number

Made(event) == MadeBy(event, count, dropped)

(* A thread publishes its own event; only the loop publishes a report, and *)
(* past the history.                                                       *)
Orderly(th) ==
  pub[th].step # "idle" =>
    /\ Made(pub[th].event)
    /\ IF pub[th].event.type = Lagging
       THEN th = Loop /\ pub[th].step = "send"
       ELSE pub[th].event.by = th
    /\ pub[th].step = "send" => pub[th].todo # <<>> /\ Distinct(pub[th].todo)

PublishInv == \A th \in Threads : Orderly(th)

(* The thread has its event still to send to this subscriber.              *)
Owes(th, s) ==
  \/ pub[th].step \in {"check", "trim"}
  \/ pub[th].step = "send" /\ Occurs(s, pub[th].todo)

(* No event is sent to a subscriber twice.                                 *)
SentInv ==
  /\ \A s \in Subs : Distinct(sent[s]) /\ \A i \in 1..Len(sent[s]) : Made(sent[s][i])
  /\ \A th \in Threads, s \in Subs : Owes(th, s) => ~ Occurs(pub[th].event, sent[s])

(* What reaches a stream, all, against what was sent to it: as many less   *)
(* as were lost, in the order they were sent, and none further back than   *)
(* what was lost explains.                                                 *)
Follows(all, origin, lost) ==
  /\ Len(origin) = Len(all) + lost
  /\ \A i \in 1..Len(all) : Occurs(all[i], origin)
  /\ \A i, j \in 1..Len(all) : \A p, q \in 1..Len(origin) :
       i < j /\ origin[p] = all[i] /\ origin[q] = all[j] => p < q
  /\ \A i \in 1..Len(all) : \A p \in 1..Len(origin) :
       origin[p] = all[i] => p <= i + lost

LossInv ==
  \A s \in Subs :
    /\ Follows(Stream(s), sent[s], dropped[s])
    /\ \A i \in 1..Len(got[s]) :
         /\ got[s][i].dropped <= dropped[s]
         /\ \A p \in 1..Len(sent[s]) : sent[s][p] = got[s][i].event => p <= i + got[s][i].dropped

BusInv == TypeOK /\ HistoryInv /\ StreamsInv /\ PublishInv /\ SentInv /\ LossInv

-----------------------------------------------------------------------------
(* What a publish call holds in each of its steps.                         *)
LEMMA PublishCall ==
  ASSUME TypeOK, NEW th \in Threads
  PROVE  /\ pub[th] \in PubState
         /\ pub[th].step \in {"idle", "check", "trim", "send"}
         /\ pub[th].step # "idle" => pub[th].event \in Event
         /\ pub[th].step = "trim" => pub[th].pop \in BOOLEAN
         /\ pub[th].step = "send" => pub[th].todo \in Seq(Subs)
         /\ pub[th].step = "idle" <=> pub[th] = Idle
<1>1. pub[th] \in PubState
  BY DEF TypeOK
<1> QED
  BY <1>1 DEF PubState, Idle

LEMMA SendingType ==
  ASSUME NEW event \in Event, NEW todo \in Seq(Subs)
  PROVE  Sending(event, todo) \in PubState
BY DEF Sending, PubState, Idle

(* The parts of a comprehension over distinct subscribers are distinct,    *)
(* and each is one of the subscribers it was made from.                    *)
LEMMA DistinctSublist ==
  ASSUME NEW T, NEW seq \in Seq(T), NEW keep
  PROVE  /\ Sublist(seq, keep) \in Seq(T)
         /\ Distinct(seq) => Distinct(Sublist(seq, keep))
         /\ \A i \in 1..Len(Sublist(seq, keep)) :
              Sublist(seq, keep)[i] \in keep /\ Occurs(Sublist(seq, keep)[i], seq)
<1> DEFINE sub == Sublist(seq, keep)
<1>1. PICK place : Places(seq, keep, Len(seq), sub, place)
  BY SublistPlaces
<1>2. sub \in Seq(T)
  BY SublistPlaces
<1>3. Len(sub) \in Nat /\ Len(seq) \in Nat
  BY <1>2
<1> HIDE DEF sub
<1>4. ASSUME Distinct(seq), NEW i \in 1..Len(sub), NEW j \in 1..Len(sub), sub[i] = sub[j]
      PROVE  i = j
  <2>1. place[i] = place[j]
    BY <1>1, <1>4, SMTT(30) DEF Places, Distinct
  <2>2. ~ (i < j) /\ ~ (j < i)
    BY <1>1, <1>3, <2>1 DEF Places
  <2> QED
    BY <1>3, <2>2
<1>5. \A i \in 1..Len(sub) : sub[i] \in keep /\ Occurs(sub[i], seq)
  BY <1>1 DEF Places, Occurs
<1> QED
  BY <1>2, <1>4, <1>5 DEF sub, Distinct

LEMMA WantingType ==
  ASSUME TypeOK, NEW type
  PROVE  Wanting(type) \in Seq(Subs)
BY DistinctSublist DEF TypeOK, Wanting

(* A thread that is about to pop finds an event in the history.            *)
LEMMA PopsAnEvent ==
  ASSUME TypeOK, HistoryInv, NEW th \in Popping
  PROVE  Len(history) > 0
<1>1. IsFiniteSet(Checking \cup Popping) /\ th \in Checking \cup Popping
  <2>1. IsFiniteSet(Threads)
    BY ThreadAssumption, FS_AddElement DEF Threads
  <2>2. Checking \cup Popping \subseteq Threads
    BY DEF Checking, Popping
  <2> QED
    BY <2>1, <2>2, FS_Subset
<1>2. Cardinality(Checking \cup Popping) # 0 /\ Cardinality(Checking \cup Popping) \in Nat
  BY <1>1, FS_EmptySet, FS_CardinalityType
<1>3. Len(history) \in Nat
  BY DEF TypeOK
<1> QED
  BY <1>2, <1>3 DEF HistoryInv

-----------------------------------------------------------------------------
Callback == [sub : Subs, event : Event]
Reading  == [event : Event, dropped : Nat]

LEMMA TypeInit == Init => TypeOK
<1>1. Idle \in PubState
  BY DEF PubState
<1>2. 0 \in 0..MaxEvents
  BY SizeAssumption
<1>3. \A s \in Subs : QueueSize >= 0
  BY SizeAssumption
<1> QED
  BY <1>1, <1>2, <1>3, SizeAssumption DEF Init, TypeOK

LEMMA TypeStep ==
  ASSUME TypeOK, HistoryInv, PublishInv, [Next]_vars
  PROVE  TypeOK'
<1> USE SizeAssumption, FilterAssumption
<1>1. ASSUME NEW th \in Threads, NEW type \in Types, Publish(th, type)
      PROVE  TypeOK'
  <2> DEFINE event == [type |-> type, by |-> th, no |-> count + 1]
  <2>1. count' \in 0..MaxEvents
    BY <1>1 DEF Publish, TypeOK
  <2>2. event \in Event
    BY <1>1 DEF Publish, TypeOK, Event
  <2>3. pub' = [pub EXCEPT ![th] = [step |-> "check", event |-> event]]
        /\ history' = Append(history, event)
    BY <1>1 DEF Publish
  <2> HIDE DEF event
  <2>4. history' \in Seq(Event) /\ pub' \in [Threads -> PubState]
    BY <2>2, <2>3 DEF TypeOK, PubState
  <2> QED
    BY <1>1, <2>1, <2>4 DEF Publish, TypeOK, streamVars
<1>2. ASSUME NEW th \in Threads, CheckHistory(th)
      PROVE  TypeOK'
  <2>1. [step |-> "trim", event |-> pub[th].event, pop |-> Overlong] \in PubState
    BY <1>2, PublishCall DEF CheckHistory, PubState, Overlong
  <2>2. pub' \in [Threads -> PubState]
    BY <1>2, <2>1 DEF CheckHistory, TypeOK
  <2> QED
    BY <1>2, <2>2 DEF CheckHistory, TypeOK, streamVars
<1>3. ASSUME NEW th \in Threads, TrimHistory(th)
      PROVE  TypeOK'
  <2>1. Sending(pub[th].event, Wanting(pub[th].event.type)) \in PubState
    BY <1>3, PublishCall, SendingType, WantingType DEF TrimHistory
  <2>2. pub' \in [Threads -> PubState]
    BY <1>3, <2>1 DEF TrimHistory, TypeOK
  <2>3. history' \in Seq(Event)
    <3>1. CASE pub[th].pop
      <4>1. Len(history) > 0
        BY <1>3, <3>1, PopsAnEvent DEF Popping, TrimHistory
      <4> QED
        BY <1>3, <3>1, <4>1 DEF TrimHistory, TypeOK
    <3>2. CASE ~ pub[th].pop
      BY <1>3, <3>2 DEF TrimHistory, TypeOK
    <3> QED
      BY <3>1, <3>2
  <2> QED
    BY <1>3, <2>2, <2>3 DEF TrimHistory, TypeOK, streamVars
<1>4. ASSUME NEW th \in Threads, Send(th)
      PROVE  TypeOK'
  <2> DEFINE s     == Head(pub[th].todo)
             event == pub[th].event
  <2>0. pub[th].event \in Event /\ pub[th].todo \in Seq(Subs) /\ pub[th].todo # <<>>
    BY <1>4, PublishCall DEF Send, PublishInv, Orderly
  <2>1. event \in Event /\ s \in Subs /\ Tail(pub[th].todo) \in Seq(Subs)
    BY <2>0
  <2>2. Sending(event, Tail(pub[th].todo)) \in PubState
    BY <2>1, SendingType
  <2> HIDE DEF s, event
  <2>3. /\ ready' = Append(ready, [sub |-> s, event |-> event])
        /\ sent' = [sent EXCEPT ![s] = Append(@, event)]
        /\ pub' = [pub EXCEPT ![th] = Sending(event, Tail(pub[th].todo))]
    BY <1>4 DEF Send, s, event
  <2>4. ready' \in Seq([sub : Subs, event : Event])
    BY <2>1, <2>3 DEF TypeOK
  <2>5. sent' \in [Subs -> Seq(Event)]
    BY <2>1, <2>3 DEF TypeOK
  <2>6. pub' \in [Threads -> PubState]
    BY <2>2, <2>3 DEF TypeOK
  <2> QED
    BY <1>4, <2>4, <2>5, <2>6 DEF Send, TypeOK, streamVars
<1>5. ASSUME Deliver
      PROVE  TypeOK'
  <2> DEFINE s     == Head(ready).sub
             event == Head(ready).event
  <2>1. s \in Subs /\ event \in Event /\ Tail(ready) \in Seq([sub : Subs, event : Event])
    <3>1. ready \in Seq(Callback) /\ ready # <<>>
      BY <1>5 DEF Deliver, TypeOK, Callback
    <3>2. Head(ready) \in Callback /\ Tail(ready) \in Seq(Callback)
      BY <3>1
    <3> QED
      BY <3>2 DEF Callback
  <2> HIDE DEF s, event
  <2>2. ready' \in Seq([sub : Subs, event : Event])
    BY <1>5, <2>1 DEF Deliver
  <2>3. CASE ~ Full(s) /\ queue' = [queue EXCEPT ![s] = Append(@, event)] /\ UNCHANGED <<dropped, pub>>
    <3>1. queue' \in [Subs -> Seq(Event)]
      BY <2>1, <2>3 DEF TypeOK
    <3>2. \A x \in Subs : Len(queue'[x]) <= QueueSize
      <4> TAKE x \in Subs
      <4>1. CASE x = s
        BY <2>1, <2>3, <4>1 DEF TypeOK, Full
      <4>2. CASE x # s
        BY <2>1, <2>3, <4>2 DEF TypeOK
      <4> QED
        BY <4>1, <4>2
    <3> QED
      BY <1>5, <2>2, <2>3, <3>1, <3>2 DEF Deliver, TypeOK
  <2>4. CASE /\ Full(s)
             /\ dropped' = [dropped EXCEPT ![s] = @ + 1]
             /\ pub' = IF ReportsLag(dropped'[s])
                       THEN [pub EXCEPT ![Loop] = Sending([type |-> Lagging, by |-> s, no |-> dropped'[s]],
                                                          Wanting(Lagging))]
                       ELSE pub
             /\ UNCHANGED queue
    <3>1. dropped' \in [Subs -> Nat]
      <4>1. dropped \in [Subs -> Nat] /\ dropped' = [dropped EXCEPT ![s] = dropped[s] + 1]
        BY <2>4 DEF TypeOK
      <4> QED
        BY <2>1, <4>1
    <3>2. pub' \in [Threads -> PubState]
      <4>1. CASE ReportsLag(dropped'[s])
        <5>1. [type |-> Lagging, by |-> s, no |-> dropped'[s]] \in Event
          BY <2>1, <4>1 DEF Event, ReportsLag
        <5>2. Sending([type |-> Lagging, by |-> s, no |-> dropped'[s]], Wanting(Lagging)) \in PubState
          BY <5>1, SendingType, WantingType
        <5> QED
          BY <2>4, <4>1, <5>2 DEF TypeOK, Threads
      <4>2. CASE ~ ReportsLag(dropped'[s])
        BY <2>4, <4>2 DEF TypeOK
      <4> QED
        BY <4>1, <4>2
    <3> QED
      BY <1>5, <2>2, <2>4, <3>1, <3>2 DEF Deliver, TypeOK
  <2> QED
    BY <1>5, <2>3, <2>4 DEF Deliver, s, event
<1>6. ASSUME NEW s \in Subs, NEW filter \in Filters[s], Subscribe(s, filter)
      PROVE  TypeOK'
  <2>1. filter \in SUBSET (Types \cup {Lagging})
    OBVIOUS
  <2>2. wants' \in [Subs -> SUBSET (Types \cup {Lagging})]
    BY <1>6, <2>1 DEF Subscribe, TypeOK
  <2>3. client' \in [Subs -> {"new", "waiting", "holding", "sending", "closed"}]
        /\ \A x \in Subs : client'[x] # "closed" => Len(hand'[x]) = IF client'[x] = "holding" THEN 1 ELSE 0
    BY <1>6 DEF Subscribe, TypeOK
  <2>4. streams' \in Seq(Subs)
    BY <1>6 DEF Subscribe, TypeOK
  <2> QED
    BY <1>6, <2>2, <2>3, <2>4 DEF Subscribe, TypeOK, busVars
<1>7. ASSUME NEW s \in Subs, Fetch(s)
      PROVE  TypeOK'
  <2>1. queue[s] \in Seq(Event) /\ queue[s] # <<>> /\ Len(queue[s]) <= QueueSize
    BY <1>7 DEF Fetch, Available, TypeOK
  <2>2. Head(queue[s]) \in Event /\ Tail(queue[s]) \in Seq(Event) /\ Len(Tail(queue[s])) <= QueueSize
    BY <2>1
  <2>3. /\ hand' \in [Subs -> Seq(Event)]
        /\ queue' \in [Subs -> Seq(Event)]
        /\ \A x \in Subs : Len(queue'[x]) <= QueueSize
    BY <1>7, <2>2 DEF Fetch, TypeOK
  <2>4. client' \in [Subs -> {"new", "waiting", "holding", "sending", "closed"}]
        /\ \A x \in Subs : client'[x] # "closed" => Len(hand'[x]) = IF client'[x] = "holding" THEN 1 ELSE 0
    BY <1>7 DEF Fetch, TypeOK
  <2> QED
    BY <1>7, <2>3, <2>4 DEF Fetch, TypeOK, busVars
<1>8. ASSUME NEW s \in Subs, Yield(s)
      PROVE  TypeOK'
  <2>1. hand[s] \in Seq(Event) /\ Len(hand[s]) = 1
    BY <1>8 DEF Yield, TypeOK
  <2> DEFINE reading == [event |-> hand[s][1], dropped |-> Announced(s)]
  <2>2. reading \in Reading
    <3>1. hand[s][1] \in Event
      BY <2>1
    <3>2. dropped[s] \in Nat
      BY DEF TypeOK
    <3> QED
      BY <3>1, <3>2 DEF Announced, Reading
  <2> HIDE DEF reading
  <2>3. got' \in [Subs -> Seq(Reading)]
    <3>1. got \in [Subs -> Seq(Reading)] /\ got' = [got EXCEPT ![s] = Append(got[s], reading)]
      BY <1>8 DEF Yield, TypeOK, Reading, reading
    <3> QED
      BY <2>2, <3>1
  <2>4. /\ hand' \in [Subs -> Seq(Event)]
        /\ client' \in [Subs -> {"new", "waiting", "holding", "sending", "closed"}]
        /\ \A x \in Subs : client'[x] # "closed" => Len(hand'[x]) = IF client'[x] = "holding" THEN 1 ELSE 0
    <3>1. /\ hand \in [Subs -> Seq(Event)] /\ hand' = [hand EXCEPT ![s] = <<>>]
          /\ client \in [Subs -> {"new", "waiting", "holding", "sending", "closed"}]
          /\ client' = [client EXCEPT ![s] = "sending"]
          /\ \A x \in Subs : client[x] # "closed" => Len(hand[x]) = IF client[x] = "holding" THEN 1 ELSE 0
      BY <1>8 DEF Yield, TypeOK
    <3>2. <<>> \in Seq(Event) /\ Len(<<>>) = 0
      OBVIOUS
    <3>3. hand' \in [Subs -> Seq(Event)] /\ client' \in [Subs -> {"new", "waiting", "holding", "sending", "closed"}]
      BY <3>1, <3>2
    <3>4. ASSUME NEW x \in Subs, client'[x] # "closed"
          PROVE  Len(hand'[x]) = IF client'[x] = "holding" THEN 1 ELSE 0
      <4>1. CASE x = s
        <5>1. hand'[x] = <<>> /\ client'[x] = "sending"
          BY <3>1, <4>1
        <5> QED
          BY <3>2, <5>1
      <4>2. CASE x # s
        <5>1. hand'[x] = hand[x] /\ client'[x] = client[x]
          BY <3>1, <4>2
        <5> QED
          BY <3>1, <3>4, <5>1
      <4> QED
        BY <4>1, <4>2
    <3> QED
      BY <3>3, <3>4
  <2> QED
    BY <1>8, <2>3, <2>4 DEF Yield, TypeOK, busVars, Reading
<1>9. ASSUME NEW s \in Subs, Resume(s)
      PROVE  TypeOK'
  <2>1. client' \in [Subs -> {"new", "waiting", "holding", "sending", "closed"}]
        /\ \A x \in Subs : client'[x] # "closed" => Len(hand'[x]) = IF client'[x] = "holding" THEN 1 ELSE 0
    BY <1>9 DEF Resume, TypeOK
  <2> QED
    BY <1>9, <2>1 DEF Resume, TypeOK, busVars
<1>10. ASSUME NEW s \in Subs, Disconnect(s)
       PROVE  TypeOK'
  <2>1. streams' \in Seq(Subs)
    BY <1>10, DistinctSublist DEF Disconnect, TypeOK
  <2>2. client' \in [Subs -> {"new", "waiting", "holding", "sending", "closed"}]
        /\ \A x \in Subs : client'[x] # "closed" => Len(hand'[x]) = IF client'[x] = "holding" THEN 1 ELSE 0
    BY <1>10 DEF Disconnect, TypeOK
  <2> QED
    BY <1>10, <2>1, <2>2 DEF Disconnect, TypeOK, busVars
<1>11. CASE UNCHANGED vars
  BY <1>11 DEF vars, busVars, streamVars, TypeOK
<1> QED
  BY <1>1, <1>2, <1>3, <1>4, <1>5, <1>6, <1>7, <1>8, <1>9, <1>10, <1>11
  DEF Next, PublishStep, StreamStep

-----------------------------------------------------------------------------
LEMMA ThreadsFinite ==
  /\ IsFiniteSet(Threads)
  /\ \A S \in SUBSET Threads :
       IsFiniteSet(S) /\ Cardinality(S) \in Nat /\ Cardinality(S) <= Cardinality(Threads)
  /\ Cardinality(Threads) \in Nat /\ Cardinality(Threads) > 0
<1>1. IsFiniteSet(Threads)
  BY ThreadAssumption, FS_AddElement DEF Threads
<1>2. Threads # {}
  BY DEF Threads
<1>3. Cardinality(Threads) \in Nat /\ Cardinality(Threads) # 0
  BY <1>1, <1>2, FS_EmptySet, FS_CardinalityType
<1> QED
  BY <1>1, <1>3, FS_Subset, FS_CardinalityType

LEMMA HistoryInit == Init => HistoryInv
<1> SUFFICES ASSUME Init PROVE HistoryInv
  OBVIOUS
<1>1. Checking = {} /\ Popping = {} /\ Checking \cup Popping = {}
  BY DEF Init, Checking, Popping, Idle
<1>2. Cardinality({}) = 0
  BY FS_EmptySet
<1>3. history = <<>> /\ Len(history) = 0 /\ count = 0
  BY DEF Init
<1> QED
  BY <1>1, <1>2, <1>3, SizeAssumption, ThreadsFinite DEF HistoryInv

(* Steps past the history, which neither start nor end a comparison.       *)
LEMMA HistoryQuiet ==
  ASSUME HistoryInv, UNCHANGED <<history, count>>, Checking' = Checking, Popping' = Popping
  PROVE  HistoryInv'
BY DEF HistoryInv

LEMMA HistoryStep ==
  ASSUME TypeOK, HistoryInv, [Next]_vars
  PROVE  HistoryInv'
<1> DEFINE counted == Checking \cup Popping
<1>1. /\ counted \subseteq Threads /\ Popping \subseteq Threads
      /\ IsFiniteSet(counted) /\ IsFiniteSet(Popping)
      /\ Cardinality(counted) \in Nat /\ Cardinality(Popping) \in Nat
      /\ Cardinality(Threads) \in Nat
  <2>1. counted \subseteq Threads /\ Popping \subseteq Threads
    BY DEF Checking, Popping
  <2> QED
    BY <2>1, ThreadsFinite
<1>2. history \in Seq(Event) /\ count \in Nat /\ HistorySize \in Nat \ {0} /\ Len(history) \in Nat
  BY SizeAssumption DEF TypeOK
<1>3. ASSUME NEW th \in Threads, NEW type \in Types, Publish(th, type)
      PROVE  HistoryInv'
  <2>1. Checking' = Checking \cup {th} /\ Popping' = Popping
    <3> DEFINE next == [step |-> "check", event |-> [type |-> type, by |-> th, no |-> count + 1]]
    <3>1. pub' = [pub EXCEPT ![th] = next] /\ pub[th].step = "idle" /\ pub \in [Threads -> PubState]
      BY <1>3 DEF Publish, TypeOK, Idle
    <3>2. next.step = "check"
      OBVIOUS
    <3> HIDE DEF next
    <3> QED
      BY <3>1, <3>2 DEF Checking, Popping
  <2>2. th \notin counted /\ counted' = counted \cup {th}
    BY <1>3, <2>1 DEF Publish, Checking, Popping, Idle
  <2>3. Cardinality(counted') = Cardinality(counted) + 1
    BY <1>1, <2>2, FS_AddElement
  <2> DEFINE event == [type |-> type, by |-> th, no |-> count + 1]
  <2>4. history' = Append(history, event) /\ count' = count + 1 /\ event.no = count + 1
    BY <1>3 DEF Publish
  <2> HIDE DEF counted, event
  <2>5. /\ Len(history') = Len(history) + 1
        /\ \A i \in 1..Len(history') :
             history'[i] = IF i <= Len(history) THEN history[i] ELSE event
    BY <1>2, <2>4
  <2>6. \A i \in 1..Len(history') : history'[i].no = count' - Len(history') + i
    <3> TAKE i \in 1..Len(history')
    <3>1. CASE i <= Len(history)
      <4>1. i \in 1..Len(history) /\ history'[i] = history[i]
        BY <1>2, <2>5, <3>1
      <4> QED
        BY <1>2, <2>4, <2>5, <4>1 DEF HistoryInv
    <3>2. CASE ~ (i <= Len(history))
      <4>1. i = Len(history) + 1 /\ history'[i] = event
        BY <1>2, <2>5, <3>2
      <4> QED
        BY <1>2, <2>4, <2>5, <4>1
    <3> QED
      BY <3>1, <3>2
  <2>7. /\ Len(history) <= HistorySize + Cardinality(counted)
        /\ Len(history) >= Cardinality(counted)
        /\ Len(history) - Cardinality(Popping)
             > (IF count < HistorySize THEN count ELSE HistorySize) - Cardinality(Threads)
    BY DEF HistoryInv, counted
  <2>8. /\ Len(history') <= HistorySize + Cardinality(counted')
        /\ Len(history') >= Cardinality(counted')
        /\ Len(history') - Cardinality(Popping')
             > (IF count' < HistorySize THEN count' ELSE HistorySize) - Cardinality(Threads)
    BY <1>1, <1>2, <2>1, <2>3, <2>4, <2>5, <2>7, SMTT(30)
  <2> QED
    BY <2>6, <2>8 DEF HistoryInv, counted
<1>4. ASSUME NEW th \in Threads, CheckHistory(th)
      PROVE  HistoryInv'
  <2>1. pub' = [pub EXCEPT ![th] = [step |-> "trim", event |-> pub[th].event, pop |-> Overlong]]
        /\ pub[th].step = "check" /\ UNCHANGED <<history, count>> /\ pub \in [Threads -> PubState]
    BY <1>4 DEF CheckHistory, TypeOK
  <2>2. /\ th \in counted /\ th \notin Popping
        /\ Checking' = Checking \ {th}
        /\ Popping' = IF Overlong THEN Popping \cup {th} ELSE Popping
    BY <2>1 DEF Checking, Popping, Overlong
  <2>3. /\ Len(history) <= HistorySize + Cardinality(counted)
        /\ Len(history) >= Cardinality(counted)
        /\ Len(history) - Cardinality(Popping)
             > (IF count < HistorySize THEN count ELSE HistorySize) - Cardinality(Threads)
    BY DEF HistoryInv
  <2>4. CASE Overlong
    <3>1. counted' = counted /\ Popping' = Popping \cup {th}
      BY <2>2, <2>4
    <3>2. Popping' \subseteq Threads
      BY <1>1, <3>1
    <3>3. Cardinality(Popping') \in Nat /\ Cardinality(Popping') <= Cardinality(Threads)
      BY <3>2, ThreadsFinite
    <3>4. Len(history) > HistorySize
      BY <2>4 DEF Overlong
    <3> HIDE DEF counted
    <3>5. /\ Len(history') <= HistorySize + Cardinality(counted')
          /\ Len(history') >= Cardinality(counted')
          /\ Len(history') - Cardinality(Popping')
               > (IF count' < HistorySize THEN count' ELSE HistorySize) - Cardinality(Threads)
      BY <1>1, <1>2, <2>1, <2>3, <3>1, <3>3, <3>4
    <3> QED
      BY <2>1, <3>5 DEF HistoryInv, counted
  <2>5. CASE ~ Overlong
    <3>1. counted' = counted \ {th} /\ Popping' = Popping
      BY <2>2, <2>5
    <3>2. Cardinality(counted') = Cardinality(counted) - 1
      BY <1>1, <2>2, <3>1, FS_RemoveElement
    <3>3. Cardinality(counted) # 0
      BY <1>1, <2>2, FS_EmptySet
    <3>4. Len(history) <= HistorySize
      BY <1>2, <2>5 DEF Overlong
    <3> HIDE DEF counted
    <3>5. /\ Len(history') <= HistorySize + Cardinality(counted')
          /\ Len(history') >= Cardinality(counted')
          /\ Len(history') - Cardinality(Popping')
               > (IF count' < HistorySize THEN count' ELSE HistorySize) - Cardinality(Threads)
      BY <1>1, <1>2, <2>1, <2>3, <3>1, <3>2, <3>3, <3>4
    <3> QED
      BY <2>1, <3>5 DEF HistoryInv, counted
  <2> QED
    BY <2>4, <2>5
<1>5. ASSUME NEW th \in Threads, TrimHistory(th)
      PROVE  HistoryInv'
  <2> DEFINE next == Sending(pub[th].event, Wanting(pub[th].event.type))
  <2>1. pub' = [pub EXCEPT ![th] = next] /\ pub[th].step = "trim" /\ count' = count
        /\ pub \in [Threads -> PubState]
    BY <1>5 DEF TrimHistory, TypeOK
  <2>2. next.step \in {"idle", "send"}
    BY DEF Sending, Idle
  <2> HIDE DEF next
  <2>3. Checking' = Checking /\ Popping' = Popping \ {th} /\ th \notin Checking
    BY <2>1, <2>2 DEF Checking, Popping
  <2>4. CASE pub[th].pop
    <3>1. th \in Popping /\ th \in counted /\ counted' = counted \ {th}
      BY <2>1, <2>3, <2>4 DEF Popping
    <3>2. Cardinality(counted') = Cardinality(counted) - 1 /\ Cardinality(Popping') = Cardinality(Popping) - 1
      BY <1>1, <2>3, <3>1, FS_RemoveElement
    <3>3. history' = Tail(history) /\ Len(history) > 0
      BY <1>5, <2>4, <3>1, PopsAnEvent DEF TrimHistory
    <3>4. Len(history') = Len(history) - 1 /\ \A i \in 1..Len(history') : history'[i] = history[i + 1]
      BY <1>2, <3>3
    <3>5. \A i \in 1..Len(history') : history'[i].no = count' - Len(history') + i
      <4> TAKE i \in 1..Len(history')
      <4>1. i + 1 \in 1..Len(history) /\ history'[i] = history[i + 1]
        BY <1>2, <3>4
      <4> QED
        BY <1>2, <2>1, <3>4, <4>1 DEF HistoryInv
    <3>6. /\ Len(history) <= HistorySize + Cardinality(counted)
          /\ Len(history) >= Cardinality(counted)
          /\ Len(history) - Cardinality(Popping)
               > (IF count < HistorySize THEN count ELSE HistorySize) - Cardinality(Threads)
      BY DEF HistoryInv
    <3> HIDE DEF counted
    <3>7. /\ Len(history') <= HistorySize + Cardinality(counted')
          /\ Len(history') >= Cardinality(counted')
          /\ Len(history') - Cardinality(Popping')
               > (IF count' < HistorySize THEN count' ELSE HistorySize) - Cardinality(Threads)
      BY <1>1, <1>2, <2>1, <3>2, <3>4, <3>6, SMTT(30)
    <3> QED
      BY <3>5, <3>7 DEF HistoryInv, counted
  <2>5. CASE ~ pub[th].pop
    <3>1. Popping' = Popping /\ UNCHANGED <<history, count>>
      BY <1>5, <2>3, <2>5 DEF TrimHistory, Popping
    <3> QED
      BY <2>3, <3>1, HistoryQuiet
  <2> QED
    BY <2>4, <2>5
<1>6. ASSUME NEW th \in Threads, Send(th)
      PROVE  HistoryInv'
  <2> DEFINE next == Sending(pub[th].event, Tail(pub[th].todo))
  <2>1. pub' = [pub EXCEPT ![th] = next] /\ pub[th].step = "send" /\ UNCHANGED <<history, count>>
        /\ pub \in [Threads -> PubState]
    BY <1>6 DEF Send, TypeOK
  <2>2. next.step \in {"idle", "send"}
    BY DEF Sending, Idle
  <2> HIDE DEF next
  <2>3. Checking' = Checking /\ Popping' = Popping
    BY <2>1, <2>2 DEF Checking, Popping
  <2> QED
    BY <2>1, <2>3, HistoryQuiet
<1>7. ASSUME Deliver
      PROVE  HistoryInv'
  <2>1. UNCHANGED <<history, count>> /\ pub[Loop].step = "idle" /\ pub \in [Threads -> PubState]
        /\ Loop \in Threads
    BY <1>7 DEF Deliver, LoopFree, Idle, TypeOK, Threads
  <2>2. \/ pub' = pub
        \/ \E event : pub' = [pub EXCEPT ![Loop] = Sending(event, Wanting(Lagging))]
    BY <1>7 DEF Deliver
  <2>3. Checking' = Checking /\ Popping' = Popping
    <3>1. CASE pub' = pub
      BY <3>1 DEF Checking, Popping
    <3>2. ASSUME NEW event, pub' = [pub EXCEPT ![Loop] = Sending(event, Wanting(Lagging))]
          PROVE  Checking' = Checking /\ Popping' = Popping
      <4>1. Sending(event, Wanting(Lagging)).step \in {"idle", "send"}
        BY DEF Sending, Idle
      <4> QED
        BY <2>1, <3>2, <4>1 DEF Checking, Popping
    <3> QED
      BY <2>2, <3>1, <3>2
  <2> QED
    BY <2>1, <2>3, HistoryQuiet
<1>8. ASSUME UNCHANGED busVars
      PROVE  HistoryInv'
  <2>1. UNCHANGED <<history, count>> /\ Checking' = Checking /\ Popping' = Popping
    BY <1>8 DEF busVars, Checking, Popping
  <2> QED
    BY <2>1, HistoryQuiet
<1>9. ASSUME NEW s \in Subs, StreamStep(s) \/ Disconnect(s) \/ \E filter \in Filters[s] : Subscribe(s, filter)
      PROVE  UNCHANGED busVars
  BY <1>9 DEF StreamStep, Fetch, Yield, Resume, Disconnect, Subscribe
<1>10. CASE UNCHANGED vars
  BY <1>8, <1>10 DEF vars
<1> QED
  BY <1>3, <1>4, <1>5, <1>6, <1>7, <1>8, <1>9, <1>10 DEF Next, PublishStep

-----------------------------------------------------------------------------
LEMMA StreamsInit == Init => StreamsInv
BY DEF Init, StreamsInv, Distinct

LEMMA StreamsStep ==
  ASSUME TypeOK, StreamsInv, [Next]_vars
  PROVE  StreamsInv'
<1>1. streams \in Seq(Subs) /\ client \in [Subs -> {"new", "waiting", "holding", "sending", "closed"}]
  BY DEF TypeOK
<1>2. ASSUME NEW s \in Subs, NEW filter \in Filters[s], Subscribe(s, filter)
      PROVE  StreamsInv'
  <2>1. streams' = Append(streams, s) /\ client' = [client EXCEPT ![s] = "waiting"] /\ client[s] = "new"
    BY <1>2 DEF Subscribe
  <2>2. /\ Len(streams') = Len(streams) + 1 /\ Len(streams) \in Nat
        /\ \A i \in 1..Len(streams') :
             streams'[i] = IF i <= Len(streams) THEN streams[i] ELSE s
    BY <1>1, <2>1
  <2>3. \A i \in 1..Len(streams) : streams[i] # s /\ streams[i] \in Subs
    BY <1>1, <2>1 DEF StreamsInv
  <2>4. Distinct(streams')
    <3> SUFFICES ASSUME NEW i \in 1..Len(streams'), NEW j \in 1..Len(streams'), streams'[i] = streams'[j]
                 PROVE  i = j
      BY DEF Distinct
    <3>1. CASE i <= Len(streams)
      <4>1. i \in 1..Len(streams) /\ streams'[i] = streams[i]
        BY <2>2, <3>1
      <4>2. j <= Len(streams)
        BY <2>2, <2>3, <4>1
      <4>3. j \in 1..Len(streams) /\ streams'[j] = streams[j]
        BY <2>2, <4>2
      <4> QED
        BY <4>1, <4>3 DEF StreamsInv, Distinct
    <3>2. CASE ~ (i <= Len(streams))
      <4>1. streams'[i] = s
        BY <2>2, <3>2
      <4>2. ~ (j <= Len(streams))
        <5> SUFFICES ASSUME j <= Len(streams) PROVE FALSE
          OBVIOUS
        <5>1. j \in 1..Len(streams) /\ streams'[j] = streams[j]
          BY <2>2
        <5> QED
          BY <2>3, <4>1, <5>1
      <4> QED
        BY <2>2, <3>2, <4>2
    <3> QED
      BY <3>1, <3>2
  <2>5. \A i \in 1..Len(streams') : client'[streams'[i]] # "new"
    <3> TAKE i \in 1..Len(streams')
    <3>1. CASE i <= Len(streams)
      <4>1. i \in 1..Len(streams) /\ streams'[i] = streams[i]
        BY <2>2, <3>1
      <4> QED
        BY <1>1, <2>1, <2>3, <4>1 DEF StreamsInv
    <3>2. CASE ~ (i <= Len(streams))
      BY <1>1, <2>1, <2>2, <3>2
    <3> QED
      BY <3>1, <3>2
  <2> QED
    BY <2>4, <2>5 DEF StreamsInv
<1>3. ASSUME NEW s \in Subs, Disconnect(s)
      PROVE  StreamsInv'
  <2>1. streams' = Sublist(streams, Subs \ {s}) /\ client' = [client EXCEPT ![s] = "closed"]
    BY <1>3 DEF Disconnect
  <2>2. /\ Distinct(streams')
        /\ \A i \in 1..Len(streams') : Occurs(streams'[i], streams)
    BY <1>1, <2>1, DistinctSublist DEF StreamsInv
  <2>3. ASSUME NEW i \in 1..Len(streams')
        PROVE  client'[streams'[i]] # "new"
    <3>1. PICK j \in 1..Len(streams) : streams[j] = streams'[i]
      BY <2>2 DEF Occurs
    <3>2. streams[j] \in Subs /\ client[streams[j]] # "new"
      BY <1>1 DEF StreamsInv
    <3> QED
      BY <1>1, <2>1, <3>1, <3>2
  <2> QED
    BY <2>2, <2>3 DEF StreamsInv
<1>4. ASSUME NEW s \in Subs, StreamStep(s)
      PROVE  StreamsInv'
  <2>1. streams' = streams
    BY <1>4 DEF StreamStep, Fetch, Yield, Resume
  <2>2. \E state \in {"holding", "sending", "waiting"} : client' = [client EXCEPT ![s] = state]
    BY <1>4 DEF StreamStep, Fetch, Yield, Resume
  <2>3. \A x \in Subs : client[x] # "new" => client'[x] # "new"
    BY <1>1, <2>2
  <2>4. \A i \in 1..Len(streams) : streams[i] \in Subs
    BY <1>1
  <2> QED
    BY <2>1, <2>3, <2>4 DEF StreamsInv
<1>5. ASSUME UNCHANGED <<streams, client>>
      PROVE  StreamsInv'
  BY <1>5 DEF StreamsInv
<1>6. ASSUME NEW th \in Threads, PublishStep(th) \/ \E type \in Types : Publish(th, type)
      PROVE  UNCHANGED <<streams, client>>
  BY <1>6 DEF PublishStep, CheckHistory, TrimHistory, Send, Publish, streamVars
<1>7. Deliver => UNCHANGED <<streams, client>>
  BY DEF Deliver
<1>8. UNCHANGED vars => UNCHANGED <<streams, client>>
  BY DEF vars, streamVars
<1> QED
  BY <1>2, <1>3, <1>4, <1>5, <1>6, <1>7, <1>8 DEF Next

-----------------------------------------------------------------------------
(* The subscribers a publish call has in its snapshot are distinct.        *)
LEMMA WantingDistinct ==
  ASSUME TypeOK, StreamsInv, NEW type
  PROVE  Distinct(Wanting(type))
BY DistinctSublist DEF TypeOK, StreamsInv, Wanting

(* What is made stays made: counters only grow.                            *)
LEMMA MadeStays ==
  ASSUME TypeOK, TypeOK', count' >= count, \A s \in Subs : dropped'[s] >= dropped[s]
  PROVE  \A event \in Event : Made(event) => MadeBy(event, count', dropped')
<1> SUFFICES ASSUME NEW event \in Event, Made(event) PROVE MadeBy(event, count', dropped')
  OBVIOUS
<1>1. CASE event.type = Lagging
  <2>1. event.by \in Subs
    BY <1>1, FilterAssumption DEF Event
  <2>2. dropped[event.by] \in Nat /\ dropped'[event.by] \in Nat /\ LagAt \in Nat
    BY <2>1, SizeAssumption DEF TypeOK
  <2> QED
    BY <1>1, <2>1, <2>2 DEF Made, MadeBy
<1>2. CASE event.type # Lagging
  <2>1. event.no \in Nat /\ count \in Nat /\ count' \in Nat
    BY <1>2, SizeAssumption DEF Event, TypeOK
  <2> QED
    BY <1>2, <2>1 DEF Made, MadeBy
<1> QED
  BY <1>1, <1>2

(* No counter ever falls.                                                  *)
LEMMA CountersGrow ==
  ASSUME TypeOK, [Next]_vars
  PROVE  count' >= count /\ \A s \in Subs : dropped'[s] >= dropped[s]
<1>1. count \in Nat /\ dropped \in [Subs -> Nat]
  BY SizeAssumption DEF TypeOK
<1>2. ASSUME UNCHANGED <<count, dropped>>
      PROVE  count' >= count /\ \A s \in Subs : dropped'[s] >= dropped[s]
  BY <1>1, <1>2
<1>3. ASSUME NEW th \in Threads, NEW type \in Types, Publish(th, type)
      PROVE  count' >= count /\ \A s \in Subs : dropped'[s] >= dropped[s]
  BY <1>1, <1>3 DEF Publish, streamVars
<1>4. ASSUME Deliver
      PROVE  count' >= count /\ \A s \in Subs : dropped'[s] >= dropped[s]
  <2>1. count' = count
    BY <1>4 DEF Deliver
  <2>2. dropped' = dropped \/ \E s : dropped' = [dropped EXCEPT ![s] = dropped[s] + 1]
    BY <1>4 DEF Deliver
  <2> QED
    BY <1>1, <2>1, <2>2
<1>5. ASSUME NEW th \in Threads, PublishStep(th)
      PROVE  UNCHANGED <<count, dropped>>
  BY <1>5 DEF PublishStep, CheckHistory, TrimHistory, Send, streamVars
<1>6. ASSUME NEW s \in Subs, StreamStep(s) \/ Disconnect(s) \/ \E filter \in Filters[s] : Subscribe(s, filter)
      PROVE  UNCHANGED <<count, dropped>>
  BY <1>6 DEF StreamStep, Fetch, Yield, Resume, Disconnect, Subscribe, busVars
<1>7. UNCHANGED vars => UNCHANGED <<count, dropped>>
  BY DEF vars, busVars, streamVars
<1> QED
  BY <1>2, <1>3, <1>4, <1>5, <1>6, <1>7 DEF Next

-----------------------------------------------------------------------------
LEMMA PublishInit == Init => PublishInv
BY DEF Init, PublishInv, Orderly, Idle

(* A call that another step leaves alone stays orderly.                    *)
LEMMA OrderlyStays ==
  ASSUME TypeOK, TypeOK', PublishInv, [Next]_vars, NEW th \in Threads, pub'[th] = pub[th]
  PROVE  Orderly(th)'
<1>1. Orderly(th)
  BY DEF PublishInv
<1>2. pub[th].step # "idle" => MadeBy(pub[th].event, count', dropped')
  <2>1. pub[th].step # "idle" => pub[th].event \in Event /\ Made(pub[th].event)
    BY <1>1, PublishCall DEF Orderly
  <2> QED
    BY <2>1, MadeStays, CountersGrow
<1> QED
  BY <1>1, <1>2 DEF Orderly, Made, MadeBy

LEMMA PublishStepInv ==
  ASSUME TypeOK, TypeOK', StreamsInv, PublishInv, [Next]_vars
  PROVE  PublishInv'
<1>1. pub \in [Threads -> PubState]
  BY DEF TypeOK
<1>2. ASSUME NEW th \in Threads, Orderly(th)', \A x \in Threads : x # th => pub'[x] = pub[x]
      PROVE  PublishInv'
  BY <1>2, OrderlyStays DEF PublishInv
<1>3. ASSUME NEW th \in Threads, NEW type \in Types, Publish(th, type)
      PROVE  PublishInv'
  <2> DEFINE event == [type |-> type, by |-> th, no |-> count + 1]
  <2>1. pub' = [pub EXCEPT ![th] = [step |-> "check", event |-> event]] /\ count' = count + 1
    BY <1>3 DEF Publish
  <2>2. pub'[th] = [step |-> "check", event |-> event]
    BY <1>1, <2>1
  <2>3. MadeBy(event, count', dropped')
    BY <2>1, FilterAssumption, SizeAssumption DEF Made, MadeBy, TypeOK
  <2>4. Orderly(th)'
    BY <2>2, <2>3, FilterAssumption DEF Orderly, Made, MadeBy
  <2> QED
    BY <1>1, <1>2, <2>1, <2>4
<1>4. ASSUME NEW th \in Threads, CheckHistory(th)
      PROVE  PublishInv'
  <2>1. pub' = [pub EXCEPT ![th] = [step |-> "trim", event |-> pub[th].event, pop |-> Overlong]]
        /\ pub[th].step = "check"
    BY <1>4 DEF CheckHistory
  <2>2. pub'[th] = [step |-> "trim", event |-> pub[th].event, pop |-> Overlong]
    BY <1>1, <2>1
  <2>3. Orderly(th) /\ pub[th].event \in Event
    BY <2>1, PublishCall DEF PublishInv
  <2>4. MadeBy(pub[th].event, count', dropped')
    BY <2>1, <2>3, MadeStays, CountersGrow DEF Orderly
  <2>5. Orderly(th)'
    BY <2>1, <2>2, <2>3, <2>4 DEF Orderly, Made, MadeBy
  <2> QED
    BY <1>1, <1>2, <2>1, <2>5
<1>5. ASSUME NEW th \in Threads, NEW todo \in Seq(Subs), Distinct(todo), pub[th].step # "idle",
             pub' = [pub EXCEPT ![th] = Sending(pub[th].event, todo)]
      PROVE  PublishInv'
  <2>1. pub'[th] = Sending(pub[th].event, todo)
    BY <1>1, <1>5
  <2>2. Orderly(th) /\ pub[th].event \in Event
    BY <1>5, PublishCall DEF PublishInv
  <2>3. MadeBy(pub[th].event, count', dropped')
    BY <1>5, <2>2, MadeStays, CountersGrow DEF Orderly
  <2>4. Orderly(th)'
    BY <1>5, <2>1, <2>2, <2>3 DEF Orderly, Made, MadeBy, Sending, Idle
  <2> QED
    BY <1>1, <1>2, <1>5, <2>4
<1>6. ASSUME NEW th \in Threads, TrimHistory(th)
      PROVE  PublishInv'
  BY <1>5, <1>6, WantingType, WantingDistinct DEF TrimHistory
<1>7. ASSUME NEW th \in Threads, Send(th)
      PROVE  PublishInv'
  <2> DEFINE todo == pub[th].todo
  <2>1. todo \in Seq(Subs) /\ todo # <<>> /\ Distinct(todo)
    BY <1>7, PublishCall DEF Send, PublishInv, Orderly
  <2> HIDE DEF todo
  <2>2. Tail(todo) \in Seq(Subs) /\ Len(Tail(todo)) = Len(todo) - 1 /\ Len(todo) \in Nat
        /\ \A i \in 1..Len(Tail(todo)) : Tail(todo)[i] = todo[i + 1]
    BY <2>1
  <2>3. Distinct(Tail(todo))
    <3> SUFFICES ASSUME NEW i \in 1..Len(Tail(todo)), NEW j \in 1..Len(Tail(todo)), Tail(todo)[i] = Tail(todo)[j]
                 PROVE  i = j
      BY DEF Distinct
    <3>1. i + 1 \in 1..Len(todo) /\ j + 1 \in 1..Len(todo) /\ todo[i + 1] = todo[j + 1]
      BY <2>2
    <3>2. i + 1 = j + 1
      BY <2>1, <3>1 DEF Distinct
    <3> QED
      BY <2>2, <3>2
  <2>4. pub' = [pub EXCEPT ![th] = Sending(pub[th].event, Tail(todo))] /\ pub[th].step # "idle"
    BY <1>7 DEF Send, todo
  <2> QED
    BY <1>5, <2>2, <2>3, <2>4
<1>8. ASSUME UNCHANGED pub
      PROVE  PublishInv'
  BY <1>8, OrderlyStays DEF PublishInv
<1>9. ASSUME Deliver
      PROVE  PublishInv'
  <2> DEFINE s == Head(ready).sub
             report == [type |-> Lagging, by |-> s, no |-> dropped'[s]]
  <2>1. CASE pub' = pub
    BY <1>8, <2>1
  <2>2. CASE ReportsLag(dropped'[s]) /\ pub' = [pub EXCEPT ![Loop] = Sending(report, Wanting(Lagging))]
    <3>1. Loop \in Threads
      BY DEF Threads
    <3>2. pub'[Loop] = Sending(report, Wanting(Lagging))
      BY <1>1, <2>2, <3>1
    <3>3. report.type = Lagging /\ report.by = s /\ dropped'[s] >= LagAt
      BY <2>2, SizeAssumption DEF ReportsLag
    <3>4. MadeBy(report, count', dropped')
      BY <3>3 DEF Made, MadeBy
    <3> HIDE DEF report
    <3>5. Orderly(Loop)'
      BY <3>2, <3>3, <3>4, WantingDistinct DEF Orderly, Made, MadeBy, Sending, Idle
    <3> QED
      BY <1>1, <1>2, <2>2, <3>1, <3>5
  <2> QED
    BY <1>9, <2>1, <2>2 DEF Deliver
<1>10. ASSUME NEW s \in Subs, StreamStep(s) \/ Disconnect(s) \/ \E filter \in Filters[s] : Subscribe(s, filter)
       PROVE  UNCHANGED pub
  BY <1>10 DEF StreamStep, Fetch, Yield, Resume, Disconnect, Subscribe, busVars
<1>11. UNCHANGED vars => UNCHANGED pub
  BY DEF vars, busVars
<1> QED
  BY <1>3, <1>4, <1>6, <1>7, <1>8, <1>9, <1>10, <1>11 DEF Next, PublishStep

-----------------------------------------------------------------------------
(* An element at the end of a sequence it did not occur in.                *)
LEMMA AppendOnce ==
  ASSUME NEW T, NEW seq \in Seq(T), NEW e \in T
  PROVE  /\ Append(seq, e) \in Seq(T) /\ Len(Append(seq, e)) = Len(seq) + 1 /\ Len(seq) \in Nat
         /\ \A i \in 1..Len(Append(seq, e)) :
              Append(seq, e)[i] = IF i <= Len(seq) THEN seq[i] ELSE e
         /\ \A x : Occurs(x, Append(seq, e)) <=> Occurs(x, seq) \/ x = e
         /\ Distinct(seq) /\ ~ Occurs(e, seq) => Distinct(Append(seq, e))
<1> DEFINE more == Append(seq, e)
<1>1. /\ more \in Seq(T) /\ Len(more) = Len(seq) + 1 /\ Len(seq) \in Nat
      /\ \A i \in 1..Len(more) : more[i] = IF i <= Len(seq) THEN seq[i] ELSE e
  OBVIOUS
<1> HIDE DEF more
<1>2. \A x : Occurs(x, seq) => Occurs(x, more)
  <2> SUFFICES ASSUME NEW x, NEW i \in 1..Len(seq), seq[i] = x PROVE Occurs(x, more)
    BY DEF Occurs
  <2>1. i \in 1..Len(more) /\ more[i] = x
    BY <1>1
  <2> QED
    BY <2>1 DEF Occurs
<1>3. Occurs(e, more)
  <2>1. Len(more) \in 1..Len(more) /\ more[Len(more)] = e
    BY <1>1
  <2> QED
    BY <2>1 DEF Occurs
<1>4. ASSUME NEW x, Occurs(x, more), x # e
      PROVE  Occurs(x, seq)
  <2>1. PICK i \in 1..Len(more) : more[i] = x
    BY <1>4 DEF Occurs
  <2>2. i \in 1..Len(seq) /\ seq[i] = x
    BY <1>1, <1>4, <2>1
  <2> QED
    BY <2>2 DEF Occurs
<1>5. ASSUME Distinct(seq), ~ Occurs(e, seq)
      PROVE  Distinct(more)
  <2> SUFFICES ASSUME NEW i \in 1..Len(more), NEW j \in 1..Len(more), more[i] = more[j]
               PROVE  i = j
    BY DEF Distinct
  <2>1. \A k \in 1..Len(more) : \/ k \in 1..Len(seq) /\ more[k] = seq[k]
                                \/ k = Len(seq) + 1 /\ more[k] = e
    BY <1>1
  <2>2. \A k \in 1..Len(seq) : seq[k] # e
    BY <1>5 DEF Occurs
  <2>3. CASE i \in 1..Len(seq) /\ j \in 1..Len(seq)
    BY <1>5, <2>1, <2>3, <1>1 DEF Distinct
  <2>4. CASE i = Len(seq) + 1
    BY <1>1, <2>1, <2>2, <2>4
  <2>5. CASE j = Len(seq) + 1
    BY <1>1, <2>1, <2>2, <2>5
  <2> QED
    BY <2>1, <2>3, <2>4, <2>5
<1> QED
  BY <1>1, <1>2, <1>3, <1>4, <1>5 DEF more

(* Two calls under way publish different events.                           *)
LEMMA EventsDiffer ==
  ASSUME TypeOK, PublishInv, NEW th \in Threads, NEW x \in Threads, th # x,
         pub[th].step # "idle", pub[x].step # "idle"
  PROVE  pub[th].event # pub[x].event
BY DEF PublishInv, Orderly

LEMMA SentInit == Init => SentInv
<1> SUFFICES ASSUME Init PROVE SentInv
  OBVIOUS
<1>1. \A s \in Subs : sent[s] = <<>> /\ Len(sent[s]) = 0 /\ 1..Len(sent[s]) = {}
  BY DEF Init
<1>2. \A th \in Threads : pub[th].step = "idle"
  BY DEF Init, Idle
<1> QED
  BY <1>1, <1>2 DEF SentInv, Owes, Distinct

(* What was sent of an event that has been made.                           *)
LEMMA SentStays ==
  ASSUME TypeOK, SentInv, [Next]_vars, TypeOK', NEW s \in Subs, sent'[s] = sent[s]
  PROVE  Distinct(sent'[s]) /\ \A i \in 1..Len(sent'[s]) : MadeBy(sent'[s][i], count', dropped')
<1>1. \A i \in 1..Len(sent[s]) : sent[s][i] \in Event
  <2>1. sent[s] \in Seq(Event)
    BY DEF TypeOK
  <2> QED BY <2>1
<1> QED
  BY <1>1, MadeStays, CountersGrow DEF SentInv

LEMMA SentStep ==
  ASSUME TypeOK, TypeOK', StreamsInv, PublishInv, SentInv, [Next]_vars
  PROVE  SentInv'
<1>1. /\ pub \in [Threads -> PubState] /\ sent \in [Subs -> Seq(Event)]
      /\ \A s \in Subs : \A i \in 1..Len(sent[s]) : sent[s][i] \in Event
  <2>1. pub \in [Threads -> PubState] /\ sent \in [Subs -> Seq(Event)]
    BY DEF TypeOK
  <2>2. \A s \in Subs : sent[s] \in Seq(Event)
    BY <2>1
  <2>3. \A s \in Subs : \A i \in 1..Len(sent[s]) : sent[s][i] \in Event
    BY <2>2
  <2> QED BY <2>1, <2>3
<1> DEFINE Due(th, s) == Owes(th, s) => ~ Occurs(pub[th].event, sent[s])
<1>2. ASSUME UNCHANGED sent, \A th \in Threads, s \in Subs : Due(th, s)'
      PROVE  SentInv'
  BY <1>2, SentStays DEF SentInv, Made
<1>3. ASSUME UNCHANGED <<sent, pub>>
      PROVE  SentInv'
  <2>1. \A th \in Threads, s \in Subs : Due(th, s)'
    BY <1>3 DEF SentInv, Owes
  <2> QED
    BY <1>2, <1>3, <2>1
<1>4. ASSUME UNCHANGED sent, NEW th \in Threads, \A x \in Threads : x # th => pub'[x] = pub[x],
             \A s \in Subs : Due(th, s)'
      PROVE  SentInv'
  <2>1. \A x \in Threads, s \in Subs : Due(x, s)'
    BY <1>4 DEF SentInv, Owes
  <2> QED
    BY <1>2, <1>4, <2>1
<1>5. ASSUME NEW th \in Threads, NEW type \in Types, Publish(th, type)
      PROVE  SentInv'
  <2> DEFINE event == [type |-> type, by |-> th, no |-> count + 1]
  <2>1. pub' = [pub EXCEPT ![th] = [step |-> "check", event |-> event]] /\ sent' = sent
    BY <1>5 DEF Publish
  <2>2. ~ Made(event)
    BY FilterAssumption, SizeAssumption DEF Made, MadeBy, TypeOK
  <2>3. pub'[th].event = event
    BY <1>1, <2>1
  <2> HIDE DEF event
  <2>4. \A s \in Subs : ~ Occurs(event, sent[s])
    BY <2>2 DEF SentInv, Occurs
  <2> QED
    BY <1>1, <1>4, <2>1, <2>3, <2>4
<1>6. ASSUME NEW th \in Threads, CheckHistory(th)
      PROVE  SentInv'
  <2>1. pub' = [pub EXCEPT ![th] = [step |-> "trim", event |-> pub[th].event, pop |-> Overlong]]
        /\ pub[th].step = "check" /\ sent' = sent
    BY <1>6 DEF CheckHistory
  <2>2. pub'[th].event = pub[th].event
    BY <1>1, <2>1
  <2>3. \A s \in Subs : ~ Occurs(pub[th].event, sent[s])
    BY <2>1 DEF SentInv, Owes
  <2> QED
    BY <1>1, <1>4, <2>1, <2>2, <2>3
<1>7. ASSUME NEW th \in Threads, TrimHistory(th)
      PROVE  SentInv'
  <2>1. pub' = [pub EXCEPT ![th] = Sending(pub[th].event, Wanting(pub[th].event.type))]
        /\ pub[th].step = "trim" /\ sent' = sent
    BY <1>7 DEF TrimHistory
  <2>2. pub'[th].step # "idle" => pub'[th].event = pub[th].event
    BY <1>1, <2>1 DEF Sending, Idle
  <2>3. \A s \in Subs : ~ Occurs(pub[th].event, sent[s])
    BY <2>1 DEF SentInv, Owes
  <2>4. \A s \in Subs : Due(th, s)'
    BY <2>1, <2>2, <2>3 DEF Owes
  <2> QED
    BY <1>1, <1>4, <2>1, <2>4
<1>8. ASSUME NEW th \in Threads, Send(th)
      PROVE  SentInv'
  <2> DEFINE todo  == pub[th].todo
             s     == Head(todo)
             event == pub[th].event
  <2>1. todo \in Seq(Subs) /\ todo # <<>> /\ Distinct(todo) /\ event \in Event
    BY <1>8, PublishCall DEF Send, PublishInv, Orderly
  <2>2. /\ s \in Subs /\ s = todo[1] /\ 1 \in 1..Len(todo) /\ Len(Tail(todo)) = Len(todo) - 1 /\ Len(todo) \in Nat
        /\ \A i \in 1..Len(Tail(todo)) : Tail(todo)[i] = todo[i + 1]
    <3> HIDE DEF todo
    <3> QED
      BY <2>1
  <2>3. ~ Occurs(event, sent[s])
    <3>1. Occurs(s, todo)
      BY <2>2 DEF Occurs
    <3> QED
      BY <1>8, <2>2, <3>1 DEF SentInv, Owes, Send
  <2>4. ~ Occurs(s, Tail(todo)) /\ \A x : Occurs(x, Tail(todo)) => Occurs(x, todo)
    <3> HIDE DEF todo
    <3>1. \A i \in 1..Len(Tail(todo)) : i + 1 \in 1..Len(todo) /\ i + 1 # 1
      BY <2>2
    <3> QED
      BY <2>1, <2>2, <3>1 DEF Distinct, Occurs
  <2>5. /\ pub' = [pub EXCEPT ![th] = Sending(event, Tail(todo))]
        /\ sent' = [sent EXCEPT ![s] = Append(sent[s], event)]
        /\ pub[th].step = "send"
    BY <1>8 DEF Send
  <2>6. Made(event)
    BY <2>5 DEF PublishInv, Orderly
  <2>7. pub'[th].step # "idle" => pub'[th].step = "send" /\ pub'[th].event = event /\ pub'[th].todo = Tail(todo)
    BY <1>1, <2>5 DEF Sending, Idle
  <2>8. \A x \in Threads : x # th => pub'[x] = pub[x]
    BY <1>1, <2>5
  <2>9. sent'[s] = Append(sent[s], event) /\ \A x \in Subs : x # s => sent'[x] = sent[x]
    BY <1>1, <2>2, <2>5
  <2>10. \A x \in Threads : x # th /\ pub[x].step # "idle" => pub[x].event # event
    BY <2>5, EventsDiffer
  <2>c. MadeBy(event, count', dropped')
    BY <2>1, <2>6, MadeStays, CountersGrow
  <2>t. sent[s] \in Seq(Event) /\ th \in Threads
    BY <1>1, <2>2
  <2> HIDE DEF todo, s, event
  <2>m. /\ Len(sent'[s]) = Len(sent[s]) + 1 /\ Len(sent[s]) \in Nat
        /\ \A i \in 1..Len(sent'[s]) : sent'[s][i] = IF i <= Len(sent[s]) THEN sent[s][i] ELSE event
        /\ \A e : Occurs(e, sent'[s]) <=> Occurs(e, sent[s]) \/ e = event
        /\ Distinct(sent'[s])
    <3> DEFINE old == sent[s]
    <3>1. old \in Seq(Event) /\ Distinct(old) /\ ~ Occurs(event, old)
      BY <2>2, <2>3, <2>t DEF SentInv
    <3> HIDE DEF old
    <3>2. /\ Len(Append(old, event)) = Len(old) + 1 /\ Len(old) \in Nat
          /\ \A i \in 1..Len(Append(old, event)) : Append(old, event)[i] = IF i <= Len(old) THEN old[i] ELSE event
          /\ \A e : Occurs(e, Append(old, event)) <=> Occurs(e, old) \/ e = event
          /\ Distinct(Append(old, event))
      BY <2>1, <3>1, AppendOnce
    <3>3. sent'[s] = Append(old, event) /\ sent[s] = old
      BY <2>9 DEF old
    <3> QED
      BY <3>2, <3>3
  <2>11. ASSUME NEW x \in Subs
         PROVE  Distinct(sent'[x]) /\ \A i \in 1..Len(sent'[x]) : MadeBy(sent'[x][i], count', dropped')
    <3>1. CASE x # s
      BY <2>9, <3>1, SentStays
    <3>2. CASE x = s
      <4>1. \A i \in 1..Len(sent[s]) : MadeBy(sent[s][i], count', dropped')
        BY <1>1, <2>2, MadeStays, CountersGrow DEF SentInv
      <4> QED
        BY <2>c, <2>m, <3>2, <4>1
    <3> QED
      BY <3>1, <3>2
  <2>12. ASSUME NEW y \in Threads, NEW x \in Subs, Owes(y, x)'
         PROVE  ~ Occurs(pub'[y].event, sent'[x])
    <3>1. pub'[y].step # "idle"
      BY <2>12 DEF Owes
    <3>2. CASE y = th
      <4>1. pub'[y].event = event /\ Occurs(x, Tail(todo))
        BY <2>7, <2>12, <3>1, <3>2 DEF Owes
      <4>2. x # s /\ Owes(th, x)
        BY <2>4, <2>5, <4>1 DEF Owes, todo
      <4> QED
        BY <2>9, <4>1, <4>2 DEF SentInv, event
    <3>3. CASE y # th
      <4>1. pub'[y] = pub[y] /\ Owes(y, x) /\ pub[y].event # event
        BY <2>8, <2>10, <2>12, <3>1, <3>3 DEF Owes
      <4>2. ~ Occurs(pub[y].event, sent[x])
        BY <4>1 DEF SentInv
      <4>3. CASE x # s
        BY <2>9, <4>1, <4>2, <4>3
      <4>4. CASE x = s
        BY <2>m, <4>1, <4>2, <4>4
      <4> QED
        BY <4>3, <4>4
    <3> QED
      BY <3>2, <3>3
  <2> QED
    BY <2>11, <2>12 DEF SentInv, Made
<1>9. ASSUME Deliver
      PROVE  SentInv'
  <2> DEFINE s == Head(ready).sub
             report == [type |-> Lagging, by |-> s, no |-> dropped'[s]]
  <2>1. sent' = sent
    BY <1>9 DEF Deliver
  <2>2. CASE pub' = pub
    BY <1>3, <2>1, <2>2
  <2>3. CASE /\ dropped' = [dropped EXCEPT ![s] = dropped[s] + 1]
             /\ ReportsLag(dropped'[s])
             /\ pub' = [pub EXCEPT ![Loop] = Sending(report, Wanting(Lagging))]
    <3>1. Loop \in Threads
      BY DEF Threads
    <3>2. pub'[Loop] = Sending(report, Wanting(Lagging))
      BY <1>1, <2>3, <3>1
    <3>3. s \in Subs
      <4>1. ready \in Seq(Callback) /\ ready # <<>>
        BY <1>9 DEF Deliver, TypeOK, Callback
      <4>2. Head(ready) \in Callback
        BY <4>1
      <4> QED
        BY <4>2 DEF Callback
    <3>4. report.type = Lagging /\ report.by = s
      OBVIOUS
    <3> HIDE DEF report, s
    <3>5. dropped[s] < LagAt
      <4>1. dropped \in [Subs -> Nat] /\ LagAt \in Nat
        BY SizeAssumption DEF TypeOK
      <4> QED
        BY <2>3, <3>3, <4>1 DEF ReportsLag
    <3>6. ~ Made(report)
      <4>1. dropped[s] \in Nat /\ LagAt \in Nat
        BY <3>3, SizeAssumption DEF TypeOK
      <4> QED
        BY <3>4, <3>5, <4>1 DEF Made, MadeBy
    <3>7. \A x \in Subs : ~ Occurs(report, sent[x])
      BY <3>6 DEF SentInv, Occurs
    <3>8. pub'[Loop].step # "idle" => pub'[Loop].event = report
      BY <3>2 DEF Sending, Idle
    <3>9. \A x \in Subs : Due(Loop, x)'
      BY <2>1, <3>7, <3>8 DEF Owes
    <3> QED
      BY <1>1, <1>4, <2>1, <2>3, <3>1, <3>9
  <2> QED
    BY <1>9, <2>2, <2>3 DEF Deliver
<1>10. ASSUME NEW s \in Subs, StreamStep(s) \/ Disconnect(s) \/ \E filter \in Filters[s] : Subscribe(s, filter)
       PROVE  UNCHANGED <<sent, pub>>
  BY <1>10 DEF StreamStep, Fetch, Yield, Resume, Disconnect, Subscribe, busVars
<1>11. UNCHANGED vars => UNCHANGED <<sent, pub>>
  BY DEF vars, busVars
<1> QED
  BY <1>3, <1>5, <1>6, <1>7, <1>8, <1>9, <1>10, <1>11 DEF Next, PublishStep

-----------------------------------------------------------------------------
(* One more event is sent, and is on its way.                              *)
LEMMA FollowsAppend ==
  ASSUME NEW all, NEW origin, NEW lost \in Nat, Follows(all, origin, lost), Len(all) \in Nat,
         Len(origin) \in Nat, NEW e, ~ Occurs(e, origin),
         NEW more, NEW longer,
         Len(more) = Len(all) + 1,
         \A i \in 1..Len(more) : more[i] = IF i <= Len(all) THEN all[i] ELSE e,
         Len(longer) = Len(origin) + 1,
         \A p \in 1..Len(longer) : longer[p] = IF p <= Len(origin) THEN origin[p] ELSE e
  PROVE  Follows(more, longer, lost)
<1>1. Len(longer) = Len(more) + lost
  BY DEF Follows
<1>2. \A i \in 1..Len(more) : \/ i \in 1..Len(all) /\ more[i] = all[i]
                              \/ i = Len(all) + 1 /\ more[i] = e
  OBVIOUS
<1>3. \A p \in 1..Len(longer) : \/ p \in 1..Len(origin) /\ longer[p] = origin[p]
                                \/ p = Len(origin) + 1 /\ longer[p] = e
  OBVIOUS
<1>4. \A p \in 1..Len(origin) : p \in 1..Len(longer) /\ longer[p] = origin[p] /\ origin[p] # e
  BY DEF Occurs
<1>5. Len(longer) \in 1..Len(longer) /\ longer[Len(longer)] = e
  OBVIOUS
<1>6. \A i \in 1..Len(all) : all[i] # e /\ Occurs(all[i], origin)
  BY DEF Follows
<1>7. ASSUME NEW i \in 1..Len(more)
      PROVE  Occurs(more[i], longer)
  <2>1. CASE more[i] = e
    BY <1>5, <2>1 DEF Occurs
  <2>2. CASE more[i] # e
    <3>1. PICK p \in 1..Len(origin) : origin[p] = more[i]
      BY <1>2, <1>6, <2>2 DEF Occurs
    <3> QED
      BY <1>4, <3>1 DEF Occurs
  <2> QED
    BY <2>1, <2>2
<1>8. ASSUME NEW i \in 1..Len(more), NEW j \in 1..Len(more),
             NEW p \in 1..Len(longer), NEW q \in 1..Len(longer),
             i < j, longer[p] = more[i], longer[q] = more[j]
      PROVE  p < q
  <2>1. i \in 1..Len(all) /\ more[i] = all[i]
    BY <1>2, <1>8
  <2>2. p \in 1..Len(origin) /\ origin[p] = all[i]
    BY <1>3, <1>6, <1>8, <2>1
  <2>3. CASE j \in 1..Len(all) /\ more[j] = all[j]
    <3>1. q \in 1..Len(origin) /\ origin[q] = all[j]
      BY <1>3, <1>6, <1>8, <2>3
    <3> QED
      BY <1>8, <2>1, <2>2, <2>3, <3>1 DEF Follows
  <2>4. CASE more[j] = e
    BY <1>3, <1>4, <1>8, <2>2, <2>4
  <2> QED
    BY <1>2, <2>3, <2>4
<1>9. ASSUME NEW i \in 1..Len(more), NEW p \in 1..Len(longer), longer[p] = more[i]
      PROVE  p <= i + lost
  <2>1. CASE i \in 1..Len(all) /\ more[i] = all[i]
    <3>1. p \in 1..Len(origin) /\ origin[p] = all[i]
      BY <1>3, <1>6, <1>9, <2>1
    <3> QED
      BY <2>1, <3>1 DEF Follows
  <2>2. CASE i = Len(all) + 1
    BY <1>1, <2>2
  <2> QED
    BY <1>2, <2>1, <2>2
<1> QED
  BY <1>1, <1>7, <1>8, <1>9 DEF Follows

(* One event is lost on its way and counted.                               *)
LEMMA FollowsLoss ==
  ASSUME NEW all, NEW origin, NEW lost \in Nat, Follows(all, origin, lost), Len(all) \in Nat,
         Len(origin) \in Nat, NEW k \in 1..Len(all), NEW rest,
         Len(rest) = Len(all) - 1,
         \A i \in 1..Len(rest) : rest[i] = IF i < k THEN all[i] ELSE all[i + 1]
  PROVE  Follows(rest, origin, lost + 1)
<1>1. PICK from : from = [i \in 1..Len(rest) |-> IF i < k THEN i ELSE i + 1]
  OBVIOUS
<1>2. \A i \in 1..Len(rest) : /\ from[i] \in 1..Len(all) /\ from[i] <= i + 1
                              /\ rest[i] = all[from[i]]
  BY <1>1
<1>3. \A i, j \in 1..Len(rest) : i < j => from[i] < from[j]
  BY <1>1
<1>4. Len(origin) = Len(rest) + (lost + 1)
  BY DEF Follows
<1>5. \A i \in 1..Len(rest) : Occurs(rest[i], origin)
  BY <1>2 DEF Follows
<1>6. ASSUME NEW i \in 1..Len(rest), NEW j \in 1..Len(rest),
             NEW p \in 1..Len(origin), NEW q \in 1..Len(origin),
             i < j, origin[p] = rest[i], origin[q] = rest[j]
      PROVE  p < q
  <2>1. from[i] < from[j] /\ origin[p] = all[from[i]] /\ origin[q] = all[from[j]]
        /\ from[i] \in 1..Len(all) /\ from[j] \in 1..Len(all)
    BY <1>2, <1>3, <1>6
  <2> QED
    BY <2>1 DEF Follows
<1>7. ASSUME NEW i \in 1..Len(rest), NEW p \in 1..Len(origin), origin[p] = rest[i]
      PROVE  p <= i + (lost + 1)
  <2>1. from[i] \in 1..Len(all) /\ origin[p] = all[from[i]] /\ from[i] <= i + 1
    BY <1>2, <1>7
  <2>2. p <= from[i] + lost
    BY <2>1 DEF Follows
  <2> QED
    BY <2>1, <2>2
<1> QED
  BY <1>4, <1>5, <1>6, <1>7 DEF Follows

-----------------------------------------------------------------------------
(* The four parts of a stream: what was read, is held, is queued and is    *)
(* scheduled.                                                              *)
Joined(G, H, Q, C) == G \o H \o Q \o C

LEMMA TwoParts ==
  ASSUME NEW T, NEW A \in Seq(T), NEW B \in Seq(T)
  PROVE  /\ A \o B \in Seq(T) /\ Len(A \o B) = Len(A) + Len(B)
         /\ \A i \in 1..Len(A \o B) : (A \o B)[i] = IF i <= Len(A) THEN A[i] ELSE B[i - Len(A)]
         /\ Len(A) \in Nat /\ Len(B) \in Nat
OBVIOUS

(* The head of the second part moves to the end of the first.              *)
LEMMA HeadMoves ==
  ASSUME NEW T, NEW A \in Seq(T), NEW B \in Seq(T), B # <<>>
  PROVE  /\ Append(A, Head(B)) \in Seq(T) /\ Tail(B) \in Seq(T)
         /\ Append(A, Head(B)) \o Tail(B) = A \o B
<1>1. /\ Head(B) \in T /\ Tail(B) \in Seq(T) /\ <<Head(B)>> \in Seq(T)
      /\ <<Head(B)>> \o Tail(B) = B
  BY ConcatProperties, HeadTailProperties
<1>2. Append(A, Head(B)) \in Seq(T) /\ Append(A, Head(B)) = A \o <<Head(B)>>
  BY <1>1, AppendIsConcat, AppendProperties
<1>3. (A \o <<Head(B)>>) \o Tail(B) = A \o (<<Head(B)>> \o Tail(B))
  BY <1>1, ConcatAssociative
<1> QED
  BY <1>1, <1>2, <1>3

(* An element at the end of the second part is at the end of both.         *)
LEMMA AppendMoves ==
  ASSUME NEW T, NEW A \in Seq(T), NEW B \in Seq(T), NEW e \in T
  PROVE  A \o Append(B, e) = Append(A \o B, e)
<1>1. <<e>> \in Seq(T) /\ Append(B, e) = B \o <<e>>
  BY AppendIsConcat
<1>2. A \o B \in Seq(T)
  BY TwoParts
<1>3. Append(A \o B, e) = (A \o B) \o <<e>>
  BY <1>2, AppendIsConcat
<1>4. (A \o B) \o <<e>> = A \o (B \o <<e>>)
  BY <1>1, ConcatAssociative
<1> QED
  BY <1>1, <1>3, <1>4

LEMMA JoinedType ==
  ASSUME NEW T, NEW G \in Seq(T), NEW H \in Seq(T), NEW Q \in Seq(T), NEW C \in Seq(T)
  PROVE  /\ G \o H \in Seq(T) /\ G \o H \o Q \in Seq(T) /\ Joined(G, H, Q, C) \in Seq(T)
         /\ Len(G) \in Nat /\ Len(G) <= Len(Joined(G, H, Q, C))
         /\ \A i \in 1..Len(G) : Joined(G, H, Q, C)[i] = G[i]
<1> DEFINE A == G \o H
           B == A \o Q
           D == B \o C
<1>1. /\ A \in Seq(T) /\ Len(A) = Len(G) + Len(H) /\ Len(G) \in Nat /\ Len(H) \in Nat
      /\ \A i \in 1..Len(A) : A[i] = IF i <= Len(G) THEN G[i] ELSE H[i - Len(G)]
  BY TwoParts
<1> HIDE DEF A
<1>2. /\ B \in Seq(T) /\ Len(B) = Len(A) + Len(Q) /\ Len(A) \in Nat /\ Len(Q) \in Nat
      /\ \A i \in 1..Len(B) : B[i] = IF i <= Len(A) THEN A[i] ELSE Q[i - Len(A)]
  <2>1. A \in Seq(T)
    BY <1>1
  <2> QED
    BY <2>1, TwoParts
<1> HIDE DEF B
<1>3. /\ D \in Seq(T) /\ Len(D) = Len(B) + Len(C) /\ Len(B) \in Nat /\ Len(C) \in Nat
      /\ \A i \in 1..Len(D) : D[i] = IF i <= Len(B) THEN B[i] ELSE C[i - Len(B)]
  <2>1. B \in Seq(T)
    BY <1>2
  <2> QED
    BY <2>1, TwoParts
<1> HIDE DEF D
<1>4. ASSUME NEW i \in 1..Len(G)
      PROVE  D[i] = G[i]
  <2>1. i \in 1..Len(A) /\ i \in 1..Len(B) /\ i \in 1..Len(D)
    BY <1>1, <1>2, <1>3
  <2> QED
    BY <1>1, <1>2, <1>3, <2>1
<1>5. Len(G) <= Len(D)
  BY <1>1, <1>2, <1>3
<1> QED
  BY <1>1, <1>2, <1>3, <1>4, <1>5 DEF Joined, A, B, D

StartsWith(all, part) == Len(part) <= Len(all) /\ \A i \in 1..Len(part) : all[i] = part[i]

LEMMA JoinedStarts ==
  ASSUME NEW T, NEW G \in Seq(T), NEW H \in Seq(T), NEW Q \in Seq(T), NEW C \in Seq(T)
  PROVE  StartsWith(Joined(G, H, Q, C), G)
<1>1. Len(G) <= Len(Joined(G, H, Q, C)) /\ \A i \in 1..Len(G) : Joined(G, H, Q, C)[i] = G[i]
  BY JoinedType
<1> QED
  BY <1>1 DEF StartsWith

(* A delivered event, one fetched from the queue and one handed to the     *)
(* client leave the stream as it was; a scheduled one is added at its end. *)
LEMMA JoinedDelivered ==
  ASSUME NEW T, NEW G \in Seq(T), NEW H \in Seq(T), NEW Q \in Seq(T), NEW C \in Seq(T), C # <<>>
  PROVE  Joined(G, H, Append(Q, Head(C)), Tail(C)) = Joined(G, H, Q, C)
<1> DEFINE B == G \o H \o Q
           A == G \o H
<1>1. A \in Seq(T) /\ B \in Seq(T) /\ Head(C) \in T
  BY JoinedType
<1>2. B = A \o Q
  OBVIOUS
<1> HIDE DEF A, B
<1>3. A \o Append(Q, Head(C)) = Append(B, Head(C))
  BY <1>1, <1>2, AppendMoves
<1>4. Append(B, Head(C)) \o Tail(C) = B \o C
  BY <1>1, HeadMoves
<1> QED
  BY <1>2, <1>3, <1>4 DEF Joined, A

LEMMA JoinedFetched ==
  ASSUME NEW T, NEW G \in Seq(T), NEW Q \in Seq(T), NEW C \in Seq(T), Q # <<>>
  PROVE  Joined(G, <<Head(Q)>>, Tail(Q), C) = Joined(G, <<>>, Q, C)
<1>1. Head(Q) \in T
  OBVIOUS
<1>2. G \o <<Head(Q)>> = Append(G, Head(Q)) /\ G \o <<>> = G
  BY <1>1, AppendIsConcat, ConcatEmptySeq
<1>3. Append(G, Head(Q)) \o Tail(Q) = G \o Q
  BY HeadMoves
<1> QED
  BY <1>2, <1>3 DEF Joined

LEMMA JoinedYielded ==
  ASSUME NEW T, NEW G \in Seq(T), NEW H \in Seq(T), NEW Q \in Seq(T), NEW C \in Seq(T), Len(H) = 1
  PROVE  Joined(Append(G, H[1]), <<>>, Q, C) = Joined(G, H, Q, C)
<1>1. H[1] \in T
  <2>1. 1 \in 1..Len(H)
    OBVIOUS
  <2> QED
    BY <2>1, ElementOfSeq
<1>2. H = <<H[1]>>
  <2> DEFINE one == <<H[1]>>
  <2>1. one \in Seq(T) /\ Len(one) = 1 /\ one[1] = H[1]
    <3>1. \A x \in T : <<x>> \in Seq(T) /\ Len(<<x>>) = 1 /\ <<x>>[1] = x
      OBVIOUS
    <3> QED
      BY <1>1, <3>1
  <2> HIDE DEF one
  <2>2. \A i \in 1..Len(H) : H[i] = one[i]
    BY <2>1
  <2>3. H = one
    BY <2>1, <2>2, SeqEqual
  <2> QED
    BY <2>3 DEF one
<1>3. Append(G, H[1]) \in Seq(T) /\ Append(G, H[1]) = G \o <<H[1]>>
  BY <1>1, AppendIsConcat, AppendProperties
<1>4. Append(G, H[1]) \o <<>> = G \o H
  BY <1>2, <1>3, ConcatEmptySeq
<1> QED
  BY <1>4 DEF Joined

JoinedGrows(G, H, Q, C, e) == Joined(G, H, Q, Append(C, e)) = Append(Joined(G, H, Q, C), e)

LEMMA JoinedScheduled ==
  ASSUME NEW T, NEW G \in Seq(T), NEW H \in Seq(T), NEW Q \in Seq(T), NEW C \in Seq(T), NEW e \in T
  PROVE  JoinedGrows(G, H, Q, C, e)
<1> DEFINE B == G \o H \o Q
<1>1. B \in Seq(T)
  BY JoinedType
<1> HIDE DEF B
<1>2. B \o Append(C, e) = Append(B \o C, e)
  BY <1>1, AppendMoves
<1> QED
  BY <1>2 DEF Joined, JoinedGrows, B

(* One element of a list is missing.                                       *)
LossAt(all, rest) ==
  \E k \in 1..Len(all) :
     /\ Len(rest) = Len(all) - 1
     /\ \A i \in 1..Len(rest) : rest[i] = IF i < k THEN all[i] ELSE all[i + 1]

(* A lost one was the first that was scheduled.                            *)
LEMMA JoinedLost ==
  ASSUME NEW T, NEW G \in Seq(T), NEW H \in Seq(T), NEW Q \in Seq(T), NEW C \in Seq(T), C # <<>>
  PROVE  LossAt(Joined(G, H, Q, C), Joined(G, H, Q, Tail(C)))
<1> DEFINE B == G \o H \o Q
           D == Tail(C)
<1>1. B \in Seq(T)
  <2>1. G \o H \in Seq(T)
    BY TwoParts
  <2> QED
    BY <2>1, TwoParts
<1>2. /\ D \in Seq(T) /\ Len(D) = Len(C) - 1 /\ Len(C) \in Nat /\ Len(C) > 0
      /\ \A i \in 1..Len(D) : D[i] = C[i + 1]
  OBVIOUS
<1> HIDE DEF B, D
<1>3. /\ Len(B \o C) = Len(B) + Len(C) /\ Len(B) \in Nat
      /\ \A i \in 1..Len(B \o C) : (B \o C)[i] = IF i <= Len(B) THEN B[i] ELSE C[i - Len(B)]
  BY <1>1, TwoParts
<1>4. /\ Len(B \o D) = Len(B) + Len(D)
      /\ \A i \in 1..Len(B \o D) : (B \o D)[i] = IF i <= Len(B) THEN B[i] ELSE D[i - Len(B)]
  BY <1>1, <1>2, TwoParts
<1> DEFINE all  == B \o C
           rest == B \o D
<1>5. /\ Len(all) = Len(B) + Len(C) /\ Len(rest) = Len(B) + Len(D)
      /\ \A i \in 1..Len(all) : all[i] = IF i <= Len(B) THEN B[i] ELSE C[i - Len(B)]
      /\ \A i \in 1..Len(rest) : rest[i] = IF i <= Len(B) THEN B[i] ELSE D[i - Len(B)]
  BY <1>3, <1>4
<1> HIDE DEF all, rest
<1>6. ASSUME NEW i \in 1..Len(rest)
      PROVE  rest[i] = IF i < Len(B) + 1 THEN all[i] ELSE all[i + 1]
  <2>1. i \in 1..Len(all) /\ i + 1 \in 1..Len(all)
    BY <1>2, <1>3, <1>5
  <2>2. CASE i < Len(B) + 1
    BY <1>3, <1>5, <2>1, <2>2, SMTT(30)
  <2>3. CASE ~ (i < Len(B) + 1)
    <3> DEFINE j == i - Len(B)
    <3>1. j \in 1..Len(D) /\ (i + 1) - Len(B) = j + 1 /\ ~ (i <= Len(B)) /\ ~ (i + 1 <= Len(B))
      BY <1>2, <1>3, <1>5, <2>3
    <3>2. rest[i] = D[j] /\ all[i + 1] = C[j + 1]
      BY <1>5, <2>1, <3>1
    <3> QED
      BY <1>2, <2>3, <3>1, <3>2
  <2> QED
    BY <2>2, <2>3
<1>7. Len(B) + 1 \in 1..Len(all) /\ Len(rest) = Len(all) - 1
  BY <1>2, <1>3, <1>5
<1>8. LossAt(all, rest)
  BY <1>6, <1>7 DEF LossAt
<1> QED
  BY <1>8 DEF Joined, B, D, all, rest

-----------------------------------------------------------------------------
(* The scheduled events of a stream, as callbacks come and run.            *)
Mine(s) == [sub : {s}, event : Event]

Payload(list, s) ==
  LET mine == Sublist(list, Mine(s)) IN [i \in DOMAIN mine |-> mine[i].event]

LEMMA ScheduledIsPayload ==
  ASSUME NEW s \in Subs
  PROVE  Scheduled(s) = Payload(ready, s) /\ Scheduled(s)' = Payload(ready', s)
BY DEF Scheduled, Payload, Mine

LEMMA PayloadType ==
  ASSUME NEW list \in Seq(Callback), NEW s \in Subs
  PROVE  /\ Sublist(list, Mine(s)) \in Seq(Callback)
         /\ Payload(list, s) \in Seq(Event)
         /\ Len(Payload(list, s)) = Len(Sublist(list, Mine(s)))
         /\ \A i \in 1..Len(Payload(list, s)) : Payload(list, s)[i] = Sublist(list, Mine(s))[i].event
<1> DEFINE mine == Sublist(list, Mine(s))
<1>2. mine \in Seq(Callback)
  BY DistinctSublist
<1>3. Payload(list, s) = [i \in DOMAIN mine |-> mine[i].event]
  BY DEF Payload
<1> HIDE DEF mine
<1>4. Len(mine) \in Nat /\ DOMAIN mine = 1..Len(mine) /\ \A i \in 1..Len(mine) : mine[i].event \in Event
  <2>1. Len(mine) \in Nat /\ DOMAIN mine = 1..Len(mine) /\ \A i \in 1..Len(mine) : mine[i] \in Callback
    BY <1>2
  <2> QED
    BY <2>1 DEF Callback
<1>5. Payload(list, s) \in [1..Len(mine) -> Event]
  BY <1>3, <1>4
<1>6. Payload(list, s) \in Seq(Event) /\ Len(Payload(list, s)) = Len(mine)
  BY <1>4, <1>5
<1> QED
  BY <1>2, <1>3, <1>4, <1>6 DEF mine

(* A callback is scheduled: the one subscriber's payload grows by an event. *)
PayloadGrows(list, more, x, event, s) ==
  Payload(more, s) = IF s = x THEN Append(Payload(list, s), event) ELSE Payload(list, s)

LEMMA PayloadAppend ==
  ASSUME NEW list \in Seq(Callback), NEW x \in Subs, NEW event \in Event,
         NEW more, more = Append(list, [sub |-> x, event |-> event]), NEW s \in Subs
  PROVE  PayloadGrows(list, more, x, event, s)
<1> SUFFICES Payload(more, s) = IF s = x THEN Append(Payload(list, s), event) ELSE Payload(list, s)
  BY DEF PayloadGrows
<1> DEFINE r    == [sub |-> x, event |-> event]
           old  == Sublist(list, Mine(s))
           new  == Sublist(more, Mine(s))
<1>0. more \in Seq(Callback)
  <2>1. r \in Callback
    BY DEF Callback
  <2> HIDE DEF r
  <2>2. more = Append(list, r)
    BY DEF r
  <2> QED
    BY <2>1, <2>2
<1>1. /\ old \in Seq(Callback) /\ Payload(list, s) \in Seq(Event)
      /\ Len(Payload(list, s)) = Len(old) /\ \A i \in 1..Len(Payload(list, s)) : Payload(list, s)[i] = old[i].event
  BY PayloadType
<1>2. /\ new \in Seq(Callback) /\ Payload(more, s) \in Seq(Event)
      /\ Len(Payload(more, s)) = Len(new) /\ \A i \in 1..Len(Payload(more, s)) : Payload(more, s)[i] = new[i].event
  BY <1>0, PayloadType
<1>3. r \in Callback /\ (r \in Mine(s) <=> s = x) /\ r.event = event
  BY DEF Callback, Mine
<1>4. new = IF r \in Mine(s) THEN Append(old, r) ELSE old
  <2>1. more = Append(list, r)
    OBVIOUS
  <2> HIDE DEF r
  <2> QED
    BY <1>3, <2>1, SublistAppend
<1> HIDE DEF r, old, new
<1>5. CASE s = x
  <2>1. /\ Len(new) = Len(old) + 1 /\ Len(old) \in Nat
        /\ \A i \in 1..Len(new) : new[i] = IF i <= Len(old) THEN old[i] ELSE r
    BY <1>1, <1>3, <1>4, <1>5
  <2> DEFINE C == Payload(list, s)
             D == Payload(more, s)
  <2>2. /\ C \in Seq(Event) /\ Len(C) = Len(old) /\ \A i \in 1..Len(C) : C[i] = old[i].event
        /\ D \in Seq(Event) /\ Len(D) = Len(new) /\ \A i \in 1..Len(D) : D[i] = new[i].event
    BY <1>1, <1>2
  <2> HIDE DEF C, D
  <2>3. /\ Append(C, event) \in Seq(Event) /\ Len(Append(C, event)) = Len(C) + 1
        /\ \A i \in 1..Len(Append(C, event)) : Append(C, event)[i] = IF i <= Len(C) THEN C[i] ELSE event
    BY <2>2
  <2>4. \A i \in 1..Len(D) : D[i] = Append(C, event)[i]
    BY <1>3, <2>1, <2>2, <2>3
  <2>5. D = Append(C, event)
    BY <2>1, <2>2, <2>3, <2>4, SeqEqual
  <2> QED
    BY <1>5, <2>5 DEF C, D
<1>6. CASE s # x
  <2>1. Len(Payload(more, s)) = Len(Payload(list, s)) /\ \A i \in 1..Len(Payload(more, s)) : Payload(more, s)[i] = Payload(list, s)[i]
    BY <1>1, <1>2, <1>3, <1>4, <1>6
  <2>2. Payload(more, s) = Payload(list, s)
    BY <1>1, <1>2, <2>1, SeqEqual
  <2> QED
    BY <1>6, <2>2
<1> QED
  BY <1>5, <1>6

LEMMA PayloadTail ==
  ASSUME NEW list \in Seq(Callback), list # <<>>, NEW more, more = Tail(list), NEW s \in Subs
  PROVE  IF Head(list).sub = s
         THEN /\ Payload(list, s) # <<>>
              /\ Head(Payload(list, s)) = Head(list).event
              /\ Payload(more, s) = Tail(Payload(list, s))
         ELSE Payload(more, s) = Payload(list, s)
<1> DEFINE r    == Head(list)
           old  == Sublist(list, Mine(s))
           new  == Sublist(more, Mine(s))
<1>0. more \in Seq(Callback)
  OBVIOUS
<1>1. /\ old \in Seq(Callback) /\ Payload(list, s) \in Seq(Event)
      /\ Len(Payload(list, s)) = Len(old) /\ \A i \in 1..Len(Payload(list, s)) : Payload(list, s)[i] = old[i].event
  BY PayloadType
<1>2. /\ new \in Seq(Callback) /\ Payload(more, s) \in Seq(Event)
      /\ Len(Payload(more, s)) = Len(new) /\ \A i \in 1..Len(Payload(more, s)) : Payload(more, s)[i] = new[i].event
  BY <1>0, PayloadType
<1>4. IF r \in Mine(s)
      THEN old # <<>> /\ Head(old) = r /\ new = Tail(old)
      ELSE new = old
  BY SublistTail
<1>5. r \in Callback
  OBVIOUS
<1>6. r \in Mine(s) <=> r.sub = s
  <2> HIDE DEF r
  <2> QED
    BY <1>5 DEF Callback, Mine
<1> HIDE DEF old, new, r
<1>7. CASE r.sub = s
  <2> DEFINE C == Payload(list, s)
             D == Payload(more, s)
  <2>1. /\ C \in Seq(Event) /\ Len(C) = Len(old) /\ \A i \in 1..Len(C) : C[i] = old[i].event
        /\ D \in Seq(Event) /\ Len(D) = Len(new) /\ \A i \in 1..Len(D) : D[i] = new[i].event
    BY <1>1, <1>2
  <2> HIDE DEF C, D
  <2>2. /\ Len(old) \in Nat /\ Len(old) > 0 /\ old[1] = r
        /\ Len(new) = Len(old) - 1 /\ \A i \in 1..Len(new) : new[i] = old[i + 1]
    <3>1. old \in Seq(Callback) /\ old # <<>> /\ Head(old) = r /\ new = Tail(old)
      BY <1>1, <1>4, <1>6, <1>7
    <3> QED
      BY <3>1, HeadTailProperties
  <2>3. C # <<>> /\ Head(C) = r.event
    BY <2>1, <2>2
  <2>4. Tail(C) \in Seq(Event) /\ Len(Tail(C)) = Len(C) - 1 /\ \A i \in 1..Len(Tail(C)) : Tail(C)[i] = C[i + 1]
    BY <2>1, <2>3
  <2>5. \A i \in 1..Len(D) : D[i] = Tail(C)[i]
    BY <2>1, <2>2, <2>4
  <2>6. D = Tail(C)
    BY <2>1, <2>2, <2>4, <2>5, SeqEqual
  <2> QED
    BY <1>7, <2>3, <2>6 DEF C, D, r
<1>8. CASE r.sub # s
  <2>1. Len(Payload(more, s)) = Len(Payload(list, s)) /\ \A i \in 1..Len(Payload(more, s)) : Payload(more, s)[i] = Payload(list, s)[i]
    BY <1>1, <1>2, <1>4, <1>6, <1>8
  <2>2. Payload(more, s) = Payload(list, s)
    BY <1>1, <1>2, <2>1, SeqEqual
  <2> QED
    BY <1>8, <2>2 DEF r
<1> QED
  BY <1>7, <1>8

-----------------------------------------------------------------------------
(* A stream is made of what it has read, holds, has queued and is still    *)
(* scheduled.                                                              *)
Reads(s) == [i \in DOMAIN got[s] |-> got[s][i].event]

LEMMA StreamIs ==
  ASSUME TypeOK, NEW s \in Subs
  PROVE  /\ Stream(s) = Joined(Reads(s), hand[s], queue[s], Payload(ready, s))
         /\ Reads(s) \in Seq(Event) /\ hand[s] \in Seq(Event) /\ queue[s] \in Seq(Event)
         /\ Payload(ready, s) \in Seq(Event) /\ Stream(s) \in Seq(Event)
         /\ got[s] \in Seq(Reading) /\ Len(Reads(s)) = Len(got[s])
         /\ Len(got[s]) \in Nat /\ Len(got[s]) <= Len(Stream(s))
         /\ \A i \in 1..Len(got[s]) : Stream(s)[i] = got[s][i].event
<1>1. hand[s] \in Seq(Event) /\ queue[s] \in Seq(Event) /\ got[s] \in Seq(Reading) /\ ready \in Seq(Callback)
  BY DEF TypeOK, Reading, Callback
<1>2. Payload(ready, s) \in Seq(Event)
  BY <1>1, PayloadType
<1>3. /\ Reads(s) \in Seq(Event) /\ Len(Reads(s)) = Len(got[s]) /\ Len(got[s]) \in Nat
      /\ \A i \in 1..Len(got[s]) : Reads(s)[i] = got[s][i].event
  <2> DEFINE mine == got[s]
  <2>1. Len(mine) \in Nat /\ DOMAIN mine = 1..Len(mine) /\ \A i \in 1..Len(mine) : mine[i] \in Reading
    BY <1>1
  <2>2. Reads(s) = [i \in DOMAIN mine |-> mine[i].event]
    BY DEF Reads
  <2> HIDE DEF mine
  <2>3. \A i \in 1..Len(mine) : mine[i].event \in Event
    BY <2>1 DEF Reading
  <2>4. Reads(s) \in [1..Len(mine) -> Event] /\ \A i \in 1..Len(mine) : Reads(s)[i] = mine[i].event
    BY <2>1, <2>2, <2>3
  <2>5. Reads(s) \in Seq(Event) /\ Len(Reads(s)) = Len(mine)
    BY <2>1, <2>4
  <2> QED
    BY <2>1, <2>4, <2>5 DEF mine
<1>4. Stream(s) = Joined(Reads(s), hand[s], queue[s], Payload(ready, s))
  BY ScheduledIsPayload DEF Stream, Joined, Reads
<1> DEFINE G == Reads(s)
           H == hand[s]
           Q == queue[s]
           C == Payload(ready, s)
<1>5. G \in Seq(Event) /\ H \in Seq(Event) /\ Q \in Seq(Event) /\ C \in Seq(Event)
  BY <1>1, <1>2, <1>3
<1>6. Stream(s) = Joined(G, H, Q, C) /\ Len(G) = Len(got[s]) /\ \A i \in 1..Len(got[s]) : G[i] = got[s][i].event
  BY <1>3, <1>4
<1> HIDE DEF G, H, Q, C
<1>7. /\ Joined(G, H, Q, C) \in Seq(Event)
      /\ Len(G) <= Len(Joined(G, H, Q, C))
      /\ \A i \in 1..Len(G) : Joined(G, H, Q, C)[i] = G[i]
  BY <1>5, JoinedType
<1>8. /\ Stream(s) \in Seq(Event) /\ Len(got[s]) <= Len(Stream(s))
      /\ \A i \in 1..Len(got[s]) : Stream(s)[i] = got[s][i].event
  BY <1>6, <1>7
<1> QED
  BY <1>1, <1>2, <1>3, <1>4, <1>8

(* The loss of one subscriber, as LossInv states it.                       *)
LossOf(all, origin, lost, readings) ==
  /\ Follows(all, origin, lost)
  /\ \A i \in 1..Len(readings) :
       /\ readings[i].dropped <= lost
       /\ \A p \in 1..Len(origin) : origin[p] = readings[i].event => p <= i + readings[i].dropped

LEMMA LossInit == Init => LossInv
<1> SUFFICES ASSUME Init, NEW s \in Subs
             PROVE  LossOf(Stream(s), sent[s], dropped[s], got[s])
  BY DEF LossInv, LossOf
<1>1. got[s] = <<>> /\ hand[s] = <<>> /\ queue[s] = <<>> /\ ready = <<>> /\ sent[s] = <<>> /\ dropped[s] = 0
  BY DEF Init
<1>2. TypeOK
  BY TypeInit
<1>3. Payload(ready, s) = <<>>
  <2>1. Len(ready) = 0 /\ ready \in Seq(Callback)
    BY <1>1
  <2>2. PICK place : Places(ready, Mine(s), Len(ready), Sublist(ready, Mine(s)), place)
    BY <2>1, SublistPlaces
  <2>3. Len(Payload(ready, s)) = Len(Sublist(ready, Mine(s))) /\ Sublist(ready, Mine(s)) \in Seq(Callback)
        /\ Payload(ready, s) \in Seq(Event)
    BY <2>1, PayloadType
  <2> DEFINE n == Len(Sublist(ready, Mine(s)))
  <2>4. n \in Nat
    BY <2>3
  <2>5. n = 0
    <3> SUFFICES ASSUME n # 0 PROVE FALSE
      OBVIOUS
    <3>1. 1 \in 1..n
      BY <2>4
    <3>2. place[1] \in 1..0
      BY <2>1, <2>2, <3>1 DEF Places
    <3> QED
      BY <3>2
  <2> HIDE DEF n
  <2>6. Len(Payload(ready, s)) = 0
    BY <2>3, <2>5 DEF n
  <2> QED
    BY <2>3, <2>6
<1>4. Stream(s) = <<>>
  <2>1. Reads(s) = <<>>
    <3>1. Reads(s) \in Seq(Event) /\ Len(Reads(s)) = 0
      BY <1>1, <1>2, StreamIs
    <3> QED
      BY <3>1
  <2>2. Stream(s) = Joined(Reads(s), hand[s], queue[s], Payload(ready, s))
    BY <1>2, StreamIs
  <2>3. <<>> \o <<>> = <<>>
    OBVIOUS
  <2> QED
    BY <1>1, <1>3, <2>1, <2>2, <2>3 DEF Joined
<1> QED
  BY <1>1, <1>4 DEF LossOf, Follows

LEMMA LossStep ==
  ASSUME TypeOK, TypeOK', PublishInv, SentInv, LossInv, [Next]_vars
  PROVE  LossInv'
<1> SUFFICES ASSUME NEW s \in Subs
             PROVE  LossOf(Stream(s)', sent'[s], dropped'[s], got'[s])
  BY DEF LossInv, LossOf
<1>1. LossOf(Stream(s), sent[s], dropped[s], got[s])
  BY DEF LossInv, LossOf
<1>2. /\ Stream(s) = Joined(Reads(s), hand[s], queue[s], Payload(ready, s))
      /\ Reads(s) \in Seq(Event) /\ hand[s] \in Seq(Event) /\ queue[s] \in Seq(Event)
      /\ Payload(ready, s) \in Seq(Event) /\ Stream(s) \in Seq(Event)
      /\ got[s] \in Seq(Reading) /\ Len(Reads(s)) = Len(got[s])
      /\ Len(got[s]) \in Nat /\ Len(got[s]) <= Len(Stream(s))
      /\ \A i \in 1..Len(got[s]) : Stream(s)[i] = got[s][i].event
  BY StreamIs
<1>3. Stream(s)' = Joined(Reads(s)', hand'[s], queue'[s], Payload(ready', s))
  BY ScheduledIsPayload DEF Stream, Joined, Reads
<1> DEFINE G == Reads(s)
           H == hand[s]
           Q == queue[s]
           C == Payload(ready, s)
<1>p. G \in Seq(Event) /\ H \in Seq(Event) /\ Q \in Seq(Event) /\ C \in Seq(Event)
      /\ Stream(s) = Joined(G, H, Q, C)
  BY <1>2
<1> HIDE DEF G, H, Q, C
<1>4. dropped[s] \in Nat /\ sent[s] \in Seq(Event) /\ Len(sent[s]) \in Nat /\ ready \in Seq(Callback)
  BY DEF TypeOK, Callback
<1>5. ASSUME UNCHANGED <<sent, dropped, got>>, Stream(s)' = Stream(s)
      PROVE  LossOf(Stream(s)', sent'[s], dropped'[s], got'[s])
  BY <1>1, <1>5
<1>6. ASSUME UNCHANGED <<got, hand, queue, ready, sent, dropped>>
      PROVE  LossOf(Stream(s)', sent'[s], dropped'[s], got'[s])
  <2>1. Stream(s)' = Stream(s)
    BY <1>2, <1>3, <1>6 DEF Reads
  <2> QED
    BY <1>5, <1>6, <2>1
<1>7. ASSUME NEW th \in Threads, Send(th)
      PROVE  LossOf(Stream(s)', sent'[s], dropped'[s], got'[s])
  <2> DEFINE x     == Head(pub[th].todo)
             event == pub[th].event
  <2>1. pub[th].todo \in Seq(Subs) /\ pub[th].todo # <<>> /\ event \in Event /\ pub[th].step = "send"
    BY <1>7, PublishCall DEF Send, PublishInv, Orderly
  <2>2. x \in Subs /\ ~ Occurs(event, sent[x])
    <3> DEFINE todo == pub[th].todo
    <3>1. todo \in Seq(Subs) /\ todo # <<>>
      BY <2>1
    <3> HIDE DEF todo
    <3>2. Head(todo) \in Subs /\ Occurs(Head(todo), todo)
      <4>1. 1 \in 1..Len(todo) /\ todo[1] = Head(todo) /\ Head(todo) \in Subs
        BY <3>1
      <4> QED
        BY <4>1 DEF Occurs
    <3>3. x \in Subs /\ Owes(th, x)
      BY <2>1, <3>2 DEF todo, Owes
    <3> QED
      BY <3>3 DEF SentInv
  <2>3. /\ ready' = Append(ready, [sub |-> x, event |-> event])
        /\ sent' = [sent EXCEPT ![x] = Append(sent[x], event)]
        /\ UNCHANGED <<dropped, got, hand, queue>>
    BY <1>7 DEF Send, streamVars
  <2>4. Payload(ready', s) = IF s = x THEN Append(Payload(ready, s), event) ELSE Payload(ready, s)
    <3>1. event \in Event /\ x \in Subs /\ ready' = Append(ready, [sub |-> x, event |-> event])
      BY <2>1, <2>2, <2>3
    <3> DEFINE list == ready
               more == ready'
    <3> HIDE DEF x, event, list, more
    <3>2. list \in Seq(Callback) /\ more = Append(list, [sub |-> x, event |-> event])
      BY <1>4, <3>1 DEF list, more
    <3>3. Payload(more, s) = IF s = x THEN Append(Payload(list, s), event) ELSE Payload(list, s)
      <4>1. PICK e \in Event, y \in Subs, l \in Seq(Callback) : e = event /\ y = x /\ l = list
        BY <3>1, <3>2
      <4>2. more = Append(l, [sub |-> y, event |-> e])
        BY <3>2, <4>1
      <4>3. PayloadGrows(l, more, y, e, s)
        BY <4>2, PayloadAppend
      <4> QED
        BY <4>1, <4>3 DEF PayloadGrows
    <3> QED
      BY <3>3 DEF list, more
  <2> HIDE DEF x, event
  <2>5. Reads(s)' = Reads(s)
    BY <2>3 DEF Reads
  <2>6. CASE s # x
    <3>1. Stream(s)' = Stream(s)
      BY <1>2, <1>3, <2>3, <2>4, <2>5, <2>6
    <3>2. sent'[s] = sent[s]
      BY <2>3, <2>6 DEF TypeOK
    <3> QED
      BY <1>1, <2>3, <3>1, <3>2
  <2>7. CASE s = x
    <3> DEFINE all   == Stream(s)
               more  == Append(all, event)
               old   == sent[s]
               later == Append(old, event)
    <3>1. Stream(s)' = more
      <4>1. Stream(s)' = Joined(G, H, Q, Append(C, event)) /\ event \in Event
        BY <1>3, <2>1, <2>3, <2>4, <2>5, <2>7 DEF G, H, Q, C, event
      <4>2. Joined(G, H, Q, Append(C, event)) = Append(Joined(G, H, Q, C), event)
        <5>1. PICK e \in Event : e = event
          BY <4>1
        <5>2. JoinedGrows(G, H, Q, C, e)
          BY <1>p, JoinedScheduled
        <5> QED
          BY <5>1, <5>2 DEF JoinedGrows
      <4> QED
        BY <1>p, <4>1, <4>2
    <3>2. sent'[s] = later
      BY <2>2, <2>3, <2>7 DEF TypeOK
    <3>3. all \in Seq(Event) /\ old \in Seq(Event) /\ event \in Event /\ ~ Occurs(event, old)
      BY <1>2, <1>4, <2>1, <2>2, <2>7 DEF event
    <3>4. LossOf(all, old, dropped[s], got[s]) /\ Len(got[s]) \in Nat /\ Len(got[s]) <= Len(all)
          /\ \A i \in 1..Len(got[s]) : all[i] = got[s][i].event
      BY <1>1, <1>2
    <3> HIDE DEF all, old
    <3>5. /\ Len(more) = Len(all) + 1 /\ Len(all) \in Nat
          /\ \A i \in 1..Len(more) : more[i] = IF i <= Len(all) THEN all[i] ELSE event
          /\ Len(later) = Len(old) + 1 /\ Len(old) \in Nat
          /\ \A i \in 1..Len(later) : later[i] = IF i <= Len(old) THEN old[i] ELSE event
      BY <3>3, AppendOnce
    <3> HIDE DEF more, later
    <3>6. Follows(more, later, dropped[s])
      <4> DEFINE lost == dropped[s]
      <4>1. lost \in Nat /\ Follows(all, old, lost)
        BY <1>4, <3>4 DEF LossOf
      <4> HIDE DEF lost
      <4>2. Len(more) = Len(all) + 1 /\ Len(all) \in Nat /\ Len(later) = Len(old) + 1 /\ Len(old) \in Nat
        BY <3>5
      <4>3. \A i \in 1..Len(more) : more[i] = IF i <= Len(all) THEN all[i] ELSE event
        BY <3>5
      <4>4. \A i \in 1..Len(later) : later[i] = IF i <= Len(old) THEN old[i] ELSE event
        BY <3>5
      <4>5. ~ Occurs(event, old)
        BY <3>3
      <4>6. Follows(more, later, lost)
        BY <4>1, <4>2, <4>3, <4>4, <4>5, FollowsAppend
      <4> QED
        BY <4>6 DEF lost
    <3>7. \A i \in 1..Len(got[s]) : got[s][i].event # event
      <4>1. \A i \in 1..Len(got[s]) : i \in 1..Len(all) /\ Occurs(got[s][i].event, old)
        BY <3>4, <3>5 DEF LossOf, Follows
      <4> QED
        BY <3>3, <4>1
    <3>8. ASSUME NEW i \in 1..Len(got[s])
          PROVE  /\ got[s][i].dropped <= dropped[s]
                 /\ \A p \in 1..Len(later) : later[p] = got[s][i].event => p <= i + got[s][i].dropped
      <4>1. \A p \in 1..Len(later) : later[p] = got[s][i].event => p \in 1..Len(old) /\ later[p] = old[p]
        BY <3>5, <3>7
      <4> QED
        BY <3>4, <4>1 DEF LossOf
    <3>9. LossOf(more, later, dropped[s], got[s])
      BY <3>6, <3>8 DEF LossOf
    <3> QED
      BY <2>3, <3>1, <3>2, <3>9
  <2> QED
    BY <2>6, <2>7
<1>8. ASSUME Deliver
      PROVE  LossOf(Stream(s)', sent'[s], dropped'[s], got'[s])
  <2> DEFINE x     == Head(ready).sub
             event == Head(ready).event
  <2>1. ready # <<>> /\ ready' = Tail(ready) /\ UNCHANGED <<sent, got, hand>>
    BY <1>8 DEF Deliver
  <2>2. x \in Subs
    <3>1. Head(ready) \in Callback
      BY <1>4, <2>1
    <3> QED
      BY <3>1 DEF Callback
  <2>3. IF x = s
        THEN C # <<>> /\ Head(C) = event /\ Payload(ready', s) = Tail(C)
        ELSE Payload(ready', s) = C
    BY <1>4, <2>1, PayloadTail DEF C
  <2>4. Reads(s)' = Reads(s)
    BY <2>1 DEF Reads
  <2>5. \/ queue' = [queue EXCEPT ![x] = Append(queue[x], event)] /\ dropped' = dropped
        \/ dropped' = [dropped EXCEPT ![x] = dropped[x] + 1] /\ queue' = queue
    BY <1>8 DEF Deliver
  <2>6. queue \in [Subs -> Seq(Event)] /\ dropped \in [Subs -> Nat]
    BY DEF TypeOK
  <2> HIDE DEF x, event
  <2>8. CASE x # s
    <3>1. queue'[s] = queue[s] /\ dropped'[s] = dropped[s]
      BY <2>2, <2>5, <2>6, <2>8
    <3>2. Stream(s)' = Stream(s)
      BY <1>2, <1>3, <2>1, <2>3, <2>4, <2>8, <3>1 DEF C
    <3> QED
      BY <1>1, <2>1, <3>1, <3>2
  <2>9. CASE x = s /\ queue' = [queue EXCEPT ![x] = Append(queue[x], event)] /\ dropped' = dropped
    <3>1. queue'[s] = Append(queue[s], Head(C)) /\ Payload(ready', s) = Tail(C) /\ C # <<>>
      BY <2>2, <2>3, <2>6, <2>9
    <3>2. Stream(s)' = Joined(G, H, Append(Q, Head(C)), Tail(C))
      BY <1>3, <2>1, <2>4, <3>1 DEF G, H, Q
    <3>3. Joined(G, H, Append(Q, Head(C)), Tail(C)) = Joined(G, H, Q, C)
      BY <1>p, <3>1, JoinedDelivered
    <3>4. Stream(s)' = Stream(s)
      BY <1>p, <3>2, <3>3
    <3> QED
      BY <1>5, <2>1, <2>9, <3>4
  <2>10. CASE x = s /\ dropped' = [dropped EXCEPT ![x] = dropped[x] + 1] /\ queue' = queue
    <3> DEFINE all  == Stream(s)
               rest == Stream(s)'
    <3>1. rest = Joined(G, H, Q, Tail(C)) /\ all = Joined(G, H, Q, C) /\ C # <<>>
      BY <1>p, <1>3, <2>1, <2>3, <2>4, <2>10 DEF G, H, Q
    <3>2. PICK k \in 1..Len(all) :
               /\ Len(rest) = Len(all) - 1
               /\ \A i \in 1..Len(rest) : rest[i] = IF i < k THEN all[i] ELSE all[i + 1]
      <4>1. LossAt(Joined(G, H, Q, C), Joined(G, H, Q, Tail(C)))
        BY <1>p, <3>1, JoinedLost
      <4>2. LossAt(all, rest)
        BY <3>1, <4>1
      <4> HIDE DEF all, rest
      <4> QED
        BY <4>2 DEF LossAt
    <3>3. Follows(all, sent[s], dropped[s]) /\ Len(all) \in Nat
      BY <1>1, <1>2 DEF LossOf
    <3> HIDE DEF all, rest
    <3>4. Follows(rest, sent[s], dropped[s] + 1)
      BY <1>4, <3>2, <3>3, FollowsLoss
    <3>5. dropped'[s] = dropped[s] + 1
      BY <2>2, <2>6, <2>10
    <3>6. \A i \in 1..Len(got[s]) : got[s][i].dropped \in Nat
      <4>1. \A i \in 1..Len(got[s]) : got[s][i] \in Reading
        BY <1>2
      <4> QED
        BY <4>1 DEF Reading
    <3>7. \A i \in 1..Len(got[s]) : got[s][i].dropped <= dropped[s] + 1
      BY <1>1, <1>4, <3>6 DEF LossOf
    <3>8. LossOf(rest, sent[s], dropped[s] + 1, got[s])
      BY <1>1, <3>4, <3>7 DEF LossOf
    <3> QED
      BY <2>1, <3>5, <3>8 DEF rest
  <2> QED
    BY <2>5, <2>8, <2>9, <2>10
<1>9. ASSUME NEW x \in Subs, Fetch(x)
      PROVE  LossOf(Stream(s)', sent'[s], dropped'[s], got'[s])
  <2>1. /\ hand' = [hand EXCEPT ![x] = <<Head(queue[x])>>]
        /\ queue' = [queue EXCEPT ![x] = Tail(queue[x])]
        /\ client[x] = "waiting" /\ queue[x] # <<>>
        /\ UNCHANGED <<ready, sent, dropped, got>>
    BY <1>9 DEF Fetch, Available, busVars
  <2>2. Reads(s)' = Reads(s)
    BY <2>1 DEF Reads
  <2>3. hand \in [Subs -> Seq(Event)] /\ queue \in [Subs -> Seq(Event)]
    BY DEF TypeOK
  <2>4. Stream(s)' = Stream(s)
    <3>1. CASE x = s
      <4>1. hand[s] = <<>>
        <5>1. Len(hand[s]) = 0
          BY <2>1, <3>1 DEF TypeOK
        <5> QED
          BY <1>2, <5>1
      <4>2. Stream(s)' = Joined(G, <<Head(Q)>>, Tail(Q), C) /\ Q # <<>> /\ H = <<>>
        BY <1>3, <2>1, <2>2, <2>3, <3>1, <4>1 DEF G, H, Q, C
      <4>3. Joined(G, <<Head(Q)>>, Tail(Q), C) = Joined(G, <<>>, Q, C)
        BY <1>p, <4>2, JoinedFetched
      <4> QED
        BY <1>p, <4>2, <4>3
    <3>2. CASE x # s
      BY <1>2, <1>3, <2>1, <2>2, <2>3, <3>2
    <3> QED
      BY <3>1, <3>2
  <2> QED
    BY <1>5, <2>1, <2>4
<1>10. ASSUME NEW x \in Subs, Yield(x)
       PROVE  LossOf(Stream(s)', sent'[s], dropped'[s], got'[s])
  <2> DEFINE reading == [event |-> hand[x][1], dropped |-> dropped[x]]
  <2>1. /\ got' = [got EXCEPT ![x] = Append(got[x], reading)]
        /\ hand' = [hand EXCEPT ![x] = <<>>]
        /\ client[x] = "holding"
        /\ UNCHANGED <<ready, sent, dropped, queue>>
    BY <1>10 DEF Yield, busVars, Announced
  <2>2. hand \in [Subs -> Seq(Event)] /\ got \in [Subs -> Seq(Reading)]
    BY DEF TypeOK, Reading
  <2>3. CASE x # s
    <3>1. got'[s] = got[s] /\ hand'[s] = hand[s] /\ Reads(s)' = Reads(s)
      BY <2>1, <2>2, <2>3 DEF Reads
    <3>2. Stream(s)' = Stream(s)
      BY <1>2, <1>3, <2>1, <3>1
    <3> QED
      BY <1>1, <2>1, <3>1, <3>2
  <2>4. CASE x = s
    <3>1. Len(hand[s]) = 1 /\ hand[s][1] \in Event
      <4>1. Len(hand[s]) = 1
        BY <2>1, <2>4 DEF TypeOK
      <4>2. 1 \in 1..Len(hand[s])
        BY <4>1
      <4> QED
        BY <1>2, <4>1, <4>2, ElementOfSeq
    <3>2. reading \in Reading /\ reading.event = hand[s][1] /\ reading.dropped = dropped[s]
      BY <1>4, <2>4, <3>1 DEF Reading
    <3> HIDE DEF reading
    <3> DEFINE old == got[s]
               new == got'[s]
    <3>3. new = Append(old, reading) /\ old \in Seq(Reading)
      BY <1>2, <2>1, <2>2, <2>4
    <3>4. Reads(s)' = [i \in DOMAIN new |-> new[i].event] /\ Reads(s) = [i \in DOMAIN old |-> old[i].event]
      BY DEF Reads
    <3>5. LossOf(Stream(s), sent[s], dropped[s], old)
      BY <1>1
    <3>o. Len(Reads(s)) = Len(old) /\ \A i \in 1..Len(old) : Stream(s)[i] = old[i].event
      BY <1>2
    <3> HIDE DEF old, new
    <3>6. /\ Len(new) = Len(old) + 1 /\ Len(old) \in Nat /\ DOMAIN new = 1..Len(new) /\ DOMAIN old = 1..Len(old)
          /\ \A i \in 1..Len(new) : new[i] = IF i <= Len(old) THEN old[i] ELSE reading
      BY <3>2, <3>3
    <3>7. Reads(s)' = Append(Reads(s), hand[s][1])
      <4> DEFINE R  == Reads(s)
                 R2 == Reads(s)'
                 e  == hand[s][1]
      <4>1. R \in Seq(Event) /\ Len(R) = Len(old) /\ e \in Event
        BY <1>2, <3>1, <3>o
      <4>2. R = [i \in 1..Len(old) |-> old[i].event] /\ R2 = [i \in 1..Len(new) |-> new[i].event]
        BY <3>4, <3>6
      <4>r. reading.event = e
        BY <3>2
      <4> HIDE DEF R, R2, e
      <4>3. /\ Append(R, e) \in Seq(Event) /\ Len(Append(R, e)) = Len(R) + 1
            /\ \A i \in 1..Len(Append(R, e)) : Append(R, e)[i] = IF i <= Len(R) THEN R[i] ELSE e
        BY <4>1, AppendOnce
      <4>4. \A i \in 1..Len(new) : R2[i] = Append(R, e)[i]
        BY <3>6, <4>1, <4>2, <4>3, <4>r
      <4>5. R2 \in Seq(Event) /\ Len(R2) = Len(new)
        <5>1. \A i \in 1..Len(new) : R2[i] \in Event
          <6>1. \A i \in 1..Len(old) : R[i] \in Event
            BY <4>1
          <6> QED
            BY <3>6, <4>1, <4>3, <4>4, <6>1
        <5>2. R2 \in [1..Len(new) -> Event] /\ Len(new) \in Nat
          BY <3>6, <4>2, <5>1
        <5> QED
          BY <5>2
      <4>6. R2 = Append(R, e)
        BY <3>6, <4>1, <4>3, <4>4, <4>5, SeqEqual
      <4> QED
        BY <4>6 DEF R, R2, e
    <3>8. Stream(s)' = Stream(s)
      <4>1. Stream(s)' = Joined(Append(G, H[1]), <<>>, Q, C) /\ Len(H) = 1
        BY <1>3, <2>1, <2>2, <2>4, <3>1, <3>7 DEF G, H, Q, C
      <4>2. Joined(Append(G, H[1]), <<>>, Q, C) = Joined(G, H, Q, C)
        BY <1>p, <4>1, JoinedYielded
      <4> QED
        BY <1>p, <4>1, <4>2
    <3>9. Len(old) + 1 \in 1..Len(Stream(s)) /\ Stream(s)[Len(old) + 1] = reading.event
      <4>1. H[1] \in Event /\ H[1] = reading.event /\ <<>> \in Seq(Event)
            /\ Stream(s) = Joined(Append(G, H[1]), <<>>, Q, C)
        BY <1>3, <2>1, <2>2, <2>4, <3>1, <3>2, <3>7, <3>8 DEF G, H, Q, C
      <4> DEFINE L == Append(G, H[1])
                 e == H[1]
      <4>2. /\ L \in Seq(Event) /\ Len(L) = Len(G) + 1 /\ Len(G) \in Nat
            /\ \A i \in 1..Len(L) : L[i] = IF i <= Len(G) THEN G[i] ELSE e
        BY <1>p, <4>1, AppendOnce
      <4>3. Len(G) = Len(old)
        BY <3>o DEF G
      <4> HIDE DEF L, e
      <4>4. /\ Len(L) <= Len(Joined(L, <<>>, Q, C))
            /\ \A i \in 1..Len(L) : Joined(L, <<>>, Q, C)[i] = L[i]
        <5>1. PICK l \in Seq(Event) : l = L
          BY <4>2
        <5>2. <<>> \in Seq(Event)
          BY <4>1
        <5>3. StartsWith(Joined(l, <<>>, Q, C), l)
          BY <1>p, <5>2, JoinedStarts
        <5> QED
          BY <5>1, <5>3 DEF StartsWith
      <4>5. Len(old) + 1 \in 1..Len(L) /\ L[Len(old) + 1] = e
        BY <4>2, <4>3
      <4>6. Stream(s) = Joined(L, <<>>, Q, C) /\ e = reading.event
        BY <4>1 DEF L, e
      <4>7. Len(Stream(s)) \in Nat
        BY <1>2
      <4> QED
        BY <4>2, <4>4, <4>5, <4>6, <4>7
    <3>10. ASSUME NEW i \in 1..Len(new)
           PROVE  /\ new[i].dropped <= dropped[s]
                  /\ \A p \in 1..Len(sent[s]) : sent[s][p] = new[i].event => p <= i + new[i].dropped
      <4>1. CASE i <= Len(old)
        <5>1. i \in 1..Len(old) /\ new[i] = old[i]
          BY <3>6, <4>1
        <5> QED
          BY <3>5, <5>1 DEF LossOf
      <4>2. CASE ~ (i <= Len(old))
        <5>1. i = Len(old) + 1 /\ new[i] = reading
          BY <3>6, <4>2
        <5> QED
          BY <1>4, <3>2, <3>5, <3>9, <5>1 DEF LossOf, Follows
      <4> QED
        BY <4>1, <4>2
    <3>11. LossOf(Stream(s), sent[s], dropped[s], new)
      BY <3>5, <3>10 DEF LossOf
    <3> QED
      BY <2>1, <3>8, <3>11 DEF new
  <2> QED
    BY <2>3, <2>4
<1>11. ASSUME NEW x \in Subs, Resume(x) \/ Disconnect(x) \/ \E filter \in Filters[x] : Subscribe(x, filter)
       PROVE  UNCHANGED <<got, hand, queue, ready, sent, dropped>>
  BY <1>11 DEF Resume, Disconnect, Subscribe, busVars
<1>12. ASSUME NEW th \in Threads,
              CheckHistory(th) \/ TrimHistory(th) \/ \E type \in Types : Publish(th, type)
       PROVE  UNCHANGED <<got, hand, queue, ready, sent, dropped>>
  BY <1>12 DEF CheckHistory, TrimHistory, Publish, streamVars
<1>13. UNCHANGED vars => UNCHANGED <<got, hand, queue, ready, sent, dropped>>
  BY DEF vars, busVars, streamVars
<1> QED
  BY <1>6, <1>7, <1>8, <1>9, <1>10, <1>11, <1>12, <1>13 DEF Next, PublishStep, StreamStep

-----------------------------------------------------------------------------
(* The whole invariant.                                                    *)
LEMMA InvInit == Init => BusInv
BY TypeInit, HistoryInit, StreamsInit, PublishInit, SentInit, LossInit DEF BusInv

LEMMA InvInductive == BusInv /\ [Next]_vars => BusInv'
<1> SUFFICES ASSUME BusInv, [Next]_vars
             PROVE  BusInv'
  OBVIOUS
<1>1. TypeOK'
  BY TypeStep DEF BusInv
<1> QED
  BY <1>1, HistoryStep, StreamsStep, PublishStepInv, SentStep, LossStep DEF BusInv

(* Every publish interleaves with every callback, stream and sweep: the    *)
(* bus keeps its invariant.                                                *)
THEOREM BusKeepsItsInvariant == Spec => []BusInv
BY InvInit, InvInductive, PTL DEF Spec

(* Queues never exceed their capacity, a stream that holds an event holds  *)
(* exactly one, and every value stays what the code keeps there.           *)
THEOREM TypesHold == Spec => []TypeOK
<1>1. BusInv => TypeOK
  BY DEF BusInv
<1> QED
  BY <1>1, BusKeepsItsInvariant, PTL

-----------------------------------------------------------------------------
(* What the invariant says in the terms of the properties.                 *)
LEMMA RecentHistory ==
  ASSUME TypeOK, HistoryInv
  PROVE  HistoryIsRecent
<1> DEFINE trimming == {th \in Threads : pub[th].step \in {"check", "trim"}}
           enough   == IF count < HistorySize THEN count ELSE HistorySize
<1>1. /\ Checking \cup Popping \subseteq trimming /\ trimming \subseteq Threads
      /\ Popping \subseteq Threads
  BY DEF Checking, Popping
<1>2. IsFiniteSet(Threads)
  BY ThreadAssumption, FS_AddElement DEF Threads
<1>3. IsFiniteSet(trimming) /\ IsFiniteSet(Popping)
  BY <1>1, <1>2, FS_Subset
<1>4. /\ Cardinality(Checking \cup Popping) <= Cardinality(trimming)
      /\ Cardinality(trimming) \in Nat /\ Cardinality(Popping) \in Nat /\ Cardinality(Threads) \in Nat
      /\ Cardinality(Checking \cup Popping) \in Nat
  BY <1>1, <1>2, <1>3, FS_Subset, FS_CardinalityType
<1>5. Len(history) \in Nat /\ DOMAIN history = 1..Len(history) /\ HistorySize \in Nat /\ enough \in Nat
  BY SizeAssumption DEF TypeOK
<1> HIDE DEF trimming, enough
<1>6. Len(history) <= HistorySize + Cardinality(trimming)
  BY <1>4, <1>5 DEF HistoryInv
<1>7. Len(history) > enough - Cardinality(Threads)
  BY <1>4, <1>5 DEF HistoryInv, enough
<1> QED
  BY <1>5, <1>6, <1>7 DEF HistoryIsRecent, HistoryInv, trimming, enough

(* An event that was sent once has one position.                           *)
LEMMA PositionOfEvent ==
  ASSUME TypeOK, SentInv, NEW s \in Subs, NEW event, Occurs(event, sent[s])
  PROVE  /\ Position(s, event) \in 1..Len(sent[s])
         /\ sent[s][Position(s, event)] = event
<1>1. DOMAIN sent[s] = 1..Len(sent[s])
  BY DEF TypeOK
<1>2. \E i \in DOMAIN sent[s] : sent[s][i] = event
  BY <1>1 DEF Occurs
<1> QED
  BY <1>1, <1>2 DEF Position

LEMMA NothingLost ==
  ASSUME TypeOK, SentInv, LossInv
  PROVE  NothingIsLostUncounted
<1> SUFFICES ASSUME NEW s \in Subs
             PROVE  /\ Len(sent[s]) = Len(Stream(s)) + dropped[s]
                    /\ \A i, j \in DOMAIN Stream(s) :
                         i < j => Position(s, Stream(s)[i]) < Position(s, Stream(s)[j])
  BY DEF NothingIsLostUncounted
<1> DEFINE all == Stream(s)
           origin == sent[s]
<1>1. Follows(all, origin, dropped[s])
  BY DEF LossInv
<1>2. all \in Seq(Event)
  BY StreamIs
<1> HIDE DEF all
<1>3. DOMAIN all = 1..Len(all)
  BY <1>2
<1>4. \A i \in 1..Len(all) : /\ Position(s, all[i]) \in 1..Len(origin)
                             /\ origin[Position(s, all[i])] = all[i]
  BY <1>1, PositionOfEvent DEF Follows
<1> HIDE DEF origin
<1>5. ASSUME NEW i \in 1..Len(all), NEW j \in 1..Len(all), i < j
      PROVE  Position(s, all[i]) < Position(s, all[j])
  BY <1>1, <1>4, <1>5 DEF Follows
<1>6. Len(origin) = Len(all) + dropped[s]
  BY <1>1 DEF Follows
<1> QED
  BY <1>3, <1>5, <1>6 DEF all, origin

LEMMA GapsAnnounced ==
  ASSUME TypeOK, SentInv, LossInv
  PROVE  GapsAreAnnounced
<1> SUFFICES ASSUME NEW s \in Subs, NEW i \in DOMAIN got[s]
             PROVE  /\ Position(s, got[s][i].event) - i <= got[s][i].dropped
                    /\ got[s][i].dropped <= dropped[s]
  BY DEF GapsAreAnnounced
<1>1. /\ Len(got[s]) <= Len(Stream(s)) /\ Stream(s) \in Seq(Event)
      /\ \A k \in 1..Len(got[s]) : Stream(s)[k] = got[s][k].event
      /\ got[s] \in Seq(Reading)
  BY StreamIs
<1>2. i \in 1..Len(got[s]) /\ got[s][i] \in Reading /\ i \in 1..Len(Stream(s))
  BY <1>1
<1>3. got[s][i].dropped \in Nat
  BY <1>2 DEF Reading
<1>4. Occurs(got[s][i].event, sent[s])
  BY <1>1, <1>2 DEF LossInv, Follows
<1> DEFINE p == Position(s, got[s][i].event)
<1>5. p \in 1..Len(sent[s]) /\ sent[s][p] = got[s][i].event
  BY <1>4, PositionOfEvent
<1> HIDE DEF p
<1>6. p <= i + got[s][i].dropped /\ got[s][i].dropped <= dropped[s]
  BY <1>2, <1>5 DEF LossInv
<1>7. p \in Int /\ i \in Int
  BY <1>2, <1>5
<1>8. p - i <= got[s][i].dropped
  BY <1>3, <1>6, <1>7
<1> QED
  BY <1>6, <1>8 DEF p

LEMMA LagOnce ==
  ASSUME TypeOK, SentInv
  PROVE  LagIsReportedOnce
<1> SUFFICES ASSUME NEW s \in Subs, NEW x \in Subs
             PROVE  LET reports == {i \in DOMAIN sent[x] : sent[x][i].type = Lagging /\ sent[x][i].by = s}
                    IN  /\ Cardinality(reports) <= 1
                        /\ dropped[s] < LagAt => reports = {}
  BY DEF LagIsReportedOnce
<1> DEFINE reports == {i \in DOMAIN sent[x] : sent[x][i].type = Lagging /\ sent[x][i].by = s}
<1>1. DOMAIN sent[x] = 1..Len(sent[x]) /\ \A i \in 1..Len(sent[x]) : sent[x][i] \in Event
  BY DEF TypeOK
<1>2. \A i \in reports : sent[x][i] = [type |-> Lagging, by |-> s, no |-> LagAt]
  BY <1>1, FilterAssumption DEF Event
<1>3. \A i, j \in reports : i = j
  BY <1>1, <1>2 DEF SentInv, Distinct
<1>4. Cardinality(reports) <= 1
  <2>1. CASE reports = {}
    BY <2>1, FS_EmptySet
  <2>2. CASE reports # {}
    <3>1. PICK i \in reports : TRUE
      BY <2>2
    <3>2. reports = {i}
      BY <1>3, <3>1
    <3>3. Cardinality({i}) = 1
      BY FS_Singleton
    <3> QED
      BY <3>2, <3>3
  <2> QED
    BY <2>1, <2>2
<1>5. ASSUME dropped[s] < LagAt
      PROVE  reports = {}
  <2>1. ASSUME NEW i \in reports
        PROVE  FALSE
    <3>1. dropped[s] >= LagAt
      <4>1. i \in 1..Len(sent[x]) /\ sent[x][i].type = Lagging /\ sent[x][i].by = s
        BY <1>1
      <4>2. MadeBy(sent[x][i], count, dropped)
        BY <4>1 DEF SentInv, Made
      <4> QED
        BY <4>1, <4>2 DEF MadeBy
    <3>2. dropped[s] \in Nat /\ LagAt \in Nat
      BY SizeAssumption DEF TypeOK
    <3> QED
      BY <1>5, <3>1, <3>2
  <2> QED
    BY <2>1
<1> QED
  BY <1>4, <1>5

-----------------------------------------------------------------------------
(* The properties of the runs, for any number of subscribers, sweepers and *)
(* events, and any queue, history and lag limit.                           *)

(* EventBus.recent: publishers that compare and pop unlocked leave no hole *)
(* in the history, exceed its size by at most one event each and fall      *)
(* short of it by less than their number.                                  *)
THEOREM HistoryStaysRecent == Spec => []HistoryIsRecent
<1>1. BusInv => HistoryIsRecent
  BY RecentHistory DEF BusInv
<1> QED
  BY <1>1, BusKeepsItsInvariant, PTL

(* EventBus._enqueue and the X-Dropped count: an event sent to a stream is *)
(* yielded in order, on its way, or counted, and the count a client reads  *)
(* with an event covers every gap before it.                               *)
THEOREM LossIsAlwaysReported == Spec => []LossIsReported
<1>1. BusInv => LossIsReported
  BY NothingLost, GapsAnnounced DEF BusInv, LossIsReported
<1> QED
  BY <1>1, BusKeepsItsInvariant, PTL

(* EventBus._enqueue: a lagging subscriber is reported at its LagAt-th     *)
(* loss and never again, to no subscriber twice.                           *)
THEOREM LagReportedOnce == Spec => []LagIsReportedOnce
<1>1. BusInv => LagIsReportedOnce
  BY LagOnce DEF BusInv
<1> QED
  BY <1>1, BusKeepsItsInvariant, PTL
=============================================================================
