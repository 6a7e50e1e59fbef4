------------------------- MODULE StreamRelayProofs --------------------------
(***************************************************************************)
(* What holds of StreamRelay for any number of tabs, events and visits and *)
(* any size of the queues: it implements StreamDelivery.                   *)
(***************************************************************************)
EXTENDS StreamRelayProperties, TLAPS

(***************************************************************************)
(* The run and its producers.  An event is in the journal or its write     *)
(* failed; the worker is busy with the latest one, Stop with its own.      *)
(***************************************************************************)
Producers == {"worker", "stop"}

Busy == {"journaled", "read", "note", "put", "broadcast", "full"}

\* The number of the worker's event is taken and not noted yet.
Unnoted == {"journaled", "note"}

USE DEF Unnoted

Dead == producer["stop"].pc = "dead"

RunIsNumbered ==
    /\ journal \cup unwritten = 1..produced
    /\ final \in {0, produced}
    /\ latest \in journal \cup {0} /\ lastEventId \in journal \cup {0}
    /\ producer["stop"].noted \in journal \cup {0}

ProducersAreBusy ==
    /\ producer["worker"].pc # "read"
    /\ producer["worker"].pc \in Busy =>
          producer["worker"].item = produced /\ produced # 0
    /\ producer["worker"].pc \in Unnoted =>
          producer["worker"].noted = Seq0(produced)
    /\ producer["worker"].pc = "gone" => final # 0
    /\ producer["stop"].pc \in Busy => producer["stop"].item = StopEvent /\ stopped
    /\ producer["stop"].pc # "gone"
    /\ \A w \in Producers :
          /\ producer[w].at \subseteq producer[w].todo
          /\ producer[w].todo \subseteq subscribers
          /\ producer[w].pc \notin {"broadcast", "full"} => producer[w].todo = {}

\* The channel is taken out of STREAMS by the worker's end, a Stop or a death.
DetachedForAReason ==
    /\ attached => ~stopped /\ ~Dead /\ producer["worker"].pc \notin {"gone", "dead"}
    /\ ~attached => stopped \/ Dead \/ producer["worker"].pc = "gone"
    /\ producer["worker"].pc = "dead" <=> Dead

(***************************************************************************)
(* The channel.  The items of a queue are in the order of the events, and  *)
(* the buffer has all that were put since its first one.                   *)
(***************************************************************************)
Increasing(q) ==
    \A i, j \in 1..Len(q) : i < j /\ q[i] # StopEvent /\ q[j] # StopEvent => q[i] < q[j]

\* The event that is not put yet.
Ahead == IF producer["worker"].pc \in {"journaled", "note", "put"} THEN {produced} ELSE {}

\* The item of Stop, once there is one.
Stops == IF stopped THEN {StopEvent} ELSE {}

PutSoFar == (1..produced \ Ahead) \cup Stops

BufferIsRecent ==
    ~Dead =>
        /\ Increasing(buffer) /\ Range(buffer) \subseteq PutSoFar
        /\ \A e \in Range(buffer), f \in journal \ Ahead : e <= f => f \in Range(buffer)

BufferHasAnId ==
    /\ lastEventId = 0 => Troubles # {} \/ (buffer = <<>> /\ evicted = 0)
    /\ attached /\ producer["worker"].pc \in Unnoted => lastEventId < produced

(***************************************************************************)
(* The tabs.  A tab has shown, or missed, all up to its cursor.            *)
(***************************************************************************)
Served == {"replay", "drain"}

ViewIsUpToCursor(t) ==
    /\ Range(shown[t]) \subseteq journal
    /\ dropped[t] \cup missed[t] \subseteq 1..produced \cup {StopEvent}
    /\ tab[t].cursor \in journal \cup {0}
    /\ tab[t].pc # "over" =>
          /\ final = 0 \/ tab[t].cursor # final
          /\ Range(shown[t]) \subseteq 1..tab[t].cursor
          /\ t \notin misled =>
                \A f \in journal : f <= tab[t].cursor => f \in Range(shown[t]) \cup missed[t]

\* No tab knows of an event before its number is noted, while the run goes on.
NotAhead(t) ==
    producer["worker"].pc \in Unnoted =>
        /\ attached => /\ tab[t].cursor < produced /\ tab[t].last < produced
                       /\ tab[t].bound < produced
        /\ tab[t].pc = "asking" => tab[t].cursor < produced

VisitIsInOrder(t) ==
    /\ t \in subscribers <=> tab[t].pc \in Served
    /\ tab[t].pc \in {"ended", "reading"} => ~attached
    /\ tab[t].pc \notin Served => queue[t] = <<>>
    /\ tab[t].fresh => /\ tab[t].pc \in {"away", "asking", "ended", "replay"}
                       /\ tab[t].cursor = 0 /\ tab[t].bound = 0 /\ tab[t].replay = {}
    /\ tab[t].pc = "asking" => ~Dead
    /\ tab[t].last \in journal \cup {0} /\ tab[t].bound <= produced
    /\ tab[t].pc = "replay" /\ tab[t].evicted > 0 /\ tab[t].last = 0 => Troubles # {}
    /\ tab[t].pc = "drain" => tab[t].replay \subseteq journal \cap 1..tab[t].bound

\* What a tab reads from the journal follows its cursor without a hole.
ReadingFollows(t) ==
    tab[t].pc = "reading" =>
        /\ tab[t].replay \subseteq journal
        /\ \A e \in tab[t].replay : e > tab[t].cursor
        /\ \A e \in tab[t].replay, f \in journal :
              tab[t].cursor < f /\ f < e => f \in tab[t].replay
        /\ Troubles = {} => final \in tab[t].replay

(***************************************************************************)
(* What a served tab has coming: the journal up to the bound, then the     *)
(* queue, then what the worker is about to put; the rest was dropped.      *)
(***************************************************************************)
Bound(t) ==
    IF tab[t].pc = "drain" THEN tab[t].bound
    ELSE IF tab[t].fresh THEN 0 ELSE DedupBound(t)

Waiting(t) ==
    \/ producer["worker"].pc \in {"journaled", "note", "put"}
    \/ producer["worker"].pc \in {"broadcast", "full"} /\ t \in producer["worker"].todo

Pending(t) == IF Waiting(t) THEN {produced} ELSE {}

QueueIsOrdered(t) ==
    /\ Increasing(queue[t])
    /\ Range(queue[t]) \subseteq (1..produced \ Pending(t)) \cup Stops

NothingIsLost(t) ==
    \A f \in journal : f > tab[t].cursor /\ f > Bound(t) =>
        f \in dropped[t] \cup Range(queue[t]) \cup Pending(t)

NothingComesTwice(t) ==
    \A e \in journal \cap (Range(queue[t]) \cup Pending(t)) :
        e > Bound(t) => e > tab[t].cursor

Follows(t) ==
    tab[t].pc \in Served => 
        /\ QueueIsOrdered(t)
        /\ t \notin misled =>
              /\ NothingIsLost(t) /\ NothingComesTwice(t)
              /\ tab[t].pc = "drain" =>
                    tab[t].replay = {f \in journal : tab[t].cursor < f /\ f <= tab[t].bound}
              /\ tab[t].pc = "replay" => tab[t].cursor <= tab[t].last

TabInv(t) ==
    /\ ViewIsUpToCursor(t) /\ NotAhead(t) /\ VisitIsInOrder(t)
    /\ ReadingFollows(t) /\ Follows(t)

ChannelInv == RunIsNumbered /\ DetachedForAReason /\ BufferIsRecent /\ BufferHasAnId

RelayInv == ChannelInv /\ ProducersAreBusy /\ \A t \in Tabs : TabInv(t)
-----------------------------------------------------------------------------
(***************************************************************************)
(* Sequences: what an item at the end adds, and what the head takes away.  *)
(***************************************************************************)
LEMMA RangeOfAppend ==
    ASSUME NEW S, NEW s \in Seq(S), NEW e \in S
    PROVE  Range(Append(s, e)) = Range(s) \cup {e}
<1> DEFINE a == Append(s, e)
<1>1. /\ Len(s) \in Nat /\ DOMAIN s = 1..Len(s) /\ DOMAIN a = 1..(Len(s) + 1)
      /\ a[Len(s) + 1] = e /\ \A i \in 1..Len(s) : a[i] = s[i]
    OBVIOUS
<1>2. ASSUME NEW x \in Range(a) PROVE x \in Range(s) \cup {e}
    BY <1>1 DEF Range
<1>3. e \in Range(a)
    BY <1>1 DEF Range
<1>4. ASSUME NEW x \in Range(s) PROVE x \in Range(a)
    <2>1. PICK i \in 1..Len(s) : s[i] = x
        BY <1>1 DEF Range
    <2>2. i \in 1..(Len(s) + 1) /\ a[i] = x
        BY <1>1, <2>1
    <2> QED BY <1>1, <2>2 DEF Range
<1> QED BY <1>2, <1>3, <1>4

\* The items of a queue are its head and those of its tail.
LEMMA RangeOfTail ==
    ASSUME NEW S, NEW s \in Seq(S), s # <<>>
    PROVE  /\ Tail(s) \in Seq(S) /\ Head(s) \in S /\ Len(Tail(s)) = Len(s) - 1
           /\ Range(s) = {Head(s)} \cup Range(Tail(s))
<1> DEFINE a == Tail(s)
<1>1. /\ Len(s) \in Nat /\ Len(s) >= 1 /\ DOMAIN s = 1..Len(s) /\ DOMAIN a = 1..(Len(s) - 1)
      /\ Head(s) = s[1] /\ \A i \in 1..(Len(s) - 1) : a[i] = s[i + 1]
    OBVIOUS
<1>2. Tail(s) \in Seq(S) /\ Head(s) \in S /\ Len(Tail(s)) = Len(s) - 1
    OBVIOUS
<1>3. ASSUME NEW x \in Range(s) PROVE x \in {Head(s)} \cup Range(a)
    <2>1. PICK i \in 1..Len(s) : s[i] = x
        BY <1>1 DEF Range
    <2>2. CASE i = 1
        BY <1>1, <2>1, <2>2
    <2>3. CASE i # 1
        <3>1. i - 1 \in 1..(Len(s) - 1) /\ a[i - 1] = x
            BY <1>1, <2>1, <2>3
        <3> QED BY <1>1, <3>1 DEF Range
    <2> QED BY <2>2, <2>3
<1>4. Head(s) \in Range(s)
    <2>1. 1 \in 1..Len(s)
        BY <1>1
    <2> QED BY <1>1, <2>1 DEF Range
<1>5. ASSUME NEW x \in Range(a) PROVE x \in Range(s)
    <2>1. PICK i \in 1..(Len(s) - 1) : a[i] = x
        BY <1>1 DEF Range
    <2>2. i + 1 \in 1..Len(s) /\ s[i + 1] = x
        BY <1>1, <2>1
    <2> QED BY <1>1, <2>2 DEF Range
<1> QED BY <1>2, <1>3, <1>4, <1>5

\* An empty queue has no items, in any order.
LEMMA RangeOfNone == Range(<<>>) = {} /\ Increasing(<<>>)
BY DEF Range, Increasing

\* A queue stays in order when an item above all its items, or that of Stop, is appended.
LEMMA IncreasingAppend ==
    ASSUME NEW s \in Seq(Items), NEW e \in Items, Increasing(s),
           e = StopEvent \/ \A f \in Range(s) : f = StopEvent \/ f < e
    PROVE  Increasing(Append(s, e))
<1> DEFINE a == Append(s, e)
<1>1. /\ Len(s) \in Nat /\ Len(a) = Len(s) + 1 /\ DOMAIN s = 1..Len(s)
      /\ a[Len(s) + 1] = e /\ \A i \in 1..Len(s) : a[i] = s[i]
    OBVIOUS
<1> SUFFICES ASSUME NEW i \in 1..Len(a), NEW j \in 1..Len(a), i < j,
                    a[i] # StopEvent, a[j] # StopEvent
             PROVE  a[i] < a[j]
    BY DEF Increasing
<1>2. CASE j = Len(s) + 1
    <2>1. i \in 1..Len(s) /\ a[i] = s[i] /\ a[j] = e
        BY <1>1, <1>2
    <2>2. s[i] \in Range(s)
        BY <1>1, <2>1 DEF Range
    <2> QED BY <2>1, <2>2
<1>3. CASE j # Len(s) + 1
    <2>1. i \in 1..Len(s) /\ j \in 1..Len(s)
        BY <1>1, <1>3
    <2> QED BY <1>1, <2>1 DEF Increasing
<1> QED BY <1>2, <1>3

\* A queue stays in order when its head is taken, and the head was its least event.
LEMMA IncreasingTail ==
    ASSUME NEW s \in Seq(Items), s # <<>>, Increasing(s)
    PROVE  /\ Increasing(Tail(s))
           /\ Head(s) # StopEvent =>
                 \A f \in Range(Tail(s)) : f = StopEvent \/ Head(s) < f
<1> DEFINE a == Tail(s)
<1>1. /\ Len(s) \in Nat /\ Len(s) >= 1 /\ DOMAIN a = 1..(Len(s) - 1) /\ Len(a) = Len(s) - 1
      /\ Head(s) = s[1] /\ \A i \in 1..(Len(s) - 1) : a[i] = s[i + 1]
    OBVIOUS
<1>2. ASSUME NEW i \in 1..Len(a), NEW j \in 1..Len(a), i < j,
             a[i] # StopEvent, a[j] # StopEvent
      PROVE  a[i] < a[j]
    <2>1. i + 1 \in 1..Len(s) /\ j + 1 \in 1..Len(s) /\ i + 1 < j + 1
        BY <1>1, <1>2
    <2>2. s[i + 1] # StopEvent /\ s[j + 1] # StopEvent /\ a[i] = s[i + 1] /\ a[j] = s[j + 1]
        BY <1>1, <1>2
    <2> QED BY <2>1, <2>2 DEF Increasing
<1>3. ASSUME Head(s) # StopEvent, NEW f \in Range(a), f # StopEvent PROVE Head(s) < f
    <2>1. PICK i \in 1..(Len(s) - 1) : a[i] = f
        BY <1>1 DEF Range
    <2>2. 1 \in 1..Len(s) /\ i + 1 \in 1..Len(s) /\ 1 < i + 1 /\ s[i + 1] = f
        BY <1>1, <2>1
    <2> QED BY <1>1, <1>3, <2>2 DEF Increasing
<1> QED BY <1>2, <1>3 DEF Increasing
-----------------------------------------------------------------------------
(***************************************************************************)
(* Types.                                                                  *)
(***************************************************************************)
\* A producer at work has an item.
AtWork(w) == producer[w].pc \in Busy \/ producer[w].at # {}

Typed == TypeOK /\ \A w \in Producers : AtWork(w) => producer[w].item \in Items

\* Events are numbered from 1; the item of Stop is none of them.
LEMMA NumberTypes ==
    /\ MaxEvents \in Nat /\ Cap \in Nat /\ Cap >= 1 /\ StopEvent \in Items
    /\ Events \cup {0} = 0..MaxEvents /\ Events \subseteq Nat /\ Events \subseteq Items
    /\ StopEvent \notin Events /\ 0 \notin Items /\ Items \subseteq Nat
BY RelayAssumption DEF StopEvent, Items, Events

\* The local variables of a tab that is not served are well typed.
LEMMA AwayType ==
    ASSUME NEW c \in Events \cup {0}
    PROVE  Away(c) \in TabType /\ \A x \in {"ended", "over", "restoring"} :
                                      [Away(c) EXCEPT !.pc = x] \in TabType
BY DEF Away, TabType

\* An id that goes out, and the cursor it moves, is an event or 0.
LEMMA CursorType ==
    ASSUME TypeOK, NEW t \in Tabs, NEW e \in Items
    PROVE  Seq0(e) \in Events \cup {0} /\ SentAs(e) \in Events \cup {0}
           /\ Cursor(t, e) \in Events \cup {0}
<1>1. tab[t].cursor \in Events \cup {0} /\ latest \in Events \cup {0}
    BY NumberTypes DEF TypeOK, TabType
<1>2. Seq0(e) \in Events \cup {0}
    BY DEF Seq0, TypeOK
<1> QED BY <1>1, <1>2 DEF SentAs, Cursor

\* A client that shows an event has a well-typed view.
LEMMA ShowsType ==
    ASSUME TypeOK, NEW t \in Tabs, NEW e \in Items, Shows(t, e)
    PROVE  shown' \in [Tabs -> Seq(Events)] /\ missed' \in [Tabs -> SUBSET Items]
<1>1. shown' \in [Tabs -> Seq(Events)]
    BY DEF Shows, TypeOK
<1>2. dropped[t] \subseteq Items /\ missed[t] \subseteq Items
    BY DEF TypeOK
<1> QED BY <1>1, <1>2 DEF Shows, TypeOK

\* A handler that leaves keeps the queues within their bound and the producers well typed.
LEMMA LeaveType ==
    ASSUME TypeOK, NEW t \in Tabs, Leave(t)
    PROVE  /\ subscribers' \subseteq Tabs /\ ghosts' \in Nat
           /\ queue' \in [Tabs -> Seq(Items)] /\ \A u \in Tabs : Len(queue'[u]) <= Cap
           /\ producer' \in [Producers -> ProducerType]
<1>0. /\ subscribers \subseteq Tabs /\ ghosts \in Nat /\ queue \in [Tabs -> Seq(Items)]
      /\ \A u \in Tabs : Len(queue[u]) <= Cap
      /\ producer \in [Producers -> ProducerType]
    BY DEF TypeOK, Producers
<1>1. subscribers' \subseteq Tabs /\ ghosts' \in Nat
    <2>1. subscribers' = subscribers \ {t} /\ ghosts' \in {ghosts, ghosts + 1}
        BY DEF Leave
    <2>2. ghosts + 1 \in Nat
        BY <1>0
    <2> QED BY <1>0, <2>1, <2>2
<1>2. queue' \in [Tabs -> Seq(Items)] /\ \A u \in Tabs : Len(queue'[u]) <= Cap
    <2>1. <<>> \in Seq(Items) /\ Len(<<>>) <= Cap
        BY NumberTypes
    <2>2. queue' = [queue EXCEPT ![t] = <<>>]
        BY DEF Leave
    <2>3. queue' \in [Tabs -> Seq(Items)]
        BY <1>0, <2>1, <2>2
    <2>4. ASSUME NEW u \in Tabs PROVE Len(queue'[u]) <= Cap
        BY <1>0, <2>1, <2>2
    <2> QED BY <2>3, <2>4
<1>3. ASSUME NEW w \in Producers PROVE producer'[w] \in ProducerType
    <2>1. producer[w] \in ProducerType
        BY <1>0
    <2>2. producer'[w] = [producer[w] EXCEPT !.todo = @ \ {t}, !.at = @ \ {t},
                              !.pc = IF t \in producer[w].at THEN "broadcast" ELSE @]
        BY <1>0 DEF Leave
    <2> QED BY <2>1, <2>2 DEF ProducerType
<1>4. DOMAIN producer' = Producers /\ producer' = [w \in Producers |-> producer'[w]]
    BY <1>0 DEF Leave
<1> QED BY <1>1, <1>2, <1>3, <1>4

\* The bounds of a replay are events or 0.
LEMMA BoundType ==
    ASSUME TypeOK, NEW t \in Tabs
    PROVE  /\ After(t) \in Events \cup {0} /\ ReplayMax(t) \in Events \cup {0}
           /\ DedupBound(t) \in Events \cup {0}
<1>1. tab[t].cursor \in 0..MaxEvents /\ tab[t].first \in 0..MaxEvents /\ tab[t].last \in 0..MaxEvents
    BY NumberTypes DEF TypeOK, TabType
<1>2. After(t) \in 0..MaxEvents /\ ReplayMax(t) \in 0..MaxEvents
    BY <1>1, NumberTypes DEF After, ReplayMax
<1> QED BY <1>2, NumberTypes DEF DedupBound

\* The run begins well typed.
LEMMA InitType == Init => TypeOK
<1> SUFFICES ASSUME Init PROVE TypeOK
    OBVIOUS
<1>1. NoProducer \in ProducerType
    BY DEF NoProducer, ProducerType
<1>2. tab \in [Tabs -> TabType]
    <2>1. 0 \in Events \cup {0}
        OBVIOUS
    <2>2. ASSUME NEW t \in Tabs PROVE [Away(0) EXCEPT !.fresh = (t = Sender)] \in TabType
        BY DEF Away, TabType
    <2> QED BY <2>2 DEF Init
<1>3. due \in Budget
    BY RelayAssumption DEF Init
<1>4. queue \in [Tabs -> Seq(Items)] /\ \A t \in Tabs : Len(queue[t]) <= Cap
    <2>1. <<>> \in Seq(Items) /\ Len(<<>>) <= Cap
        BY NumberTypes
    <2> QED BY <2>1 DEF Init
<1>5. /\ shown \in [Tabs -> Seq(Events)] /\ buffer \in Seq(Items) /\ Len(buffer) <= Cap
      /\ dropped \in [Tabs -> SUBSET Items] /\ missed \in [Tabs -> SUBSET Items]
      /\ producer \in [Producers -> ProducerType]
    BY <1>1, NumberTypes DEF Init, Producers
<1> QED BY <1>2, <1>3, <1>4, <1>5, NumberTypes DEF Init, TypeOK, Producers

\* The worker, Stop and the channel.
LEMMA ProducersType ==
    ASSUME TypeOK, Typed, NEW w \in Producers,
           \/ JournalEvent \/ SetLatest \/ Stop \/ ReadLatest(w) \/ NoteLastEventId(w)
           \/ PutUnderLock(w) \/ PutDone(w) \/ Detach \/ Unsubscribe \/ Die
           \/ \E t \in Tabs : PutInQueue(w, t) \/ DropOldest(w, t)
    PROVE  TypeOK'
<1> USE NumberTypes
<1>0. /\ NoProducer \in ProducerType /\ producer \in [Producers -> ProducerType]
      /\ producer[w] \in ProducerType /\ producer["worker"] \in ProducerType /\ due \in Budget
      /\ "worker" \in Producers /\ "stop" \in Producers
      /\ TypeOK /\ producer[w].item \in Items \cup {0}
      /\ producer[w].pc \in {"put", "broadcast"} => producer[w].item \in Items
    BY DEF NoProducer, ProducerType, Typed, TypeOK, Producers, Busy, AtWork
<1>1. ASSUME JournalEvent PROVE TypeOK'
    <2>1. produced + 1 \in Events /\ due.events \in 1..MaxEvents
        BY <1>0, <1>1 DEF JournalEvent, TypeOK, Budget, Events
    <2>2. due' \in Budget
        BY <1>0, <1>1 DEF JournalEvent, Budget
    <2>3. journal' \subseteq Events /\ unwritten' \subseteq Events /\ latest' \in 0..MaxEvents
          /\ produced' \in 0..MaxEvents /\ final' \in 0..MaxEvents
        BY <1>1, <2>1 DEF JournalEvent, TypeOK
    <2>4. producer' \in [Producers -> ProducerType]
        <3> DEFINE e == produced + 1
                   p == [NoProducer EXCEPT !.pc = IF e \in journal' THEN "journaled" ELSE "note",
                            !.item = e, !.noted = IF e \in journal' THEN e ELSE 0]
        <3>1. p \in ProducerType
            BY <2>1 DEF NoProducer, ProducerType, Items
        <3>2. producer' = [producer EXCEPT !["worker"] = p]
            BY <1>1 DEF JournalEvent
        <3> QED BY <1>0, <3>1, <3>2
    <2> QED BY <1>1, <2>2, <2>3, <2>4 DEF JournalEvent, TypeOK, channel, views, Producers
<1>2. ASSUME Stop PROVE TypeOK'
    <2>1. due' \in Budget
        BY <1>0, <1>2 DEF Stop, Budget
    <2>2. producer' \in [Producers -> ProducerType]
        <3> DEFINE p == [NoProducer EXCEPT !.pc = "read", !.item = StopEvent]
        <3>1. p \in ProducerType
            BY DEF NoProducer, ProducerType
        <3>2. producer' = [producer EXCEPT !["stop"] = p]
            BY <1>2 DEF Stop
        <3> QED BY <1>0, <3>1, <3>2
    <2> QED BY <1>2, <2>1, <2>2 DEF Stop, TypeOK, run, channel, views, Producers
<1>3. ASSUME ReadLatest(w) PROVE TypeOK'
    <2>1. producer' \in [Producers -> ProducerType]
        BY <1>0, <1>3 DEF ReadLatest, ProducerType, TypeOK
    <2> QED BY <1>3, <2>1 DEF ReadLatest, TypeOK, run, channel, views, Producers
<1>4. ASSUME NoteLastEventId(w) PROVE TypeOK'
    <2>1. producer' \in [Producers -> ProducerType]
        BY <1>0, <1>4 DEF NoteLastEventId, ProducerType
    <2>2. lastEventId' \in 0..MaxEvents
        BY <1>0, <1>4 DEF NoteLastEventId, ProducerType, TypeOK
    <2> QED BY <1>4, <2>1, <2>2 DEF NoteLastEventId, TypeOK, run, views, Producers
<1>5. ASSUME PutUnderLock(w) PROVE TypeOK'
    <2> DEFINE e == producer[w].item
    <2>0. producer' \in [Producers -> ProducerType]
        <3>1. subscribers \in SUBSET Tabs
            BY <1>0 DEF TypeOK
        <3> QED BY <1>0, <1>5, <3>1 DEF PutUnderLock, ProducerType
    <2>1. lastEventId' \in 0..MaxEvents
        BY <1>0, <1>5 DEF PutUnderLock, Seq0, TypeOK
    <2>2. buffer' \in Seq(Items) /\ Len(buffer') <= Cap /\ evicted' \in Nat
        <3>1. CASE buffer' = <<>> /\ evicted' = 0
            BY <3>1
        <3>2. CASE buffer' = Buffered(e) /\ evicted' = IF Len(buffer) < Cap THEN evicted ELSE evicted + 1
            <4>1. e \in Items
                BY <1>0, <1>5 DEF PutUnderLock
            <4>2. CASE Len(buffer) < Cap
                BY <3>2, <4>1, <4>2 DEF Buffered, TypeOK
            <4>3. CASE ~(Len(buffer) < Cap)
                <5>1. buffer # <<>> /\ Len(buffer) <= Cap /\ evicted \in Nat /\ buffer \in Seq(Items)
                    BY <4>3 DEF TypeOK
                <5>2. Tail(buffer) \in Seq(Items) /\ Len(Tail(buffer)) = Len(buffer) - 1
                    BY <5>1, RangeOfTail
                <5> QED BY <3>2, <4>1, <4>3, <5>1, <5>2 DEF Buffered
            <4> QED BY <4>2, <4>3
        <3> QED BY <1>5, <3>1, <3>2 DEF PutUnderLock
    <2> QED BY <1>5, <2>0, <2>1, <2>2 DEF PutUnderLock, TypeOK, run, views, Producers
<1>6. ASSUME PutDone(w) PROVE TypeOK'
    <2>1. producer' \in [Producers -> ProducerType]
        BY <1>0, <1>6 DEF PutDone
    <2> QED BY <1>6, <2>1 DEF PutDone, TypeOK, run, channel, views, Producers
<1>7. ASSUME Detach PROVE TypeOK'
    <2>1. producer' \in [Producers -> ProducerType]
        BY <1>0, <1>7 DEF Detach, ProducerType
    <2> QED BY <1>7, <2>1 DEF Detach, TypeOK, channel, views, Producers
<1>8. ASSUME Unsubscribe PROVE TypeOK'
    BY <1>8 DEF Unsubscribe, TypeOK, run, views
<1>9. ASSUME Die PROVE TypeOK'
    <2>1. producer' \in [Producers -> ProducerType]
        BY <1>0, <1>9 DEF Die, NoProducer, ProducerType
    <2>2. tab' \in [Tabs -> TabType]
        <3>1. ASSUME NEW t \in Tabs PROVE Away(tab[t].cursor) \in TabType /\ tab[t] \in TabType
            BY AwayType DEF TypeOK, TabType
        <3> QED BY <1>9, <3>1 DEF Die, TypeOK
    <2>3. due' \in Budget
        <3>1. due.deaths - 1 \in Nat /\ due' = [due EXCEPT !.deaths = @ - 1]
            BY <1>0, <1>9 DEF Die, Budget
        <3> QED BY <1>0, <3>1 DEF Budget
    <2>4. queue' \in [Tabs -> Seq(Items)] /\ \A t \in Tabs : Len(queue'[t]) <= Cap
        <3>1. <<>> \in Seq(Items) /\ Len(<<>>) <= Cap
            OBVIOUS
        <3> QED BY <1>9, <3>1 DEF Die
    <2> QED BY <1>9, <2>1, <2>2, <2>3, <2>4 DEF Die, TypeOK, run, views, Producers
<1>10. ASSUME NEW t \in Tabs, PutInQueue(w, t) PROVE TypeOK'
    <2>1. producer' \in [Producers -> ProducerType]
        <3>1. \/ producer' = [producer EXCEPT ![w].todo = @ \ {t}, ![w].at = {}]
              \/ producer' = [producer EXCEPT ![w].pc = "full", ![w].at = {t}]
            BY <1>10 DEF PutInQueue
        <3>2. [producer[w] EXCEPT !.todo = @ \ {t}, !.at = {}] \in ProducerType
            BY <1>0 DEF ProducerType
        <3>3. [producer[w] EXCEPT !.pc = "full", !.at = {t}] \in ProducerType
            BY <1>0 DEF ProducerType
        <3> QED BY <1>0, <3>1, <3>2, <3>3
    <2>2. queue' \in [Tabs -> Seq(Items)] /\ \A u \in Tabs : Len(queue'[u]) <= Cap
        <3>1. CASE queue' = queue
            BY <3>1 DEF TypeOK
        <3>2. CASE Len(queue[t]) < Cap /\ queue' = [queue EXCEPT ![t] = Append(@, producer[w].item)]
            <4>1. producer[w].item \in Items /\ queue[t] \in Seq(Items)
                BY <1>0, <1>10 DEF PutInQueue, TypeOK
            <4>2. queue'[t] = Append(queue[t], producer[w].item) /\ Len(queue'[t]) <= Cap
                BY <3>2, <4>1 DEF TypeOK
            <4> QED BY <3>2, <4>1, <4>2 DEF TypeOK
        <3> QED BY <1>10, <3>1, <3>2 DEF PutInQueue
    <2> QED BY <1>10, <2>1, <2>2 DEF PutInQueue, TypeOK, run, channel, views, Producers
<1>11. ASSUME NEW t \in Tabs, DropOldest(w, t) PROVE TypeOK'
    <2>1. producer' \in [Producers -> ProducerType]
        BY <1>0, <1>11 DEF DropOldest, StillTodo, ProducerType
    <2>2. /\ queue' \in [Tabs -> Seq(Items)] /\ \A u \in Tabs : Len(queue'[u]) <= Cap
          /\ dropped' \in [Tabs -> SUBSET Items]
        <3>1. CASE UNCHANGED <<dropped, queue>>
            BY <3>1 DEF TypeOK
        <3>2. CASE /\ queue[t] # <<>>
                   /\ dropped' = [dropped EXCEPT ![t] = @ \cup {Head(queue[t])}]
                   /\ queue' = [queue EXCEPT ![t] = Tail(@)]
            <4>1. /\ queue[t] \in Seq(Items) /\ Head(queue[t]) \in Items
                  /\ Tail(queue[t]) \in Seq(Items) /\ Len(Tail(queue[t])) = Len(queue[t]) - 1
                <5>1. queue[t] \in Seq(Items)
                    BY DEF TypeOK
                <5> QED BY <3>2, <5>1, RangeOfTail
            <4> QED BY <3>2, <4>1 DEF TypeOK
        <3> QED BY <1>11, <3>1, <3>2 DEF DropOldest
    <2> QED BY <1>11, <2>1, <2>2 DEF DropOldest, TypeOK, run, channel, Producers
<1>12. ASSUME SetLatest PROVE TypeOK'
    <2>1. producer' \in [Producers -> ProducerType]
        BY <1>0, <1>12 DEF SetLatest, ProducerType
    <2>2. latest' \in 0..MaxEvents
        BY <1>0, <1>12 DEF SetLatest, ProducerType
    <2> QED BY <1>12, <2>1, <2>2 DEF SetLatest, TypeOK, channel, views, Producers
<1> QED BY <1>1, <1>2, <1>3, <1>4, <1>5, <1>6, <1>7, <1>8, <1>9, <1>10, <1>11, <1>12

\* The tabs.
LEMMA TabsType ==
    ASSUME TypeOK, NEW t \in Tabs,
           \/ Ask(t) \/ Subscribe(t) \/ Replay(t) \/ SendReplayed(t) \/ Send(t) \/ ReadJournal(t)
           \/ Interrupted(t) \/ Break(t)
    PROVE  TypeOK'
<1> USE NumberTypes
<1>0. /\ tab \in [Tabs -> TabType] /\ tab[t] \in TabType /\ tab[t].cursor \in Events \cup {0}
      /\ due \in Budget /\ queue[t] \in Seq(Items) /\ lastEventId \in Events \cup {0}
    BY DEF TypeOK, TabType
<1>1. ASSUME Ask(t) PROVE TypeOK'
    <2>1. due' \in Budget
        <3>1. due' = [due EXCEPT !.visits[t] = @ - 1] /\ due.visits \in [Tabs -> Nat]
              /\ due.visits[t] - 1 \in Nat
            BY <1>0, <1>1 DEF Ask, Budget
        <3> QED BY <1>0, <3>1 DEF Budget
    <2>2. tab' \in [Tabs -> TabType]
        BY <1>0, <1>1 DEF Ask, TabType
    <2> QED BY <1>1, <2>1, <2>2 DEF Ask, TypeOK, run, channel, views
<1>2. ASSUME Subscribe(t) PROVE TypeOK'
    <2>1. (IF buffer = <<>> THEN 0 ELSE Seq0(Head(buffer))) \in Events \cup {0}
        <3>1. ASSUME buffer # <<>> PROVE Head(buffer) \in Items
            BY <3>1, RangeOfTail DEF TypeOK
        <3> QED BY <3>1, CursorType
    <2>2. tab' \in [Tabs -> TabType]
        BY <1>0, <1>2, <2>1 DEF Subscribe, TabType, TypeOK
    <2>3. dropped' \in [Tabs -> SUBSET Items]
        BY <1>2 DEF Subscribe, Gone, TypeOK, Items, Events
    <2> QED BY <1>2, <2>2, <2>3 DEF Subscribe, TypeOK, run
<1>3. ASSUME Replay(t) PROVE TypeOK'
    <2>1. tab' \in [Tabs -> TabType]
        <3>1. CASE tab' = [tab EXCEPT ![t].pc = "drain", ![t].fresh = FALSE]
            BY <1>0, <3>1 DEF TabType
        <3>2. CASE tab' = [tab EXCEPT ![t].pc = "drain", ![t].bound = DedupBound(t),
                     ![t].replay = {e \in journal : After(t) < e /\ e <= ReplayMax(t)}]
            <4>1. DedupBound(t) \in Events \cup {0}
                BY BoundType
            <4>2. {e \in journal : After(t) < e /\ e <= ReplayMax(t)} \in SUBSET Events
                BY DEF TypeOK
            <4> QED BY <1>0, <3>2, <4>1, <4>2 DEF TabType
        <3>3. CASE tab' = [tab EXCEPT ![t] = [Away(tab[t].cursor) EXCEPT !.pc = "restoring"]]
            BY <1>0, <3>3, AwayType
        <3> QED BY <1>3, <3>1, <3>2, <3>3 DEF Replay
    <2>2. CASE UNCHANGED <<subscribers, ghosts, queue, producer>>
        BY <1>3, <2>1, <2>2 DEF Replay, TypeOK, run, views
    <2>3. CASE Leave(t)
        BY <1>3, <2>1, <2>3, LeaveType DEF Replay, TypeOK, run, views, Producers
    <2> QED BY <1>3, <2>2, <2>3 DEF Replay
<1>4. ASSUME SendReplayed(t) PROVE TypeOK'
    <2>1. PICK e \in tab[t].replay :
            /\ Shows(t, e)
            /\ \/ /\ tab' = [tab EXCEPT ![t].replay = @ \ {e}, ![t].cursor = Cursor(t, e)]
                  /\ UNCHANGED <<subscribers, ghosts, queue, producer>>
               \/ /\ tab' = [tab EXCEPT ![t] = [Away(Cursor(t, e)) EXCEPT !.pc = "over"]]
                  /\ Leave(t)
        BY <1>4 DEF SendReplayed
    <2>2. e \in Items
        BY <1>0 DEF TabType
    <2>3. Cursor(t, e) \in Events \cup {0}
        BY <2>2, CursorType
    <2>4. tab' \in [Tabs -> TabType]
        <3>1. CASE tab' = [tab EXCEPT ![t].replay = @ \ {e}, ![t].cursor = Cursor(t, e)]
            BY <1>0, <2>3, <3>1 DEF TabType
        <3>2. CASE tab' = [tab EXCEPT ![t] = [Away(Cursor(t, e)) EXCEPT !.pc = "over"]]
            BY <1>0, <2>3, <3>2, AwayType
        <3> QED BY <2>1, <3>1, <3>2
    <2>5. shown' \in [Tabs -> Seq(Events)] /\ missed' \in [Tabs -> SUBSET Items]
        BY <2>1, <2>2, ShowsType
    <2>6. CASE UNCHANGED <<subscribers, ghosts, queue, producer>>
        BY <1>4, <2>4, <2>5, <2>6 DEF SendReplayed, TypeOK, run
    <2>7. CASE Leave(t)
        BY <1>4, <2>4, <2>5, <2>7, LeaveType DEF SendReplayed, TypeOK, run, Producers
    <2> QED BY <2>1, <2>6, <2>7
<1>5. ASSUME Send(t) PROVE TypeOK'
    <2> DEFINE e == Head(queue[t])
    <2>1. /\ e \in Items /\ Tail(queue[t]) \in Seq(Items)
          /\ Len(Tail(queue[t])) = Len(queue[t]) - 1
        <3>1. queue[t] # <<>>
            BY <1>5 DEF Send
        <3> QED BY <1>0, <3>1, RangeOfTail
    <2>2. Cursor(t, e) \in Events \cup {0}
        BY <2>1, CursorType
    <2>3. CASE /\ queue' = [queue EXCEPT ![t] = Tail(@)]
               /\ UNCHANGED <<tab, shown, missed, subscribers, ghosts, producer>>
        BY <1>5, <2>1, <2>3 DEF Send, TypeOK, run
    <2>4. CASE /\ queue' = [queue EXCEPT ![t] = Tail(@)] /\ Shows(t, e)
               /\ tab' = [tab EXCEPT ![t].cursor = Cursor(t, e)]
               /\ UNCHANGED <<subscribers, ghosts, producer>>
        <3>1. tab' \in [Tabs -> TabType]
            BY <1>0, <2>2, <2>4 DEF TabType
        <3>2. shown' \in [Tabs -> Seq(Events)] /\ missed' \in [Tabs -> SUBSET Items]
            BY <2>1, <2>4, ShowsType
        <3> QED BY <1>5, <2>1, <2>4, <3>1, <3>2 DEF Send, TypeOK, run
    <2>5. CASE /\ Shows(t, e) /\ tab' = [tab EXCEPT ![t] = [Away(Cursor(t, e)) EXCEPT !.pc = "over"]]
               /\ Leave(t)
        <3>1. tab' \in [Tabs -> TabType]
            BY <1>0, <2>2, <2>5, AwayType
        <3>2. shown' \in [Tabs -> Seq(Events)] /\ missed' \in [Tabs -> SUBSET Items]
            BY <2>1, <2>5, ShowsType
        <3> QED BY <1>5, <2>5, <3>1, <3>2, LeaveType DEF Send, TypeOK, run, Producers
    <2> QED BY <1>5, <2>3, <2>4, <2>5 DEF Send
<1>6. ASSUME ReadJournal(t) PROVE TypeOK'
    <2>1. PICK from \in {0, tab[t].cursor} : tab' = [tab EXCEPT ![t] = [Away(tab[t].cursor) EXCEPT
                      !.pc = IF journal = {} THEN "restoring" ELSE "reading",
                      !.replay = {e \in journal : e > from}]]
        BY <1>6 DEF ReadJournal
    <2>2. {e \in journal : e > from} \in SUBSET Events
        BY DEF TypeOK
    <2>3. tab' \in [Tabs -> TabType]
        BY <1>0, <2>1, <2>2 DEF Away, TabType
    <2> QED BY <1>6, <2>3 DEF ReadJournal, TypeOK, run, channel
<1>7. ASSUME Interrupted(t) PROVE TypeOK'
    <2>1. tab' \in [Tabs -> TabType]
        BY <1>0, <1>7, AwayType DEF Interrupted
    <2> QED BY <1>7, <2>1 DEF Interrupted, TypeOK, run, channel, views
<1>8. ASSUME Break(t) PROVE TypeOK'
    <2>1. tab' \in [Tabs -> TabType]
        BY <1>0, <1>8, AwayType DEF Break
    <2>2. Leave(t)
        BY <1>8 DEF Break
    <2> QED BY <1>8, <2>1, <2>2, LeaveType DEF Break, TypeOK, run, views, Producers
<1> QED BY <1>1, <1>2, <1>3, <1>4, <1>5, <1>6, <1>7, <1>8

\* A producer that is at work goes on to have an item.
LEMMA NextItems ==
    ASSUME Typed, TypeOK', [Next]_vars
    PROVE  Typed'
<1> SUFFICES ASSUME NEW v \in Producers, producer'[v].pc \in Busy \/ producer'[v].at # {}
             PROVE  producer'[v].item \in Items
    BY DEF Typed, AtWork
<1>0. /\ producer \in [Producers -> ProducerType]
      /\ AtWork(v) => producer[v].item \in Items
      /\ producer[v] \in ProducerType
      /\ "worker" \in Producers /\ "stop" \in Producers
    BY DEF Typed, TypeOK, Producers
<1>2. CASE JournalEvent
    <2>1. CASE v = "worker"
        <3>1. producer'[v].item = produced'
            BY <1>0, <1>2, <2>1 DEF JournalEvent, NoProducer
        <3>2. produced' = produced + 1 /\ produced \in Nat /\ produced' \in 0..MaxEvents
            BY <1>2 DEF JournalEvent, Typed, TypeOK
        <3> QED BY <3>1, <3>2 DEF Items, Events
    <2>2. CASE v # "worker"
        BY <1>0, <1>2, <2>2 DEF JournalEvent, AtWork
    <2> QED BY <2>1, <2>2
<1>3. CASE Stop
    <2>1. CASE v = "stop"
        BY <1>0, <1>3, <2>1, NumberTypes DEF Stop
    <2>2. CASE v # "stop"
        BY <1>0, <1>3, <2>2 DEF Stop, AtWork
    <2> QED BY <2>1, <2>2
<1>4. ASSUME NEW w \in Producers,
             \/ ReadLatest(w) \/ NoteLastEventId(w) \/ PutUnderLock(w) \/ PutDone(w)
             \/ \E t \in Tabs : PutInQueue(w, t) \/ DropOldest(w, t)
      PROVE  producer'[v].item \in Items
    <2>1. CASE v # w
        <3>1. producer'[v] = producer[v]
            BY <1>0, <1>4, <2>1 DEF ReadLatest, NoteLastEventId, PutUnderLock, PutDone, PutInQueue,
                                    DropOldest
        <3> QED BY <1>0, <3>1 DEF AtWork
    <2>2. CASE v = w
        <3>1. CASE PutDone(w)
            BY <1>0, <2>2, <3>1 DEF PutDone, NoProducer, Busy, AtWork, ProducerType
        <3>2. CASE PutUnderLock(w)
            BY <1>0, <2>2, <3>2 DEF PutUnderLock, NoProducer, Busy, AtWork, ProducerType
        <3>3. CASE ReadLatest(w) \/ NoteLastEventId(w)
            BY <1>0, <2>2, <3>3 DEF ReadLatest, NoteLastEventId, Busy, AtWork, ProducerType
        <3>4. ASSUME NEW t \in Tabs, PutInQueue(w, t) PROVE producer'[v].item \in Items
            BY <1>0, <2>2, <3>4 DEF PutInQueue, Busy, AtWork, ProducerType
        <3>5. ASSUME NEW t \in Tabs, DropOldest(w, t) PROVE producer'[v].item \in Items
            BY <1>0, <2>2, <3>5 DEF DropOldest, Busy, AtWork, ProducerType
        <3> QED BY <1>4, <3>1, <3>2, <3>3, <3>4, <3>5
    <2> QED BY <2>1, <2>2
<1>5. CASE Detach \/ SetLatest
    BY <1>0, <1>5 DEF Detach, SetLatest, Busy, AtWork, ProducerType
<1>6. CASE Die
    BY <1>0, <1>6 DEF Die, NoProducer, Busy, Producers
<1>7. ASSUME NEW t \in Tabs, Leave(t) PROVE producer'[v].item \in Items
    <2>1. producer'[v] = [producer[v] EXCEPT !.todo = @ \ {t}, !.at = @ \ {t},
                              !.pc = IF t \in producer[v].at THEN "broadcast" ELSE @]
        BY <1>0, <1>7 DEF Leave
    <2>2. producer'[v].item = producer[v].item /\ producer[v] \in ProducerType
        BY <1>0, <2>1 DEF ProducerType
    <2>3. AtWork(v)
        BY <2>1, <2>2 DEF ProducerType, AtWork
    <2> QED BY <1>0, <2>2, <2>3
<1>8. CASE UNCHANGED producer
    BY <1>0, <1>8 DEF AtWork
<1>9. ASSUME NEW t \in Tabs, Ask(t) \/ Serve(t) \/ Break(t)
      PROVE  UNCHANGED producer \/ Leave(t)
    BY <1>9 DEF Ask, Serve, Break, Subscribe, Replay, SendReplayed, Send, ReadJournal, Interrupted
<1> QED BY <1>2, <1>3, <1>4, <1>5, <1>6, <1>7, <1>8, <1>9
        DEF Next, Worker, Put, Unsubscribe, vars, Producers

\* Every step keeps the types, and the buffer and the queues within their cap.
LEMMA NextType == Typed /\ [Next]_vars => Typed'
<1> SUFFICES ASSUME Typed, [Next]_vars PROVE TypeOK'
    BY NextItems
<1>0. TypeOK
    BY DEF Typed
<1>1. CASE \/ JournalEvent \/ SetLatest \/ Stop \/ Detach \/ Unsubscribe \/ Die
           \/ \E w \in Producers : Put(w)
    BY <1>0, <1>1, ProducersType DEF Put, Producers
<1>2. CASE \E t \in Tabs : Ask(t) \/ Serve(t) \/ Break(t)
    BY <1>0, <1>2, TabsType DEF Serve
<1>3. CASE UNCHANGED vars
    BY <1>0, <1>3 DEF vars, run, channel, TypeOK
<1> QED BY <1>1, <1>2, <1>3 DEF Next, Worker, Producers

(***************************************************************************)
(* Every variable of the relay stays in its type: the offline buffer and   *)
(* the subscriber queues never grow beyond their cap, whatever interleaves.*)
(***************************************************************************)
THEOREM TypeCorrect == Spec => []TypeOK
<1>1. Init => Typed
    BY InitType DEF Init, Typed, NoProducer, Producers, Busy, AtWork
<1>2. Typed => TypeOK
    BY DEF Typed
<1> QED BY <1>1, <1>2, NextType, PTL DEF Spec
-----------------------------------------------------------------------------
(***************************************************************************)
(* What a step leaves alone.                                               *)
(***************************************************************************)
\* A tab that a step does not touch.
Untouched(u) ==
    /\ tab'[u] = tab[u] /\ shown'[u] = shown[u] /\ queue'[u] = queue[u]
    /\ dropped'[u] = dropped[u] /\ missed'[u] = missed[u]
    /\ u \in misled' <=> u \in misled
    /\ u \in subscribers' <=> u \in subscribers

\* The producers go on with what they have, but for tab t.
RolesStay(t) ==
    /\ \A w \in Producers :
          /\ producer'[w].item = producer[w].item /\ producer'[w].noted = producer[w].noted
          /\ \/ producer'[w].pc = producer[w].pc
             \/ {producer[w].pc, producer'[w].pc} = {"broadcast", "full"}
          /\ producer'[w].at \subseteq producer'[w].todo
          /\ producer'[w].todo \subseteq subscribers' /\ producer'[w].todo \subseteq producer[w].todo
    /\ \A u \in Tabs \ {t} : u \in producer'["worker"].todo <=> u \in producer["worker"].todo

\* The troubles of a run change by a Stop, a death or a failed write only.
LEMMA SameTroubles ==
    ASSUME stopped' = stopped, unwritten' = unwritten,
           producer'["stop"].pc = "dead" <=> producer["stop"].pc = "dead"
    PROVE  Troubles' = Troubles /\ (Dead' <=> Dead)
<1>1. Dead' <=> Dead
    BY DEF Dead
<1>2. CASE producer["stop"].pc = "dead" /\ producer'["stop"].pc = "dead"
    <2>1. Troubles' = Troubles
        BY <1>2 DEF Troubles
    <2> QED BY <1>1, <2>1
<1>3. CASE producer["stop"].pc # "dead" /\ producer'["stop"].pc # "dead"
    <2>1. Troubles' = Troubles
        BY <1>3 DEF Troubles
    <2> QED BY <1>1, <2>1
<1> QED BY <1>2, <1>3

\* What a step owes a tab that it does not touch.
LEMMA TabKeeps ==
    ASSUME RelayInv, NEW u \in Tabs, Untouched(u),
           UNCHANGED <<journal, produced, final>>, attached' => attached,
           Troubles' = {} => Troubles = {}, Dead' => Dead, stopped => stopped',
           tab[u].pc \in Served => Pending(u)' = Pending(u),
           producer'["worker"].pc \in Unnoted => producer["worker"].pc \in Unnoted
    PROVE  TabInv(u)'
<1>1. TabInv(u)
    BY DEF RelayInv
<1>2. ViewIsUpToCursor(u)'
    BY <1>1 DEF TabInv, ViewIsUpToCursor, Untouched
<1>3. NotAhead(u)'
    BY <1>1 DEF TabInv, NotAhead, Untouched
<1>4. VisitIsInOrder(u)'
    BY <1>1 DEF TabInv, VisitIsInOrder, Untouched
<1>5. ReadingFollows(u)'
    BY <1>1 DEF TabInv, ReadingFollows, Untouched
<1>6. Follows(u)'
    <2> SUFFICES ASSUME tab[u].pc \in Served PROVE Follows(u)'
        BY DEF Follows, Untouched
    <2>1. Bound(u)' = Bound(u) /\ Pending(u)' = Pending(u)
        BY DEF Bound, DedupBound, After, ReplayMax, Untouched
    <2>2. QueueIsOrdered(u)'
        BY <1>1, <2>1 DEF TabInv, Follows, QueueIsOrdered, Stops, Untouched
    <2>3. u \notin misled' => NothingIsLost(u)'
        BY <1>1, <2>1 DEF TabInv, Follows, NothingIsLost, Untouched
    <2>4. u \notin misled' => NothingComesTwice(u)'
        BY <1>1, <2>1 DEF TabInv, Follows, NothingComesTwice, Untouched
    <2> QED BY <1>1, <2>2, <2>3, <2>4 DEF TabInv, Follows, Untouched
<1> QED BY <1>2, <1>3, <1>4, <1>5, <1>6 DEF TabInv

\* What holds of the channel and its producers is kept by what a tab and its handler do.
LEMMA ChannelKeeps ==
    ASSUME RelayInv, NEW t, RolesStay(t),
           UNCHANGED <<run, attached, stopped, lastEventId, buffer, evicted>>
    PROVE  ChannelInv' /\ ProducersAreBusy'
<1>1. UNCHANGED <<produced, final, journal, unwritten, latest>>
    BY DEF run
<1>2. \A w \in Producers : /\ producer'[w].item = producer[w].item
                          /\ producer'[w].noted = producer[w].noted
                          /\ \/ producer'[w].pc = producer[w].pc
                             \/ {producer[w].pc, producer'[w].pc} = {"broadcast", "full"}
    BY DEF RolesStay
<1>3. "worker" \in Producers /\ "stop" \in Producers
    BY DEF Producers
<1>4. /\ producer'["stop"].pc = "dead" <=> producer["stop"].pc = "dead"
      /\ \A x \in {"journaled", "note", "put", "dead", "gone", "read"} :
            producer'["worker"].pc = x <=> producer["worker"].pc = x
    BY <1>2, <1>3
<1>5. RunIsNumbered'
    BY <1>1, <1>2, <1>3 DEF RelayInv, ChannelInv, RunIsNumbered
<1>6. DetachedForAReason'
    BY <1>4 DEF RelayInv, ChannelInv, DetachedForAReason, Dead
<1>7. BufferIsRecent'
    BY <1>1, <1>4 DEF RelayInv, ChannelInv, BufferIsRecent, Dead, Ahead, PutSoFar, Stops
<1>8. BufferHasAnId'
    BY <1>1, <1>4 DEF RelayInv, ChannelInv, BufferHasAnId, Troubles
<1>9. ProducersAreBusy'
    <2>1. /\ producer'["worker"].pc # "read"
          /\ producer'["worker"].pc \in Busy =>
                producer'["worker"].item = produced' /\ produced' # 0
        BY <1>1, <1>2, <1>3 DEF RelayInv, ProducersAreBusy, Busy
    <2>2. /\ producer'["worker"].pc \in Unnoted => producer'["worker"].noted = Seq0(produced)'
          /\ producer'["worker"].pc = "gone" => final' # 0
        BY <1>1, <1>2, <1>3, <1>4 DEF RelayInv, ProducersAreBusy, Seq0
    <2>3. /\ producer'["stop"].pc \in Busy => producer'["stop"].item = StopEvent /\ stopped'
          /\ producer'["stop"].pc # "gone"
        BY <1>2, <1>3 DEF RelayInv, ProducersAreBusy, Busy
    <2>4. ASSUME NEW w \in Producers
          PROVE  /\ producer'[w].at \subseteq producer'[w].todo
                 /\ producer'[w].todo \subseteq subscribers'
                 /\ producer'[w].pc \notin {"broadcast", "full"} => producer'[w].todo = {}
        BY <1>2 DEF RolesStay, RelayInv, ProducersAreBusy
    <2> QED BY <2>1, <2>2, <2>3, <2>4 DEF ProducersAreBusy
<1> QED BY <1>5, <1>6, <1>7, <1>8, <1>9 DEF ChannelInv

\* A step of tab t's handler.
LEMMA HandlerKeeps ==
    ASSUME RelayInv, NEW t \in Tabs, RolesStay(t), \A u \in Tabs \ {t} : Untouched(u),
           UNCHANGED <<run, attached, stopped, lastEventId, buffer, evicted>>,
           TabInv(t)'
    PROVE  RelayInv'
<1>1. ChannelInv' /\ ProducersAreBusy'
    BY ChannelKeeps
<1>2. UNCHANGED <<journal, produced, final, unwritten, stopped>> /\ "worker" \in Producers
      /\ "stop" \in Producers
    BY DEF run, Producers
<1>3. /\ \/ producer'["worker"].pc = producer["worker"].pc
         \/ {producer["worker"].pc, producer'["worker"].pc} = {"broadcast", "full"}
      /\ \/ producer'["stop"].pc = producer["stop"].pc
         \/ {producer["stop"].pc, producer'["stop"].pc} = {"broadcast", "full"}
    BY <1>2 DEF RolesStay
<1>4. Troubles' = Troubles /\ (Dead' <=> Dead)
    <2>1. producer'["stop"].pc = "dead" <=> producer["stop"].pc = "dead"
        BY <1>3
    <2> QED BY <1>2, <2>1, SameTroubles
<1>5. ASSUME NEW u \in Tabs \ {t} PROVE TabInv(u)'
    <2>1. u \in producer'["worker"].todo <=> u \in producer["worker"].todo
        BY DEF RolesStay
    <2>2. Pending(u)' = Pending(u)
        BY <1>2, <1>3, <2>1 DEF Pending, Waiting
    <2>3. Untouched(u)
        BY <1>5
    <2> QED BY <1>2, <1>3, <1>4, <2>2, <2>3, TabKeeps
<1>6. \A u \in Tabs : TabInv(u)'
    BY <1>5
<1> QED BY <1>1, <1>6 DEF RelayInv

\* A handler that leaves is forgotten by the producers.
LEMMA LeaveKeeps ==
    ASSUME TypeOK, RelayInv, NEW t \in Tabs, Leave(t)
    PROVE  /\ RolesStay(t) /\ queue'[t] = <<>> /\ t \notin subscribers'
           /\ \A u \in Tabs \ {t} : /\ queue'[u] = queue[u]
                                    /\ u \in subscribers' <=> u \in subscribers
<1>1. queue \in [Tabs -> Seq(Items)] /\ producer \in [Producers -> ProducerType]
    BY DEF TypeOK, Producers
<1>2. ASSUME NEW w \in Producers
      PROVE  /\ producer'[w].item = producer[w].item /\ producer'[w].noted = producer[w].noted
             /\ producer'[w].todo = producer[w].todo \ {t}
             /\ producer'[w].at = producer[w].at \ {t}
             /\ producer'[w].pc = IF t \in producer[w].at THEN "broadcast" ELSE producer[w].pc
    <2>1. producer[w] \in ProducerType
        BY <1>1
    <2>2. producer'[w] = [producer[w] EXCEPT !.todo = @ \ {t}, !.at = @ \ {t},
                              !.pc = IF t \in producer[w].at THEN "broadcast" ELSE @]
        BY <1>1 DEF Leave
    <2> QED BY <2>1, <2>2 DEF ProducerType
<1>3. subscribers' = subscribers \ {t} /\ queue' = [queue EXCEPT ![t] = <<>>]
    BY DEF Leave
<1>4. ASSUME NEW w \in Producers
      PROVE  /\ producer[w].at \subseteq producer[w].todo /\ producer[w].todo \subseteq subscribers
             /\ producer[w].pc \notin {"broadcast", "full"} => producer[w].todo = {}
    BY DEF RelayInv, ProducersAreBusy
<1>5. "worker" \in Producers
    BY DEF Producers
<1>6. RolesStay(t)
    BY <1>2, <1>3, <1>4, <1>5 DEF RolesStay
<1> QED BY <1>1, <1>3, <1>6
-----------------------------------------------------------------------------
(***************************************************************************)
(* The steps of the producers and of the channel.                          *)
(***************************************************************************)
\* The numbers of the events: those of the journal are the worker's, Stop's is
\* not among them.
LEMMA RunFacts ==
    ASSUME TypeOK, RelayInv
    PROVE  /\ produced \in Nat /\ produced <= MaxEvents /\ journal \subseteq 1..produced
           /\ unwritten \subseteq 1..produced /\ journal \cup unwritten = 1..produced
           /\ final \in {0, produced} /\ 1..produced \subseteq Events
           /\ StopEvent = MaxEvents + 1 /\ StopEvent \in Nat /\ MaxEvents \in Nat
           /\ StopEvent \notin 1..produced /\ StopEvent \notin journal
           /\ lastEventId \in 0..produced /\ latest \in 0..produced
           /\ \A t \in Tabs : /\ tab[t].cursor \in 0..produced /\ tab[t].last \in 0..produced
                              /\ tab[t].bound \in 0..produced /\ tab[t].first \in Nat
                              /\ tab[t].evicted \in Nat
<1>1. /\ produced \in Nat /\ produced <= MaxEvents /\ MaxEvents \in Nat
      /\ StopEvent = MaxEvents + 1
    BY NumberTypes DEF TypeOK, StopEvent
<1>2. /\ journal \cup unwritten = 1..produced /\ final \in {0, produced}
      /\ lastEventId \in journal \cup {0} /\ latest \in journal \cup {0}
    BY DEF RelayInv, ChannelInv, RunIsNumbered
<1>3. ASSUME NEW t \in Tabs
      PROVE  /\ tab[t].cursor \in 0..produced /\ tab[t].last \in 0..produced
             /\ tab[t].bound \in 0..produced /\ tab[t].first \in Nat
             /\ tab[t].evicted \in Nat
    <2>1. tab[t] \in TabType
        BY DEF TypeOK
    <2>2. /\ tab[t].cursor \in journal \cup {0} /\ tab[t].last \in journal \cup {0}
          /\ tab[t].bound <= produced
        BY DEF RelayInv, TabInv, ViewIsUpToCursor, VisitIsInOrder
    <2> QED BY <1>1, <1>2, <2>1, <2>2, NumberTypes DEF TabType
<1> QED BY <1>1, <1>2, <1>3 DEF Events

\* The producers, one by one.
LEMMA ProducerFacts ==
    ASSUME TypeOK, RelayInv
    PROVE  /\ producer \in [Producers -> ProducerType]
           /\ "worker" \in Producers /\ "stop" \in Producers
           /\ \A w \in Producers : w = "worker" \/ w = "stop"
           /\ producer["worker"] \in ProducerType /\ producer["stop"] \in ProducerType
           /\ subscribers \subseteq Tabs
           /\ NoProducer.pc = "idle" /\ NoProducer.todo = {} /\ NoProducer.at = {}
           /\ NoProducer.noted = 0 /\ NoProducer.item = 0
BY DEF TypeOK, Producers, NoProducer

\* The worker takes the next number: it is ahead of all tabs until it is noted.
LEMMA JournalEventKeeps == TypeOK /\ RelayInv /\ JournalEvent => RelayInv'
<1> SUFFICES ASSUME TypeOK, RelayInv, JournalEvent PROVE RelayInv'
    OBVIOUS
<1> DEFINE e == produced + 1
<1> USE RunFacts, ProducerFacts
<1>1. /\ producer["worker"].pc = "idle" /\ final = 0 /\ produced' = e /\ final' \in {0, e}
      /\ UNCHANGED <<latest, attached, stopped, lastEventId, buffer, evicted, subscribers, ghosts,
                     queue, tab, shown, dropped, missed, misled>>
      /\ \/ journal' = journal \cup {e} /\ unwritten' = unwritten
         \/ unwritten' = unwritten \cup {e} /\ journal' = journal
    BY DEF JournalEvent, channel, views
<1>2. /\ producer'["stop"] = producer["stop"] /\ producer'["worker"].pc \in Unnoted
      /\ producer'["worker"].item = e /\ producer'["worker"].todo = {}
      /\ producer'["worker"].at = {}
      /\ producer'["worker"].noted = IF e \in journal' THEN e ELSE 0
    BY DEF JournalEvent, NoProducer
<1>3. e \notin journal /\ e # 0 /\ 1..e = 1..produced \cup {e} /\ e \in Nat /\ e <= MaxEvents
      /\ journal \subseteq journal' /\ journal' \subseteq journal \cup {e}
      /\ (Troubles' = {} => Troubles = {}) /\ Dead' = Dead
    <2>1. produced < MaxEvents
        <3>1. produced < due.events /\ due.events \in 1..MaxEvents
            BY DEF JournalEvent, TypeOK, Budget
        <3> QED BY <3>1
    <2>2. Dead' = Dead
        BY <1>2 DEF Dead
    <2>3. Troubles \subseteq Troubles'
        BY <1>1, <1>2 DEF Troubles
    <2> QED BY <1>1, <2>1, <2>2, <2>3
<1>4. RunIsNumbered'
    <2>1. RunIsNumbered
        BY DEF RelayInv, ChannelInv
    <2> QED BY <1>1, <1>2, <1>3, <2>1 DEF RunIsNumbered
<1>5. DetachedForAReason'
    BY <1>1, <1>2, <1>3 DEF RelayInv, ChannelInv, DetachedForAReason
<1>6. BufferIsRecent'
    <2>1. Ahead = {} /\ Ahead' = {e}
        BY <1>1, <1>2 DEF Ahead
    <2>2. PutSoFar' = PutSoFar /\ journal' \ Ahead' = journal \ Ahead
        BY <1>1, <1>3, <2>1 DEF PutSoFar, Stops
    <2> QED BY <1>1, <1>3, <2>2 DEF RelayInv, ChannelInv, BufferIsRecent
<1>7. BufferHasAnId'
    BY <1>1, <1>3 DEF RelayInv, ChannelInv, BufferHasAnId
<1>8. ProducersAreBusy'
    <2>1. ProducersAreBusy
        BY DEF RelayInv
    <2>2. Seq0(produced)' = IF e \in journal' THEN e ELSE 0
        BY <1>1 DEF Seq0
    <2>3. ASSUME NEW w \in Producers
          PROVE  /\ producer'[w].at \subseteq producer'[w].todo
                 /\ producer'[w].todo \subseteq subscribers'
                 /\ producer'[w].pc \notin {"broadcast", "full"} => producer'[w].todo = {}
        BY <1>1, <1>2, <2>1 DEF ProducersAreBusy
    <2> QED BY <1>1, <1>2, <1>3, <2>1, <2>2, <2>3 DEF ProducersAreBusy, Busy
<1>9. ASSUME NEW u \in Tabs PROVE TabInv(u)'
    <2>0. TabInv(u) /\ tab[u].cursor < e /\ tab[u].last < e /\ tab[u].bound < e
        BY DEF RelayInv
    <2>1. ViewIsUpToCursor(u)'
        <3>1. ViewIsUpToCursor(u)
            BY <2>0 DEF TabInv
        <3>2. \A f \in journal' : f <= tab[u].cursor => f \in journal
            BY <1>3, <2>0
        <3> QED BY <1>1, <1>3, <2>0, <3>1, <3>2 DEF ViewIsUpToCursor
    <2>2. NotAhead(u)'
        BY <1>1, <2>0 DEF NotAhead
    <2>3. VisitIsInOrder(u)'
        BY <1>1, <1>3, <2>0 DEF TabInv, VisitIsInOrder
    <2>4. ReadingFollows(u)'
        <3> SUFFICES ASSUME tab[u].pc = "reading" PROVE ReadingFollows(u)'
            BY <1>1 DEF ReadingFollows
        <3>1. /\ tab[u].replay \subseteq journal
              /\ \A x \in tab[u].replay : x > tab[u].cursor
              /\ \A x \in tab[u].replay, f \in journal :
                    tab[u].cursor < f /\ f < x => f \in tab[u].replay
              /\ Troubles = {} => final \in tab[u].replay
            BY <2>0 DEF TabInv, ReadingFollows
        <3>2. Troubles # {}
            BY <1>1, <3>1
        <3>3. \A x \in tab[u].replay, f \in journal' : f < x => f \in journal
            BY <1>3, <3>1
        <3> QED BY <1>1, <1>3, <3>1, <3>2, <3>3 DEF ReadingFollows
    <2>5. Follows(u)'
        <3> SUFFICES ASSUME tab[u].pc \in Served PROVE Follows(u)'
            BY <1>1 DEF Follows
        <3>1. Pending(u) = {} /\ Pending(u)' = {e}
            <4>1. ProducersAreBusy
                BY DEF RelayInv
            <4> QED BY <1>1, <1>2 DEF Pending, Waiting
        <3>2. Bound(u)' = Bound(u) /\ Bound(u) \in 0..produced
            <4>1. After(u)' = After(u) /\ ReplayMax(u)' = ReplayMax(u)
                  /\ After(u) \in 0..produced /\ ReplayMax(u) \in 0..produced
                BY <1>1 DEF After, ReplayMax
            <4>2. DedupBound(u)' = DedupBound(u) /\ DedupBound(u) \in 0..produced
                <5>1. CASE journal = {}
                    <6>1. tab[u].last = 0
                        <7>1. tab[u].last \in journal \cup {0}
                            BY <2>0 DEF TabInv, VisitIsInOrder
                        <7> QED BY <5>1, <7>1
                    <6>2. ReplayMax(u) = 0
                        BY <6>1 DEF ReplayMax
                    <6> QED BY <4>1, <5>1, <6>2 DEF DedupBound
                <5>2. CASE journal # {}
                    <6>1. journal' # {}
                        BY <1>3, <5>2
                    <6> QED BY <4>1, <5>2, <6>1 DEF DedupBound
                <5> QED BY <5>1, <5>2
            <4> QED BY <1>1, <4>2 DEF Bound
        <3>3. Follows(u)
            BY <2>0 DEF TabInv
        <3>4. QueueIsOrdered(u)'
            BY <1>1, <1>3, <3>1, <3>3 DEF Follows, QueueIsOrdered, Stops
        <3>5. ASSUME u \notin misled PROVE NothingIsLost(u)' /\ NothingComesTwice(u)'
            <4>1. NothingIsLost(u) /\ NothingComesTwice(u) /\ QueueIsOrdered(u)
                BY <3>3, <3>5 DEF Follows
            <4>2. NothingIsLost(u)'
                BY <1>1, <1>3, <3>1, <3>2, <4>1 DEF NothingIsLost
            <4>3. e \notin Range(queue[u])
                BY <4>1, <1>3 DEF QueueIsOrdered, Stops
            <4>4. NothingComesTwice(u)'
                BY <1>1, <1>3, <2>0, <3>1, <3>2, <4>1, <4>3 DEF NothingComesTwice
            <4> QED BY <4>2, <4>4
        <3>6. ASSUME u \notin misled, tab[u].pc = "drain"
              PROVE  tab[u].replay = {f \in journal' : tab[u].cursor < f /\ f <= tab[u].bound}
            <4>1. tab[u].replay = {f \in journal : tab[u].cursor < f /\ f <= tab[u].bound}
                BY <3>3, <3>6 DEF Follows
            <4> QED BY <1>3, <2>0, <4>1
        <3>7. u \notin misled /\ tab[u].pc = "replay" => tab[u].cursor <= tab[u].last
            BY <3>3 DEF Follows
        <3> QED BY <1>1, <3>4, <3>5, <3>6, <3>7 DEF Follows
    <2> QED BY <2>1, <2>2, <2>3, <2>4, <2>5 DEF TabInv
<1> QED BY <1>4, <1>5, <1>6, <1>7, <1>8, <1>9 DEF RelayInv, ChannelInv

\* A step that no tab notices.
LEMMA NoTabNotices ==
    ASSUME RelayInv, \A u \in Tabs : Untouched(u) /\ (tab[u].pc \in Served => Pending(u)' = Pending(u)),
           UNCHANGED <<journal, produced, final>>, attached' => attached,
           Troubles' = {} => Troubles = {}, Dead' => Dead, stopped => stopped',
           producer'["worker"].pc \in Unnoted => producer["worker"].pc \in Unnoted,
           ChannelInv', ProducersAreBusy'
    PROVE  RelayInv'
<1>1. ASSUME NEW u \in Tabs PROVE TabInv(u)'
    <2>1. Untouched(u) /\ (tab[u].pc \in Served => Pending(u)' = Pending(u))
        OBVIOUS
    <2> QED BY <2>1, TabKeeps
<1> QED BY <1>1 DEF RelayInv

\* The worker publishes the id of its event: nobody but Stop and its item look there.
LEMMA SetLatestKeeps == TypeOK /\ RelayInv /\ SetLatest => RelayInv'
<1> SUFFICES ASSUME TypeOK, RelayInv, SetLatest PROVE RelayInv'
    OBVIOUS
<1> USE RunFacts, ProducerFacts
<1>0. /\ RunIsNumbered /\ DetachedForAReason /\ BufferIsRecent /\ BufferHasAnId /\ ProducersAreBusy
    BY DEF RelayInv, ChannelInv
<1>1. /\ UNCHANGED <<produced, final, journal, unwritten, attached, stopped, lastEventId, buffer,
                     evicted, subscribers, ghosts, queue, tab, shown, dropped, missed, misled>>
      /\ producer["worker"].pc = "journaled" /\ latest' = producer["worker"].noted
    BY DEF SetLatest, channel, views
<1>2. /\ producer'["stop"] = producer["stop"] /\ producer'["worker"].pc = "note"
      /\ producer'["worker"].item = producer["worker"].item
      /\ producer'["worker"].noted = producer["worker"].noted
      /\ producer'["worker"].todo = producer["worker"].todo
      /\ producer'["worker"].at = producer["worker"].at
    BY DEF SetLatest, ProducerType
<1>3. (Dead' <=> Dead) /\ Troubles' = Troubles
    BY <1>1, <1>2 DEF Dead, Troubles
<1>4. RunIsNumbered'
    <2>1. latest' \in journal \cup {0}
        BY <1>0, <1>1 DEF ProducersAreBusy, Seq0
    <2> QED BY <1>0, <1>1, <1>2, <2>1 DEF RunIsNumbered
<1>5. DetachedForAReason'
    BY <1>0, <1>1, <1>2, <1>3 DEF DetachedForAReason
<1>6. BufferIsRecent'
    BY <1>0, <1>1, <1>2, <1>3 DEF BufferIsRecent, Ahead, PutSoFar, Stops
<1>7. BufferHasAnId'
    BY <1>0, <1>1, <1>2, <1>3 DEF BufferHasAnId
<1>8. ProducersAreBusy'
    <2>1. ASSUME NEW v \in Producers
          PROVE  /\ producer'[v].at \subseteq producer'[v].todo
                 /\ producer'[v].todo \subseteq subscribers'
                 /\ producer'[v].pc \notin {"broadcast", "full"} => producer'[v].todo = {}
        BY <1>0, <1>1, <1>2 DEF ProducersAreBusy
    <2>2. Seq0(produced)' = Seq0(produced)
        BY <1>1 DEF Seq0
    <2>3. producer["worker"].pc \in Busy
        BY <1>1 DEF Busy
    <2> QED BY <1>0, <1>1, <1>2, <2>1, <2>2, <2>3 DEF ProducersAreBusy
<1>9. ASSUME NEW u \in Tabs PROVE Untouched(u) /\ Pending(u)' = Pending(u)
    BY <1>1, <1>2 DEF Untouched, Pending, Waiting
<1> QED BY <1>1, <1>2, <1>3, <1>4, <1>5, <1>6, <1>7, <1>8, <1>9, NoTabNotices DEF ChannelInv

\* Stop takes the channel out of STREAMS: nobody relies on it being attached any more.
LEMMA StopKeeps == TypeOK /\ RelayInv /\ Stop => RelayInv'
<1> SUFFICES ASSUME TypeOK, RelayInv, Stop PROVE RelayInv'
    OBVIOUS
<1> USE RunFacts, ProducerFacts
<1>0. /\ RunIsNumbered /\ DetachedForAReason /\ BufferIsRecent /\ BufferHasAnId /\ ProducersAreBusy
    BY DEF RelayInv, ChannelInv
<1>1. /\ attached /\ ~attached' /\ stopped'
      /\ UNCHANGED <<produced, final, journal, unwritten, latest, lastEventId, buffer, evicted,
                     subscribers, ghosts, queue, tab, shown, dropped, missed, misled>>
    BY DEF Stop, run, channel, views
<1>2. /\ producer'["worker"] = producer["worker"] /\ producer'["stop"].pc = "read"
      /\ producer'["stop"].item = StopEvent /\ producer'["stop"].noted = 0
      /\ producer'["stop"].todo = {} /\ producer'["stop"].at = {}
    BY DEF Stop, NoProducer
<1>3. ~Dead /\ ~Dead' /\ Troubles' # {} /\ Stops \subseteq Stops'
    BY <1>0, <1>1, <1>2 DEF DetachedForAReason, Dead, Troubles, Stops
<1>4. RunIsNumbered'
    BY <1>0, <1>1, <1>2 DEF RunIsNumbered
<1>5. DetachedForAReason'
    BY <1>0, <1>1, <1>2, <1>3 DEF DetachedForAReason
<1>6. BufferIsRecent'
    <2>1. Ahead' = Ahead /\ PutSoFar \subseteq PutSoFar'
        BY <1>1, <1>2, <1>3 DEF Ahead, PutSoFar
    <2> QED BY <1>0, <1>1, <1>3, <2>1 DEF BufferIsRecent
<1>7. BufferHasAnId'
    BY <1>1, <1>3 DEF BufferHasAnId
<1>8. ProducersAreBusy'
    <2>1. ASSUME NEW w \in Producers
          PROVE  /\ producer'[w].at \subseteq producer'[w].todo
                 /\ producer'[w].todo \subseteq subscribers'
                 /\ producer'[w].pc \notin {"broadcast", "full"} => producer'[w].todo = {}
        BY <1>0, <1>1, <1>2 DEF ProducersAreBusy
    <2>2. Seq0(produced)' = Seq0(produced)
        BY <1>1 DEF Seq0
    <2> QED BY <1>0, <1>1, <1>2, <2>1, <2>2 DEF ProducersAreBusy
<1>9. ASSUME NEW u \in Tabs PROVE Untouched(u) /\ Pending(u)' = Pending(u)
    BY <1>1, <1>2 DEF Untouched, Pending, Waiting
<1> QED BY <1>1, <1>2, <1>3, <1>4, <1>5, <1>6, <1>7, <1>8, <1>9, NoTabNotices DEF ChannelInv

\* Stop reads an id of the journal.
LEMMA ReadLatestKeeps ==
    ASSUME TypeOK, RelayInv, NEW w \in Producers, ReadLatest(w)
    PROVE  RelayInv'
<1> USE RunFacts, ProducerFacts
<1>0. /\ RunIsNumbered /\ DetachedForAReason /\ BufferIsRecent /\ BufferHasAnId /\ ProducersAreBusy
    BY DEF RelayInv, ChannelInv
<1>1. /\ UNCHANGED <<produced, final, journal, unwritten, latest, attached, stopped, lastEventId,
                     buffer, evicted, subscribers, ghosts, queue, tab, shown, dropped, missed,
                     misled>>
      /\ w = "stop" /\ producer["stop"].pc = "read"
    BY <1>0 DEF ReadLatest, run, channel, views, ProducersAreBusy
<1>2. /\ producer'["worker"] = producer["worker"] /\ producer'["stop"].pc = "note"
      /\ producer'["stop"].item = producer["stop"].item /\ producer'["stop"].noted = latest
      /\ producer'["stop"].todo = producer["stop"].todo
      /\ producer'["stop"].at = producer["stop"].at
    BY <1>1 DEF ReadLatest, ProducerType
<1>3. ~Dead /\ ~Dead' /\ Troubles' = Troubles
    BY <1>1, <1>2 DEF Dead, Troubles
<1>4. RunIsNumbered'
    BY <1>0, <1>1, <1>2 DEF RunIsNumbered
<1>5. DetachedForAReason'
    BY <1>0, <1>1, <1>2, <1>3 DEF DetachedForAReason
<1>6. BufferIsRecent'
    BY <1>0, <1>1, <1>2, <1>3 DEF BufferIsRecent, Ahead, PutSoFar, Stops
<1>7. BufferHasAnId'
    BY <1>0, <1>1, <1>2, <1>3 DEF BufferHasAnId
<1>8. ProducersAreBusy'
    <2>1. ASSUME NEW v \in Producers
          PROVE  /\ producer'[v].at \subseteq producer'[v].todo
                 /\ producer'[v].todo \subseteq subscribers'
                 /\ producer'[v].pc \notin {"broadcast", "full"} => producer'[v].todo = {}
        BY <1>0, <1>1, <1>2 DEF ProducersAreBusy
    <2>2. Seq0(produced)' = Seq0(produced)
        BY <1>1 DEF Seq0
    <2>3. producer'["stop"].item = StopEvent /\ stopped'
        BY <1>0, <1>1, <1>2 DEF ProducersAreBusy, Busy
    <2> QED BY <1>0, <1>1, <1>2, <2>1, <2>2, <2>3 DEF ProducersAreBusy
<1>9. ASSUME NEW u \in Tabs PROVE Untouched(u) /\ Pending(u)' = Pending(u)
    BY <1>1, <1>2 DEF Untouched, Pending, Waiting
<1> QED BY <1>1, <1>2, <1>3, <1>4, <1>5, <1>6, <1>7, <1>8, <1>9, NoTabNotices DEF ChannelInv

\* The worker notes the number of its event; Stop may note an older one, and thereby
\* set the channel's last id back.
LEMMA NoteLastEventIdKeeps ==
    ASSUME TypeOK, RelayInv, NEW w \in Producers, NoteLastEventId(w)
    PROVE  RelayInv'
<1> USE RunFacts, ProducerFacts
<1>0. /\ RunIsNumbered /\ DetachedForAReason /\ BufferIsRecent /\ BufferHasAnId /\ ProducersAreBusy
    BY DEF RelayInv, ChannelInv
<1>1. /\ UNCHANGED <<produced, final, journal, unwritten, latest, attached, stopped,
                     buffer, evicted, subscribers, ghosts, queue, tab, shown, dropped, missed,
                     misled>>
      /\ producer[w].pc = "note"
      /\ lastEventId' = IF producer[w].noted # 0 THEN producer[w].noted ELSE lastEventId
    BY DEF NoteLastEventId, run, views
<1>2. /\ producer'[w].pc = "put"
      /\ \A v \in Producers : /\ producer'[v].item = producer[v].item
                              /\ producer'[v].noted = producer[v].noted
                              /\ producer'[v].todo = producer[v].todo
                              /\ producer'[v].at = producer[v].at
                              /\ v # w => producer'[v].pc = producer[v].pc
    BY DEF NoteLastEventId, ProducerType
<1>3. (Dead' <=> Dead) /\ Troubles' = Troubles
    <2>1. producer'["stop"].pc = "dead" <=> producer["stop"].pc = "dead"
        BY <1>1, <1>2
    <2> QED BY <1>1, <2>1, SameTroubles
<1>4. RunIsNumbered' /\ (lastEventId' = 0 => lastEventId = 0)
    <2>1. producer[w].noted \in journal \cup {0}
        BY <1>0, <1>1 DEF RunIsNumbered, ProducersAreBusy, Seq0
    <2> QED BY <1>0, <1>1, <1>2, <2>1 DEF RunIsNumbered
<1>5. DetachedForAReason'
    BY <1>0, <1>1, <1>2, <1>3 DEF DetachedForAReason
<1>6. BufferIsRecent'
    <2>1. Ahead' = Ahead
        BY <1>1, <1>2 DEF Ahead
    <2> QED BY <1>0, <1>1, <1>3, <2>1 DEF BufferIsRecent, PutSoFar, Stops
<1>7. BufferHasAnId'
    <2>1. w = "worker" => producer'["worker"].pc = "put"
        BY <1>2
    <2>2. w = "stop" => ~attached'
        BY <1>0, <1>1 DEF ProducersAreBusy, Busy, DetachedForAReason
    <2> QED BY <1>0, <1>1, <1>3, <1>4, <2>1, <2>2 DEF BufferHasAnId
<1>8. ProducersAreBusy'
    <2>1. ASSUME NEW v \in Producers
          PROVE  /\ producer'[v].at \subseteq producer'[v].todo
                 /\ producer'[v].todo \subseteq subscribers'
                 /\ producer'[v].pc \notin {"broadcast", "full"} => producer'[v].todo = {}
        BY <1>0, <1>1, <1>2 DEF ProducersAreBusy
    <2>2. Seq0(produced)' = Seq0(produced)
        BY <1>1 DEF Seq0
    <2>3. producer["worker"].pc \in Busy <=> producer'["worker"].pc \in Busy
        BY <1>1, <1>2 DEF Busy
    <2>4. producer["stop"].pc \in Busy <=> producer'["stop"].pc \in Busy
        BY <1>1, <1>2 DEF Busy
    <2> QED BY <1>0, <1>1, <1>2, <2>1, <2>2, <2>3, <2>4 DEF ProducersAreBusy
<1>9. ASSUME NEW u \in Tabs PROVE Untouched(u) /\ Pending(u)' = Pending(u)
    BY <1>1, <1>2 DEF Untouched, Pending, Waiting
<1>10. producer'["worker"].pc \in Unnoted => producer["worker"].pc \in Unnoted
    BY <1>1, <1>2
<1> QED BY <1>1, <1>3, <1>4, <1>5, <1>6, <1>7, <1>8, <1>9, <1>10, NoTabNotices DEF ChannelInv

\* A producer that has served every listener leaves nothing pending.
LEMMA PutDoneKeeps ==
    ASSUME TypeOK, RelayInv, NEW w \in Producers, PutDone(w)
    PROVE  RelayInv'
<1> USE RunFacts, ProducerFacts
<1>0. /\ RunIsNumbered /\ DetachedForAReason /\ BufferIsRecent /\ BufferHasAnId /\ ProducersAreBusy
    BY DEF RelayInv, ChannelInv
<1>1. /\ UNCHANGED <<produced, final, journal, unwritten, latest, attached, stopped, lastEventId,
                     buffer, evicted, subscribers, ghosts, queue, tab, shown, dropped, missed,
                     misled>>
      /\ producer[w].pc = "broadcast" /\ producer[w].todo = {}
    BY DEF PutDone, run, channel, views
<1>2. /\ producer'[w].pc = "idle" /\ producer'[w].todo = {} /\ producer'[w].at = {}
      /\ producer'[w].noted = 0
      /\ \A v \in Producers : v # w => producer'[v] = producer[v]
    BY DEF PutDone
<1>3. (Dead' <=> Dead) /\ Troubles' = Troubles
    <2>1. producer'["stop"].pc = "dead" <=> producer["stop"].pc = "dead"
        BY <1>1, <1>2
    <2> QED BY <1>1, <2>1, SameTroubles
<1>4. RunIsNumbered'
    BY <1>0, <1>1, <1>2 DEF RunIsNumbered
<1>5. DetachedForAReason'
    BY <1>0, <1>1, <1>2, <1>3 DEF DetachedForAReason
<1>6. BufferIsRecent'
    <2>1. Ahead' = Ahead
        BY <1>1, <1>2 DEF Ahead
    <2> QED BY <1>0, <1>1, <1>3, <2>1 DEF BufferIsRecent, PutSoFar, Stops
<1>7. BufferHasAnId'
    <2>1. producer'["worker"].pc \in Unnoted => producer["worker"].pc \in Unnoted
        BY <1>1, <1>2
    <2> QED BY <1>0, <1>1, <1>3, <2>1 DEF BufferHasAnId
<1>8. ProducersAreBusy'
    <2>1. ASSUME NEW v \in Producers
          PROVE  /\ producer'[v].at \subseteq producer'[v].todo
                 /\ producer'[v].todo \subseteq subscribers'
                 /\ producer'[v].pc \notin {"broadcast", "full"} => producer'[v].todo = {}
        BY <1>0, <1>1, <1>2 DEF ProducersAreBusy
    <2>2. Seq0(produced)' = Seq0(produced)
        BY <1>1 DEF Seq0
    <2> QED BY <1>0, <1>1, <1>2, <2>1, <2>2 DEF ProducersAreBusy, Busy
<1>9. ASSUME NEW u \in Tabs PROVE Untouched(u) /\ Pending(u)' = Pending(u)
    <2>1. Waiting(u)' <=> Waiting(u)
        BY <1>1, <1>2 DEF Waiting
    <2> QED BY <1>1, <2>1 DEF Untouched, Pending
<1>10. producer'["worker"].pc \in Unnoted => producer["worker"].pc \in Unnoted
    BY <1>1, <1>2
<1> QED BY <1>1, <1>3, <1>4, <1>5, <1>6, <1>7, <1>8, <1>9, <1>10, NoTabNotices DEF ChannelInv

\* The worker takes the channel out of STREAMS at its end, when nothing is pending.
LEMMA DetachKeeps == TypeOK /\ RelayInv /\ Detach => RelayInv'
<1> SUFFICES ASSUME TypeOK, RelayInv, Detach PROVE RelayInv'
    OBVIOUS
<1> USE RunFacts, ProducerFacts
<1>0. /\ RunIsNumbered /\ DetachedForAReason /\ BufferIsRecent /\ BufferHasAnId /\ ProducersAreBusy
    BY DEF RelayInv, ChannelInv
<1>1. /\ UNCHANGED <<produced, final, journal, unwritten, stopped, lastEventId,
                     buffer, evicted, subscribers, ghosts, queue, tab, shown, dropped, missed,
                     misled>>
      /\ producer["worker"].pc = "idle" /\ final # 0 /\ ~attached' /\ latest' = 0
    BY DEF Detach, channel, views
<1>2. /\ producer'["worker"].pc = "gone" /\ producer'["stop"] = producer["stop"]
      /\ producer'["worker"].todo = producer["worker"].todo
      /\ producer'["worker"].at = producer["worker"].at
    BY DEF Detach, ProducerType
<1>3. (Dead' <=> Dead) /\ Troubles' = Troubles
    BY <1>1, <1>2 DEF Dead, Troubles
<1>4. RunIsNumbered'
    BY <1>0, <1>1, <1>2 DEF RunIsNumbered
<1>5. DetachedForAReason'
    BY <1>0, <1>1, <1>2, <1>3 DEF DetachedForAReason
<1>6. BufferIsRecent'
    <2>1. Ahead' = Ahead
        BY <1>1, <1>2 DEF Ahead
    <2> QED BY <1>0, <1>1, <1>3, <2>1 DEF BufferIsRecent, PutSoFar, Stops
<1>7. BufferHasAnId'
    BY <1>0, <1>1, <1>3 DEF BufferHasAnId
<1>8. ProducersAreBusy'
    <2>1. ASSUME NEW v \in Producers
          PROVE  /\ producer'[v].at \subseteq producer'[v].todo
                 /\ producer'[v].todo \subseteq subscribers'
                 /\ producer'[v].pc \notin {"broadcast", "full"} => producer'[v].todo = {}
        BY <1>0, <1>1, <1>2 DEF ProducersAreBusy
    <2> QED BY <1>0, <1>1, <1>2, <2>1 DEF ProducersAreBusy, Busy
<1>9. ASSUME NEW u \in Tabs PROVE Untouched(u) /\ Pending(u)' = Pending(u)
    <2>1. Waiting(u)' <=> Waiting(u)
        BY <1>1, <1>2 DEF Waiting
    <2> QED BY <1>1, <2>1 DEF Untouched, Pending
<1> QED BY <1>1, <1>2, <1>3, <1>4, <1>5, <1>6, <1>7, <1>8, <1>9, NoTabNotices DEF ChannelInv

\* A handler whose tab has gone leaves: no tab notices.
LEMMA UnsubscribeKeeps == TypeOK /\ RelayInv /\ Unsubscribe => RelayInv'
<1> SUFFICES ASSUME TypeOK, RelayInv, Unsubscribe PROVE RelayInv'
    OBVIOUS
<1>1. UNCHANGED <<run, attached, stopped, lastEventId, buffer, evicted, subscribers, queue,
                  producer, tab, shown, dropped, missed, misled>>
    BY DEF Unsubscribe, views
<1>2. RolesStay(0)
    BY <1>1 DEF RolesStay, RelayInv, ProducersAreBusy
<1>3. ChannelInv' /\ ProducersAreBusy'
    BY <1>1, <1>2, ChannelKeeps
<1>4. ASSUME NEW u \in Tabs PROVE Untouched(u) /\ Pending(u)' = Pending(u)
    BY <1>1 DEF Untouched, Pending, Waiting, run
<1>5. Troubles' = Troubles /\ (Dead' <=> Dead)
    BY <1>1 DEF Troubles, Dead, run
<1> QED BY <1>1, <1>3, <1>4, <1>5, NoTabNotices DEF run

\* The server dies: what is left is the journal, and the cursors of the tabs.
LEMMA DieKeeps == TypeOK /\ RelayInv /\ Die => RelayInv'
<1> SUFFICES ASSUME TypeOK, RelayInv, Die PROVE RelayInv'
    OBVIOUS
<1> USE RunFacts, ProducerFacts
<1>0. /\ RunIsNumbered /\ DetachedForAReason /\ BufferIsRecent /\ BufferHasAnId /\ ProducersAreBusy
    BY DEF RelayInv, ChannelInv
<1>1. /\ UNCHANGED <<produced, final, journal, unwritten, latest, stopped, lastEventId, buffer,
                     evicted, shown, dropped, missed, misled>>
      /\ ~attached' /\ subscribers' = {}
      /\ \A t \in Tabs : queue'[t] = <<>>
      /\ \A t \in Tabs : tab'[t] = IF tab[t].pc \in {"over", "restoring"} THEN tab[t]
                                   ELSE Away(tab[t].cursor)
    BY DEF Die, run, views
<1>2. \A w \in Producers : producer'[w] = [NoProducer EXCEPT !.pc = "dead"]
    BY DEF Die
<1>3. \A w \in Producers : /\ producer'[w].pc = "dead" /\ producer'[w].todo = {}
                           /\ producer'[w].at = {} /\ producer'[w].noted = 0
    BY <1>2 DEF NoProducer
<1>4. Dead' /\ Troubles' # {}
    BY <1>3 DEF Dead, Troubles
<1>5. RunIsNumbered' /\ DetachedForAReason' /\ BufferIsRecent' /\ BufferHasAnId'
    BY <1>0, <1>1, <1>3, <1>4 DEF RunIsNumbered, DetachedForAReason, BufferIsRecent, BufferHasAnId
<1>6. ProducersAreBusy'
    BY <1>1, <1>3 DEF ProducersAreBusy, Busy
<1>7. ASSUME NEW u \in Tabs PROVE TabInv(u)'
    <2>0. /\ ViewIsUpToCursor(u) /\ VisitIsInOrder(u)
          /\ producer'["worker"].pc = "dead"
        BY <1>3 DEF RelayInv, TabInv
    <2>1. CASE tab[u].pc \in {"over", "restoring"}
        <3>1. tab'[u] = tab[u] /\ queue'[u] = <<>>
            BY <1>1, <2>1
        <3>2. ViewIsUpToCursor(u)' /\ NotAhead(u)'
            BY <1>1, <2>0, <3>1 DEF ViewIsUpToCursor, NotAhead
        <3>3. VisitIsInOrder(u)'
            BY <1>1, <2>0, <2>1, <3>1 DEF VisitIsInOrder, Served
        <3>4. ReadingFollows(u)' /\ Follows(u)'
            BY <2>1, <3>1 DEF ReadingFollows, Follows, Served
        <3> QED BY <3>2, <3>3, <3>4 DEF TabInv
    <2>2. CASE tab[u].pc \notin {"over", "restoring"}
        <3>0. tab'[u] = Away(tab[u].cursor) /\ queue'[u] = <<>>
            BY <1>1, <2>2
        <3>1. /\ tab'[u].pc = "away" /\ tab'[u].cursor = tab[u].cursor /\ tab'[u].fresh = FALSE
              /\ tab'[u].last = 0 /\ tab'[u].bound = 0 /\ queue'[u] = <<>>
            BY <3>0 DEF Away
        <3>2. ViewIsUpToCursor(u)' /\ NotAhead(u)'
            BY <1>1, <2>0, <2>2, <3>1 DEF ViewIsUpToCursor, NotAhead
        <3>3. VisitIsInOrder(u)'
            BY <1>1, <3>1 DEF VisitIsInOrder, Served
        <3>4. ReadingFollows(u)' /\ Follows(u)'
            BY <3>1 DEF ReadingFollows, Follows, Served
        <3> QED BY <3>2, <3>3, <3>4 DEF TabInv
    <2> QED BY <2>1, <2>2
<1> QED BY <1>5, <1>6, <1>7 DEF RelayInv, ChannelInv

\* The item goes into the buffer, or is pending for every listener.
LEMMA PutUnderLockKeeps ==
    ASSUME TypeOK, RelayInv, NEW w \in Producers, PutUnderLock(w)
    PROVE  RelayInv'
<1> DEFINE e == producer[w].item
<1> USE RunFacts, ProducerFacts
<1>0. /\ RunIsNumbered /\ DetachedForAReason /\ BufferIsRecent /\ BufferHasAnId /\ ProducersAreBusy
      /\ buffer \in Seq(Items) /\ Len(buffer) <= Cap /\ Cap \in Nat /\ Cap >= 1 /\ evicted \in Nat
    BY NumberTypes DEF RelayInv, ChannelInv, TypeOK
<1>1. /\ UNCHANGED <<produced, final, journal, unwritten, latest, attached, stopped, subscribers,
                     ghosts, queue, tab, shown, dropped, missed, misled>>
      /\ producer[w].pc = "put"
      /\ lastEventId' = IF Seq0(e) # 0 THEN e ELSE lastEventId
    BY DEF PutUnderLock, run, views
<1>2. /\ w = "worker" => e = produced /\ produced \in 1..produced
      /\ w = "stop" => e = StopEvent /\ stopped /\ ~attached
      /\ e \in Items /\ ~Dead
    <2>1. w = "worker" => e = produced /\ produced \in 1..produced
        BY <1>0, <1>1 DEF ProducersAreBusy, Busy
    <2>2. w = "stop" => e = StopEvent /\ stopped
        BY <1>0, <1>1 DEF ProducersAreBusy, Busy
    <2>3. ~Dead
        BY <1>0, <1>1 DEF Dead, DetachedForAReason
    <2> QED BY <1>0, <2>1, <2>2, <2>3, NumberTypes DEF DetachedForAReason, Items
<1>3. \/ /\ subscribers = {} /\ buffer' = Buffered(e)
         /\ producer' = [producer EXCEPT ![w] = NoProducer]
      \/ /\ subscribers # {} \/ ghosts > 0
         /\ buffer' = <<>> /\ evicted' = 0
         /\ producer' = [producer EXCEPT ![w].pc = "broadcast", ![w].todo = subscribers]
    BY DEF PutUnderLock
<1>4. /\ producer'[w].pc \in {"idle", "broadcast"}
      /\ producer'[w].pc = "idle" => subscribers = {} /\ buffer' = Buffered(e)
                                     /\ producer'[w].todo = {} /\ producer'[w].at = {}
                                     /\ producer'[w].noted = 0
      /\ producer'[w].pc = "broadcast" =>
            /\ buffer' = <<>> /\ evicted' = 0 /\ producer'[w].todo = subscribers
            /\ producer'[w].at = producer[w].at /\ producer'[w].item = e
            /\ producer'[w].noted = producer[w].noted
      /\ \A v \in Producers : v # w => producer'[v] = producer[v]
    BY <1>3 DEF ProducerType
<1>5. Troubles' = Troubles /\ (Dead' <=> Dead)
    <2>1. producer'["stop"].pc = "dead" <=> producer["stop"].pc = "dead"
        BY <1>1, <1>4
    <2> QED BY <1>1, <2>1, SameTroubles
<1>6. /\ lastEventId' \in journal \cup {0}
      /\ lastEventId' = 0 => lastEventId = 0 /\ e \notin journal
    BY <1>0, <1>1, <1>2 DEF RunIsNumbered, Seq0
<1>7. RunIsNumbered'
    BY <1>0, <1>1, <1>4, <1>6 DEF RunIsNumbered
<1>8. DetachedForAReason'
    BY <1>0, <1>1, <1>4, <1>5 DEF DetachedForAReason
<1>9. /\ e \in PutSoFar' /\ PutSoFar \subseteq PutSoFar'
      /\ journal \ Ahead' \subseteq (journal \ Ahead) \cup {e}
      /\ \A f \in PutSoFar : f = e \/ f < e \/ f = StopEvent
    <2>1. CASE w = "worker"
        <3>1. Ahead = {produced} /\ Ahead' = {}
            BY <1>1, <1>4, <2>1 DEF Ahead
        <3> QED BY <1>1, <1>2, <2>1, <3>1 DEF PutSoFar, Stops
    <2>2. CASE w = "stop"
        <3>1. Ahead' = Ahead
            BY <1>1, <1>4, <2>2 DEF Ahead
        <3>2. \A f \in 1..produced : f < StopEvent
            OBVIOUS
        <3> QED BY <1>1, <1>2, <2>2, <3>1, <3>2 DEF PutSoFar, Stops
    <2> QED BY <2>1, <2>2
<1>10. BufferIsRecent'
    <2>0. /\ Increasing(buffer) /\ Range(buffer) \subseteq PutSoFar
          /\ \A x \in Range(buffer), f \in journal \ Ahead : x <= f => f \in Range(buffer)
        BY <1>0, <1>2 DEF BufferIsRecent
    <2>1. CASE buffer' = <<>>
        BY <2>1, RangeOfNone DEF BufferIsRecent
    <2>2. CASE buffer' = Buffered(e)
        <3>1. PICK b \in Seq(Items) :
                  /\ buffer' = Append(b, e) /\ Increasing(b) /\ Range(b) \subseteq Range(buffer)
                  /\ \A x \in Range(b), f \in journal \ Ahead : x <= f => f \in Range(b)
            <4>1. CASE Len(buffer) < Cap
                BY <1>0, <2>0, <2>2, <4>1 DEF Buffered
            <4>2. CASE ~(Len(buffer) < Cap)
                <5>1. buffer # <<>> /\ buffer' = Append(Tail(buffer), e)
                    BY <1>0, <2>2, <4>2 DEF Buffered
                <5>2. /\ Tail(buffer) \in Seq(Items) /\ Increasing(Tail(buffer))
                      /\ Range(buffer) = {Head(buffer)} \cup Range(Tail(buffer))
                      /\ Head(buffer) \in Items
                      /\ Head(buffer) # StopEvent =>
                            \A f \in Range(Tail(buffer)) : f = StopEvent \/ Head(buffer) < f
                    BY <1>0, <2>0, <5>1, RangeOfTail, IncreasingTail
                <5>3. ASSUME NEW x \in Range(Tail(buffer)), NEW f \in journal \ Ahead, x <= f
                      PROVE  f \in Range(Tail(buffer))
                    <6>1. f \in Range(buffer)
                        BY <2>0, <5>2, <5>3
                    <6>2. x \in PutSoFar /\ x \in Nat /\ f \in Nat /\ f < StopEvent
                        BY <2>0, <5>2 DEF PutSoFar, Stops
                    <6>3. f # Head(buffer)
                        BY <5>2, <5>3, <6>2
                    <6> QED BY <5>2, <6>1, <6>3
                <5> QED BY <5>1, <5>2, <5>3
            <4> QED BY <4>1, <4>2
        <3>2. \A f \in Range(b) : f = StopEvent \/ f < e
            <4>1. CASE w = "stop"
                <5>1. \A f \in Range(b) : f \in PutSoFar
                    BY <2>0, <3>1
                <5> QED BY <1>2, <4>1, <5>1 DEF PutSoFar, Stops
            <4>2. CASE w = "worker"
                <5>1. Ahead = {produced} /\ e = produced
                    BY <1>1, <1>2, <4>2 DEF Ahead
                <5>2. \A f \in Range(b) : f \in PutSoFar
                    BY <2>0, <3>1
                <5> QED BY <5>1, <5>2 DEF PutSoFar, Stops
            <4> QED BY <4>1, <4>2
        <3>3. Range(buffer') = Range(b) \cup {e} /\ Increasing(buffer')
            BY <1>2, <3>1, <3>2, RangeOfAppend, IncreasingAppend
        <3>4. Range(buffer') \subseteq PutSoFar'
            BY <1>9, <2>0, <3>1, <3>3
        <3>5. ASSUME NEW x \in Range(buffer'), NEW f \in journal \ Ahead', x <= f
              PROVE  f \in Range(buffer')
            <4>1. CASE f = e
                BY <3>3, <4>1
            <4>2. CASE f # e
                <5>1. f \in journal \ Ahead /\ f < e
                    BY <1>2, <1>9, <4>2 DEF Items, Events
                <5>2. x # e
                    BY <1>2, <3>5, <5>1
                <5> QED BY <3>1, <3>3, <3>5, <5>1, <5>2
            <4> QED BY <4>1, <4>2
        <3> QED BY <1>1, <3>3, <3>4, <3>5 DEF BufferIsRecent
    <2> QED BY <1>3, <2>1, <2>2
<1>11. BufferHasAnId'
    <2>1. producer'["worker"].pc \in Unnoted => producer["worker"].pc \in Unnoted /\ w = "stop"
        BY <1>4
    <2>2. ASSUME lastEventId' = 0, w = "stop" PROVE Troubles' # {}
        <3>1. stopped'
            BY <1>1, <1>2, <2>2
        <3> QED BY <3>1 DEF Troubles
    <2>3. ASSUME lastEventId' = 0, w = "worker" PROVE Troubles' # {}
        <3>1. unwritten' # {}
            BY <1>0, <1>1, <1>2, <1>6, <2>3 DEF RunIsNumbered
        <3> QED BY <3>1 DEF Troubles
    <2>4. attached' /\ producer'["worker"].pc \in Unnoted => FALSE
        BY <1>1, <1>2, <2>1
    <2> QED BY <2>2, <2>3, <2>4 DEF BufferHasAnId
<1>12. ProducersAreBusy'
    <2>1. ASSUME NEW v \in Producers
          PROVE  /\ producer'[v].at \subseteq producer'[v].todo
                 /\ producer'[v].todo \subseteq subscribers'
                 /\ producer'[v].pc \notin {"broadcast", "full"} => producer'[v].todo = {}
        BY <1>0, <1>1, <1>4 DEF ProducersAreBusy
    <2>2. Seq0(produced)' = Seq0(produced)
        BY <1>1 DEF Seq0
    <2>3. producer'["worker"].pc \in Busy =>
              producer["worker"].pc \in Busy /\ producer'["worker"].item = producer["worker"].item
        BY <1>1, <1>4 DEF Busy
    <2>4. producer'["stop"].pc \in Busy =>
              producer["stop"].pc \in Busy /\ producer'["stop"].item = producer["stop"].item
        BY <1>1, <1>4 DEF Busy
    <2>5. /\ producer'["worker"].pc # "read"
          /\ producer'["worker"].pc \in Unnoted => producer'["worker"].noted = Seq0(produced)'
          /\ producer'["worker"].pc = "gone" => final' # 0
          /\ producer'["stop"].pc # "gone"
        BY <1>0, <1>1, <1>4, <2>2 DEF ProducersAreBusy
    <2> QED BY <1>0, <1>1, <2>1, <2>3, <2>4, <2>5 DEF ProducersAreBusy
<1>13. ASSUME NEW u \in Tabs
       PROVE  Untouched(u) /\ (tab[u].pc \in Served => Pending(u)' = Pending(u))
    <2>1. tab[u].pc \in Served => u \in subscribers
        BY DEF RelayInv, TabInv, VisitIsInOrder
    <2>2. tab[u].pc \in Served => (Waiting(u)' <=> Waiting(u))
        BY <1>1, <1>4, <2>1 DEF Waiting
    <2> QED BY <1>1, <2>2 DEF Untouched, Pending
<1>14. producer'["worker"].pc \in Unnoted => producer["worker"].pc \in Unnoted
    BY <1>1, <1>4
<1> QED BY <1>1, <1>5, <1>7, <1>8, <1>10, <1>11, <1>12, <1>13, <1>14, NoTabNotices DEF ChannelInv
-----------------------------------------------------------------------------
(***************************************************************************)
(* The steps of a tab, and those of a producer at its queue.               *)
(***************************************************************************)
\* The producers do not move.
LEMMA NobodyMoves ==
    ASSUME RelayInv, NEW t, UNCHANGED producer, subscribers \subseteq subscribers'
    PROVE  RolesStay(t)
BY DEF RolesStay, RelayInv, ProducersAreBusy

\* The item that was pending for a tab is in its queue, or waits for room there.
LEMMA PutInQueueKeeps ==
    ASSUME TypeOK, RelayInv, NEW w \in Producers, NEW t \in Tabs, PutInQueue(w, t)
    PROVE  RelayInv'
<1> DEFINE e == producer[w].item
<1> USE RunFacts, ProducerFacts
<1>0. /\ ProducersAreBusy /\ TabInv(t) /\ queue \in [Tabs -> Seq(Items)]
      /\ \A v \in Producers : producer[v] \in ProducerType
    BY DEF RelayInv, TypeOK
<1>1. /\ UNCHANGED <<run, attached, stopped, lastEventId, buffer, evicted, subscribers, ghosts, tab,
                     shown, dropped, missed, misled>>
      /\ UNCHANGED <<produced, final, journal>>
      /\ producer[w].pc = "broadcast" /\ t \in producer[w].todo
      /\ \A u \in Tabs \ {t} : queue'[u] = queue[u]
    BY <1>0 DEF PutInQueue, channel, views, run
<1>2. /\ producer[w].at \subseteq {t} /\ producer[w].todo \subseteq subscribers
      /\ \/ queue'[t] = Append(queue[t], e) /\ producer' = [producer EXCEPT ![w].todo = @ \ {t}, ![w].at = {}]
         \/ queue' = queue /\ producer' = [producer EXCEPT ![w].pc = "full", ![w].at = {t}]
    BY <1>0 DEF PutInQueue, ProducersAreBusy
<1>3. /\ \A v \in Producers : v # w => producer'[v] = producer[v]
      /\ producer'[w].item = e /\ producer'[w].noted = producer[w].noted
      /\ \/ /\ queue'[t] = Append(queue[t], e) /\ producer'[w].pc = "broadcast"
            /\ producer'[w].todo = producer[w].todo \ {t} /\ producer'[w].at = {}
         \/ /\ queue' = queue /\ producer'[w].pc = "full" 
            /\ producer'[w].todo = producer[w].todo /\ producer'[w].at = {t}
    <2>1. CASE /\ queue'[t] = Append(queue[t], e)
               /\ producer' = [producer EXCEPT ![w].todo = @ \ {t}, ![w].at = {}]
        <3>1. producer'[w] = [producer[w] EXCEPT !.todo = @ \ {t}, !.at = {}]
              /\ producer[w] \in ProducerType
            BY <1>0, <2>1
        <3> QED BY <1>1, <2>1, <3>1 DEF ProducerType
    <2>2. CASE queue' = queue /\ producer' = [producer EXCEPT ![w].pc = "full", ![w].at = {t}]
        <3>1. producer'[w] = [producer[w] EXCEPT !.pc = "full", !.at = {t}]
              /\ producer[w] \in ProducerType
            BY <1>0, <2>2
        <3> QED BY <2>2, <3>1 DEF ProducerType
    <2> QED BY <1>2, <2>1, <2>2
<1>4. RolesStay(t)
    <2>1. ASSUME NEW v \in Producers, v # w
          PROVE  producer'[v] = producer[v] /\ producer[v].at \subseteq producer[v].todo
                 /\ producer[v].todo \subseteq subscribers'
        BY <1>0, <1>1, <1>3, <2>1 DEF ProducersAreBusy
    <2>2. \/ producer'[w].pc = producer[w].pc
          \/ {producer[w].pc, producer'[w].pc} = {"broadcast", "full"}
        BY <1>1, <1>3
    <2>3. /\ producer'[w].at \subseteq producer'[w].todo /\ producer'[w].todo \subseteq subscribers'
          /\ producer'[w].todo \subseteq producer[w].todo
        BY <1>1, <1>2, <1>3
    <2>4. \A u \in Tabs \ {t} : u \in producer'["worker"].todo <=> u \in producer["worker"].todo
        BY <1>3
    <2> QED BY <1>3, <2>1, <2>2, <2>3, <2>4 DEF RolesStay
<1>5. \A u \in Tabs \ {t} : Untouched(u)
    BY <1>1 DEF Untouched
<1>6. tab[t].pc \in Served /\ Served = {"replay", "drain"}
    BY <1>0, <1>1, <1>2 DEF TabInv, VisitIsInOrder, Served
<1>7. /\ w = "worker" => e = produced /\ Pending(t) = {produced} /\ produced \in 1..produced
      /\ w = "stop" => e = StopEvent /\ Stops = {StopEvent}
      /\ e \in Items
    <2>1. w = "worker" => e = produced /\ produced # 0
        BY <1>0, <1>1 DEF ProducersAreBusy, Busy
    <2>2. w = "stop" => e = StopEvent /\ stopped
        BY <1>0, <1>1 DEF ProducersAreBusy, Busy
    <2> QED BY <1>1, <2>1, <2>2, NumberTypes DEF Stops, Pending, Waiting, Items
<1>8. Stops' = Stops
    BY <1>1 DEF Stops
<1>9. TabInv(t)'
    <2>0. /\ ViewIsUpToCursor(t) /\ NotAhead(t) /\ VisitIsInOrder(t) /\ ReadingFollows(t)
          /\ Follows(t)
        BY <1>0 DEF TabInv
    <2>1. ViewIsUpToCursor(t)'
        BY <1>1, <2>0 DEF ViewIsUpToCursor
    <2>2. producer'["worker"].pc \in Unnoted => producer["worker"].pc \in Unnoted
        BY <1>3
    <2>3. NotAhead(t)'
        BY <1>1, <2>0, <2>2 DEF NotAhead
    <2>4. Troubles' = Troubles /\ (Dead' <=> Dead)
        <3>1. producer'["stop"].pc = "dead" <=> producer["stop"].pc = "dead"
            BY <1>1, <1>3
        <3>2. unwritten' = unwritten /\ stopped' = stopped
            BY <1>1 DEF run
        <3> QED BY <3>1, <3>2, SameTroubles
    <2>5. VisitIsInOrder(t)' /\ ReadingFollows(t)'
        BY <1>1, <1>6, <2>0, <2>4 DEF VisitIsInOrder, ReadingFollows
    <2>6. Bound(t)' = Bound(t)
        BY <1>1 DEF Bound, DedupBound, After, ReplayMax
    <2>7. CASE queue' = queue /\ Pending(t)' = Pending(t)
        <3>1. QueueIsOrdered(t)'
            BY <1>1, <1>6, <1>8, <2>0, <2>7 DEF Follows, QueueIsOrdered
        <3>2. t \notin misled => NothingIsLost(t)' /\ NothingComesTwice(t)'
            BY <1>1, <1>6, <2>0, <2>6, <2>7 DEF Follows, NothingIsLost, NothingComesTwice
        <3>3. Follows(t)'
            BY <1>1, <2>0, <3>1, <3>2 DEF Follows
        <3> QED BY <2>1, <2>3, <2>5, <3>3 DEF TabInv
    <2>8. CASE queue'[t] = Append(queue[t], e) /\ Pending(t)' = Pending(t) \ {e}
        <3>1. queue[t] \in Seq(Items) /\ QueueIsOrdered(t)
            BY <1>0, <1>6, <2>0 DEF Follows
        <3>2. Range(queue'[t]) = Range(queue[t]) \cup {e}
            BY <1>7, <2>8, <3>1, RangeOfAppend
        <3>3. /\ Range(queue[t]) \subseteq (1..produced \ Pending(t)) \cup Stops
              /\ Pending(t) \subseteq {produced}
            BY <3>1 DEF QueueIsOrdered, Pending
        <3>4. e = StopEvent \/ \A f \in Range(queue[t]) : f = StopEvent \/ f < e
            BY <1>7, <3>3 DEF Stops
        <3>5. Increasing(queue'[t])
            BY <1>7, <2>8, <3>1, <3>4, IncreasingAppend DEF QueueIsOrdered
        <3>6. QueueIsOrdered(t)'
            <4>1. e \in (1..produced \ (Pending(t) \ {e})) \cup Stops
                BY <1>7
            <4> QED BY <1>1, <1>8, <2>8, <3>2, <3>3, <3>5, <4>1 DEF QueueIsOrdered
        <3>7. journal \cap (Pending(t) \ {e}) \subseteq journal \cap Pending(t)
              /\ journal \cap ({e} \cup Range(queue[t])) \subseteq Pending(t) \cup Range(queue[t])
            BY <1>7
        <3>8. ASSUME t \notin misled PROVE NothingIsLost(t)' /\ NothingComesTwice(t)'
            <4>1. NothingIsLost(t) /\ NothingComesTwice(t)
                BY <1>6, <2>0, <3>8 DEF Follows
            <4>2. NothingIsLost(t)'
                BY <1>1, <2>6, <2>8, <3>2, <4>1 DEF NothingIsLost
            <4>3. NothingComesTwice(t)'
                BY <1>1, <2>6, <2>8, <3>2, <3>7, <4>1 DEF NothingComesTwice
            <4> QED BY <4>2, <4>3
        <3>9. Follows(t)'
            BY <1>1, <2>0, <3>6, <3>8 DEF Follows
        <3> QED BY <2>1, <2>3, <2>5, <3>9 DEF TabInv
    <2>9. CASE queue' = queue /\ producer'[w].pc = "full" /\ producer'[w].todo = producer[w].todo
        <3>1. Waiting(t)' <=> Waiting(t)
            BY <1>1, <1>3, <2>9 DEF Waiting
        <3>2. Pending(t)' = Pending(t)
            BY <1>1, <3>1 DEF Pending
        <3> QED BY <2>7, <2>9, <3>2
    <2>10. CASE /\ queue'[t] = Append(queue[t], e) /\ producer'[w].pc = "broadcast"
                /\ producer'[w].todo = producer[w].todo \ {t}
        <3>1. CASE w = "worker"
            <4>1. ~Waiting(t)'
                BY <2>10, <3>1 DEF Waiting
            <4>2. Pending(t)' = {}
                BY <4>1 DEF Pending
            <4> QED BY <1>7, <2>8, <2>10, <3>1, <4>2
        <3>2. CASE w = "stop"
            <4>1. Waiting(t)' <=> Waiting(t)
                BY <1>1, <1>3, <3>2 DEF Waiting
            <4>2. Pending(t)' = Pending(t) /\ Pending(t) \subseteq {produced}
                BY <1>1, <4>1 DEF Pending
            <4>3. e \notin Pending(t)
                BY <1>7, <3>2, <4>2
            <4> QED BY <2>8, <2>10, <4>2, <4>3
        <3> QED BY <3>1, <3>2
    <2> QED BY <1>3, <2>9, <2>10
<1> QED BY <1>1, <1>4, <1>5, <1>9, HandlerKeeps

\* What a full queue drops is on record as dropped, and what waits for room still waits.
LEMMA DropOldestKeeps ==
    ASSUME TypeOK, RelayInv, NEW w \in Producers, NEW t \in Tabs, DropOldest(w, t)
    PROVE  RelayInv'
<1> USE RunFacts, ProducerFacts
<1>0. /\ ProducersAreBusy /\ TabInv(t) /\ queue \in [Tabs -> Seq(Items)]
      /\ \A v \in Producers : producer[v] \in ProducerType
      /\ dropped \in [Tabs -> SUBSET Items]
    BY DEF RelayInv, TypeOK
<1>1. /\ UNCHANGED <<run, attached, stopped, lastEventId, buffer, evicted, subscribers, ghosts, tab,
                     shown, missed, misled>>
      /\ UNCHANGED <<produced, final, journal>>
      /\ producer[w].pc = "full" /\ producer[w].at = {t}
      /\ \A u \in Tabs \ {t} : queue'[u] = queue[u] /\ dropped'[u] = dropped[u]
    BY <1>0 DEF DropOldest, channel, run
<1>2. /\ \A v \in Producers : v # w => producer'[v] = producer[v]
      /\ producer'[w].item = producer[w].item /\ producer'[w].noted = producer[w].noted
      /\ producer'[w].pc = "broadcast" /\ producer'[w].todo = producer[w].todo
      /\ producer'[w].at \subseteq producer[w].at
    BY <1>0 DEF DropOldest, StillTodo, ProducerType
<1>3. \/ dropped' = dropped /\ queue' = queue
      \/ /\ queue[t] # <<>> /\ dropped'[t] = dropped[t] \cup {Head(queue[t])}
         /\ queue'[t] = Tail(queue[t])
    BY <1>0 DEF DropOldest
<1>4. RolesStay(t)
    <2>1. ASSUME NEW v \in Producers
          PROVE  producer[v].at \subseteq producer[v].todo /\ producer[v].todo \subseteq subscribers'
        BY <1>0, <1>1 DEF ProducersAreBusy
    <2>2. ASSUME NEW v \in Producers, v # w PROVE producer'[v] = producer[v]
        BY <1>2, <2>2
    <2>3. {producer[w].pc, producer'[w].pc} = {"broadcast", "full"}
        BY <1>1, <1>2
    <2>4. /\ producer'[w].at \subseteq producer'[w].todo /\ producer'[w].todo \subseteq subscribers'
          /\ producer'[w].todo \subseteq producer[w].todo
        BY <1>2, <2>1
    <2>5. \A u \in Tabs \ {t} : u \in producer'["worker"].todo <=> u \in producer["worker"].todo
        BY <1>2
    <2> QED BY <1>2, <2>1, <2>2, <2>3, <2>4, <2>5 DEF RolesStay
<1>5. \A u \in Tabs \ {t} : Untouched(u)
    BY <1>1 DEF Untouched
<1>6. tab[t].pc \in Served
    <2>1. t \in subscribers
        BY <1>0, <1>1 DEF ProducersAreBusy
    <2> QED BY <1>0, <2>1 DEF TabInv, VisitIsInOrder
<1>7. Stops' = Stops /\ Pending(t)' = Pending(t)
    <2>1. Waiting(t)' <=> Waiting(t)
        BY <1>1, <1>2 DEF Waiting
    <2> QED BY <1>1, <2>1 DEF Stops, Pending
<1>8. /\ Range(queue'[t]) \subseteq Range(queue[t]) /\ Increasing(queue'[t])
      /\ dropped[t] \cup Range(queue[t]) = dropped'[t] \cup Range(queue'[t])
      /\ dropped'[t] \subseteq dropped[t] \cup Range(queue[t])
    <2>1. Increasing(queue[t]) /\ queue[t] \in Seq(Items)
        BY <1>0, <1>6 DEF TabInv, Follows, QueueIsOrdered
    <2>2. CASE dropped' = dropped /\ queue' = queue
        BY <2>1, <2>2
    <2>3. CASE /\ queue[t] # <<>> /\ dropped'[t] = dropped[t] \cup {Head(queue[t])}
               /\ queue'[t] = Tail(queue[t])
        <3>1. /\ Range(queue[t]) = {Head(queue[t])} \cup Range(Tail(queue[t]))
              /\ Increasing(Tail(queue[t]))
            BY <2>1, <2>3, RangeOfTail, IncreasingTail
        <3> QED BY <2>3, <3>1
    <2> QED BY <1>3, <2>2, <2>3
<1>9. TabInv(t)'
    <2>0. /\ ViewIsUpToCursor(t) /\ NotAhead(t) /\ VisitIsInOrder(t) /\ ReadingFollows(t)
          /\ Follows(t)
        BY <1>0 DEF TabInv
    <2>1. QueueIsOrdered(t) /\ QueueIsOrdered(t)'
        <3>1. QueueIsOrdered(t)
            BY <1>6, <2>0 DEF Follows
        <3> QED BY <1>1, <1>7, <1>8, <3>1 DEF QueueIsOrdered
    <2>2. ViewIsUpToCursor(t)'
        <3>1. dropped'[t] \subseteq 1..produced \cup {StopEvent}
            BY <1>8, <2>0, <2>1 DEF QueueIsOrdered, Stops, ViewIsUpToCursor
        <3> QED BY <1>1, <2>0, <3>1 DEF ViewIsUpToCursor
    <2>3. producer'["worker"].pc \in Unnoted => producer["worker"].pc \in Unnoted
        BY <1>2
    <2>4. NotAhead(t)'
        BY <1>1, <2>0, <2>3 DEF NotAhead
    <2>5. Troubles' = Troubles /\ (Dead' <=> Dead)
        <3>1. producer'["stop"].pc = "dead" <=> producer["stop"].pc = "dead"
            BY <1>1, <1>2
        <3>2. unwritten' = unwritten /\ stopped' = stopped
            BY <1>1 DEF run
        <3> QED BY <3>1, <3>2, SameTroubles
    <2>6. VisitIsInOrder(t)' /\ ReadingFollows(t)'
        BY <1>1, <1>6, <2>0, <2>5 DEF VisitIsInOrder, ReadingFollows
    <2>7. Bound(t)' = Bound(t)
        BY <1>1 DEF Bound, DedupBound, After, ReplayMax
    <2>8. ASSUME t \notin misled PROVE NothingIsLost(t)' /\ NothingComesTwice(t)'
        <3>1. NothingIsLost(t) /\ NothingComesTwice(t)
            BY <1>6, <2>0, <2>8 DEF Follows
        <3>2. NothingIsLost(t)'
            BY <1>1, <1>7, <1>8, <2>7, <3>1 DEF NothingIsLost
        <3>3. NothingComesTwice(t)'
            BY <1>1, <1>7, <1>8, <2>7, <3>1 DEF NothingComesTwice
        <3> QED BY <3>2, <3>3
    <2>9. Follows(t)'
        BY <1>1, <2>0, <2>1, <2>8 DEF Follows
    <2> QED BY <2>2, <2>4, <2>6, <2>9 DEF TabInv
<1> QED BY <1>1, <1>4, <1>5, <1>9, HandlerKeeps

\* A tab comes back with its cursor.
LEMMA AskKeeps ==
    ASSUME TypeOK, RelayInv, NEW t \in Tabs, Ask(t)
    PROVE  RelayInv'
<1> USE RunFacts, ProducerFacts
<1>0. TabInv(t) /\ tab \in [Tabs -> TabType] /\ tab[t] \in TabType /\ DetachedForAReason
    BY DEF RelayInv, ChannelInv, TypeOK
<1>1. /\ UNCHANGED <<run, attached, stopped, lastEventId, buffer, evicted, subscribers, ghosts,
                     queue, producer, shown, dropped, missed, misled>>
      /\ UNCHANGED <<produced, final, journal, unwritten>>
      /\ tab[t].pc = "away"
      /\ tab' = [tab EXCEPT ![t].pc = IF attached THEN "asking" ELSE "ended"]
    BY DEF Ask, channel, views, run
<1>2. /\ tab'[t].pc = IF attached THEN "asking" ELSE "ended"
      /\ tab'[t].cursor = tab[t].cursor /\ tab'[t].fresh = tab[t].fresh
      /\ tab'[t].last = tab[t].last /\ tab'[t].bound = tab[t].bound
      /\ tab'[t].replay = tab[t].replay
      /\ \A u \in Tabs \ {t} : tab'[u] = tab[u]
    BY <1>0, <1>1 DEF TabType
<1>3. RolesStay(t) /\ \A u \in Tabs \ {t} : Untouched(u)
    BY <1>1, <1>2, NobodyMoves DEF Untouched
<1>4. TabInv(t)'
    <2>0. ViewIsUpToCursor(t) /\ NotAhead(t) /\ VisitIsInOrder(t)
        BY <1>0 DEF TabInv
    <2>1. ViewIsUpToCursor(t)'
        BY <1>1, <1>2, <2>0 DEF ViewIsUpToCursor
    <2>2. NotAhead(t)'
        BY <1>1, <1>2, <2>0 DEF NotAhead
    <2>3. VisitIsInOrder(t)'
        BY <1>0, <1>1, <1>2, <2>0 DEF VisitIsInOrder, Served, Dead, DetachedForAReason
    <2>4. ReadingFollows(t)' /\ Follows(t)'
        BY <1>2 DEF ReadingFollows, Follows, Served
    <2> QED BY <2>1, <2>2, <2>3, <2>4 DEF TabInv
<1> QED BY <1>1, <1>3, <1>4, HandlerKeeps

\* A tab subscribes: the buffer becomes its queue, and what is neither there nor pending
\* is in the journal, up to where the replay will end.
LEMMA SubscribeKeeps ==
    ASSUME TypeOK, RelayInv, NEW t \in Tabs, Subscribe(t)
    PROVE  RelayInv'
<1> USE RunFacts, ProducerFacts
<1>0. /\ TabInv(t) /\ tab \in [Tabs -> TabType] /\ tab[t] \in TabType /\ ProducersAreBusy
      /\ BufferIsRecent /\ BufferHasAnId /\ RunIsNumbered
      /\ queue \in [Tabs -> Seq(Items)] /\ dropped \in [Tabs -> SUBSET Items]
      /\ buffer \in Seq(Items)
    BY DEF RelayInv, ChannelInv, TypeOK
<1>1. /\ UNCHANGED <<run, attached, stopped, lastEventId, buffer, evicted, producer, shown, missed>>
      /\ UNCHANGED <<produced, final, journal, unwritten>>
      /\ tab[t].pc = "asking" /\ subscribers' = subscribers \cup {t}
      /\ queue' = [queue EXCEPT ![t] = buffer]
      /\ dropped' = [dropped EXCEPT ![t] = Gone(t)]
      /\ misled' = IF SetBack THEN misled \cup {t} ELSE misled
      /\ tab' = [tab EXCEPT ![t].pc = "replay", ![t].evicted = evicted, ![t].last = lastEventId,
                            ![t].first = IF buffer = <<>> THEN 0 ELSE Seq0(Head(buffer))]
    BY DEF Subscribe, run
<1>2. /\ tab'[t].pc = "replay" /\ tab'[t].evicted = evicted /\ tab'[t].last = lastEventId
      /\ tab'[t].first = IF buffer = <<>> THEN 0 ELSE Seq0(Head(buffer))
      /\ tab'[t].cursor = tab[t].cursor /\ tab'[t].fresh = tab[t].fresh
      /\ tab'[t].bound = tab[t].bound /\ tab'[t].replay = tab[t].replay
      /\ queue'[t] = buffer /\ dropped'[t] = Gone(t)
      /\ \A u \in Tabs \ {t} : /\ tab'[u] = tab[u] /\ queue'[u] = queue[u]
                               /\ dropped'[u] = dropped[u]
                               /\ u \in misled' <=> u \in misled
    BY <1>0, <1>1 DEF TabType
<1>3. RolesStay(t) /\ \A u \in Tabs \ {t} : Untouched(u)
    <2>1. subscribers \subseteq subscribers' /\ UNCHANGED producer
        BY <1>1
    <2>2. RolesStay(t)
        BY <2>1, NobodyMoves
    <2>3. ASSUME NEW u \in Tabs \ {t} PROVE Untouched(u)
        <3>1. /\ tab'[u] = tab[u] /\ queue'[u] = queue[u] /\ dropped'[u] = dropped[u]
              /\ u \in misled' <=> u \in misled
            BY <1>2
        <3>2. u \in subscribers' <=> u \in subscribers
            BY <1>1
        <3> QED BY <1>1, <3>1, <3>2 DEF Untouched
    <2> QED BY <2>2, <2>3
<1>4. /\ ViewIsUpToCursor(t) /\ NotAhead(t) /\ VisitIsInOrder(t) /\ ~Dead
      /\ Stops' = Stops /\ t \notin subscribers
    BY <1>0, <1>1 DEF TabInv, VisitIsInOrder, Served, Stops
<1>5. Pending(t)' = Ahead /\ Pending(t)' \subseteq {produced}
    <2>1. t \notin producer["worker"].todo
        BY <1>0, <1>4 DEF ProducersAreBusy
    <2>2. Waiting(t)' <=> producer["worker"].pc \in {"journaled", "note", "put"}
        BY <1>1, <2>1 DEF Waiting
    <2> QED BY <1>1, <2>2 DEF Pending, Ahead
<1>6. ViewIsUpToCursor(t)'
    <2>1. Gone(t) \subseteq 1..produced
        BY DEF Gone
    <2>2. t \notin misled' => t \notin misled
        BY <1>1
    <2>3. /\ tab'[t].pc = "replay" /\ tab[t].pc = "asking" /\ tab'[t].cursor = tab[t].cursor
          /\ UNCHANGED <<journal, final, produced, shown, missed>> /\ dropped'[t] \subseteq 1..produced
        BY <1>1, <1>2, <2>1
    <2> QED BY <1>4, <2>2, <2>3 DEF ViewIsUpToCursor
<1>7. NotAhead(t)'
    BY <1>0, <1>1, <1>2, <1>4 DEF NotAhead, BufferHasAnId
<1>8. VisitIsInOrder(t)'
    <2>1. Troubles' = Troubles
        BY <1>1 DEF Troubles
    <2>2. tab'[t].evicted > 0 /\ tab'[t].last = 0 => Troubles # {}
        BY <1>0, <1>2 DEF BufferHasAnId
    <2> QED BY <1>0, <1>1, <1>2, <1>4, <2>1, <2>2 DEF VisitIsInOrder, Served, RunIsNumbered
<1>9. QueueIsOrdered(t)'
    <2>1. Increasing(buffer) /\ Range(buffer) \subseteq (1..produced \ Ahead) \cup Stops
        BY <1>0, <1>4 DEF BufferIsRecent, PutSoFar
    <2> QED BY <1>1, <1>2, <1>4, <1>5, <2>1 DEF QueueIsOrdered
<1>10. ASSUME t \notin misled'
       PROVE  NothingIsLost(t)' /\ NothingComesTwice(t)' /\ tab'[t].cursor <= tab'[t].last
    <2>1. ~SetBack
        BY <1>1, <1>10
    <2>2. ASSUME NEW f \in journal, f \notin Ahead PROVE f <= lastEventId
        <3>1. ~(lastEventId < f) \/ (producer["worker"].pc \in Unnoted /\ producer["worker"].item = f)
            BY <2>1 DEF SetBack
        <3>2. producer["worker"].pc \in Unnoted => producer["worker"].item = produced
            BY <1>0 DEF ProducersAreBusy, Busy
        <3> QED BY <2>2, <3>1, <3>2 DEF Ahead
    <2>3. tab[t].cursor \in journal \cup {0} /\ tab[t].cursor <= lastEventId
        <3>1. tab[t].cursor \in journal \cup {0}
            BY <1>4 DEF ViewIsUpToCursor
        <3>2. CASE tab[t].cursor \in journal
            <4>1. CASE tab[t].cursor \notin Ahead
                BY <2>2, <3>2, <4>1
            <4>2. CASE tab[t].cursor \in Ahead
                <5>1. tab[t].cursor = produced /\ producer["worker"].pc \in {"journaled", "note", "put"}
                    BY <4>2 DEF Ahead
                <5>2. producer["worker"].pc \notin Unnoted
                    BY <1>1, <1>4, <5>1 DEF NotAhead
                <5>3. ~(lastEventId < tab[t].cursor)
                    BY <2>1, <3>2, <5>2 DEF SetBack
                <5>4. tab[t].cursor \in Int /\ lastEventId \in Int
                    OBVIOUS
                <5> QED BY <3>1, <5>3, <5>4
            <4> QED BY <4>1, <4>2
        <3> QED BY <3>1, <3>2
    <2>4. After(t)' = tab[t].cursor
        BY <1>2, <2>3 DEF After
    <2>5. /\ tab[t].fresh => Bound(t)' = 0 /\ tab[t].cursor = 0
          /\ ~tab[t].fresh => Bound(t)' = DedupBound(t)'
        BY <1>2, <1>4 DEF Bound, VisitIsInOrder
    <2>6. ~tab[t].fresh => Bound(t)' >= tab[t].cursor
        <3>1. ReplayMax(t)' \in Int
            BY <1>2 DEF ReplayMax, Seq0
        <3> QED BY <2>4, <2>5, <3>1 DEF DedupBound
    <2>7. NothingComesTwice(t)'
        <3>1. \A x \in journal : x > Bound(t)' => x > tab[t].cursor
            <4>1. CASE tab[t].fresh
                BY <2>5, <4>1
            <4>2. CASE ~tab[t].fresh
                <5>1. DedupBound(t)' \in Int
                    <6>1. ReplayMax(t)' \in Int
                        BY <1>2 DEF ReplayMax, Seq0
                    <6> QED BY <2>4, <6>1 DEF DedupBound
                <5> QED BY <2>5, <2>6, <4>2, <5>1
            <4> QED BY <4>1, <4>2
        <3> QED BY <1>1, <1>2, <3>1 DEF NothingComesTwice
    <2>8. ASSUME NEW f \in journal, f > tab[t].cursor, f > Bound(t)', f \notin Ahead
          PROVE  f \in Gone(t) \cup Range(buffer)
        <3>1. CASE tab[t].fresh
            <4>1. f \notin ToBePut
                <5>1. ASSUME NEW v \in Producers, producer[v].pc \in {"journaled", "read", "note", "put"}
                      PROVE  producer[v].item # f
                    <6>1. CASE v = "worker"
                        BY <1>0, <2>8, <5>1, <6>1 DEF ProducersAreBusy, Busy, Ahead
                    <6>2. CASE v = "stop"
                        BY <1>0, <5>1, <6>2 DEF ProducersAreBusy, Busy
                    <6> QED BY <6>1, <6>2
                <5>2. DOMAIN producer = Producers
                    OBVIOUS
                <5> QED BY <5>1, <5>2 DEF ToBePut
            <4>2. f \in 1..produced
                OBVIOUS
            <4> QED BY <3>1, <4>1, <4>2 DEF Gone
        <3>2. CASE ~tab[t].fresh
            <4>1. f > ReplayMax(t)' /\ f <= lastEventId
                <5>1. ReplayMax(t)' \in Int
                    BY <1>2 DEF ReplayMax, Seq0
                <5>2. journal' # {}
                    BY <1>1
                <5> QED BY <2>2, <2>4, <2>5, <2>8, <3>2, <5>1, <5>2 DEF DedupBound
            <4>2. /\ buffer # <<>> /\ Head(buffer) \in journal /\ f >= Head(buffer)
                <5>1. tab'[t].first # 0 /\ ReplayMax(t)' = tab'[t].first - 1
                    BY <1>2, <4>1 DEF ReplayMax
                <5>2. buffer # <<>> /\ Head(buffer) \in journal /\ tab'[t].first = Head(buffer)
                    BY <1>2, <5>1 DEF Seq0
                <5> QED BY <4>1, <5>1, <5>2
            <4>3. Head(buffer) \in Range(buffer)
                BY <1>0, <4>2, RangeOfTail
            <4> QED BY <1>0, <1>4, <2>8, <4>2, <4>3 DEF BufferIsRecent
        <3> QED BY <3>1, <3>2
    <2>9. NothingIsLost(t)'
        BY <1>1, <1>2, <1>5, <2>8 DEF NothingIsLost
    <2> QED BY <1>2, <2>3, <2>7, <2>9
<1>11. Follows(t)' /\ ReadingFollows(t)'
    BY <1>2, <1>9, <1>10 DEF Follows, ReadingFollows
<1>12. TabInv(t)'
    BY <1>6, <1>7, <1>8, <1>11 DEF TabInv
<1> QED BY <1>1, <1>3, <1>12, HandlerKeeps

\* The number an event goes out with.
LEMMA SentNumber ==
    ASSUME TypeOK, RelayInv, NEW t \in Tabs, NEW e \in Items
    PROVE  /\ e \in journal => SentAs(e) = e
           /\ e \notin journal => SentAs(e) = IF e = StopEvent THEN latest ELSE 0
           /\ SentAs(e) \in journal \cup {0} /\ SentAs(e) \in Nat
           /\ Cursor(t, e) \in journal \cup {0} /\ Cursor(t, e) \in Nat
           /\ Cursor(t, e) >= SentAs(e) /\ Cursor(t, e) >= tab[t].cursor
           /\ Cursor(t, e) \in {SentAs(e), tab[t].cursor}
<1> USE RunFacts
<1>1. latest \in journal \cup {0} /\ tab[t].cursor \in journal \cup {0} /\ journal \subseteq Nat
      /\ latest \in Nat /\ tab[t].cursor \in Nat /\ e \in Nat
    BY NumberTypes DEF RelayInv, ChannelInv, RunIsNumbered, TabInv, ViewIsUpToCursor
<1>2. /\ e \in journal => SentAs(e) = e
      /\ e \notin journal => SentAs(e) = IF e = StopEvent THEN latest ELSE 0
    BY <1>1 DEF SentAs, Seq0
<1>3. SentAs(e) \in journal \cup {0} /\ SentAs(e) \in Nat
    BY <1>1, <1>2
<1> QED BY <1>1, <1>2, <1>3 DEF Cursor

\* The item that is up next: replayed, or from the queue.
Replayed(t, e) ==
    /\ tab[t].pc \in {"drain", "reading"}
    /\ e \in tab[t].replay /\ \A f \in tab[t].replay : e <= f

Queued(t, e) ==
    /\ tab[t].pc = "drain" /\ tab[t].replay = {}
    /\ queue[t] # <<>> /\ e = Head(queue[t]) /\ ~AlreadySent(t, e)

UpNext(t, e) == Replayed(t, e) \/ Queued(t, e)

\* It is an event of the run that the tab has not seen, and no event of the
\* journal before it is still to come.
LEMMA NothingIsSkipped ==
    ASSUME TypeOK, RelayInv, NEW t \in Tabs, NEW e, UpNext(t, e)
    PROVE  /\ e \in Items /\ e \in 1..produced \cup Stops
           /\ Queued(t, e) => e \notin Pending(t)
           /\ t \notin misled /\ e \in journal => e > tab[t].cursor
           /\ t \notin misled /\ e # StopEvent =>
                 \A f \in journal : f < e => f \in Range(shown[t]) \cup missed[t] \cup dropped[t]
<1> USE RunFacts
<1>0. /\ ViewIsUpToCursor(t) /\ VisitIsInOrder(t) /\ ReadingFollows(t) /\ Follows(t)
      /\ ProducersAreBusy /\ queue[t] \in Seq(Items) /\ tab[t].cursor \in Nat
      /\ tab[t].bound \in Nat
    BY DEF RelayInv, TabInv, TypeOK
<1>1. /\ Pending(t) \subseteq {produced} /\ Stops \subseteq {StopEvent} /\ Stops \subseteq Items
      /\ journal \subseteq Items /\ 1..produced \subseteq Items
    BY NumberTypes DEF Pending, Stops, Items
<1>2. ASSUME t \notin misled, NEW f \in journal, f <= tab[t].cursor
      PROVE  f \in Range(shown[t]) \cup missed[t]
    <2>1. tab[t].pc # "over"
        BY DEF UpNext, Replayed, Queued
    <2> QED BY <1>0, <1>2, <2>1 DEF ViewIsUpToCursor
<1>3. CASE Replayed(t, e) /\ tab[t].pc = "reading"
    <2>1. e \in journal /\ e > tab[t].cursor
        BY <1>0, <1>3 DEF Replayed, ReadingFollows
    <2>2. ASSUME t \notin misled, NEW f \in journal, f < e
          PROVE  f \in Range(shown[t]) \cup missed[t]
        <3>1. tab[t].cursor < f => f \in tab[t].replay
            BY <1>0, <1>3, <2>2 DEF Replayed, ReadingFollows
        <3>2. f \notin tab[t].replay
            BY <1>3, <2>1, <2>2 DEF Replayed
        <3> QED BY <1>0, <1>2, <2>2, <3>1, <3>2
    <2>3. ~Queued(t, e)
        BY <1>3 DEF Queued
    <2> QED BY <1>1, <2>1, <2>2, <2>3
<1>4. CASE Replayed(t, e) /\ tab[t].pc = "drain"
    <2>1. e \in journal /\ e <= tab[t].bound
        BY <1>0, <1>4 DEF Replayed, VisitIsInOrder
    <2>2. ASSUME t \notin misled
          PROVE  tab[t].replay = {f \in journal : tab[t].cursor < f /\ f <= tab[t].bound}
        BY <1>0, <1>4, <2>2 DEF Follows, Served
    <2>3. t \notin misled => e > tab[t].cursor
        BY <1>4, <2>2 DEF Replayed
    <2>4. ASSUME t \notin misled, NEW f \in journal, f < e
          PROVE  f \in Range(shown[t]) \cup missed[t]
        <3>1. f \notin tab[t].replay
            BY <1>4, <2>1, <2>4 DEF Replayed
        <3>2. f <= tab[t].cursor
            BY <1>0, <2>1, <2>2, <2>4, <3>1
        <3> QED BY <1>2, <2>4, <3>2
    <2>5. ~Queued(t, e)
        BY <1>4 DEF Queued, Replayed
    <2> QED BY <1>1, <2>1, <2>3, <2>4, <2>5
<1>5. CASE Queued(t, e)
    <2>1. /\ Range(queue[t]) = {e} \cup Range(Tail(queue[t])) /\ e \in Items
          /\ tab[t].pc = "drain" /\ tab[t].replay = {}
        BY <1>0, <1>5, RangeOfTail DEF Queued
    <2>2. QueueIsOrdered(t)
        BY <1>0, <2>1 DEF Follows, Served
    <2>3. e \in (1..produced \ Pending(t)) \cup Stops
        BY <2>1, <2>2 DEF QueueIsOrdered
    <2>4. e # StopEvent => \A f \in Range(Tail(queue[t])) : f = StopEvent \/ e < f
        BY <1>0, <1>5, <2>2, IncreasingTail DEF Queued, QueueIsOrdered
    <2>5. e \notin Pending(t)
        <3>1. Pending(t) # {} => produced \in 1..produced
            BY <1>0 DEF Pending, Waiting, ProducersAreBusy, Busy
        <3> QED BY <1>1, <2>3, <3>1
    <2>6. ASSUME t \notin misled
          PROVE  /\ NothingIsLost(t) /\ NothingComesTwice(t) /\ Bound(t) = tab[t].bound
                 /\ {f \in journal : tab[t].cursor < f /\ f <= tab[t].bound} = {}
        BY <1>0, <2>1, <2>6 DEF Follows, Served, Bound
    <2>7. ASSUME t \notin misled, e \in journal PROVE e > tab[t].cursor
        <3>1. SentAs(e) = e
            BY <2>1, <2>7, SentNumber
        <3>2. e > tab[t].bound
            BY <1>0, <1>5, <2>7, <3>1 DEF Queued, AlreadySent
        <3> QED BY <2>1, <2>6, <2>7, <3>2 DEF NothingComesTwice
    <2>8. ASSUME t \notin misled, e # StopEvent, NEW f \in journal, f < e
          PROVE  f \in Range(shown[t]) \cup missed[t] \cup dropped[t]
        <3>1. CASE f <= tab[t].cursor
            BY <1>2, <2>8, <3>1
        <3>2. CASE f > tab[t].cursor
            <4>1. f > tab[t].bound
                BY <1>0, <2>6, <2>8, <3>2
            <4>2. f \in dropped[t] \cup Range(queue[t]) \cup Pending(t)
                BY <2>6, <2>8, <3>2, <4>1 DEF NothingIsLost
            <4>3. e \in 1..produced
                BY <1>1, <2>3, <2>8
            <4>4. f \notin Range(queue[t]) /\ f \notin Pending(t)
                BY <1>1, <2>1, <2>4, <2>8, <4>3
            <4> QED BY <4>2, <4>4
        <3> QED BY <1>0, <3>1, <3>2
    <2> QED BY <2>1, <2>3, <2>5, <2>7, <2>8
<1> QED BY <1>3, <1>4, <1>5 DEF UpNext, Replayed

\* What showing it does to the view.
LEMMA ShowsFacts ==
    ASSUME TypeOK, RelayInv, NEW t \in Tabs, NEW e, UpNext(t, e), Shows(t, e)
    PROVE  /\ shown[t] \in Seq(Events)
           /\ shown'[t] = IF e \in journal THEN Append(shown[t], e) ELSE shown[t]
           /\ Range(shown'[t]) = Range(shown[t]) \cup ({e} \cap journal)
           /\ missed[t] \subseteq missed'[t] /\ missed'[t] \subseteq missed[t] \cup dropped[t]
           /\ \A f \in dropped[t] : f < e => f \in Range(shown[t]) \cup missed'[t]
           /\ \A u \in Tabs \ {t} : shown'[u] = shown[u] /\ missed'[u] = missed[u]
<1>1. /\ shown \in [Tabs -> Seq(Events)] /\ missed \in [Tabs -> SUBSET Items]
      /\ shown[t] \in Seq(Events) /\ journal \subseteq Events
    BY DEF TypeOK
<1>2. /\ shown'[t] = IF e \in journal THEN Append(shown[t], e) ELSE shown[t]
      /\ missed'[t] = missed[t] \cup ({f \in dropped[t] : f < e} \ Range(shown[t]))
      /\ \A u \in Tabs \ {t} : shown'[u] = shown[u] /\ missed'[u] = missed[u]
    BY <1>1 DEF Shows
<1>3. Range(shown'[t]) = Range(shown[t]) \cup ({e} \cap journal)
    BY <1>1, <1>2, RangeOfAppend
<1> QED BY <1>1, <1>2, <1>3

\* A tab that shows what is up next has shown, or missed, all up to its new cursor.
LEMMA ShowsKeepsTheView ==
    ASSUME TypeOK, RelayInv, NEW t \in Tabs, NEW e, UpNext(t, e), Shows(t, e),
           UNCHANGED <<produced, final, journal, dropped, misled>>,
           tab'[t].cursor = Cursor(t, e), tab'[t].pc = "over" \/ ~Terminal(e)
    PROVE  ViewIsUpToCursor(t)'
<1> USE RunFacts
<1>1. /\ e \in Items
      /\ t \notin misled /\ e \in journal => e > tab[t].cursor
      /\ t \notin misled /\ e # StopEvent =>
            \A f \in journal : f < e => f \in Range(shown[t]) \cup missed[t] \cup dropped[t]
    BY NothingIsSkipped
<1>2. /\ e \in journal => SentAs(e) = e
      /\ e \notin journal => SentAs(e) = IF e = StopEvent THEN latest ELSE 0
      /\ Cursor(t, e) \in journal \cup {0} /\ Cursor(t, e) \in Nat /\ SentAs(e) \in Nat
      /\ Cursor(t, e) >= SentAs(e) /\ Cursor(t, e) >= tab[t].cursor
      /\ Cursor(t, e) \in {SentAs(e), tab[t].cursor}
    BY <1>1, SentNumber
<1>3. /\ Range(shown'[t]) = Range(shown[t]) \cup ({e} \cap journal)
      /\ missed[t] \subseteq missed'[t] /\ missed'[t] \subseteq missed[t] \cup dropped[t]
      /\ \A f \in dropped[t] : f < e => f \in Range(shown[t]) \cup missed'[t]
    BY ShowsFacts
<1>4. ViewIsUpToCursor(t) /\ tab[t].pc # "over" /\ tab[t].cursor \in Nat
    BY DEF RelayInv, TabInv, UpNext, Replayed, Queued
<1>5. /\ Range(shown'[t]) \subseteq journal
      /\ dropped'[t] \cup missed'[t] \subseteq 1..produced \cup {StopEvent}
    BY <1>3, <1>4 DEF ViewIsUpToCursor
<1>6. ASSUME ~Terminal(e)
      PROVE  /\ final = 0 \/ Cursor(t, e) # final
             /\ Range(shown'[t]) \subseteq 1..Cursor(t, e)
             /\ t \notin misled => \A f \in journal : f <= Cursor(t, e) =>
                                      f \in Range(shown'[t]) \cup missed'[t]
    <2>1. e # StopEvent /\ e # final
        BY <1>6 DEF Terminal
    <2>2. SentAs(e) \in {e, 0} /\ (SentAs(e) = e \/ e \notin journal)
        BY <1>2, <2>1
    <2>3. final = 0 \/ Cursor(t, e) # final
        BY <1>2, <1>4, <2>1, <2>2 DEF ViewIsUpToCursor
    <2>4. Range(shown'[t]) \subseteq 1..Cursor(t, e)
        <3>1. ASSUME NEW f \in Range(shown'[t]) PROVE f \in 1..Cursor(t, e)
            <4>1. CASE f \in Range(shown[t])
                BY <1>2, <1>4, <4>1 DEF ViewIsUpToCursor
            <4>2. CASE f = e /\ e \in journal
                BY <1>2, <2>2, <4>2
            <4> QED BY <1>3, <3>1, <4>1, <4>2
        <3> QED BY <3>1
    <2>5. ASSUME t \notin misled, NEW f \in journal, f <= Cursor(t, e)
          PROVE  f \in Range(shown'[t]) \cup missed'[t]
        <3>1. CASE f <= tab[t].cursor
            BY <1>3, <1>4, <2>5, <3>1 DEF ViewIsUpToCursor
        <3>2. CASE f > tab[t].cursor
            <4>1. Cursor(t, e) = e /\ e \in journal
                BY <1>2, <1>4, <2>2, <2>5, <3>2
            <4>2. f = e \/ f < e
                BY <1>2, <2>5, <4>1
            <4> QED BY <1>1, <1>3, <2>1, <2>5, <4>1, <4>2
        <3> QED BY <1>4, <3>1, <3>2
    <2> QED BY <2>3, <2>4, <2>5
<1> QED BY <1>2, <1>5, <1>6 DEF ViewIsUpToCursor

\* A handler that leaves the channel, or that was not there.
LEMMA GoneIsInOrder ==
    ASSUME TypeOK, RelayInv, NEW t \in Tabs, NEW c, NEW x \in {"away", "over", "restoring"},
           tab'[t] = [Away(c) EXCEPT !.pc = x] \/ (x = "away" /\ tab'[t] = Away(c)),
           t \notin subscribers', queue'[t] = <<>>,
           \/ UNCHANGED <<run, attached, producer["worker"].pc>>
           \/ Leave(t) /\ UNCHANGED <<run, attached>>,
           ViewIsUpToCursor(t)', attached /\ producer["worker"].pc \in Unnoted => c < produced
    PROVE  TabInv(t)'
<1> USE RunFacts, ProducerFacts
<1>1. /\ tab'[t].pc = x /\ tab'[t].cursor = c /\ tab'[t].fresh = FALSE /\ tab'[t].bound = 0
      /\ tab'[t].last = 0 /\ tab'[t].evicted = 0 /\ tab'[t].replay = {}
    BY DEF Away
<1>2. UNCHANGED <<produced, journal, attached>>
    BY DEF run
<1>3. producer'["worker"].pc \in Unnoted => producer["worker"].pc \in Unnoted
    <2>1. CASE Leave(t)
        <3>1. \/ producer'["worker"].pc = producer["worker"].pc
              \/ {producer["worker"].pc, producer'["worker"].pc} = {"broadcast", "full"}
            BY <2>1, LeaveKeeps DEF RolesStay
        <3> QED BY <3>1
    <2>2. CASE UNCHANGED producer["worker"].pc
        BY <2>2
    <2> QED BY <2>1, <2>2
<1>4. NotAhead(t)'
    <2>1. ASSUME attached', producer'["worker"].pc \in Unnoted
          PROVE  c < produced' /\ 0 < produced'
        <3>1. produced # 0
            BY <1>3, <2>1 DEF RelayInv, ProducersAreBusy, Busy
        <3> QED BY <1>2, <1>3, <2>1, <3>1
    <2> QED BY <1>1, <2>1 DEF NotAhead
<1>5. VisitIsInOrder(t)'
    BY <1>1, <1>2 DEF VisitIsInOrder, Served
<1>6. ReadingFollows(t)' /\ Follows(t)'
    BY <1>1 DEF ReadingFollows, Follows, Served
<1> QED BY <1>4, <1>5, <1>6 DEF TabInv

\* The replay bridges the gap between the cursor and the queue, or the tab is told to restore.
LEMMA ReplayKeeps ==
    ASSUME TypeOK, RelayInv, NEW t \in Tabs, Replay(t)
    PROVE  RelayInv'
<1> USE RunFacts, ProducerFacts
<1>0. /\ ViewIsUpToCursor(t) /\ NotAhead(t) /\ VisitIsInOrder(t) /\ Follows(t)
      /\ tab \in [Tabs -> TabType] /\ tab[t] \in TabType
    BY DEF RelayInv, TabInv, TypeOK
<1>1. /\ UNCHANGED <<run, attached, stopped, lastEventId, buffer, evicted, shown, dropped, missed,
                     misled>>
      /\ UNCHANGED <<produced, final, journal, unwritten>>
      /\ tab[t].pc = "replay"
    BY DEF Replay, views, run
<1>2. QueueIsOrdered(t) /\ Stops' = Stops
    BY <1>0, <1>1 DEF Follows, Served, Stops
<1>3. ASSUME UNCHANGED <<subscribers, ghosts, queue, producer>>,
             tab'[t].pc = "drain", tab'[t].cursor = tab[t].cursor, tab'[t].last = tab[t].last,
             tab'[t].fresh = FALSE, tab'[t].bound = Bound(t), Bound(t) \in Nat,
             \A u \in Tabs \ {t} : tab'[u] = tab[u],
             attached /\ producer["worker"].pc \in Unnoted => Bound(t) < produced,
             Bound(t) <= produced, tab'[t].replay \subseteq journal \cap 1..Bound(t),
             t \notin misled => 
                tab'[t].replay = {f \in journal : tab[t].cursor < f /\ f <= Bound(t)}
      PROVE  RelayInv'
    <2>1. RolesStay(t) /\ \A u \in Tabs \ {t} : Untouched(u)
        BY <1>1, <1>3, NobodyMoves DEF Untouched
    <2>2. ViewIsUpToCursor(t)'
        BY <1>0, <1>1, <1>3 DEF ViewIsUpToCursor
    <2>3. NotAhead(t)'
        BY <1>0, <1>1, <1>3 DEF NotAhead
    <2>4. VisitIsInOrder(t)'
        BY <1>0, <1>1, <1>3 DEF VisitIsInOrder, Served
    <2>5. Bound(t)' = Bound(t) /\ Pending(t)' = Pending(t)
        <3>1. Bound(t)' = tab'[t].bound
            BY <1>3 DEF Bound
        <3> QED BY <1>1, <1>3, <3>1 DEF Pending, Waiting
    <2>6. QueueIsOrdered(t)'
        BY <1>1, <1>2, <1>3, <2>5 DEF QueueIsOrdered
    <2>7. ASSUME t \notin misled PROVE NothingIsLost(t)' /\ NothingComesTwice(t)'
        <3>1. NothingIsLost(t) /\ NothingComesTwice(t)
            BY <1>0, <1>1, <2>7 DEF Follows, Served
        <3> QED BY <1>1, <1>3, <2>5, <3>1 DEF NothingIsLost, NothingComesTwice
    <2>8. Follows(t)' /\ ReadingFollows(t)'
        BY <1>1, <1>3, <2>6, <2>7 DEF Follows, ReadingFollows
    <2> QED BY <1>1, <2>1, <2>2, <2>3, <2>4, <2>8, HandlerKeeps DEF TabInv
<1>4. CASE /\ tab[t].fresh /\ tab' = [tab EXCEPT ![t].pc = "drain", ![t].fresh = FALSE]
           /\ UNCHANGED <<subscribers, ghosts, queue, producer>>
    <2>1. Bound(t) = 0 /\ tab[t].bound = 0 /\ tab[t].cursor = 0 /\ tab[t].replay = {}
        BY <1>0, <1>1, <1>4 DEF VisitIsInOrder, Bound
    <2>2. /\ tab'[t].pc = "drain" /\ tab'[t].cursor = tab[t].cursor /\ tab'[t].last = tab[t].last
          /\ tab'[t].fresh = FALSE /\ tab'[t].bound = 0 /\ tab'[t].replay = {}
          /\ \A u \in Tabs \ {t} : tab'[u] = tab[u]
        BY <1>0, <1>4, <2>1 DEF TabType
    <2>3. attached /\ producer["worker"].pc \in Unnoted => Bound(t) < produced
        BY <1>0, <2>1 DEF NotAhead
    <2>4. /\ tab'[t].replay = {f \in journal : tab[t].cursor < f /\ f <= Bound(t)}
          /\ tab'[t].replay \subseteq journal \cap 1..Bound(t)
        BY <2>1, <2>2
    <2>5. Bound(t) \in Nat /\ Bound(t) <= produced /\ tab'[t].bound = Bound(t)
        BY <2>1, <2>2
    <2>6. UNCHANGED <<subscribers, ghosts, queue, producer>>
        BY <1>4
    <2> QED BY <1>3, <2>2, <2>3, <2>4, <2>5, <2>6
<1>5. CASE /\ ~tab[t].fresh
           /\ tab' = [tab EXCEPT ![t].pc = "drain", ![t].bound = DedupBound(t),
                         ![t].replay = {e \in journal : After(t) < e /\ e <= ReplayMax(t)}]
           /\ UNCHANGED <<subscribers, ghosts, queue, producer>>
    <2>1. Bound(t) = DedupBound(t)
        BY <1>1, <1>5 DEF Bound
    <2>2. /\ tab'[t].pc = "drain" /\ tab'[t].cursor = tab[t].cursor /\ tab'[t].last = tab[t].last
          /\ tab'[t].fresh = FALSE /\ tab'[t].bound = Bound(t)
          /\ tab'[t].replay = {e \in journal : After(t) < e /\ e <= ReplayMax(t)}
          /\ \A u \in Tabs \ {t} : tab'[u] = tab[u]
        BY <1>0, <1>5, <2>1 DEF TabType
    <2>3. /\ After(t) \in Nat /\ After(t) <= tab[t].cursor /\ ReplayMax(t) \in Int
          /\ ReplayMax(t) <= tab[t].last
        BY DEF After, ReplayMax
    <2>4. /\ DedupBound(t) \in Nat /\ DedupBound(t) <= produced
          /\ attached /\ producer["worker"].pc \in Unnoted => DedupBound(t) < produced
          /\ journal # {} => DedupBound(t) >= ReplayMax(t)
          /\ journal # {} => DedupBound(t) \in {After(t), ReplayMax(t)}
        BY <1>0, <2>3 DEF DedupBound, NotAhead
    <2>5. tab'[t].replay \subseteq journal \cap 1..Bound(t)
        BY <2>1, <2>2, <2>3, <2>4
    <2>6. ASSUME t \notin misled
          PROVE  tab'[t].replay = {f \in journal : tab[t].cursor < f /\ f <= Bound(t)}
        <3>1. tab[t].cursor <= tab[t].last
            BY <1>0, <1>1, <2>6 DEF Follows, Served
        <3>2. After(t) = tab[t].cursor
            BY <3>1 DEF After
        <3> QED BY <2>1, <2>2, <2>3, <2>4, <3>2
    <2> QED BY <1>3, <1>5, <2>1, <2>2, <2>4, <2>5, <2>6
<1>6. CASE tab' = [tab EXCEPT ![t] = [Away(tab[t].cursor) EXCEPT !.pc = "restoring"]] /\ Leave(t)
    <2>1. /\ tab'[t] = [Away(tab[t].cursor) EXCEPT !.pc = "restoring"]
          /\ \A u \in Tabs \ {t} : tab'[u] = tab[u]
        BY <1>0, <1>6
    <2>2. /\ RolesStay(t) /\ queue'[t] = <<>> /\ t \notin subscribers'
          /\ \A u \in Tabs \ {t} : /\ queue'[u] = queue[u]
                                   /\ u \in subscribers' <=> u \in subscribers
        BY <1>6, LeaveKeeps
    <2>3. \A u \in Tabs \ {t} : Untouched(u)
        BY <1>1, <2>1, <2>2 DEF Untouched
    <2>4. tab'[t].cursor = tab[t].cursor
        BY <2>1 DEF Away
    <2>5. ViewIsUpToCursor(t)'
        BY <1>0, <1>1, <2>4 DEF ViewIsUpToCursor
    <2>6. attached /\ producer["worker"].pc \in Unnoted => tab[t].cursor < produced
        BY <1>0 DEF NotAhead
    <2>7. TabInv(t)'
        BY <1>1, <1>6, <2>1, <2>2, <2>5, <2>6, GoneIsInOrder
    <2> QED BY <1>1, <2>2, <2>3, <2>7, HandlerKeeps
<1> QED BY <1>4, <1>5, <1>6 DEF Replay

\* The replayed events go out in their order.
LEMMA SendReplayedKeeps ==
    ASSUME TypeOK, RelayInv, NEW t \in Tabs, SendReplayed(t)
    PROVE  RelayInv'
<1> USE RunFacts, ProducerFacts
<1>0. /\ ViewIsUpToCursor(t) /\ NotAhead(t) /\ VisitIsInOrder(t) /\ ReadingFollows(t) /\ Follows(t)
      /\ tab \in [Tabs -> TabType] /\ tab[t] \in TabType /\ journal \subseteq Items
    BY NumberTypes DEF RelayInv, TabInv, TypeOK
<1>1. PICK e \in tab[t].replay :
          /\ Replayed(t, e) /\ Shows(t, e)
          /\ \/ /\ ~Terminal(e)
                /\ tab' = [tab EXCEPT ![t].replay = @ \ {e}, ![t].cursor = Cursor(t, e)]
                /\ UNCHANGED <<subscribers, ghosts, queue, producer>>
             \/ /\ Terminal(e)
                /\ tab' = [tab EXCEPT ![t] = [Away(Cursor(t, e)) EXCEPT !.pc = "over"]]
                /\ Leave(t)
    BY DEF SendReplayed, Replayed
<1>2. /\ UNCHANGED <<run, attached, stopped, lastEventId, buffer, evicted, dropped, misled>>
      /\ UNCHANGED <<produced, final, journal, unwritten>>
    BY DEF SendReplayed, run
<1>3. /\ e \in journal /\ e \in Items /\ Cursor(t, e) \in Nat /\ Cursor(t, e) \in {e, tab[t].cursor}
      /\ Cursor(t, e) >= e /\ Cursor(t, e) >= tab[t].cursor
    <2>1. e \in journal
        BY <1>0, <1>1 DEF Replayed, VisitIsInOrder, ReadingFollows
    <2> QED BY <1>0, <2>1, SentNumber
<1>4. /\ tab[t].pc \in {"drain", "reading"} /\ \A f \in tab[t].replay : e <= f
      /\ UpNext(t, e)
    BY <1>1 DEF Replayed, UpNext
<1>5. \A u \in Tabs \ {t} : shown'[u] = shown[u] /\ missed'[u] = missed[u]
    BY <1>1, <1>4, ShowsFacts
<1>6. attached /\ producer["worker"].pc \in Unnoted => Cursor(t, e) < produced
    BY <1>0, <1>1, <1>3, <1>4 DEF NotAhead, VisitIsInOrder
<1>7. CASE /\ ~Terminal(e)
           /\ tab' = [tab EXCEPT ![t].replay = @ \ {e}, ![t].cursor = Cursor(t, e)]
           /\ UNCHANGED <<subscribers, ghosts, queue, producer>>
    <2>1. /\ tab'[t].replay = tab[t].replay \ {e} /\ tab'[t].cursor = Cursor(t, e)
          /\ tab'[t].pc = tab[t].pc /\ tab'[t].last = tab[t].last /\ tab'[t].fresh = tab[t].fresh
          /\ tab'[t].bound = tab[t].bound /\ tab'[t].evicted = tab[t].evicted
          /\ \A u \in Tabs \ {t} : tab'[u] = tab[u]
        BY <1>0, <1>7 DEF TabType
    <2>2. RolesStay(t) /\ \A u \in Tabs \ {t} : Untouched(u)
        <3>1. RolesStay(t)
            BY <1>7, NobodyMoves
        <3>2. \A u \in Tabs \ {t} : Untouched(u)
            BY <1>2, <1>5, <1>7, <2>1 DEF Untouched
        <3> QED BY <3>1, <3>2
    <2>3. ViewIsUpToCursor(t)'
        BY <1>1, <1>2, <1>4, <1>7, <2>1, ShowsKeepsTheView
    <2>4. NotAhead(t)'
        BY <1>0, <1>2, <1>4, <1>6, <1>7, <2>1 DEF NotAhead
    <2>5. VisitIsInOrder(t)'
        <3>1. ~tab[t].fresh
            BY <1>0, <1>1 DEF VisitIsInOrder
        <3> QED BY <1>0, <1>2, <1>4, <1>7, <2>1, <3>1 DEF VisitIsInOrder, Served
    <2>6. ReadingFollows(t)'
        <3> SUFFICES ASSUME tab[t].pc = "reading" PROVE ReadingFollows(t)'
            BY <2>1 DEF ReadingFollows
        <3>1. Troubles' = Troubles
            BY <1>2, <1>7 DEF Troubles
        <3>2. e # final
            BY <1>7 DEF Terminal
        <3> QED BY <1>0, <1>2, <1>3, <1>4, <2>1, <3>1, <3>2 DEF ReadingFollows
    <2>7. Follows(t)'
        <3> SUFFICES ASSUME tab[t].pc = "drain" PROVE Follows(t)'
            BY <1>4, <2>1 DEF Follows, Served
        <3>1. Bound(t) = tab[t].bound /\ Bound(t)' = tab[t].bound /\ Pending(t)' = Pending(t)
              /\ Stops' = Stops /\ e <= tab[t].bound
            BY <1>0, <1>1, <1>2, <1>7, <2>1 DEF Bound, Pending, Waiting, Stops, VisitIsInOrder
        <3>2. QueueIsOrdered(t)'
            BY <1>0, <1>2, <1>7, <3>1 DEF Follows, Served, QueueIsOrdered
        <3>3. ASSUME t \notin misled
              PROVE  /\ NothingIsLost(t)' /\ NothingComesTwice(t)'
                     /\ tab'[t].replay =
                           {f \in journal : tab'[t].cursor < f /\ f <= tab[t].bound}
            <4>1. /\ NothingIsLost(t) /\ NothingComesTwice(t)
                  /\ tab[t].replay = {f \in journal : tab[t].cursor < f /\ f <= tab[t].bound}
                BY <1>0, <3>3 DEF Follows, Served
            <4>2. NothingIsLost(t)'
                BY <1>2, <1>3, <1>7, <2>1, <3>1, <4>1 DEF NothingIsLost
            <4>3. NothingComesTwice(t)'
                BY <1>2, <1>3, <1>7, <2>1, <3>1, <4>1 DEF NothingComesTwice
            <4>4. e > tab[t].cursor /\ Cursor(t, e) = e
                BY <1>1, <1>3, <4>1
            <4> QED BY <1>3, <1>4, <2>1, <4>1, <4>2, <4>3, <4>4
        <3> QED BY <1>2, <2>1, <3>2, <3>3 DEF Follows
    <2> QED BY <1>2, <2>2, <2>3, <2>4, <2>5, <2>6, <2>7, HandlerKeeps DEF TabInv
<1>8. CASE /\ Terminal(e)
           /\ tab' = [tab EXCEPT ![t] = [Away(Cursor(t, e)) EXCEPT !.pc = "over"]]
           /\ Leave(t)
    <2>1. /\ tab'[t] = [Away(Cursor(t, e)) EXCEPT !.pc = "over"]
          /\ tab'[t].cursor = Cursor(t, e) /\ tab'[t].pc = "over"
          /\ \A u \in Tabs \ {t} : tab'[u] = tab[u]
        BY <1>0, <1>8 DEF Away
    <2>2. /\ RolesStay(t) /\ queue'[t] = <<>> /\ t \notin subscribers'
          /\ \A u \in Tabs \ {t} : /\ queue'[u] = queue[u]
                                   /\ u \in subscribers' <=> u \in subscribers
        BY <1>8, LeaveKeeps
    <2>3. \A u \in Tabs \ {t} : Untouched(u)
        BY <1>2, <1>5, <2>1, <2>2 DEF Untouched
    <2>4. ViewIsUpToCursor(t)'
        BY <1>1, <1>2, <1>4, <2>1, ShowsKeepsTheView
    <2>5. TabInv(t)'
        BY <1>2, <1>6, <1>8, <2>1, <2>2, <2>4, GoneIsInOrder
    <2> QED BY <1>2, <2>2, <2>3, <2>5, HandlerKeeps
<1> QED BY <1>1, <1>7, <1>8

\* The queue goes out after the replay: what the replay has sent is dropped.
LEMMA SendKeeps ==
    ASSUME TypeOK, RelayInv, NEW t \in Tabs, Send(t)
    PROVE  RelayInv'
<1> DEFINE e == Head(queue[t])
<1> USE RunFacts, ProducerFacts
<1>0. /\ ViewIsUpToCursor(t) /\ NotAhead(t) /\ VisitIsInOrder(t) /\ Follows(t)
      /\ tab \in [Tabs -> TabType] /\ tab[t] \in TabType
      /\ queue \in [Tabs -> Seq(Items)] /\ DetachedForAReason
    BY DEF RelayInv, ChannelInv, TabInv, TypeOK
<1>1. /\ tab[t].pc = "drain" /\ tab[t].replay = {} /\ queue[t] # <<>>
      /\ UNCHANGED <<run, attached, stopped, lastEventId, buffer, evicted, dropped, misled>>
      /\ UNCHANGED <<produced, final, journal, unwritten>>
    BY DEF Send, run
<1>2. /\ Range(queue[t]) = {e} \cup Range(Tail(queue[t])) /\ e \in Items
      /\ Increasing(Tail(queue[t]))
      /\ e # StopEvent => \A f \in Range(Tail(queue[t])) : f = StopEvent \/ e < f
    <2>1. Increasing(queue[t])
        BY <1>0, <1>1 DEF Follows, Served, QueueIsOrdered
    <2> QED BY <1>0, <1>1, <2>1, RangeOfTail, IncreasingTail
<1>3. QueueIsOrdered(t) /\ Bound(t) = tab[t].bound
    BY <1>0, <1>1 DEF Follows, Served, Bound
<1>4. /\ e \in journal => SentAs(e) = e
      /\ e \notin journal => SentAs(e) = IF e = StopEvent THEN latest ELSE 0
      /\ Cursor(t, e) \in journal \cup {0} /\ Cursor(t, e) \in Nat
      /\ Cursor(t, e) >= tab[t].cursor /\ Cursor(t, e) >= SentAs(e)
      /\ Cursor(t, e) \in {SentAs(e), tab[t].cursor}
    BY <1>2, SentNumber
<1>5. ~AlreadySent(t, e) => UpNext(t, e) /\ Queued(t, e)
    BY <1>1 DEF UpNext, Queued
<1>6. ASSUME ~AlreadySent(t, e), attached, producer["worker"].pc \in Unnoted
      PROVE  Cursor(t, e) < produced
    <2>1. e \in 1..produced \cup Stops /\ e \notin Pending(t)
        BY <1>5, <1>6, NothingIsSkipped
    <2>2. Stops = {} /\ Pending(t) = {produced}
        BY <1>0, <1>6 DEF Stops, DetachedForAReason, Pending, Waiting
    <2>3. e < produced
        BY <2>1, <2>2
    <2>4. e # StopEvent /\ tab[t].cursor < produced /\ 0 < produced
        BY <1>0, <1>6, <2>1, <2>2 DEF NotAhead
    <2> QED BY <1>4, <2>3, <2>4
<1>7. ASSUME queue' = [queue EXCEPT ![t] = Tail(@)],
             UNCHANGED <<subscribers, ghosts, producer>>,
             tab'[t].pc = "drain", tab'[t].replay = {}, tab'[t].bound = tab[t].bound,
             tab'[t].fresh = tab[t].fresh, tab'[t].last = tab[t].last,
             tab'[t].evicted = tab[t].evicted, tab'[t].cursor \in Nat,
             tab'[t].cursor >= tab[t].cursor,
             tab[t].fresh => tab'[t].cursor = 0,
             attached /\ producer["worker"].pc \in Unnoted => tab'[t].cursor < produced,
             \A u \in Tabs \ {t} : /\ tab'[u] = tab[u] /\ shown'[u] = shown[u]
                                   /\ missed'[u] = missed[u],
             ViewIsUpToCursor(t)',
             t \notin misled =>
                 /\ e \in journal => e <= tab[t].bound \/ e <= tab'[t].cursor
                 /\ tab'[t].cursor \in {e, tab[t].cursor}
                 /\ tab'[t].cursor = e => e \in 1..produced \/ e = tab[t].cursor
                 /\ tab'[t].cursor = e => e \notin Pending(t) \/ e = tab[t].cursor
      PROVE  RelayInv'
    <2>1. queue'[t] = Tail(queue[t]) /\ \A u \in Tabs \ {t} : queue'[u] = queue[u]
        BY <1>0, <1>7
    <2>2. RolesStay(t) /\ \A u \in Tabs \ {t} : Untouched(u)
        <3>1. RolesStay(t)
            BY <1>7, NobodyMoves
        <3> QED BY <1>1, <1>7, <2>1, <3>1 DEF Untouched
    <2>3. NotAhead(t)'
        BY <1>0, <1>1, <1>7 DEF NotAhead
    <2>4. VisitIsInOrder(t)'
        BY <1>0, <1>1, <1>7 DEF VisitIsInOrder, Served
    <2>5. Bound(t)' = tab[t].bound /\ Pending(t)' = Pending(t) /\ Stops' = Stops
        BY <1>1, <1>7 DEF Bound, Pending, Waiting, Stops
    <2>6. QueueIsOrdered(t)'
        BY <1>1, <1>2, <1>3, <2>1, <2>5 DEF QueueIsOrdered
    <2>7. ASSUME t \notin misled
          PROVE  /\ NothingIsLost(t)' /\ NothingComesTwice(t)'
                 /\ tab'[t].replay = {f \in journal : tab'[t].cursor < f /\ f <= tab[t].bound}
        <3>1. /\ NothingIsLost(t) /\ NothingComesTwice(t)
              /\ {f \in journal : tab[t].cursor < f /\ f <= tab[t].bound} = {}
            BY <1>0, <1>1, <2>7 DEF Follows, Served
        <3>2. NothingIsLost(t)'
            <4>1. ASSUME NEW f \in journal, f > tab'[t].cursor, f > tab[t].bound
                  PROVE  f \in dropped[t] \cup Range(Tail(queue[t])) \cup Pending(t)
                <5>1. f > tab[t].cursor /\ f # e
                    BY <1>7, <2>7, <4>1
                <5>2. f \in dropped[t] \cup Range(queue[t]) \cup Pending(t)
                    BY <1>3, <3>1, <4>1, <5>1 DEF NothingIsLost
                <5> QED BY <1>2, <5>1, <5>2
            <4> QED BY <1>1, <2>1, <2>5, <4>1 DEF NothingIsLost
        <3>3. NothingComesTwice(t)'
            <4>1. ASSUME NEW f \in journal \cap (Range(Tail(queue[t])) \cup Pending(t)),
                         f > tab[t].bound
                  PROVE  f > tab'[t].cursor
                <5>1. f > tab[t].cursor
                    BY <1>2, <1>3, <3>1, <4>1 DEF NothingComesTwice
                <5>2. CASE tab'[t].cursor = tab[t].cursor
                    BY <5>1, <5>2
                <5>3. CASE tab'[t].cursor # tab[t].cursor
                    <6>1. tab'[t].cursor = e /\ e \in 1..produced /\ e \notin Pending(t)
                        BY <1>7, <2>7, <5>3
                    <6>2. CASE f \in Range(Tail(queue[t]))
                        BY <1>2, <6>1, <6>2
                    <6>3. CASE f \in Pending(t)
                        <7>1. f = produced
                            BY <6>3 DEF Pending
                        <7> QED BY <6>1, <6>3, <7>1
                    <6> QED BY <4>1, <6>2, <6>3
                <5> QED BY <5>2, <5>3
            <4> QED BY <1>1, <2>1, <2>5, <4>1 DEF NothingComesTwice
        <3>4. {f \in journal : tab'[t].cursor < f /\ f <= tab[t].bound} = {}
            BY <1>7, <3>1
        <3> QED BY <1>7, <3>2, <3>3, <3>4
    <2>8. Follows(t)' /\ ReadingFollows(t)'
        BY <1>1, <1>7, <2>6, <2>7 DEF Follows, ReadingFollows
    <2> QED BY <1>1, <1>7, <2>2, <2>3, <2>4, <2>8, HandlerKeeps DEF TabInv
<1>8. CASE /\ AlreadySent(t, e) /\ queue' = [queue EXCEPT ![t] = Tail(@)]
           /\ UNCHANGED <<tab, shown, missed, subscribers, ghosts, producer>>
    <2>1. ViewIsUpToCursor(t)'
        BY <1>0, <1>1, <1>8 DEF ViewIsUpToCursor
    <2>2. e \in journal => e <= tab[t].bound
        BY <1>4, <1>8 DEF AlreadySent
    <2>3. attached /\ producer["worker"].pc \in Unnoted => tab'[t].cursor < produced
        BY <1>0, <1>8 DEF NotAhead
    <2>4. tab[t].fresh => tab'[t].cursor = 0
        BY <1>0, <1>8 DEF VisitIsInOrder
    <2> QED BY <1>1, <1>7, <1>8, <2>1, <2>2, <2>3, <2>4
<1>9. CASE /\ ~AlreadySent(t, e) /\ ~Terminal(e) /\ queue' = [queue EXCEPT ![t] = Tail(@)]
           /\ Shows(t, e) /\ tab' = [tab EXCEPT ![t].cursor = Cursor(t, e)]
           /\ UNCHANGED <<subscribers, ghosts, producer>>
    <2>1. /\ tab'[t].replay = tab[t].replay /\ tab'[t].cursor = Cursor(t, e)
          /\ tab'[t].pc = tab[t].pc /\ tab'[t].last = tab[t].last /\ tab'[t].fresh = tab[t].fresh
          /\ tab'[t].bound = tab[t].bound /\ tab'[t].evicted = tab[t].evicted
          /\ \A u \in Tabs \ {t} : tab'[u] = tab[u]
        BY <1>0, <1>9 DEF TabType
    <2>2. \A u \in Tabs \ {t} : shown'[u] = shown[u] /\ missed'[u] = missed[u]
        BY <1>5, <1>9, ShowsFacts
    <2>3. ViewIsUpToCursor(t)'
        BY <1>1, <1>5, <1>9, <2>1, ShowsKeepsTheView
    <2>4. e \in 1..produced /\ e # StopEvent /\ e \notin Pending(t)
        <3>1. e # StopEvent
            BY <1>9 DEF Terminal
        <3>2. e \in 1..produced \cup Stops /\ e \notin Pending(t)
            BY <1>5, <1>9, NothingIsSkipped
        <3> QED BY <3>1, <3>2 DEF Stops
    <2>5. /\ e \in journal => e <= Cursor(t, e)
          /\ Cursor(t, e) \in {e, tab[t].cursor}
        BY <1>4, <2>4
    <2>6. ~tab[t].fresh
        BY <1>0, <1>1 DEF VisitIsInOrder
    <2> QED BY <1>1, <1>4, <1>6, <1>7, <1>9, <2>1, <2>2, <2>3, <2>4, <2>5, <2>6
<1>10. CASE /\ ~AlreadySent(t, e) /\ Terminal(e) /\ Shows(t, e) /\ Leave(t)
            /\ tab' = [tab EXCEPT ![t] = [Away(Cursor(t, e)) EXCEPT !.pc = "over"]]
    <2>1. /\ tab'[t] = [Away(Cursor(t, e)) EXCEPT !.pc = "over"]
          /\ tab'[t].cursor = Cursor(t, e) /\ tab'[t].pc = "over"
          /\ \A u \in Tabs \ {t} : tab'[u] = tab[u]
        BY <1>0, <1>10 DEF Away
    <2>2. /\ RolesStay(t) /\ queue'[t] = <<>> /\ t \notin subscribers'
          /\ \A u \in Tabs \ {t} : /\ queue'[u] = queue[u]
                                   /\ u \in subscribers' <=> u \in subscribers
        BY <1>10, LeaveKeeps
    <2>3. \A u \in Tabs \ {t} : shown'[u] = shown[u] /\ missed'[u] = missed[u]
        BY <1>5, <1>10, ShowsFacts
    <2>4. \A u \in Tabs \ {t} : Untouched(u)
        BY <1>1, <2>1, <2>2, <2>3 DEF Untouched
    <2>5. ViewIsUpToCursor(t)'
        BY <1>1, <1>5, <1>10, <2>1, ShowsKeepsTheView
    <2>6. TabInv(t)'
        BY <1>1, <1>6, <1>10, <2>1, <2>2, <2>5, GoneIsInOrder
    <2> QED BY <1>1, <2>2, <2>4, <2>6, HandlerKeeps
<1> QED BY <1>8, <1>9, <1>10 DEF Send

\* A tab whose stream is gone reads the journal from its cursor on.
LEMMA ReadJournalKeeps ==
    ASSUME TypeOK, RelayInv, NEW t \in Tabs, ReadJournal(t)
    PROVE  RelayInv'
<1> USE RunFacts, ProducerFacts
<1>0. /\ ViewIsUpToCursor(t) /\ NotAhead(t) /\ VisitIsInOrder(t) /\ DetachedForAReason
      /\ ProducersAreBusy /\ tab \in [Tabs -> TabType] /\ dropped \in [Tabs -> SUBSET Items]
    BY DEF RelayInv, ChannelInv, TabInv, TypeOK
<1>1. /\ UNCHANGED <<run, attached, stopped, lastEventId, buffer, evicted, subscribers, ghosts,
                     queue, producer, shown, missed, misled>>
      /\ UNCHANGED <<produced, final, journal, unwritten>>
      /\ tab[t].pc = "ended" /\ dropped' = [dropped EXCEPT ![t] = {}]
    BY DEF ReadJournal, channel, run
<1> DEFINE from == IF \A e \in journal : e < tab[t].cursor THEN 0 ELSE tab[t].cursor
<1>2. tab' = [tab EXCEPT ![t] = [Away(tab[t].cursor) EXCEPT
                  !.pc = IF journal = {} THEN "restoring" ELSE "reading",
                  !.replay = {e \in journal : e > from}]]
    BY DEF ReadJournal
<1>3. from = tab[t].cursor
    <2>1. tab[t].cursor \in journal \cup {0}
        BY <1>0 DEF ViewIsUpToCursor
    <2> QED BY <1>2, <2>1
<1>4. /\ tab'[t].pc = IF journal = {} THEN "restoring" ELSE "reading"
      /\ tab'[t].cursor = tab[t].cursor /\ tab'[t].replay = {e \in journal : e > tab[t].cursor}
      /\ tab'[t].fresh = FALSE /\ tab'[t].bound = 0 /\ tab'[t].last = 0
      /\ \A u \in Tabs \ {t} : tab'[u] = tab[u]
    BY <1>0, <1>2, <1>3 DEF Away
<1>5. RolesStay(t) /\ \A u \in Tabs \ {t} : Untouched(u)
    <2>1. RolesStay(t)
        BY <1>1, NobodyMoves
    <2>2. \A u \in Tabs \ {t} : dropped'[u] = dropped[u]
        BY <1>0, <1>1
    <2> QED BY <1>1, <1>4, <2>1, <2>2 DEF Untouched
<1>6. dropped'[t] = {} /\ ~attached /\ t \notin subscribers /\ queue[t] = <<>>
    BY <1>0, <1>1 DEF VisitIsInOrder, Served
<1>7. ViewIsUpToCursor(t)'
    BY <1>0, <1>1, <1>4, <1>6 DEF ViewIsUpToCursor
<1>8. NotAhead(t)'
    BY <1>1, <1>4, <1>6 DEF NotAhead
<1>9. VisitIsInOrder(t)'
    BY <1>1, <1>4, <1>6 DEF VisitIsInOrder, Served
<1>10. ReadingFollows(t)'
    <2>1. Troubles' = Troubles
        BY <1>1 DEF Troubles
    <2>2. ASSUME Troubles = {} PROVE final \in journal /\ final > tab[t].cursor
        <3>1. ~stopped /\ producer["stop"].pc # "dead" /\ unwritten = {}
            BY <2>2 DEF Troubles
        <3>2. final # 0
            BY <1>0, <1>6, <3>1 DEF DetachedForAReason, Dead, ProducersAreBusy
        <3>3. final \in journal /\ tab[t].cursor # final
            BY <1>0, <1>1, <3>1, <3>2 DEF ViewIsUpToCursor
        <3> QED BY <3>3
    <2> QED BY <1>1, <1>4, <2>1, <2>2 DEF ReadingFollows
<1>11. Follows(t)'
    BY <1>4 DEF Follows, Served
<1>12. TabInv(t)'
    BY <1>7, <1>8, <1>9, <1>10, <1>11 DEF TabInv
<1> QED BY <1>1, <1>5, <1>12, HandlerKeeps

\* A tab that has read an unfinished journal is told to restore.
LEMMA InterruptedKeeps ==
    ASSUME TypeOK, RelayInv, NEW t \in Tabs, Interrupted(t)
    PROVE  RelayInv'
<1> USE RunFacts, ProducerFacts
<1>0. /\ ViewIsUpToCursor(t) /\ NotAhead(t) /\ VisitIsInOrder(t) /\ tab \in [Tabs -> TabType]
    BY DEF RelayInv, TabInv, TypeOK
<1>1. /\ UNCHANGED <<run, attached, stopped, lastEventId, buffer, evicted, subscribers, ghosts,
                     queue, producer, shown, dropped, missed, misled>>
      /\ UNCHANGED <<produced, final, journal>>
      /\ tab[t].pc = "reading"
      /\ tab' = [tab EXCEPT ![t] = [Away(tab[t].cursor) EXCEPT !.pc = "restoring"]]
    BY DEF Interrupted, channel, views, run
<1>2. /\ tab'[t] = [Away(tab[t].cursor) EXCEPT !.pc = "restoring"]
      /\ tab'[t].cursor = tab[t].cursor
      /\ \A u \in Tabs \ {t} : tab'[u] = tab[u]
    BY <1>0, <1>1 DEF Away
<1>3. RolesStay(t) /\ \A u \in Tabs \ {t} : Untouched(u)
    <2>1. RolesStay(t)
        BY <1>1, NobodyMoves
    <2> QED BY <1>1, <1>2, <2>1 DEF Untouched
<1>4. ViewIsUpToCursor(t)'
    BY <1>0, <1>1, <1>2 DEF ViewIsUpToCursor
<1>5. /\ t \notin subscribers' /\ queue'[t] = <<>>
      /\ attached /\ producer["worker"].pc \in Unnoted => tab[t].cursor < produced
    BY <1>0, <1>1 DEF VisitIsInOrder, NotAhead, Served
<1>6. TabInv(t)'
    BY <1>1, <1>2, <1>4, <1>5, GoneIsInOrder
<1> QED BY <1>1, <1>3, <1>6, HandlerKeeps

\* A broken connection leaves the cursor.
LEMMA BreakKeeps ==
    ASSUME TypeOK, RelayInv, NEW t \in Tabs, Break(t)
    PROVE  RelayInv'
<1> USE RunFacts, ProducerFacts
<1>0. /\ ViewIsUpToCursor(t) /\ NotAhead(t) /\ tab \in [Tabs -> TabType]
    BY DEF RelayInv, TabInv, TypeOK
<1>1. /\ UNCHANGED <<run, attached, stopped, lastEventId, buffer, evicted, shown, dropped, missed,
                     misled>>
      /\ UNCHANGED <<produced, final, journal>>
      /\ tab[t].pc # "over" /\ Leave(t) /\ tab' = [tab EXCEPT ![t] = Away(tab[t].cursor)]
    BY DEF Break, views, run
<1>2. /\ tab'[t] = Away(tab[t].cursor) /\ tab'[t].cursor = tab[t].cursor
      /\ \A u \in Tabs \ {t} : tab'[u] = tab[u]
    BY <1>0, <1>1 DEF Away
<1>3. /\ RolesStay(t) /\ queue'[t] = <<>> /\ t \notin subscribers'
      /\ \A u \in Tabs \ {t} : /\ queue'[u] = queue[u]
                               /\ u \in subscribers' <=> u \in subscribers
    BY <1>1, LeaveKeeps
<1>4. \A u \in Tabs \ {t} : Untouched(u)
    BY <1>1, <1>2, <1>3 DEF Untouched
<1>5. ViewIsUpToCursor(t)'
    BY <1>0, <1>1, <1>2 DEF ViewIsUpToCursor
<1>6. attached /\ producer["worker"].pc \in Unnoted => tab[t].cursor < produced
    BY <1>0 DEF NotAhead
<1>7. TabInv(t)'
    BY <1>1, <1>2, <1>3, <1>5, <1>6, GoneIsInOrder
<1> QED BY <1>1, <1>3, <1>4, <1>7, HandlerKeeps
-----------------------------------------------------------------------------
(***************************************************************************)
(* The inductive invariant.                                                *)
(***************************************************************************)
LEMMA InitRelayInv == Init => RelayInv
<1> SUFFICES ASSUME Init PROVE RelayInv
    OBVIOUS
<1>1. RunIsNumbered
    BY DEF Init, NoProducer, RunIsNumbered
<1>2. DetachedForAReason
    BY DEF Init, NoProducer, DetachedForAReason, Dead
<1>3. BufferIsRecent /\ BufferHasAnId
    BY RangeOfNone DEF Init, NoProducer, BufferIsRecent, BufferHasAnId
<1>4. ProducersAreBusy
    BY DEF Init, NoProducer, ProducersAreBusy, Busy, Producers
<1>5. ASSUME NEW t \in Tabs PROVE TabInv(t)
    <2>1. /\ tab[t].pc = "away" /\ tab[t].cursor = 0 /\ tab[t].last = 0 /\ tab[t].bound = 0
          /\ tab[t].replay = {} /\ queue[t] = <<>> /\ shown[t] = <<>> /\ dropped[t] = {}
          /\ missed[t] = {} /\ subscribers = {} /\ final = 0 /\ journal = {} /\ produced = 0
          /\ producer["worker"].pc = "idle"
        BY DEF Init, Away, NoProducer
    <2>2. ViewIsUpToCursor(t)
        BY <2>1, RangeOfNone DEF ViewIsUpToCursor
    <2>3. NotAhead(t) /\ VisitIsInOrder(t) /\ ReadingFollows(t) /\ Follows(t)
        BY <2>1 DEF NotAhead, VisitIsInOrder, ReadingFollows, Follows, Served
    <2> QED BY <2>2, <2>3 DEF TabInv
<1> QED BY <1>1, <1>2, <1>3, <1>4, <1>5 DEF RelayInv, ChannelInv

\* Every step keeps the invariant.
LEMMA NextRelayInv == TypeOK /\ RelayInv /\ [Next]_vars => RelayInv'
<1> SUFFICES ASSUME TypeOK, RelayInv, [Next]_vars PROVE RelayInv'
    OBVIOUS
<1>1. CASE JournalEvent \/ SetLatest \/ Stop \/ Detach \/ Unsubscribe \/ Die
    BY <1>1, JournalEventKeeps, SetLatestKeeps, StopKeeps, DetachKeeps, UnsubscribeKeeps, DieKeeps
<1>2. ASSUME NEW w \in Producers, Put(w) PROVE RelayInv'
    BY <1>2, ReadLatestKeeps, NoteLastEventIdKeeps, PutUnderLockKeeps, PutDoneKeeps,
       PutInQueueKeeps, DropOldestKeeps DEF Put
<1>3. ASSUME NEW t \in Tabs, Ask(t) \/ Serve(t) \/ Break(t) PROVE RelayInv'
    BY <1>3, AskKeeps, SubscribeKeeps, ReplayKeeps, SendReplayedKeeps, SendKeeps, ReadJournalKeeps,
       InterruptedKeeps, BreakKeeps DEF Serve
<1>4. CASE UNCHANGED vars
    <2>1. UNCHANGED <<run, attached, stopped, lastEventId, buffer, evicted, subscribers, queue,
                      producer, tab, shown, dropped, missed, misled>>
        BY <1>4 DEF vars, channel
    <2>2. ChannelInv' /\ ProducersAreBusy'
        BY <2>1, NobodyMoves, ChannelKeeps
    <2>3. Troubles' = Troubles /\ (Dead' <=> Dead)
        BY <2>1 DEF Troubles, Dead, run
    <2>4. \A u \in Tabs : Untouched(u) /\ Pending(u)' = Pending(u)
        BY <2>1 DEF Untouched, Pending, Waiting, run
    <2> QED BY <2>1, <2>2, <2>3, <2>4, NoTabNotices DEF run
<1> QED BY <1>1, <1>2, <1>3, <1>4 DEF Next, Worker, Producers

\* The types and the inductive invariant hold throughout.
LEMMA RelayInvariance == Spec => [](TypeOK /\ RelayInv)
<1>1. Init => Typed
    BY InitType DEF Init, Typed, NoProducer, Producers, Busy, AtWork
<1>2. Typed => TypeOK
    BY DEF Typed
<1> QED BY <1>1, <1>2, NextType, InitRelayInv, NextRelayInv, PTL DEF Spec
-----------------------------------------------------------------------------
(***************************************************************************)
(* The refinement: what a step looks like to StreamDelivery.               *)
(***************************************************************************)
Phase(t) == IF tab[t].pc \in {"over", "restoring"} THEN tab[t].pc ELSE "following"

ExactNow == [t \in Tabs |-> Exact(t)]

ViewNow == [t \in Tabs |-> IF Exact(t) THEN shown[t] ELSE <<>>]

PhaseNow == [t \in Tabs |-> Phase(t)]

\* A tab whose view and phase do not change.
Same(u) == (Exact(u)' <=> Exact(u)) /\ shown'[u] = shown[u] /\ Phase(u)' = Phase(u)

\* If no tab changes what it has seen, no tab changes what it is promised.
LEMMA AllTabsSame ==
    ASSUME \A u \in Tabs : Same(u)
    PROVE  ExactNow' = ExactNow /\ ViewNow' = ViewNow /\ PhaseNow' = PhaseNow
<1>1. ASSUME NEW u \in Tabs
      PROVE  (Exact(u)' <=> Exact(u)) /\ shown'[u] = shown[u] /\ Phase(u)' = Phase(u)
    BY DEF Same
<1>2. ExactNow' = ExactNow
    BY <1>1 DEF ExactNow, Exact
<1>3. ViewNow' = ViewNow
    BY <1>1 DEF ViewNow, Exact
<1>4. PhaseNow' = PhaseNow
    BY <1>1 DEF PhaseNow
<1> QED BY <1>2, <1>3, <1>4

\* If only one tab changes, the others keep their place in the abstract state.
LEMMA OtherTabsSame ==
    ASSUME NEW t \in Tabs, \A u \in Tabs \ {t} : Same(u)
    PROVE  /\ (Exact(t)' <=> Exact(t)) => ExactNow' = ExactNow
           /\ ~Exact(t)' => ExactNow' = [ExactNow EXCEPT ![t] = FALSE]
           /\ ~Exact(t)' => ViewNow' = [ViewNow EXCEPT ![t] = <<>>]
           /\ Exact(t)' /\ Exact(t) => ViewNow' = [ViewNow EXCEPT ![t] = shown'[t]]
           /\ PhaseNow' = [PhaseNow EXCEPT ![t] = Phase(t)']
<1>1. ASSUME NEW u \in Tabs, u # t
      PROVE  (Exact(u)' <=> Exact(u)) /\ shown'[u] = shown[u] /\ Phase(u)' = Phase(u)
    BY <1>1 DEF Same
<1>2. (Exact(t)' <=> Exact(t)) => ExactNow' = ExactNow
    BY <1>1 DEF ExactNow, Exact
<1>3. ~Exact(t)' => ExactNow' = [ExactNow EXCEPT ![t] = FALSE]
    BY <1>1 DEF ExactNow, Exact
<1>4. ~Exact(t)' => ViewNow' = [ViewNow EXCEPT ![t] = <<>>]
    BY <1>1 DEF ViewNow, Exact
<1>5. Exact(t)' /\ Exact(t) => ViewNow' = [ViewNow EXCEPT ![t] = shown'[t]]
    BY <1>1 DEF ViewNow, Exact
<1>6. PhaseNow' = [PhaseNow EXCEPT ![t] = Phase(t)']
    BY <1>1 DEF PhaseNow
<1> QED BY <1>2, <1>3, <1>4, <1>5, <1>6

\* A step that no tab sees and that leaves the journal alone is a stutter.
LEMMA MapsToStutter ==
    ASSUME \A u \in Tabs : Same(u), journal' = journal, final' = final, Troubles' = Troubles
    PROVE  UNCHANGED Delivery!vars
<1>1. ExactNow' = ExactNow /\ ViewNow' = ViewNow /\ PhaseNow' = PhaseNow
    BY AllTabsSame
<1> QED BY <1>1 DEF Delivery!vars, ExactNow, ViewNow, PhaseNow, Phase

\* A tab of a troubled run that is told to restore.
LEMMA MapsToRestore ==
    ASSUME NEW t \in Tabs, \A u \in Tabs \ {t} : Same(u), journal' = journal, final' = final,
           Troubles' = Troubles, Troubles # {}, Exact(t)' <=> Exact(t), shown'[t] = shown[t],
           Phase(t) = "following", Phase(t)' = "restoring"
    PROVE  Delivery!Restore(t)
<1>1. ExactNow' = ExactNow /\ PhaseNow' = [PhaseNow EXCEPT ![t] = "restoring"]
      /\ PhaseNow[t] = "following"
    BY OtherTabsSame DEF PhaseNow
<1>2. ViewNow' = ViewNow
    <2>1. ASSUME NEW u \in Tabs PROVE (Exact(u)' <=> Exact(u)) /\ shown'[u] = shown[u]
        BY DEF Same
    <2> QED BY <2>1 DEF ViewNow, Exact
<1> QED BY <1>1, <1>2 DEF Delivery!Restore, ExactNow, ViewNow, PhaseNow, Phase

\* A tab whose view lapses, at the latest at its end.
LEMMA MapsToLapse ==
    ASSUME NEW t \in Tabs, \A u \in Tabs \ {t} : Same(u), journal' = journal, final' = final,
           Troubles' = Troubles, Exact(t), ~Exact(t)', Phase(t) = "following",
           \/ Phase(t)' = "following"
           \/ Phase(t)' = "over" /\ (final # 0 \/ Troubles # {})
    PROVE  Delivery!Lapse(t)
<1>1. /\ ExactNow' = [ExactNow EXCEPT ![t] = FALSE] /\ ViewNow' = [ViewNow EXCEPT ![t] = <<>>]
      /\ PhaseNow' = [PhaseNow EXCEPT ![t] = Phase(t)']
    BY OtherTabsSame
<1>2. PhaseNow[t] = "following" /\ ExactNow[t]
    BY DEF PhaseNow, ExactNow
<1>3. \/ PhaseNow' = PhaseNow
      \/ PhaseNow' = [PhaseNow EXCEPT ![t] = "over"] /\ (final # 0 \/ Troubles # {})
    BY <1>1, <1>2 DEF PhaseNow
<1> QED BY <1>1, <1>2, <1>3 DEF Delivery!Lapse, ExactNow, ViewNow, PhaseNow, Phase

\* A tab with a lapsed view is told of the end.
LEMMA MapsToEndLapsed ==
    ASSUME NEW t \in Tabs, \A u \in Tabs \ {t} : Same(u), journal' = journal, final' = final,
           Troubles' = Troubles, ~Exact(t), ~Exact(t)', Phase(t) = "following",
           Phase(t)' = "over", final # 0 \/ "stop" \in Troubles
    PROVE  Delivery!EndLapsed(t)
<1>1. /\ ExactNow' = ExactNow /\ ViewNow' = [ViewNow EXCEPT ![t] = <<>>]
      /\ PhaseNow' = [PhaseNow EXCEPT ![t] = "over"]
    BY OtherTabsSame
<1>2. PhaseNow[t] = "following" /\ ~ExactNow[t] /\ ViewNow' = ViewNow
    BY <1>1 DEF PhaseNow, ExactNow, ViewNow
<1> QED BY <1>1, <1>2 DEF Delivery!EndLapsed, ExactNow, ViewNow, PhaseNow, Phase

\* The tab shows an event of the journal, or one that is not in it.
LEMMA MapsToSees ==
    ASSUME NEW t \in Tabs, NEW e, \A u \in Tabs \ {t} : Same(u), Exact(t), Exact(t)',
           shown'[t] = IF e \in journal THEN Append(shown[t], e) ELSE shown[t],
           e \in journal => e \notin Range(shown[t])
                            /\ \A f \in journal : f < e => f \in Range(shown[t])
    PROVE  Delivery!Sees(t)
<1>1. ViewNow' = [ViewNow EXCEPT ![t] = shown'[t]] /\ ViewNow[t] = shown[t]
    BY OtherTabsSame DEF ViewNow
<1>2. CASE e \in journal
    <2>1. /\ ViewNow' = [ViewNow EXCEPT ![t] = Append(@, e)]
          /\ e \in journal \ Range(ViewNow[t])
          /\ \A f \in journal : f < e => f \in Range(ViewNow[t])
        BY <1>1, <1>2
    <2> QED BY <2>1 DEF Delivery!Sees, ViewNow, Range, Delivery!Range
<1>3. CASE e \notin journal
    <2>1. ViewNow' = ViewNow
        BY <1>1, <1>3 DEF ViewNow
    <2> QED BY <2>1 DEF Delivery!Sees, ViewNow
<1> QED BY <1>2, <1>3

\* A tab that sees the next event of the journal, or one that is not in it.
LEMMA MapsToSee ==
    ASSUME NEW t \in Tabs, \A u \in Tabs \ {t} : Same(u), journal' = journal, final' = final,
           Troubles' = Troubles, Exact(t), Exact(t)', Delivery!Sees(t), Phase(t) = "following",
           Phase(t)' = "following"
    PROVE  Delivery!See(t)
<1>1. ExactNow' = ExactNow /\ ExactNow[t] /\ PhaseNow[t] = "following" /\ PhaseNow' = PhaseNow
    BY OtherTabsSame DEF ExactNow, PhaseNow
<1> QED BY <1>1 DEF Delivery!See, ExactNow, PhaseNow, Phase

\* A tab that is told of the end after it has seen all, or of a Stop.
LEMMA MapsToEnd ==
    ASSUME NEW t \in Tabs, \A u \in Tabs \ {t} : Same(u), journal' = journal, final' = final,
           Troubles' = Troubles, Exact(t), Exact(t)', Delivery!Sees(t), Phase(t) = "following",
           Phase(t)' = "over",
           "stop" \in Troubles \/ (final # 0 /\ journal \subseteq Range(shown'[t]))
    PROVE  Delivery!End(t)
<1>1. /\ ExactNow' = ExactNow /\ ExactNow[t] /\ PhaseNow[t] = "following"
      /\ PhaseNow' = [PhaseNow EXCEPT ![t] = "over"]
    BY OtherTabsSame DEF ExactNow, PhaseNow
<1>2. ViewNow'[t] = shown'[t]
    BY DEF ViewNow
<1> QED BY <1>1, <1>2 DEF Delivery!End, ExactNow, ViewNow, PhaseNow, Phase, Range, Delivery!Range

\* A lapsed view stays what it is, whatever the tab shows.
LEMMA MapsToNothing ==
    ASSUME NEW t \in Tabs, \A u \in Tabs \ {t} : Same(u), journal' = journal, final' = final,
           Troubles' = Troubles, ~Exact(t), ~Exact(t)', Phase(t)' = Phase(t)
    PROVE  UNCHANGED Delivery!vars
<1>1. /\ ExactNow' = ExactNow /\ ViewNow' = [ViewNow EXCEPT ![t] = <<>>]
      /\ PhaseNow' = [PhaseNow EXCEPT ![t] = Phase(t)]
    BY OtherTabsSame
<1>2. ViewNow' = ViewNow /\ PhaseNow' = PhaseNow
    BY <1>1 DEF PhaseNow, ViewNow
<1> QED BY <1>1, <1>2 DEF Delivery!vars, ExactNow, ViewNow, PhaseNow, Phase

\* The views do not change.
LEMMA SameViews ==
    ASSUME UNCHANGED <<journal, shown, missed, misled>>, NEW u \in Tabs, Phase(u)' = Phase(u)
    PROVE  Same(u)
BY DEF Same, Exact

\* The run goes on by one event.
LEMMA JournalEventMaps == TypeOK /\ RelayInv /\ JournalEvent => Delivery!Extend
<1> SUFFICES ASSUME TypeOK, RelayInv, JournalEvent PROVE Delivery!Extend
    OBVIOUS
<1> DEFINE e == produced + 1
<1> USE RunFacts, ProducerFacts
<1>1. /\ final = 0 /\ e \in 1..MaxEvents
      /\ UNCHANGED <<stopped, tab, shown, missed, misled>>
      /\ producer'["stop"] = producer["stop"]
      /\ \/ journal' = journal \cup {e} /\ unwritten' = unwritten
         \/ unwritten' = unwritten \cup {e} /\ journal' = journal
    <2>1. produced < due.events /\ due.events \in 1..MaxEvents
        BY DEF JournalEvent, TypeOK, Budget
    <2> QED BY <2>1 DEF JournalEvent, views
<1>2. ASSUME NEW u \in Tabs PROVE Same(u)
    <2>1. missed[u] \subseteq 1..produced \cup {StopEvent}
        BY DEF RelayInv, TabInv, ViewIsUpToCursor
    <2>2. missed[u] \cap journal' = missed[u] \cap journal
        BY <1>1, <2>1
    <2> QED BY <1>1, <2>2 DEF Same, Exact, Phase
<1>3. ExactNow' = ExactNow /\ ViewNow' = ViewNow /\ PhaseNow' = PhaseNow
    BY <1>2, AllTabsSame
<1>4. \/ /\ journal' = journal \cup {e} /\ e \in Events /\ \A f \in journal : f < e
         /\ Troubles' = Troubles
      \/ journal' = journal /\ Troubles' = Troubles \cup {"failed write"}
    <2>1. CASE journal' = journal \cup {e} /\ unwritten' = unwritten
        <3>1. \A f \in journal : f < e
            OBVIOUS
        <3>2. Troubles' = Troubles
            BY <1>1, <2>1 DEF Troubles
        <3> QED BY <1>1, <2>1, <3>1, <3>2 DEF Events
    <2>2. CASE unwritten' = unwritten \cup {e} /\ journal' = journal
        <3>1. Troubles' = Troubles \cup {"failed write"}
            BY <1>1, <2>2 DEF Troubles
        <3> QED BY <2>2, <3>1
    <2> QED BY <1>1, <2>1, <2>2
<1> QED BY <1>1, <1>3, <1>4 DEF Delivery!Extend, ExactNow, ViewNow, PhaseNow, Phase

\* A Stop or a death is trouble.
LEMMA StopOrDieMaps == TypeOK /\ RelayInv /\ (Stop \/ Die) => Delivery!Strike
<1> SUFFICES ASSUME TypeOK, RelayInv, Stop \/ Die PROVE Delivery!Strike
    OBVIOUS
<1> USE RunFacts, ProducerFacts
<1>1. UNCHANGED <<journal, final, unwritten, shown, missed, misled>>
    BY DEF Stop, Die, run, views
<1>2. \E x \in {"stop", "death"} : Troubles' = Troubles \cup {x}
    <2>1. CASE Stop
        <3>1. /\ stopped' /\ producer'["stop"].pc = "read" /\ ~Dead /\ unwritten' = unwritten
            BY <2>1 DEF Stop, run, NoProducer, RelayInv, ChannelInv, DetachedForAReason
        <3> QED BY <3>1 DEF Troubles, Dead
    <2>2. CASE Die
        <3>1. stopped' = stopped /\ producer'["stop"].pc = "dead" /\ unwritten' = unwritten
            BY <2>2 DEF Die, run, NoProducer
        <3> QED BY <3>1 DEF Troubles
    <2> QED BY <2>1, <2>2
<1>3. ASSUME NEW u \in Tabs PROVE Phase(u)' = Phase(u)
    <2>1. CASE Stop
        BY <2>1 DEF Stop, Phase
    <2>2. CASE Die
        <3>1. tab'[u] = IF tab[u].pc \in {"over", "restoring"} THEN tab[u] ELSE Away(tab[u].cursor)
            BY <2>2 DEF Die
        <3> QED BY <3>1 DEF Phase, Away
    <2> QED BY <2>1, <2>2
<1>4. ExactNow' = ExactNow /\ ViewNow' = ViewNow /\ PhaseNow' = PhaseNow
    BY <1>1, <1>3, SameViews, AllTabsSame
<1> QED BY <1>1, <1>2, <1>4 DEF Delivery!Strike, ExactNow, ViewNow, PhaseNow, Phase

\* The steps that are not seen from outside.
LEMMA HiddenSteps ==
    ASSUME TypeOK, RelayInv,
           \/ SetLatest \/ Detach \/ Unsubscribe
           \/ \E w \in Producers : Put(w)
           \/ \E t \in Tabs : Ask(t) \/ Break(t)
    PROVE  UNCHANGED Delivery!vars
<1> USE RunFacts, ProducerFacts
<1>0. tab \in [Tabs -> TabType]
    BY DEF TypeOK
<1> DEFINE Hidden ==
        /\ UNCHANGED <<journal, final, unwritten, stopped, shown, missed, misled>>
        /\ producer'["stop"].pc = "dead" <=> producer["stop"].pc = "dead"
        /\ \A u \in Tabs : Phase(u)' = Phase(u)
<1>1. CASE SetLatest \/ Detach \/ Unsubscribe
    <2>1. producer'["stop"] = producer["stop"]
        BY <1>1 DEF SetLatest, Detach, Unsubscribe
    <2>2. Hidden
        BY <1>1, <2>1 DEF SetLatest, Detach, Unsubscribe, run, views, Phase
    <2> QED BY <2>2, SameTroubles, SameViews, MapsToStutter
<1>2. ASSUME NEW w \in Producers, Put(w) PROVE UNCHANGED Delivery!vars
    <2>0. producer[w] \in ProducerType
        OBVIOUS
    <2>1. CASE ReadLatest(w) \/ NoteLastEventId(w) \/ PutUnderLock(w) \/ PutDone(w)
        <3>1. producer'["stop"].pc = "dead" <=> producer["stop"].pc = "dead"
            <4>1. CASE w = "stop"
                <5>1. producer[w].pc # "dead" /\ producer'[w].pc # "dead"
                    BY <2>0, <2>1 DEF ReadLatest, NoteLastEventId, PutUnderLock, PutDone, ProducerType
                <5> QED BY <4>1, <5>1
            <4>2. CASE w = "worker"
                <5>1. producer'["stop"] = producer["stop"]
                    BY <2>1, <4>2 DEF ReadLatest, NoteLastEventId, PutUnderLock, PutDone
                <5> QED BY <5>1
            <4> QED BY <4>1, <4>2
        <3>2. UNCHANGED <<journal, final, unwritten, stopped, shown, missed, misled, tab>>
            BY <2>1 DEF ReadLatest, NoteLastEventId, PutUnderLock, PutDone, run, views
        <3>3. Hidden
            BY <3>1, <3>2 DEF Phase
        <3> QED BY <3>3, SameTroubles, SameViews, MapsToStutter
    <2>2. ASSUME NEW t \in Tabs, PutInQueue(w, t) \/ DropOldest(w, t)
          PROVE  UNCHANGED Delivery!vars
        <3>1. producer'["stop"].pc = "dead" <=> producer["stop"].pc = "dead"
            <4>1. CASE w = "stop"
                <5>1. producer[w].pc # "dead" /\ producer'[w].pc # "dead"
                    BY <2>0, <2>2 DEF PutInQueue, DropOldest, ProducerType
                <5> QED BY <4>1, <5>1
            <4>2. CASE w = "worker"
                <5>1. producer'["stop"] = producer["stop"]
                    BY <2>2, <4>2 DEF PutInQueue, DropOldest
                <5> QED BY <5>1
            <4> QED BY <4>1, <4>2
        <3>2. UNCHANGED <<journal, final, unwritten, stopped, shown, missed, misled, tab>>
            BY <2>2 DEF PutInQueue, DropOldest, run, views
        <3>3. Hidden
            BY <3>1, <3>2 DEF Phase
        <3> QED BY <3>3, SameTroubles, SameViews, MapsToStutter
    <2> QED BY <1>2, <2>1, <2>2 DEF Put
<1>3. ASSUME NEW t \in Tabs, Ask(t) \/ Break(t) PROVE UNCHANGED Delivery!vars
    <2>1. producer'["stop"].pc = "dead" <=> producer["stop"].pc = "dead"
        <3>1. CASE Ask(t)
            BY <3>1 DEF Ask
        <3>2. CASE Break(t)
            <4>1. \/ producer'["stop"].pc = producer["stop"].pc
                  \/ {producer["stop"].pc, producer'["stop"].pc} = {"broadcast", "full"}
                BY <3>2, LeaveKeeps DEF Break, RolesStay
            <4> QED BY <4>1
        <3> QED BY <1>3, <3>1, <3>2
    <2>2. UNCHANGED <<journal, final, unwritten, stopped, shown, missed, misled>>
        BY <1>3 DEF Ask, Break, run, views
    <2>3. ASSUME NEW u \in Tabs PROVE Phase(u)' = Phase(u)
        <3>1. CASE Ask(t)
            <4>1. tab' = [tab EXCEPT ![t].pc = IF attached THEN "asking" ELSE "ended"]
                  /\ tab[t].pc = "away" /\ tab[t] \in TabType
                BY <1>0, <3>1 DEF Ask
            <4> QED BY <1>0, <4>1 DEF Phase, TabType
        <3>2. CASE Break(t)
            <4>1. /\ tab' = [tab EXCEPT ![t] = Away(tab[t].cursor)]
                  /\ tab[t].pc \notin {"over", "restoring"}
                BY <3>2 DEF Break
            <4> QED BY <1>0, <4>1 DEF Phase, Away
        <3> QED BY <1>3, <3>1, <3>2
    <2> QED BY <2>1, <2>2, <2>3, SameTroubles, SameViews, MapsToStutter
<1> QED BY <1>1, <1>2, <1>3

\* A tab that subscribes is where it was, unless it is misled: its view lapses then.
LEMMA SubscribeMaps ==
    ASSUME TypeOK, RelayInv, NEW t \in Tabs, Subscribe(t)
    PROVE  [Delivery!Next]_Delivery!vars
<1>0. tab \in [Tabs -> TabType] /\ tab[t] \in TabType /\ misled \subseteq Tabs
    BY DEF TypeOK
<1>1. /\ UNCHANGED <<journal, final, unwritten, stopped, shown, missed, producer>>
      /\ tab[t].pc = "asking" /\ tab'[t].pc = "replay"
      /\ \A u \in Tabs \ {t} : tab'[u] = tab[u]
      /\ misled' = IF SetBack THEN misled \cup {t} ELSE misled
    BY <1>0 DEF Subscribe, run, TabType
<1>2. Troubles' = Troubles
    BY <1>1 DEF Troubles
<1>3. ASSUME NEW u \in Tabs \ {t} PROVE Same(u)
    <2>1. u \in misled' <=> u \in misled
        BY <1>1
    <2> QED BY <1>1, <2>1 DEF Same, Exact, Phase
<1>4. Phase(t) = "following" /\ Phase(t)' = "following"
    BY <1>1 DEF Phase
<1>5. CASE Exact(t) /\ ~Exact(t)'
    <2>1. Delivery!Lapse(t)
        BY <1>1, <1>2, <1>3, <1>4, <1>5, MapsToLapse
    <2> QED BY <2>1 DEF Delivery!Next
<1>6. CASE Exact(t)' <=> Exact(t)
    <2>1. Same(t)
        BY <1>1, <1>4, <1>6 DEF Same
    <2> QED BY <1>1, <1>2, <1>3, <2>1, MapsToStutter
<1>7. Exact(t)' => Exact(t)
    BY <1>1 DEF Exact
<1> QED BY <1>5, <1>6, <1>7

\* A step of the tab's handler that shows nothing.
LEMMA HandlerMaps ==
    ASSUME NEW t \in Tabs, \A u \in Tabs \ {t} : tab'[u] = tab[u],
           UNCHANGED <<journal, final, unwritten, stopped, shown, missed, misled>>,
           producer'["stop"].pc = "dead" <=> producer["stop"].pc = "dead",
           Phase(t) = "following",
           Phase(t)' = "following" \/ (Phase(t)' = "restoring" /\ Troubles # {})
    PROVE  [Delivery!Next]_Delivery!vars
<1>1. Troubles' = Troubles
    BY SameTroubles
<1>2. ASSUME NEW u \in Tabs \ {t} PROVE Same(u)
    BY SameViews DEF Phase
<1>3. Exact(t)' <=> Exact(t)
    BY DEF Exact
<1>4. CASE Phase(t)' = "following"
    <2>1. Same(t)
        BY <1>4, SameViews
    <2> QED BY <1>1, <1>2, <2>1, MapsToStutter
<1>5. CASE Phase(t)' = "restoring" /\ Troubles # {}
    <2>1. Delivery!Restore(t)
        BY <1>1, <1>2, <1>3, <1>5, MapsToRestore
    <2> QED BY <2>1 DEF Delivery!Next
<1> QED BY <1>4, <1>5

\* A replay is a stutter, or a tab is told to restore because the journal has a hole.
LEMMA ReplayMaps ==
    ASSUME TypeOK, RelayInv, NEW t \in Tabs, Replay(t)
    PROVE  [Delivery!Next]_Delivery!vars
<1> USE RunFacts, ProducerFacts
<1>0. /\ tab \in [Tabs -> TabType] /\ tab[t] \in TabType /\ VisitIsInOrder(t)
    BY DEF TypeOK, RelayInv, TabInv
<1>1. /\ UNCHANGED <<journal, final, unwritten, stopped, shown, missed, misled>>
      /\ tab[t].pc = "replay" /\ Phase(t) = "following"
    BY DEF Replay, run, views, Phase
<1>2. producer'["stop"].pc = "dead" <=> producer["stop"].pc = "dead"
    <2>1. CASE UNCHANGED producer
        BY <2>1
    <2>2. CASE Leave(t)
        <3>1. \/ producer'["stop"].pc = producer["stop"].pc
              \/ {producer["stop"].pc, producer'["stop"].pc} = {"broadcast", "full"}
            BY <2>2, LeaveKeeps DEF RolesStay
        <3> QED BY <3>1
    <2> QED BY <2>1, <2>2 DEF Replay
<1>3. ASSUME tab[t].evicted > 0, ~Covered(t) PROVE Troubles # {}
    <2>1. SUFFICES ASSUME unwritten = {} PROVE Troubles # {}
        BY DEF Troubles
    <2>2. journal = 1..produced
        BY <2>1
    <2>3. CASE tab[t].last = 0
        BY <1>0, <1>1, <1>3, <2>3 DEF VisitIsInOrder
    <2>4. CASE tab[t].last # 0
        <3>1. After(t) \in Nat /\ ReplayMax(t) \in Int /\ ReplayMax(t) <= produced
            BY DEF After, ReplayMax
        <3>2. After(t) + 1 .. ReplayMax(t) \subseteq 1..produced
            BY <3>1
        <3>3. Covered(t)
            BY <2>2, <2>4, <3>2 DEF Covered
        <3> QED BY <1>3, <3>3
    <2> QED BY <2>3, <2>4
<1>4. \A u \in Tabs \ {t} : tab'[u] = tab[u]
    BY <1>0 DEF Replay
<1>5. \/ Phase(t)' = "following"
      \/ Phase(t)' = "restoring" /\ Troubles # {}
    <2>1. CASE tab' = [tab EXCEPT ![t].pc = "drain", ![t].fresh = FALSE]
        BY <1>0, <2>1 DEF Phase, TabType
    <2>2. CASE tab' = [tab EXCEPT ![t].pc = "drain", ![t].bound = DedupBound(t),
                  ![t].replay = {e \in journal : After(t) < e /\ e <= ReplayMax(t)}]
        BY <1>0, <2>2 DEF Phase, TabType
    <2>3. CASE /\ tab[t].evicted > 0 /\ ~Covered(t)
               /\ tab' = [tab EXCEPT ![t] = [Away(tab[t].cursor) EXCEPT !.pc = "restoring"]]
        BY <1>0, <1>3, <2>3 DEF Phase, Away
    <2> QED BY <2>1, <2>2, <2>3 DEF Replay
<1> QED BY <1>1, <1>2, <1>4, <1>5, HandlerMaps

\* A tab that reads the journal is where it was, or there is none, and it restores.
LEMMA ReadJournalMaps ==
    ASSUME TypeOK, RelayInv, NEW t \in Tabs, ReadJournal(t)
    PROVE  [Delivery!Next]_Delivery!vars
<1> USE RunFacts, ProducerFacts
<1>0. /\ tab \in [Tabs -> TabType] /\ VisitIsInOrder(t) /\ DetachedForAReason /\ ProducersAreBusy
    BY DEF TypeOK, RelayInv, ChannelInv, TabInv
<1>1. /\ UNCHANGED <<journal, final, unwritten, stopped, shown, missed, misled, producer>>
      /\ tab[t].pc = "ended" /\ Phase(t) = "following" /\ ~attached
    BY <1>0 DEF ReadJournal, run, Phase, VisitIsInOrder
<1>2. ASSUME journal = {} PROVE Troubles # {}
    <2>1. SUFFICES ASSUME ~stopped, ~Dead, unwritten = {} PROVE FALSE
        BY DEF Troubles, Dead
    <2>2. final # 0
        BY <1>0, <1>1, <2>1 DEF DetachedForAReason, ProducersAreBusy
    <2> QED BY <1>2, <2>1, <2>2
<1>3. /\ tab'[t].pc = IF journal = {} THEN "restoring" ELSE "reading"
      /\ \A u \in Tabs \ {t} : tab'[u] = tab[u]
    BY <1>0 DEF ReadJournal, Away
<1>4. Phase(t)' = "following" \/ (Phase(t)' = "restoring" /\ Troubles # {})
    BY <1>2, <1>3 DEF Phase
<1> QED BY <1>1, <1>3, <1>4, HandlerMaps

\* A journal without an end tells of trouble.
LEMMA InterruptedMaps ==
    ASSUME TypeOK, RelayInv, NEW t \in Tabs, Interrupted(t)
    PROVE  [Delivery!Next]_Delivery!vars
<1>0. tab \in [Tabs -> TabType] /\ ReadingFollows(t)
    BY DEF TypeOK, RelayInv, TabInv
<1>1. /\ UNCHANGED <<journal, final, unwritten, stopped, shown, missed, misled, producer>>
      /\ tab[t].pc = "reading" /\ tab[t].replay = {} /\ Phase(t) = "following"
    BY DEF Interrupted, run, views, Phase
<1>2. Troubles # {}
    BY <1>0, <1>1 DEF ReadingFollows
<1>3. tab'[t].pc = "restoring" /\ \A u \in Tabs \ {t} : tab'[u] = tab[u]
    BY <1>0 DEF Interrupted, Away
<1>4. Phase(t)' = "restoring"
    BY <1>3 DEF Phase
<1> QED BY <1>1, <1>2, <1>3, <1>4, HandlerMaps

\* The tab shows the item that is up next.
LEMMA ShowMaps ==
    ASSUME TypeOK, RelayInv, NEW t \in Tabs, NEW e, UpNext(t, e), Shows(t, e),
           \A u \in Tabs \ {t} : tab'[u] = tab[u],
           UNCHANGED <<journal, final, unwritten, stopped, misled>>,
           producer'["stop"].pc = "dead" <=> producer["stop"].pc = "dead",
           Phase(t)' = IF Terminal(e) THEN "over" ELSE "following"
    PROVE  [Delivery!Next]_Delivery!vars
<1> USE RunFacts
<1>0. /\ Troubles' = Troubles /\ Phase(t) = "following"
      /\ tab[t].pc # "over" /\ ViewIsUpToCursor(t) /\ tab[t].cursor \in Nat
    BY SameTroubles DEF UpNext, Replayed, Queued, Phase, RelayInv, TabInv
<1>1. /\ shown'[t] = IF e \in journal THEN Append(shown[t], e) ELSE shown[t]
      /\ Range(shown'[t]) = Range(shown[t]) \cup ({e} \cap journal)
      /\ missed[t] \subseteq missed'[t]
      /\ \A f \in dropped[t] : f < e => f \in Range(shown[t]) \cup missed'[t]
      /\ \A u \in Tabs \ {t} : shown'[u] = shown[u] /\ missed'[u] = missed[u]
    BY ShowsFacts
<1>2. ASSUME NEW u \in Tabs \ {t} PROVE Same(u)
    BY <1>1 DEF Same, Exact, Phase
<1>3. e \in 1..produced \cup Stops
    BY NothingIsSkipped
<1>4. ASSUME Terminal(e) PROVE "stop" \in Troubles \/ (final # 0 /\ e = produced /\ e = final)
    <2>1. e \in Stops => "stop" \in Troubles
        BY DEF Stops, Troubles
    <2>2. e \in 1..produced => final # 0 /\ e = produced /\ e = final
        BY <1>4 DEF Terminal
    <2> QED BY <1>3, <2>1, <2>2
<1>5. Exact(t)' => Exact(t)
    BY <1>1 DEF Exact
<1>6. CASE Exact(t)'
    <2>1. t \notin misled /\ missed'[t] \cap journal = {}
        BY <1>6 DEF Exact
    <2>2. /\ e \in journal => e > tab[t].cursor
          /\ e # StopEvent => \A f \in journal : f < e => f \in Range(shown[t])
        <3>1. e \in journal => e > tab[t].cursor
            BY <2>1, NothingIsSkipped
        <3>2. e # StopEvent =>
                 \A f \in journal : f < e => f \in Range(shown[t]) \cup missed[t] \cup dropped[t]
            BY <2>1, NothingIsSkipped
        <3> QED BY <1>1, <2>1, <3>1, <3>2
    <2>3. e \in journal => e \notin Range(shown[t])
        BY <1>0, <2>2 DEF ViewIsUpToCursor
    <2>4. Delivery!Sees(t)
        BY <1>1, <1>2, <1>5, <1>6, <2>2, <2>3, MapsToSees
    <2>5. CASE ~Terminal(e)
        <3>1. Delivery!See(t)
            BY <1>0, <1>2, <1>5, <1>6, <2>4, <2>5, MapsToSee
        <3> QED BY <3>1 DEF Delivery!Next
    <2>6. CASE Terminal(e)
        <3>1. "stop" \in Troubles \/ (final # 0 /\ journal \subseteq Range(shown'[t]))
            <4>1. ASSUME final # 0, e = produced, e = final, NEW f \in journal
                  PROVE  f \in Range(shown'[t])
                <5>1. f < e \/ f = e
                    BY <4>1
                <5> QED BY <1>1, <2>2, <4>1, <5>1
            <4> QED BY <1>4, <2>6, <4>1
        <3>2. Delivery!End(t)
            BY <1>0, <1>2, <1>5, <1>6, <2>4, <2>6, <3>1, MapsToEnd
        <3> QED BY <3>2 DEF Delivery!Next
    <2> QED BY <2>5, <2>6
<1>7. CASE Exact(t) /\ ~Exact(t)'
    <2>1. \/ Phase(t)' = "following"
          \/ Phase(t)' = "over" /\ (final # 0 \/ Troubles # {})
        BY <1>4
    <2>2. Delivery!Lapse(t)
        BY <1>0, <1>2, <1>7, <2>1, MapsToLapse
    <2> QED BY <2>2 DEF Delivery!Next
<1>8. CASE ~Exact(t)
    <2>1. CASE ~Terminal(e)
        BY <1>0, <1>2, <1>5, <1>8, <2>1, MapsToNothing
    <2>2. CASE Terminal(e)
        <3>1. Delivery!EndLapsed(t)
            BY <1>0, <1>2, <1>4, <1>5, <1>8, <2>2, MapsToEndLapsed
        <3> QED BY <3>1 DEF Delivery!Next
    <2> QED BY <2>1, <2>2
<1> QED BY <1>5, <1>6, <1>7, <1>8

\* A replayed event is the next one of the journal for its tab, and the last is the end.
LEMMA SendReplayedMaps ==
    ASSUME TypeOK, RelayInv, NEW t \in Tabs, SendReplayed(t)
    PROVE  [Delivery!Next]_Delivery!vars
<1> USE ProducerFacts
<1>0. tab \in [Tabs -> TabType] /\ tab[t] \in TabType
    BY DEF TypeOK
<1>1. PICK e \in tab[t].replay :
          /\ Replayed(t, e) /\ Shows(t, e)
          /\ \/ /\ ~Terminal(e) /\ UNCHANGED producer
                /\ tab' = [tab EXCEPT ![t].replay = @ \ {e}, ![t].cursor = Cursor(t, e)]
             \/ /\ Terminal(e) /\ Leave(t)
                /\ tab' = [tab EXCEPT ![t] = [Away(Cursor(t, e)) EXCEPT !.pc = "over"]]
    BY DEF SendReplayed, Replayed
<1>2. UNCHANGED <<journal, final, unwritten, stopped, misled>> /\ UpNext(t, e)
    BY <1>1 DEF SendReplayed, run, UpNext
<1>3. producer'["stop"].pc = "dead" <=> producer["stop"].pc = "dead"
    <2>1. ASSUME Leave(t)
          PROVE  \/ producer'["stop"].pc = producer["stop"].pc
                 \/ {producer["stop"].pc, producer'["stop"].pc} = {"broadcast", "full"}
        BY <2>1, LeaveKeeps DEF RolesStay
    <2>2. Leave(t) \/ UNCHANGED producer
        BY <1>1
    <2> QED BY <2>1, <2>2
<1>4. /\ Phase(t)' = IF Terminal(e) THEN "over" ELSE "following"
      /\ \A u \in Tabs \ {t} : tab'[u] = tab[u]
    <2>1. CASE tab' = [tab EXCEPT ![t].replay = @ \ {e}, ![t].cursor = Cursor(t, e)] /\ ~Terminal(e)
        BY <1>0, <1>1, <2>1 DEF Phase, TabType, Replayed
    <2>2. CASE /\ Terminal(e)
               /\ tab' = [tab EXCEPT ![t] = [Away(Cursor(t, e)) EXCEPT !.pc = "over"]]
        BY <1>0, <2>2 DEF Phase, Away
    <2> QED BY <1>1, <2>1, <2>2
<1> QED BY <1>1, <1>2, <1>3, <1>4, ShowMaps

\* An item of the queue is the next event for its tab, makes its view lapse, or has been
\* sent already.
LEMMA SendMaps ==
    ASSUME TypeOK, RelayInv, NEW t \in Tabs, Send(t)
    PROVE  [Delivery!Next]_Delivery!vars
<1> DEFINE e == Head(queue[t])
<1> USE ProducerFacts
<1>0. tab \in [Tabs -> TabType] /\ tab[t] \in TabType
    BY DEF TypeOK
<1>1. /\ UNCHANGED <<journal, final, unwritten, stopped, misled>>
      /\ tab[t].pc = "drain" /\ Phase(t) = "following"
      /\ ~AlreadySent(t, e) => UpNext(t, e)
    BY DEF Send, run, UpNext, Queued, Phase
<1>2. CASE AlreadySent(t, e) /\ UNCHANGED <<tab, shown, missed, producer>>
    BY <1>1, <1>2, HandlerMaps DEF Phase
<1>3. CASE /\ ~AlreadySent(t, e) /\ Shows(t, e)
           /\ \/ /\ ~Terminal(e) /\ UNCHANGED producer
                 /\ tab' = [tab EXCEPT ![t].cursor = Cursor(t, e)]
              \/ /\ Terminal(e) /\ Leave(t)
                 /\ tab' = [tab EXCEPT ![t] = [Away(Cursor(t, e)) EXCEPT !.pc = "over"]]
    <2>1. producer'["stop"].pc = "dead" <=> producer["stop"].pc = "dead"
        <3>1. ASSUME Leave(t)
              PROVE  \/ producer'["stop"].pc = producer["stop"].pc
                     \/ {producer["stop"].pc, producer'["stop"].pc} = {"broadcast", "full"}
            BY <3>1, LeaveKeeps DEF RolesStay
        <3>2. Leave(t) \/ UNCHANGED producer
            BY <1>3
        <3> QED BY <3>1, <3>2
    <2>2. /\ Phase(t)' = IF Terminal(e) THEN "over" ELSE "following"
          /\ \A u \in Tabs \ {t} : tab'[u] = tab[u]
        <3>1. CASE tab' = [tab EXCEPT ![t].cursor = Cursor(t, e)] /\ ~Terminal(e)
            BY <1>0, <1>1, <3>1 DEF Phase, TabType
        <3>2. CASE /\ Terminal(e)
                   /\ tab' = [tab EXCEPT ![t] = [Away(Cursor(t, e)) EXCEPT !.pc = "over"]]
            BY <1>0, <3>2 DEF Phase, Away
        <3> QED BY <1>3, <3>1, <3>2
    <2> QED BY <1>1, <1>3, <2>1, <2>2, ShowMaps
<1> QED BY <1>2, <1>3 DEF Send

(***************************************************************************)
(* The relay implements StreamDelivery: a tab sees the journal of the run  *)
(* from its beginning, event by event, without a hole or a repetition,     *)
(* through every reconnection, and is told that the run is over when there *)
(* is nothing left to see; it is told to restore the session only where    *)
(* the run met trouble.                                                    *)
(***************************************************************************)
THEOREM RelayImplementsDelivery == Spec => ImplementsDelivery
<1>1. Init => Delivery!Init
    <2> SUFFICES ASSUME Init PROVE Delivery!Init
        OBVIOUS
    <2>1. ASSUME NEW t \in Tabs PROVE Exact(t) /\ shown[t] = <<>> /\ Phase(t) = "following"
        BY DEF Init, Exact, Phase, Away
    <2>2. /\ ExactNow = [t \in Tabs |-> TRUE] /\ ViewNow = [t \in Tabs |-> <<>>]
          /\ PhaseNow = [t \in Tabs |-> "following"]
        BY <2>1 DEF ExactNow, Exact, ViewNow, PhaseNow
    <2>3. journal = {} /\ final = 0 /\ Troubles = {}
        BY DEF Init, Troubles, NoProducer
    <2> QED BY <2>2, <2>3 DEF Delivery!Init, ExactNow, ViewNow, PhaseNow, Phase
<1>2. ASSUME TypeOK, RelayInv, [Next]_vars PROVE [Delivery!Next]_Delivery!vars
    <2>1. CASE JournalEvent
        BY <1>2, <2>1, JournalEventMaps DEF Delivery!Next
    <2>2. CASE Stop \/ Die
        BY <1>2, <2>2, StopOrDieMaps DEF Delivery!Next
    <2>3. CASE \/ SetLatest \/ Detach \/ Unsubscribe
               \/ \E w \in Producers : Put(w)
               \/ \E t \in Tabs : Ask(t) \/ Break(t)
        BY <1>2, <2>3, HiddenSteps
    <2>4. ASSUME NEW t \in Tabs, Serve(t) PROVE [Delivery!Next]_Delivery!vars
        BY <1>2, <2>4, SubscribeMaps, ReplayMaps, SendReplayedMaps, SendMaps, ReadJournalMaps,
           InterruptedMaps DEF Serve
    <2>5. CASE UNCHANGED vars
        <3>1. UNCHANGED <<journal, final, unwritten, stopped, shown, missed, misled, tab, producer>>
            BY <2>5 DEF vars, run
        <3>2. \A u \in Tabs : Same(u)
            BY <3>1 DEF Same, Exact, Phase
        <3>3. Troubles' = Troubles
            BY <3>1 DEF Troubles
        <3> QED BY <3>1, <3>2, <3>3, MapsToStutter
    <2> QED BY <1>2, <2>1, <2>2, <2>3, <2>4, <2>5 DEF Next, Worker, Producers
<1> QED BY <1>1, <1>2, RelayInvariance, PTL DEF Spec, ImplementsDelivery, Delivery!Spec
=============================================================================
