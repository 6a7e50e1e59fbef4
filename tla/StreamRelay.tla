---------------------------- MODULE StreamRelay ----------------------------
(***************************************************************************)
(* How the events of one run reach the browser: put() of the worker        *)
(* (api/streaming.py), the run journal (api/run_journal.py), StreamChannel *)
(* (api/config.py), the handler of /api/chat/stream (api/routes.py) and    *)
(* the cursor of the client (static/messages.js).                          *)
(*                                                                         *)
(* An event goes by its sequence number in the journal.  The channel keeps *)
(* what comes while nobody listens, up to a cap, and copies the rest to    *)
(* the queue of every listener, outside its lock.  A tab that comes back   *)
(* has its cursor: the journal bridges the gap up to what the channel kept.*)
(* Another thread, the Stop handler, may put an event of its own.          *)
(***************************************************************************)
EXTENDS Integers, Sequences, FiniteSets, Functions

CONSTANTS
    Tabs,           \* browser tabs
    Sender,         \* the tab that started the run: its first visit has no cursor
    MaxEvents,      \* bound: events of the run
    Cap,            \* _OFFLINE_BUFFER_MAXLEN and _SUBSCRIBER_QUEUE_MAXSIZE
    Budgets         \* bounds: what may happen in one behaviour

Budget == [visits : [Tabs -> Nat], events : 1..MaxEvents,
           failures : Nat, stops : Nat, deaths : Nat]

ASSUME RelayAssumption ==
    /\ Sender \in Tabs
    /\ MaxEvents \in Nat /\ Cap \in Nat \ {0}
    /\ Budgets \subseteq Budget

VARIABLES
    produced,       \* the worker's events so far
    final,          \* the number of the terminal event, or 0
    journal,        \* the events written to the journal
    unwritten,      \* those whose write failed: they have no event id
    attached,       \* the channel is in STREAMS
    latest,         \* STREAM_LAST_EVENT_ID of the run, or 0
    stopped,        \* the Stop handler has been here
    lastEventId,    \* _last_event_id of the channel, or 0
    buffer,         \* _offline_buffer
    evicted,        \* _offline_dropped
    subscribers,    \* tabs whose handler is in _subscribers
    ghosts,         \* handlers in _subscribers whose tab has gone
    queue,          \* the subscriber queues
    producer,       \* the local variables of put: by the worker, by Stop
    tab,            \* a tab's handler, and its cursor
    shown,          \* the events of the journal a tab has shown
    dropped,        \* history: what a tab's handler will not find any more
    missed,         \* history: what a tab did not show for that reason
    misled,         \* history: tabs that subscribed while lastEventId was behind
    due             \* bound: what may still happen

run == <<produced, final, journal, unwritten, latest>>

channel == <<lastEventId, buffer, evicted, subscribers, ghosts>>

vars == <<run, attached, stopped, channel, queue, producer, tab, shown, dropped, missed,
          misled, due>>

views == <<shown, dropped, missed, misled>>

StopEvent == MaxEvents + 1

Terminal(e) == e = StopEvent \/ e = final

\* The sequence number in an item's event id.  An item without one has 0.
Seq0(e) == IF e \in journal THEN e ELSE 0

NoProducer == [pc |-> "idle", item |-> 0, noted |-> 0, todo |-> {}, at |-> {}]

Away(cursor) == [pc |-> "away", cursor |-> cursor, first |-> 0, last |-> 0, evicted |-> 0,
                 fresh |-> FALSE, replay |-> {}, bound |-> 0]

Init ==
    /\ produced = 0 /\ final = 0 /\ journal = {} /\ unwritten = {}
    /\ latest = 0 /\ attached = TRUE /\ stopped = FALSE
    /\ lastEventId = 0 /\ buffer = <<>> /\ evicted = 0 /\ subscribers = {} /\ ghosts = 0
    /\ misled = {}
    /\ queue = [t \in Tabs |-> <<>>]
    /\ producer = [w \in {"worker", "stop"} |-> NoProducer]
    /\ tab = [t \in Tabs |-> [Away(0) EXCEPT !.fresh = (t = Sender)]]
    /\ shown = [t \in Tabs |-> <<>>]
    /\ dropped = [t \in Tabs |-> {}]
    /\ missed = [t \in Tabs |-> {}]
    /\ due \in Budgets
-----------------------------------------------------------------------------
(***************************************************************************)
(* put of the worker, and what the Stop handler does instead.              *)
(***************************************************************************)
\* append_run_event reserves the number, then writes: the write may fail.
\* Any event may be the last one.
JournalEvent ==
    LET e == produced + 1
    IN  /\ producer["worker"].pc = "idle"
        /\ final = 0 /\ produced < due.events
        /\ produced' = e
        /\ final' \in IF e = due.events THEN {e} ELSE {0, e}
        /\ \/ /\ journal' = journal \cup {e}
              /\ UNCHANGED <<unwritten, due>>
           \/ /\ due.failures > 0
              /\ due' = [due EXCEPT !.failures = @ - 1]
              /\ unwritten' = unwritten \cup {e}
              /\ UNCHANGED journal
        /\ producer' = [producer EXCEPT !["worker"] =
              [NoProducer EXCEPT !.pc = IF e \in journal' THEN "journaled" ELSE "note",
                                 !.item = e, !.noted = IF e \in journal' THEN e ELSE 0]]
        /\ UNCHANGED <<latest, attached, stopped, channel, queue, tab, views>>

\* STREAM_LAST_EVENT_ID[stream_id] = event_id.
SetLatest ==
    /\ producer["worker"].pc = "journaled"
    /\ latest' = producer["worker"].noted
    /\ producer' = [producer EXCEPT !["worker"].pc = "note"]
    /\ UNCHANGED <<produced, final, journal, unwritten, attached, stopped, channel, queue, tab,
                   views, due>>

\* cancel_stream takes the channel out of STREAMS, settles the session,
Stop ==
    /\ due.stops > 0 /\ final = 0 /\ attached
    /\ due' = [due EXCEPT !.stops = @ - 1]
    /\ stopped' = TRUE
    /\ attached' = FALSE
    /\ producer' = [producer EXCEPT !["stop"] =
          [NoProducer EXCEPT !.pc = "read", !.item = StopEvent]]
    /\ UNCHANGED <<run, channel, queue, tab, views>>

\* ... reads STREAM_LAST_EVENT_ID, and notes what it has read.
ReadLatest(w) ==
    /\ producer[w].pc = "read"
    /\ producer' = [producer EXCEPT ![w].pc = "note", ![w].noted = latest]
    /\ UNCHANGED <<run, attached, stopped, channel, queue, tab, views, due>>

\* note_last_event_id.
NoteLastEventId(w) ==
    /\ producer[w].pc = "note"
    /\ producer' = [producer EXCEPT ![w].pc = "put"]
    /\ lastEventId' = IF producer[w].noted # 0 THEN producer[w].noted ELSE lastEventId
    /\ UNCHANGED <<run, attached, stopped, buffer, evicted, subscribers, ghosts, queue, tab,
                   views, due>>

Buffered_Unbounded(e) == Append(buffer, e)

\* What is left of the offline buffer when it takes one more item.
Buffered(e) == IF Len(buffer) < Cap THEN Append(buffer, e) ELSE Append(Tail(buffer), e)

\* put_nowait, under the lock.
PutUnderLock(w) ==
    LET e == producer[w].item
    IN  /\ producer[w].pc = "put"
        /\ lastEventId' = IF Seq0(e) # 0 THEN e ELSE lastEventId
        /\ \/ /\ subscribers = {} /\ ghosts = 0
              /\ buffer' = Buffered(e)
              /\ evicted' = IF Len(buffer) < Cap THEN evicted ELSE evicted + 1
              /\ producer' = [producer EXCEPT ![w] = NoProducer]
           \/ /\ subscribers # {} \/ ghosts > 0
              /\ buffer' = <<>> /\ evicted' = 0
              /\ producer' = [producer EXCEPT ![w].pc = "broadcast", ![w].todo = subscribers]
        /\ UNCHANGED <<run, attached, stopped, subscribers, ghosts, queue, tab,
                       views, due>>

\* ... and outside of it, tab by tab: the item fits, or the queue is full.
PutInQueue(w, t) ==
    /\ producer[w].pc = "broadcast"
    /\ t \in producer[w].todo /\ producer[w].at \subseteq {t}
    /\ \/ /\ Len(queue[t]) < Cap
          /\ queue' = [queue EXCEPT ![t] = Append(@, producer[w].item)]
          /\ producer' = [producer EXCEPT ![w].todo = @ \ {t}, ![w].at = {}]
       \/ /\ Len(queue[t]) = Cap
          /\ producer' = [producer EXCEPT ![w].pc = "full", ![w].at = {t}]
          /\ UNCHANGED queue
    /\ UNCHANGED <<run, attached, stopped, channel, tab, views, due>>

StillTodo_GaveUp(w, t) ==
    IF queue[t] = <<>> THEN producer[w].todo \ {t} ELSE producer[w].todo

\* The item that did not fit is put again.
StillTodo(w, t) == producer[w].todo

\* get_nowait: the oldest item goes, unless the handler has been faster.
DropOldest(w, t) ==
    /\ producer[w].pc = "full" /\ producer[w].at = {t}
    /\ producer' = [producer EXCEPT ![w].pc = "broadcast", ![w].todo = StillTodo(w, t),
                                    ![w].at = @ \cap StillTodo(w, t)]
    /\ \/ /\ queue[t] # <<>>
          /\ dropped' = [dropped EXCEPT ![t] = @ \cup {Head(queue[t])}]
          /\ queue' = [queue EXCEPT ![t] = Tail(@)]
       \/ queue[t] = <<>> /\ UNCHANGED <<dropped, queue>>
    /\ UNCHANGED <<run, attached, stopped, channel, tab, shown, missed, misled, due>>

PutDone(w) ==
    /\ producer[w].pc = "broadcast" /\ producer[w].todo = {}
    /\ producer' = [producer EXCEPT ![w] = NoProducer]
    /\ UNCHANGED <<run, attached, stopped, channel, queue, tab, views, due>>

\* The worker's finally: detach_stream_locked, and STREAM_LAST_EVENT_ID goes.
Detach ==
    /\ final # 0 /\ producer["worker"].pc = "idle"
    /\ producer' = [producer EXCEPT !["worker"].pc = "gone"]
    /\ attached' = FALSE
    /\ latest' = 0
    /\ UNCHANGED <<produced, final, journal, unwritten, stopped, channel, queue, tab, views, due>>
-----------------------------------------------------------------------------
(***************************************************************************)
(* A tab and the handler of its request, _handle_sse_stream.               *)
(***************************************************************************)
\* peek_stream: the channel is there, or the journal has to do.
Ask(t) ==
    /\ tab[t].pc = "away"
    /\ due.visits[t] > 0
    /\ due' = [due EXCEPT !.visits[t] = @ - 1]
    /\ tab' = [tab EXCEPT ![t].pc = IF attached THEN "asking" ELSE "ended"]
    /\ UNCHANGED <<run, attached, stopped, channel, queue, producer, views>>

\* A first visit is not replayed: it lacks what was put and is not in the buffer.
ToBePut ==
    LET waiting == {w \in DOMAIN producer : producer[w].pc \in {"journaled", "read", "note", "put"}}
    IN  {producer[w].item : w \in waiting}

Gone(t) == IF tab[t].fresh THEN 1..produced \ (Range(buffer) \cup ToBePut) ELSE {}

\* Stop noted an id that was not the latest any more.
SetBack ==
    \E e \in journal : /\ lastEventId < e
                      /\ ~(/\ producer["worker"].pc \in {"journaled", "note"}
                         /\ producer["worker"].item = e)

\* subscribe_with_snapshot.
Subscribe(t) ==
    /\ tab[t].pc = "asking"
    /\ subscribers' = subscribers \cup {t}
    /\ queue' = [queue EXCEPT ![t] = buffer]
    /\ tab' = [tab EXCEPT ![t].pc = "replay", ![t].evicted = evicted, ![t].last = lastEventId,
                          ![t].first = IF buffer = <<>> THEN 0 ELSE Seq0(Head(buffer))]
    /\ dropped' = [dropped EXCEPT ![t] = Gone(t)]
    /\ misled' = IF SetBack THEN misled \cup {t} ELSE misled
    /\ UNCHANGED <<run, attached, stopped, lastEventId, buffer, evicted, ghosts,
                   producer, shown, missed, due>>

\* A cursor ahead of the snapshot starts over.
After(t) == IF tab[t].cursor > tab[t].last THEN 0 ELSE tab[t].cursor

\* The journal bridges the gap up to the first item that was kept.
ReplayMax(t) == IF tab[t].first = 0 \/ tab[t].last < tab[t].first - 1
                THEN tab[t].last ELSE tab[t].first - 1

\* _run_journal_covers_offline_gap.
Covered(t) ==
    /\ tab[t].last # 0
    /\ \A e \in After(t) + 1 .. ReplayMax(t) : e \in journal

\* The handler is about to return: it unsubscribes at the end.
Leave(t) ==
    /\ subscribers' = subscribers \ {t}
    /\ ghosts' = IF t \in subscribers THEN ghosts + 1 ELSE ghosts
    /\ queue' = [queue EXCEPT ![t] = <<>>]
    /\ producer' = [w \in DOMAIN producer |->
          [producer[w] EXCEPT !.todo = @ \ {t}, !.at = @ \ {t},
                              !.pc = IF t \in producer[w].at THEN "broadcast" ELSE @]]

DedupBound_Replayed(t) == IF journal = {} THEN 0 ELSE ReplayMax(t)

\* The larger of the replay's end and the cursor, if there is a journal at all.
DedupBound(t) ==
    LET replayed == IF journal = {} THEN 0 ELSE ReplayMax(t)
    IN  IF After(t) > replayed THEN After(t) ELSE replayed

\* _sse_replay_run_journal_gap_checked.
Replay(t) ==
    /\ tab[t].pc = "replay"
    /\ \/ /\ tab[t].fresh
          /\ tab' = [tab EXCEPT ![t].pc = "drain", ![t].fresh = FALSE]
          /\ UNCHANGED <<subscribers, ghosts, queue, producer>>
       \/ /\ ~tab[t].fresh
          /\ tab[t].evicted = 0 \/ Covered(t)
          /\ tab' = [tab EXCEPT ![t].pc = "drain", ![t].bound = DedupBound(t),
                        ![t].replay = {e \in journal : After(t) < e /\ e <= ReplayMax(t)}]
          /\ UNCHANGED <<subscribers, ghosts, queue, producer>>
       \/ /\ ~tab[t].fresh
          /\ tab[t].evicted > 0 /\ ~Covered(t)
          /\ tab' = [tab EXCEPT ![t] = [Away(tab[t].cursor) EXCEPT !.pc = "restoring"]]
          /\ Leave(t)
    /\ UNCHANGED <<run, attached, stopped, lastEventId, buffer, evicted, views, due>>

\* The client shows an event and moves its cursor; a terminal one ends its visit.
Shows(t, e) ==
    /\ shown' = [shown EXCEPT ![t] = IF e \in journal THEN Append(@, e) ELSE @]
    /\ missed' = [missed EXCEPT ![t] = @ \cup ({f \in dropped[t] : f < e} \ Range(shown[t]))]

\* The id a frame goes out with: the item of Stop takes the latest one.
SentAs(e) == IF e = StopEvent THEN latest ELSE Seq0(e)

Cursor(t, e) == IF SentAs(e) > tab[t].cursor THEN SentAs(e) ELSE tab[t].cursor

\* The events of the journal go out in their order.
SendReplayed(t) ==
    \E e \in tab[t].replay :
        /\ tab[t].pc \in {"drain", "reading"}
        /\ \A f \in tab[t].replay : e <= f
        /\ Shows(t, e)
        /\ \/ /\ ~Terminal(e)
              /\ tab' = [tab EXCEPT ![t].replay = @ \ {e}, ![t].cursor = Cursor(t, e)]
              /\ UNCHANGED <<subscribers, ghosts, queue, producer>>
           \/ /\ Terminal(e)
              /\ tab' = [tab EXCEPT ![t] = [Away(Cursor(t, e)) EXCEPT !.pc = "over"]]
              /\ Leave(t)
        /\ UNCHANGED <<run, attached, stopped, lastEventId, buffer, evicted, dropped, misled, due>>

\* Replayed, or already there.
AlreadySent(t, e) == SentAs(e) # 0 /\ SentAs(e) <= tab[t].bound

\* The drain loop.
Send(t) ==
    LET e == Head(queue[t])
    IN  /\ tab[t].pc = "drain" /\ tab[t].replay = {}
        /\ queue[t] # <<>>
        /\ \/ /\ AlreadySent(t, e)
              /\ queue' = [queue EXCEPT ![t] = Tail(@)]
              /\ UNCHANGED <<tab, shown, missed, subscribers, ghosts, producer>>
           \/ /\ ~AlreadySent(t, e) /\ ~Terminal(e)
              /\ queue' = [queue EXCEPT ![t] = Tail(@)]
              /\ Shows(t, e)
              /\ tab' = [tab EXCEPT ![t].cursor = Cursor(t, e)]
              /\ UNCHANGED <<subscribers, ghosts, producer>>
           \/ /\ ~AlreadySent(t, e) /\ Terminal(e)
              /\ Shows(t, e)
              /\ tab' = [tab EXCEPT ![t] = [Away(Cursor(t, e)) EXCEPT !.pc = "over"]]
              /\ Leave(t)
        /\ UNCHANGED <<run, attached, stopped, lastEventId, buffer, evicted, dropped, misled, due>>

\* A stream that is gone: the journal from the cursor on, or "stream not found".
ReadJournal(t) ==
    LET from == IF \A e \in journal : e < tab[t].cursor THEN 0 ELSE tab[t].cursor
    IN  /\ tab[t].pc = "ended"
        /\ tab' = [tab EXCEPT ![t] = [Away(tab[t].cursor) EXCEPT
                      !.pc = IF journal = {} THEN "restoring" ELSE "reading",
                      !.replay = {e \in journal : e > from}]]
        /\ dropped' = [dropped EXCEPT ![t] = {}]
        /\ UNCHANGED <<run, attached, stopped, channel, queue, producer, shown, missed, misled,
                       due>>

\* stale_interrupted_event: the journal ends without a terminal event.
Interrupted(t) ==
    /\ tab[t].pc = "reading" /\ tab[t].replay = {}
    /\ tab' = [tab EXCEPT ![t] = [Away(tab[t].cursor) EXCEPT !.pc = "restoring"]]
    /\ UNCHANGED <<run, attached, stopped, channel, queue, producer, views, due>>

\* The connection breaks: the handler notices when it writes, and unsubscribes.
Break(t) ==
    /\ tab[t].pc \in {"asking", "ended", "replay", "drain", "reading"}
    /\ tab' = [tab EXCEPT ![t] = Away(tab[t].cursor)]
    /\ Leave(t)
    /\ UNCHANGED <<run, attached, stopped, lastEventId, buffer, evicted, views, due>>

Unsubscribe ==
    /\ ghosts > 0
    /\ ghosts' = ghosts - 1
    /\ UNCHANGED <<run, attached, stopped, lastEventId, buffer, evicted, subscribers,
                   queue, producer, tab, views, due>>

\* The server dies: the journal is what is left of the run.
Die ==
    /\ due.deaths > 0
    /\ due' = [due EXCEPT !.deaths = @ - 1]
    /\ attached' = FALSE
    /\ subscribers' = {} /\ ghosts' = 0
    /\ queue' = [t \in Tabs |-> <<>>]
    /\ producer' = [w \in DOMAIN producer |-> [NoProducer EXCEPT !.pc = "dead"]]
    /\ tab' = [t \in Tabs |-> IF tab[t].pc \in {"over", "restoring"} THEN tab[t]
                              ELSE Away(tab[t].cursor)]
    /\ UNCHANGED <<run, stopped, lastEventId, buffer, evicted, views>>
-----------------------------------------------------------------------------
Put(w) ==
    \/ ReadLatest(w) \/ NoteLastEventId(w) \/ PutUnderLock(w) \/ PutDone(w)
    \/ \E t \in Tabs : PutInQueue(w, t) \/ DropOldest(w, t)

Worker == JournalEvent \/ SetLatest \/ Put("worker") \/ Detach

Serve(t) ==
    \/ Subscribe(t) \/ Replay(t) \/ SendReplayed(t) \/ Send(t) \/ ReadJournal(t) \/ Interrupted(t)

Next ==
    \/ Worker
    \/ Stop \/ Put("stop")
    \/ \E t \in Tabs : Ask(t) \/ Serve(t) \/ Break(t)
    \/ Unsubscribe
    \/ Die

Spec == Init /\ [][Next]_vars
=============================================================================
