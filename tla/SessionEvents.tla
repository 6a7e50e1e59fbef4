---------------------------- MODULE SessionEvents ----------------------------
(***************************************************************************)
(* api/session_events.py with the SSE handler of /api/sessions/events      *)
(* (api/routes.py) and the client that listens to it (static/sessions.js). *)
(*                                                                         *)
(* Every tab that listens has a queue of one place.  A publisher takes its *)
(* snapshot of the queues under the lock and fills them outside of it: a   *)
(* full queue costs it three steps, in which other publishers and the tab  *)
(* may use the queue.  It calls the listeners of the change last.          *)
(***************************************************************************)
EXTENDS SidebarChanges

VARIABLES
    publisher,      \* the local variables of the thread that makes a change
    subscribers,    \* _SESSION_EVENTS_SUBSCRIBERS, by the tab of the queue
    slot,           \* a tab's queue: at most one event
    stream,         \* a tab's event stream
    catchUp,        \* tabs whose stream was closed: _sessionEventsNeedsRefreshOnOpen
    wanting,        \* tabs that have scheduled a refresh of their list
    owed,           \* history: changes sent to a tab since it last acted on an event
    dropped,        \* history: tabs that lost a merged event to another publisher's
    opens           \* bound: how often each tab may still open its stream

eventVars == <<publisher, subscribers, slot, stream, catchUp, wanting, owed, dropped, opens>>

NoEvent == [profile |-> "empty", session |-> "empty"]

NoTab == "no tab"

ASSUME NothingAssumption == NoTab \notin Tabs /\ NoEvent \notin Event

Notifier == [pc : {"idle", "saved", "notifying", "full", "merging", "cleared"},
             todo : SUBSET Tabs, at : Tabs \cup {NoTab}, pending : Event \cup {NoEvent}]

EventsInit ==
    /\ publisher = [c \in Published |->
                      [pc |-> "idle", todo |-> {}, at |-> NoTab, pending |-> NoEvent]]
    /\ subscribers = {}
    /\ slot = [t \in Tabs |-> NoEvent]
    /\ stream = [t \in Tabs |-> "closed"]
    /\ catchUp = {}
    /\ wanting = {}
    /\ owed = [t \in Tabs |-> {}]
    /\ dropped = {}
-----------------------------------------------------------------------------
(***************************************************************************)
(* publish_session_list_changed.                                           *)
(***************************************************************************)
\* Under the lock: the version, the payload, the snapshot of the queues.
Publish(c) ==
    /\ publisher[c].pc = "saved"
    /\ publisher' = [publisher EXCEPT ![c].pc = "notifying", ![c].todo = subscribers]
    /\ owed' = [t \in Tabs |->
                  IF t \in subscribers /\ ActsOn(t, Payload(c)) THEN owed[t] \cup {c} ELSE owed[t]]
    /\ UNCHANGED <<subscribers, slot, stream, catchUp, wanting, dropped, opens>>

\* put_nowait(payload) on the queue of a tab, which may be full.
PutEvent(c, t) ==
    /\ publisher[c].pc = "notifying"
    /\ t \in publisher[c].todo
    /\ \/ /\ slot[t] = NoEvent
          /\ slot' = [slot EXCEPT ![t] = Payload(c)]
          /\ publisher' = [publisher EXCEPT ![c].todo = @ \ {t}]
       \/ /\ slot[t] # NoEvent
          /\ publisher' = [publisher EXCEPT ![c].pc = "full", ![c].at = t, ![c].todo = @ \ {t}]
          /\ UNCHANGED slot
    /\ UNCHANGED <<subscribers, stream, catchUp, wanting, owed, dropped, opens>>

\* get_nowait on the full queue: the tab may have emptied it by now.
TakePending(c) ==
    /\ publisher[c].pc = "full"
    /\ publisher' = [publisher EXCEPT ![c].pc = "merging", ![c].pending = slot[publisher[c].at]]
    /\ slot' = [slot EXCEPT ![publisher[c].at] = NoEvent]
    /\ UNCHANGED <<subscribers, stream, catchUp, wanting, owed, dropped, opens>>

MergedEvent_KeepPending(c) ==
    IF publisher[c].pending = NoEvent THEN Payload(c) ELSE publisher[c].pending

MergedEvent(c) ==
    IF publisher[c].pending = NoEvent
    THEN Payload(c)
    ELSE CoalescedPayload(publisher[c].pending, Payload(c))

\* put_nowait of the merged event; when the queue is full again, it is dropped.
PutMerged(c) ==
    LET t == publisher[c].at
    IN  /\ publisher[c].pc = "merging"
        /\ publisher' = [publisher EXCEPT ![c].pc = "notifying", ![c].at = NoTab,
                                          ![c].pending = NoEvent]
        /\ \/ /\ slot[t] = NoEvent
              /\ slot' = [slot EXCEPT ![t] = MergedEvent(c)]
              /\ UNCHANGED dropped
           \/ /\ slot[t] # NoEvent
              /\ dropped' = IF ActsOn(t, MergedEvent(c)) /\ ~ActsOn(t, slot[t])
                            THEN dropped \cup {t} ELSE dropped
              /\ UNCHANGED slot
        /\ UNCHANGED <<subscribers, stream, catchUp, wanting, owed, opens>>

\* The listeners: _on_session_list_changed clears the list cache.
ListenersCalled(c) ==
    /\ publisher[c].pc = "notifying"
    /\ publisher[c].todo = {}
    /\ publisher' = [publisher EXCEPT ![c].pc = "cleared"]
    /\ UNCHANGED <<subscribers, slot, stream, catchUp, wanting, owed, dropped, opens>>
-----------------------------------------------------------------------------
(***************************************************************************)
(* The event stream of a tab.  The handler sends its headers, on which the *)
(* client's onopen fires, before it subscribes.                            *)
(***************************************************************************)
OpenStream(t) ==
    /\ stream[t] = "closed"
    /\ opens[t] > 0
    /\ opens' = [opens EXCEPT ![t] = @ - 1]
    /\ stream' = [stream EXCEPT ![t] = "opening"]
    /\ wanting' = IF t \in catchUp THEN wanting \cup {t} ELSE wanting
    /\ catchUp' = catchUp \ {t}
    /\ UNCHANGED <<publisher, subscribers, slot, owed, dropped>>

\* subscribe_session_events.
Subscribe(t) ==
    /\ stream[t] = "opening"
    /\ stream' = [stream EXCEPT ![t] = "open"]
    /\ subscribers' = subscribers \cup {t}
    /\ UNCHANGED <<publisher, slot, catchUp, wanting, owed, dropped, opens>>

\* The handler takes the event and filters it, the client schedules a refresh.
TakeEvent(t) ==
    /\ stream[t] = "open"
    /\ slot[t] # NoEvent
    /\ slot' = [slot EXCEPT ![t] = NoEvent]
    /\ \/ /\ ActsOn(t, slot[t])
          /\ wanting' = wanting \cup {t}
          /\ owed' = [owed EXCEPT ![t] = {}]
          /\ dropped' = dropped \ {t}
       \/ /\ ~ActsOn(t, slot[t])
          /\ UNCHANGED <<wanting, owed, dropped>>
    /\ UNCHANGED <<publisher, subscribers, stream, catchUp, opens>>

\* The tab is hidden or loses its connection, and unsubscribe_session_events
\* drops its queue: what a publisher still puts there reaches nobody, and the
\* tab refreshes when it opens its stream again.
CloseStream(t) ==
    /\ stream[t] # "closed"
    /\ stream' = [stream EXCEPT ![t] = "closed"]
    /\ subscribers' = subscribers \ {t}
    /\ slot' = [slot EXCEPT ![t] = NoEvent]
    /\ publisher' = [c \in Published |->
          [publisher[c] EXCEPT
             !.todo = @ \ {t},
             !.at = IF @ = t THEN NoTab ELSE @,
             !.pending = IF publisher[c].at = t THEN NoEvent ELSE @,
             !.pc = IF publisher[c].at = t THEN "notifying" ELSE @]]
    /\ catchUp' = catchUp \cup {t}
    /\ owed' = [owed EXCEPT ![t] = {}]
    /\ dropped' = dropped \ {t}
    /\ UNCHANGED <<wanting, opens>>
=============================================================================
