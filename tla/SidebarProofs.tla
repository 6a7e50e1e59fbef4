---------------------------- MODULE SidebarProofs ----------------------------
(***************************************************************************)
(* The safety properties of the sidebar, for any tabs, profiles and        *)
(* changes.  The events and the cache share no variable, so each has an    *)
(* inductive invariant of its own.                                         *)
(***************************************************************************)
EXTENDS SidebarProperties, FiniteSetTheorems, TLAPS

(***************************************************************************)
(* The events.  NoRefreshIsLost is inductive, but for what it needs to     *)
(* know of a publisher: where it is when it uses a queue, and that it has  *)
(* none to fill before it takes its snapshot.                              *)
(***************************************************************************)
PublishersKnowTheirQueue ==
    \A c \in Published :
        /\ publisher[c].pc \in {"full", "merging"} => publisher[c].at \in Tabs
        /\ publisher[c].pc \notin {"full", "merging"} => publisher[c].at = NoTab
        /\ publisher[c].pc = "saved" => publisher[c].todo = {}
        /\ publisher[c].pc = "idle" => publisher[c].todo = {}

EventsInv == EventsTypeOK /\ PublishersKnowTheirQueue /\ NoRefreshIsLost

\* The payload of a change is an event.
LEMMA PayloadIsEvent == ASSUME NEW c \in Published PROVE Payload(c) \in Event
<1>1. SessionOf[c] \in Sessions
  BY DEF Sessions
<1>2. ProfileOf[c] \in Profiles \cup {Unscoped}
  BY SidebarAssumption
<1> QED
  BY <1>1, <1>2 DEF Payload, Event

\* A merged event is an event, and every tab either of the two would have made
\* refresh is one the merged event makes refresh.
LEMMA CoalescedReachesBoth ==
    ASSUME NEW e \in Event, NEW f \in Event
    PROVE  /\ CoalescedPayload(e, f) \in Event
           /\ \A t \in Tabs : ActsOn(t, e) \/ ActsOn(t, f) => ActsOn(t, CoalescedPayload(e, f))
<1>1. Unscoped \in Sessions
  BY DEF Sessions
<1>2. CoalescedPayload(e, f) \in Event
  BY <1>1 DEF CoalescedPayload, Event
<1>3. ASSUME NEW t \in Tabs, ActsOn(t, e) \/ ActsOn(t, f)
      PROVE  ActsOn(t, CoalescedPayload(e, f))
  <2>1. CASE e.profile = f.profile
    BY <1>3, <2>1 DEF ActsOn, MayReceive, CoalescedPayload, Event
  <2>2. CASE e.profile # f.profile
    BY <2>2 DEF ActsOn, MayReceive, CoalescedPayload, Event
  <2> QED
    BY <2>1, <2>2
<1> QED
  BY <1>2, <1>3

\* What a publisher merges is an event.
LEMMA MergedIsEvent ==
    ASSUME NEW c \in Published, publisher[c].pending \in Event \cup {NoEvent}
    PROVE  MergedEvent(c) \in Event
<1>1. Payload(c) \in Event
  BY PayloadIsEvent
<1>2. CASE publisher[c].pending = NoEvent
  BY <1>1, <1>2 DEF MergedEvent
<1>3. CASE publisher[c].pending # NoEvent
  <2>1. publisher[c].pending \in Event
    BY <1>3
  <2> QED
    BY <1>1, <1>3, <2>1, CoalescedReachesBoth DEF MergedEvent
<1> QED
  BY <1>2, <1>3

\* Every step keeps the types of the events and where publishers are.
LEMMA EventsTypeStep ==
    EventsTypeOK /\ PublishersKnowTheirQueue /\ [Next]_vars
    => EventsTypeOK' /\ PublishersKnowTheirQueue'
<1> DEFINE Goal == EventsTypeOK' /\ PublishersKnowTheirQueue'
<1> SUFFICES ASSUME EventsTypeOK, PublishersKnowTheirQueue, [Next]_vars PROVE Goal
  OBVIOUS
<1>0. publisher \in [Published -> Notifier] /\ subscribers \subseteq Tabs
      /\ slot \in [Tabs -> Event \cup {NoEvent}]
  BY DEF EventsTypeOK
<1> USE DEF EventsTypeOK, PublishersKnowTheirQueue
<1>1. ASSUME NEW c \in Published, Save(c) PROVE Goal
  <2>1. publisher' \in [Published -> Notifier]
    <3> HIDE DEF EventsTypeOK, PublishersKnowTheirQueue, Goal
    <3>1. [publisher[c] EXCEPT !.pc = "saved"] \in Notifier
      BY <1>0 DEF Notifier
    <3> QED
      BY <1>0, <1>1, <3>1 DEF Save
  <2> QED
    BY <1>1, <2>1 DEF Save
<1>2. ASSUME NEW c \in Published, Publish(c) PROVE Goal
  <2>1. publisher' \in [Published -> Notifier]
    <3> HIDE DEF EventsTypeOK, PublishersKnowTheirQueue, Goal
    <3>1. publisher'[c] \in Notifier
      BY <1>0, <1>2 DEF Publish, Notifier
    <3> QED
      BY <1>0, <1>2, <3>1 DEF Publish
  <2> QED
    BY <1>2, <2>1 DEF Publish
<1>3. ASSUME NEW c \in Published, NEW t \in Tabs, PutEvent(c, t) PROVE Goal
  <2>1. publisher' \in [Published -> Notifier]
    <3> HIDE DEF EventsTypeOK, PublishersKnowTheirQueue, Goal
    <3>1. publisher'[c] \in Notifier
      BY <1>0, <1>3 DEF PutEvent, Notifier
    <3> QED
      BY <1>0, <1>3, <3>1 DEF PutEvent
  <2>2. slot' \in [Tabs -> Event \cup {NoEvent}]
    BY <1>3, PayloadIsEvent DEF PutEvent
  <2>3. PublishersKnowTheirQueue'
    BY <1>0, <1>3 DEF PutEvent, Notifier
  <2> QED
    BY <1>3, <2>1, <2>2, <2>3 DEF PutEvent
<1>4. ASSUME NEW c \in Published, TakePending(c) PROVE Goal
  <2>1. publisher[c].at \in Tabs
    BY <1>4 DEF TakePending
  <2>2. publisher' \in [Published -> Notifier]
    <3> HIDE DEF EventsTypeOK, PublishersKnowTheirQueue, Goal
    <3>1. slot[publisher[c].at] \in Event \cup {NoEvent}
      BY <1>0, <2>1
    <3>2. publisher'[c] = [publisher[c] EXCEPT !.pc = "merging",
                                               !.pending = slot[publisher[c].at]]
      BY <1>0, <1>4 DEF TakePending
    <3>3. publisher'[c] \in Notifier
      BY <1>0, <3>1, <3>2 DEF Notifier
    <3> QED
      BY <1>0, <1>4, <3>3 DEF TakePending
  <2> QED
    BY <1>4, <2>1, <2>2 DEF TakePending
<1>5. ASSUME NEW c \in Published, PutMerged(c) PROVE Goal
  <2>1. publisher[c].at \in Tabs
    BY <1>0, <1>5 DEF PutMerged, Notifier
  <2>0. publisher[c].pending \in Event \cup {NoEvent}
    BY <1>0 DEF Notifier
  <2> HIDE DEF EventsTypeOK, PublishersKnowTheirQueue, Goal
  <2>2. MergedEvent(c) \in Event
    BY <2>0, MergedIsEvent
  <2>3. publisher' \in [Published -> Notifier]
    <3>1. publisher'[c] = [publisher[c] EXCEPT !.pc = "notifying", !.at = NoTab,
                                               !.pending = NoEvent]
      BY <1>0, <1>5 DEF PutMerged
    <3>2. publisher'[c] \in Notifier
      BY <1>0, <3>1 DEF Notifier
    <3> QED
      BY <1>0, <1>5, <3>2 DEF PutMerged
  <2> USE DEF EventsTypeOK, PublishersKnowTheirQueue, Goal
  <2>4. slot' \in [Tabs -> Event \cup {NoEvent}] /\ dropped' \subseteq Tabs
    BY <1>5, <2>1, <2>2 DEF PutMerged
  <2> QED
    BY <1>5, <2>3, <2>4 DEF PutMerged
<1>6. ASSUME NEW c \in Published, CallListeners(c) PROVE Goal
  <2>1. publisher' \in [Published -> Notifier]
    BY <1>6 DEF CallListeners, ListenersCalled, Notifier
  <2> QED
    BY <1>6, <2>1 DEF CallListeners, ListenersCalled
<1>7. ASSUME NEW t \in Tabs, OpenStream(t) PROVE Goal
  BY <1>7 DEF OpenStream
<1>8. ASSUME NEW t \in Tabs, Subscribe(t) PROVE Goal
  BY <1>8 DEF Subscribe
<1>9. ASSUME NEW t \in Tabs, TakeEvent(t) PROVE Goal
  BY <1>9 DEF TakeEvent
<1>10. ASSUME NEW t \in Tabs, CloseStream(t) PROVE Goal
  <2>1. ASSUME NEW c \in Published
        PROVE  /\ publisher'[c] \in Notifier
               /\ publisher'[c].todo \subseteq publisher[c].todo
               /\ publisher[c].at = t
                  => publisher'[c].at = NoTab /\ publisher'[c].pc = "notifying"
               /\ publisher[c].at # t
                  => publisher'[c].at = publisher[c].at /\ publisher'[c].pc = publisher[c].pc
    <3>1. publisher[c] \in Notifier
      OBVIOUS
    <3>2. publisher'[c] = [publisher[c] EXCEPT
             !.todo = publisher[c].todo \ {t},
             !.at = IF publisher[c].at = t THEN NoTab ELSE publisher[c].at,
             !.pending = IF publisher[c].at = t THEN NoEvent ELSE publisher[c].pending,
             !.pc = IF publisher[c].at = t THEN "notifying" ELSE publisher[c].pc]
      BY <1>10 DEF CloseStream
    <3>3. publisher'[c] = [pc |-> IF publisher[c].at = t THEN "notifying" ELSE publisher[c].pc,
                           todo |-> publisher[c].todo \ {t},
                           at |-> IF publisher[c].at = t THEN NoTab ELSE publisher[c].at,
                           pending |-> IF publisher[c].at = t THEN NoEvent
                                                              ELSE publisher[c].pending]
      BY <3>1, <3>2 DEF Notifier
    <3> HIDE DEF EventsTypeOK, PublishersKnowTheirQueue, Goal
    <3> QED
      BY <3>1, <3>3 DEF Notifier
  <2>2. publisher' \in [Published -> Notifier]
    BY <1>10, <2>1 DEF CloseStream
  <2>3. PublishersKnowTheirQueue'
    BY <2>1, NothingAssumption DEF Notifier
  <2> QED
    BY <1>10, <2>2, <2>3 DEF CloseStream
<1>11. ASSUME NEW t \in Tabs, Refresh(t) PROVE Goal
  BY <1>11 DEF Refresh
<1>12. CASE UNCHANGED eventVars
  BY <1>12 DEF eventVars
<1> HIDE DEF Goal, EventsTypeOK, PublishersKnowTheirQueue
<1> QED
  BY <1>1, <1>2, <1>3, <1>4, <1>5, <1>6, <1>7, <1>8, <1>9, <1>10, <1>11, <1>12
  DEF Next, Publisher, Listener, ServeRequest, RunBuild, World, vars, Goal

\* What NoRefreshIsLost says of one tab.
Kept(t) ==
    \/ slot[t] # NoEvent /\ ActsOn(t, slot[t])
    \/ \E c \in Published : StillToTell(c, t)
    \/ t \in dropped

\* A publisher that a step leaves alone still has to tell a tab what it had to.
LEMMA OthersStillTell ==
    ASSUME NEW d \in Published, NEW t \in Tabs,
           publisher'[d] = publisher[d], StillToTell(d, t)
    PROVE  StillToTell(d, t)'
BY DEF StillToTell, MergedEvent

\* Every step keeps what a tab that was sent a change is told of it.
LEMMA NoRefreshIsLostStep ==
    EventsInv /\ [Next]_vars => NoRefreshIsLost'
<1> SUFFICES ASSUME EventsInv, [Next]_vars, NEW t \in Tabs, owed'[t] # {} PROVE Kept(t)'
  BY DEF NoRefreshIsLost, Kept
<1>0. /\ publisher \in [Published -> Notifier] /\ subscribers \subseteq Tabs
      /\ slot \in [Tabs -> Event \cup {NoEvent}]
      /\ owed \in [Tabs -> SUBSET Published] /\ dropped \subseteq Tabs
  BY DEF EventsInv, EventsTypeOK
<1>a. owed[t] # {} => Kept(t)
  BY DEF EventsInv, NoRefreshIsLost, Kept
<1>b. \A c \in Published :
        /\ publisher[c].pc \in {"full", "merging"} => publisher[c].at \in Tabs
        /\ publisher[c].pc \in {"saved", "idle"} => publisher[c].todo = {}
  BY DEF EventsInv, PublishersKnowTheirQueue
<1>1. ASSUME NEW c \in Published, Save(c) PROVE Kept(t)'
  <2>1. Kept(t) /\ UNCHANGED <<slot, dropped>>
    BY <1>1, <1>a DEF Save
  <2>2. ASSUME NEW d \in Published, StillToTell(d, t) PROVE StillToTell(d, t)'
    BY <1>0, <1>1, <1>b, <2>2, OthersStillTell DEF Save, StillToTell
  <2> QED
    BY <2>1, <2>2 DEF Kept
<1>2. ASSUME NEW c \in Published, Publish(c) PROVE Kept(t)'
  <2>1. UNCHANGED <<slot, dropped>>
    BY <1>2 DEF Publish
  <2>2. ASSUME NEW d \in Published, StillToTell(d, t) PROVE StillToTell(d, t)'
    BY <1>0, <1>2, <1>b, <2>2, OthersStillTell DEF Publish, StillToTell
  <2>3. CASE owed[t] = {}
    <3>1. t \in subscribers /\ ActsOn(t, Payload(c))
      BY <1>0, <1>2, <2>3 DEF Publish
    <3>2. t \in publisher'[c].todo
      BY <1>0, <1>2, <3>1 DEF Publish, Notifier
    <3> QED
      BY <3>1, <3>2 DEF Kept, StillToTell
  <2> QED
    BY <1>a, <2>1, <2>2, <2>3 DEF Kept
<1>3. ASSUME NEW c \in Published, NEW u \in Tabs, PutEvent(c, u) PROVE Kept(t)'
  <2>1. Kept(t) /\ UNCHANGED dropped
    BY <1>3, <1>a DEF PutEvent
  <2>2. ASSUME NEW d \in Published, d # c, StillToTell(d, t) PROVE StillToTell(d, t)'
    BY <1>0, <1>3, <2>2, OthersStillTell DEF PutEvent
  <2>3. ASSUME StillToTell(c, t) PROVE Kept(t)'
    <3>1. t \in publisher[c].todo /\ ActsOn(t, Payload(c))
      BY <1>3, <2>3 DEF PutEvent, StillToTell
    <3>2. CASE u # t
      <4>1. t \in publisher'[c].todo
        BY <1>0, <1>3, <3>1, <3>2 DEF PutEvent, Notifier
      <4> QED
        BY <3>1, <4>1 DEF Kept, StillToTell
    <3>3. CASE u = t /\ slot[t] = NoEvent
      <4>1. slot'[t] = Payload(c)
        BY <1>0, <1>3, <3>3 DEF PutEvent
      <4> QED
        BY <3>1, <4>1, PayloadIsEvent, NothingAssumption DEF Kept
    <3>4. CASE u = t /\ slot[t] # NoEvent
      <4>1. publisher'[c].at = t /\ publisher'[c].pc = "full"
        BY <1>0, <1>3, <3>4 DEF PutEvent, Notifier
      <4> QED
        BY <3>1, <4>1 DEF Kept, StillToTell
    <3> QED
      BY <3>2, <3>3, <3>4
  <2>4. ASSUME slot[t] # NoEvent, ActsOn(t, slot[t]) PROVE Kept(t)'
    BY <1>0, <1>3, <2>4 DEF PutEvent, Kept
  <2> QED
    BY <2>1, <2>2, <2>3, <2>4 DEF Kept
<1>4. ASSUME NEW c \in Published, TakePending(c) PROVE Kept(t)'
  <2>1. Kept(t) /\ UNCHANGED dropped
    BY <1>4, <1>a DEF TakePending
  <2>2. ASSUME NEW d \in Published, d # c, StillToTell(d, t) PROVE StillToTell(d, t)'
    BY <1>0, <1>4, <2>2, OthersStillTell DEF TakePending
  <2>3. /\ publisher[c].at \in Tabs /\ publisher[c].pc = "full"
        /\ publisher'[c].pc = "merging" /\ publisher'[c].at = publisher[c].at
        /\ publisher'[c].todo = publisher[c].todo
        /\ publisher'[c].pending = slot[publisher[c].at]
    BY <1>0, <1>4, <1>b DEF TakePending, Notifier
  <2> DEFINE Queued == publisher[c].at = t /\ slot[t] # NoEvent /\ ActsOn(t, slot[t])
  <2>4. StillToTell(c, t) \/ Queued => StillToTell(c, t)'
    <3> SUFFICES ASSUME StillToTell(c, t) \/ Queued PROVE StillToTell(c, t)'
      OBVIOUS
    <3>1. CASE t \in publisher[c].todo /\ ActsOn(t, Payload(c))
      BY <2>3, <3>1 DEF StillToTell
    <3>2. CASE /\ publisher[c].at = t
               /\ ActsOn(t, Payload(c)) \/ (ActsOn(t, slot[t]) /\ slot[t] # NoEvent)
      <4>1. MergedEvent(c)' = IF slot[t] = NoEvent THEN Payload(c)
                                                   ELSE CoalescedPayload(slot[t], Payload(c))
        BY <2>3, <3>2 DEF MergedEvent
      <4>2. ActsOn(t, MergedEvent(c)')
        <5>1. CASE slot[t] = NoEvent
          BY <3>2, <4>1, <5>1
        <5>2. CASE slot[t] # NoEvent
          <6>1. slot[t] \in Event /\ Payload(c) \in Event
            BY <1>0, <5>2, PayloadIsEvent
          <6> QED
            BY <3>2, <4>1, <5>2, <6>1, CoalescedReachesBoth
        <5> QED
          BY <5>1, <5>2
      <4> QED
        BY <2>3, <3>2, <4>2 DEF StillToTell
    <3> QED
      BY <2>3, <3>1, <3>2 DEF StillToTell
  <2>5. ASSUME slot[t] # NoEvent, ActsOn(t, slot[t]), publisher[c].at # t PROVE Kept(t)'
    BY <1>0, <1>4, <2>5 DEF TakePending, Kept
  <2>6. StillToTell(c, t)' => Kept(t)'
    BY DEF Kept
  <2>7. CASE slot[t] # NoEvent /\ ActsOn(t, slot[t])
    BY <2>4, <2>5, <2>6, <2>7
  <2> QED
    BY <2>1, <2>2, <2>4, <2>6, <2>7 DEF Kept
<1>5. ASSUME NEW c \in Published, PutMerged(c) PROVE Kept(t)'
  <2>1. Kept(t)
    BY <1>5, <1>a DEF PutMerged
  <2>2. ASSUME NEW d \in Published, d # c, StillToTell(d, t) PROVE StillToTell(d, t)'
    BY <1>0, <1>5, <2>2, OthersStillTell DEF PutMerged
  <2>3. /\ publisher[c].at \in Tabs /\ publisher[c].pc = "merging"
        /\ publisher'[c].todo = publisher[c].todo
    BY <1>0, <1>5, <1>b DEF PutMerged, Notifier
  <2>4. dropped \subseteq dropped'
    BY <1>5 DEF PutMerged
  <2>5. slot[t] # NoEvent => slot'[t] = slot[t]
    BY <1>0, <1>5, <2>3 DEF PutMerged
  <2>6. CASE t \in publisher[c].todo /\ ActsOn(t, Payload(c))
    BY <2>3, <2>6 DEF Kept, StillToTell
  <2>7. CASE publisher[c].at = t /\ ActsOn(t, MergedEvent(c))
    <3>1. CASE slot[t] = NoEvent
      <4>1. slot'[t] = MergedEvent(c)
        BY <1>0, <1>5, <2>7, <3>1 DEF PutMerged
      <4>2. publisher[c].pending \in Event \cup {NoEvent}
        BY <1>0 DEF Notifier
      <4>3. MergedEvent(c) \in Event
        BY <4>2, MergedIsEvent
      <4> QED
        BY <2>7, <4>1, <4>3, NothingAssumption DEF Kept
    <3>2. CASE slot[t] # NoEvent /\ ~ActsOn(t, slot[t])
      <4>1. t \in dropped'
        BY <1>5, <2>7, <3>2 DEF PutMerged
      <4> QED
        BY <4>1 DEF Kept
    <3>3. CASE slot[t] # NoEvent /\ ActsOn(t, slot[t])
      BY <2>5, <3>3 DEF Kept
    <3> QED
      BY <3>1, <3>2, <3>3
  <2>8. CASE StillToTell(c, t)
    BY <2>3, <2>6, <2>7, <2>8 DEF StillToTell
  <2> QED
    BY <2>1, <2>2, <2>4, <2>5, <2>8 DEF Kept
<1>6. ASSUME NEW c \in Published, CallListeners(c) PROVE Kept(t)'
  <2>1. Kept(t) /\ UNCHANGED <<slot, dropped>>
    BY <1>6, <1>a DEF CallListeners, ListenersCalled
  <2>2. ASSUME NEW d \in Published, StillToTell(d, t) PROVE StillToTell(d, t)'
    BY <1>0, <1>6, <2>2, OthersStillTell DEF CallListeners, ListenersCalled, StillToTell
  <2> QED
    BY <2>1, <2>2 DEF Kept
<1>7. ASSUME NEW u \in Tabs, OpenStream(u) \/ Subscribe(u) \/ Refresh(u) PROVE Kept(t)'
  BY <1>7, <1>a, OthersStillTell DEF OpenStream, Subscribe, Refresh, Kept
<1>8. ASSUME NEW u \in Tabs, TakeEvent(u) PROVE Kept(t)'
  <2>1. UNCHANGED publisher /\ Kept(t)
    BY <1>0, <1>8, <1>a DEF TakeEvent
  <2>2. ASSUME NEW d \in Published, StillToTell(d, t) PROVE StillToTell(d, t)'
    BY <2>1, <2>2, OthersStillTell
  <2>3. slot[t] # NoEvent /\ ActsOn(t, slot[t]) => slot'[t] = slot[t]
    BY <1>0, <1>8 DEF TakeEvent
  <2>4. t \in dropped => t \in dropped'
    BY <1>0, <1>8 DEF TakeEvent
  <2> QED
    BY <2>1, <2>2, <2>3, <2>4 DEF Kept
<1>9. ASSUME NEW u \in Tabs, CloseStream(u) PROVE Kept(t)'
  <2>1. u # t
    BY <1>0, <1>9 DEF CloseStream
  <2>2. Kept(t) /\ slot'[t] = slot[t] /\ (t \in dropped => t \in dropped')
    BY <1>0, <1>9, <1>a, <2>1 DEF CloseStream
  <2>3. ASSUME NEW d \in Published, StillToTell(d, t) PROVE StillToTell(d, t)'
    <3>1. publisher[d] \in Notifier
      BY <1>0
    <3>2. publisher'[d] = [publisher[d] EXCEPT
             !.todo = publisher[d].todo \ {u},
             !.at = IF publisher[d].at = u THEN NoTab ELSE publisher[d].at,
             !.pending = IF publisher[d].at = u THEN NoEvent ELSE publisher[d].pending,
             !.pc = IF publisher[d].at = u THEN "notifying" ELSE publisher[d].pc]
      BY <1>9 DEF CloseStream
    <3>3. /\ publisher'[d].todo = publisher[d].todo \ {u}
          /\ publisher[d].at # u => /\ publisher'[d].at = publisher[d].at
                                    /\ publisher'[d].pending = publisher[d].pending
                                    /\ publisher'[d].pc = publisher[d].pc
      BY <3>1, <3>2 DEF Notifier
    <3>4. CASE t \in publisher[d].todo /\ ActsOn(t, Payload(d))
      BY <2>1, <3>3, <3>4 DEF StillToTell
    <3>5. CASE publisher[d].at = t
      BY <2>1, <2>3, <3>3, <3>5 DEF StillToTell, MergedEvent
    <3> QED
      BY <2>3, <3>4, <3>5 DEF StillToTell
  <2> QED
    BY <2>2, <2>3 DEF Kept
<1>10. CASE UNCHANGED eventVars
  <2>1. Kept(t) /\ UNCHANGED <<slot, dropped, publisher>>
    BY <1>10, <1>a DEF eventVars
  <2> QED
    BY <2>1, OthersStillTell DEF Kept
<1> QED
  BY <1>1, <1>2, <1>3, <1>4, <1>5, <1>6, <1>7, <1>8, <1>9, <1>10
  DEF Next, Publisher, Listener, ServeRequest, RunBuild, World, vars

\* The inductive invariant of the events.
THEOREM EventsAreKept == Spec => []EventsInv
<1>1. Init => EventsInv
  <2> SUFFICES ASSUME Init PROVE EventsInv
    OBVIOUS
  <2>1. EventsTypeOK
    BY BudgetsAssumption DEF Init, EventsInit, EventsTypeOK, Notifier
  <2>2. PublishersKnowTheirQueue
    BY DEF Init, EventsInit, PublishersKnowTheirQueue
  <2>3. NoRefreshIsLost
    BY DEF Init, EventsInit, NoRefreshIsLost
  <2> QED
    BY <2>1, <2>2, <2>3 DEF EventsInv
<1>2. EventsInv /\ [Next]_vars => EventsInv'
  BY EventsTypeStep, NoRefreshIsLostStep DEF EventsInv
<1> QED
  BY <1>1, <1>2, PTL DEF Spec

(***************************************************************************)
(* A tab that was sent a change will refresh for it, whatever publishers   *)
(* and tabs do to its queue (session_events.py, publish and the handler).  *)
(***************************************************************************)
THEOREM NoRefreshIsEverLost == Spec => []NoRefreshIsLost
BY EventsAreKept, PTL DEF EventsInv

(***************************************************************************)
(* The cache.  First its types.                                            *)
(***************************************************************************)
\* Every builder rebuilds the list of one profile.
LEMMA ViewsAreProfiles ==
    /\ \A b \in Builders : ViewOf(b) \in Profiles
    /\ \A t \in Tabs : ViewOf(t) = TabProfile[t]
    /\ \A p \in Profiles : ViewOf(p) = p
    /\ \A b \in Builders : b \notin Tabs => b \in Profiles
BY SidebarAssumption DEF Builders, ViewOf

\* The stamps a step takes have their types.
LEMMA StampsAreStamps ==
    ASSUME CacheTypeOK
    PROVE  SourceStamp \in Stamps /\ \A p \in Profiles : InvalidationStamp(p) \in Nat \X Nat
BY DEF CacheTypeOK, SourceStamp, Stamps, Lists, InvalidationStamp

\* What requests and builds are set to has their types.
LEMMA SetRequestPc ==
    ASSUME NEW f \in [Tabs -> RequestType], NEW t \in Tabs, NEW pc \in RequestPCs
    PROVE  [f EXCEPT ![t].pc = pc] \in [Tabs -> RequestType]
BY DEF RequestType

\* ... when its stamp is set too,
LEMMA SetRequestStamp ==
    ASSUME NEW f \in [Tabs -> RequestType], NEW t \in Tabs, NEW pc \in RequestPCs,
           NEW stamp \in Stamps
    PROVE  [f EXCEPT ![t].pc = pc, ![t].stamp = stamp] \in [Tabs -> RequestType]
BY DEF RequestType

\* ... and its stale copy,
LEMMA SetRequestStale ==
    ASSUME NEW f \in [Tabs -> RequestType], NEW t \in Tabs, NEW pc \in RequestPCs,
           NEW stamp \in Stamps, NEW stale \in Lists \cup {NoList}
    PROVE  [f EXCEPT ![t].pc = pc, ![t].stamp = stamp, ![t].stale = stale]
           \in [Tabs -> RequestType]
BY DEF RequestType

\* ... when a request is started,
LEMMA NewRequest ==
    ASSUME NEW r \in RequestType, NEW pc \in RequestPCs, NEW stamp \in Stamps, NEW must \in Lists
    PROVE  [r EXCEPT !.pc = pc, !.stamp = stamp, !.must = must] \in RequestType
BY DEF RequestType

\* ... and when it is answered.
LEMMA EndedRequest ==
    ASSUME NEW r \in RequestType, NEW pc \in RequestPCs, NEW list \in Lists \cup {NoList},
           NEW must \in Lists
    PROVE  [r EXCEPT !.pc = pc, !.list = list, !.must = must] \in RequestType
BY DEF RequestType

\* A build that begins,
LEMMA NewBuild ==
    ASSUME NEW r \in BuildType, NEW pc \in BuildPCs, NEW owner \in BOOLEAN
    PROVE  [r EXCEPT !.pc = pc, !.owner = owner] \in BuildType
BY DEF BuildType

\* ... that is tried again,
LEMMA NextBuild ==
    ASSUME NEW r \in BuildType, NEW pc \in BuildPCs, NEW owner \in BOOLEAN,
           NEW attempts \in 0..(MaxAttempts - 1)
    PROVE  [r EXCEPT !.pc = pc, !.owner = owner, !.attempts = attempts] \in BuildType
BY DEF BuildType

\* ... that has taken its invalidation stamp,
LEMMA SetBuildInval ==
    ASSUME NEW f \in [Builders -> BuildType], NEW b \in Builders, NEW pc \in BuildPCs,
           NEW inval \in Nat \X Nat
    PROVE  [f EXCEPT ![b].pc = pc, ![b].inval = inval] \in [Builders -> BuildType]
<1> DEFINE r == [f[b] EXCEPT !.pc = pc, !.inval = inval]
<1>1. r \in BuildType
  BY DEF BuildType
<1>2. [f EXCEPT ![b].pc = pc, ![b].inval = inval] = [f EXCEPT ![b] = r]
  OBVIOUS
<1> QED
  BY <1>1, <1>2

\* ... that has read the sources,
LEMMA SetBuildList ==
    ASSUME NEW f \in [Builders -> BuildType], NEW b \in Builders, NEW pc \in BuildPCs,
           NEW list \in Lists
    PROVE  [f EXCEPT ![b].pc = pc, ![b].list = list] \in [Builders -> BuildType]
<1> DEFINE r == [f[b] EXCEPT !.pc = pc, !.list = list]
<1>1. r \in BuildType
  BY DEF BuildType
<1>2. [f EXCEPT ![b].pc = pc, ![b].list = list] = [f EXCEPT ![b] = r]
  OBVIOUS
<1> QED
  BY <1>1, <1>2

\* ... and that has taken its source stamp.
LEMMA SetBuildStamp ==
    ASSUME NEW f \in [Builders -> BuildType], NEW b \in Builders, NEW pc \in BuildPCs,
           NEW stamp \in Stamps
    PROVE  [f EXCEPT ![b].pc = pc, ![b].stamp = stamp] \in [Builders -> BuildType]
<1> DEFINE r == [f[b] EXCEPT !.pc = pc, !.stamp = stamp]
<1>1. r \in BuildType
  BY DEF BuildType
<1>2. [f EXCEPT ![b].pc = pc, ![b].stamp = stamp] = [f EXCEPT ![b] = r]
  OBVIOUS
<1> QED
  BY <1>1, <1>2

\* The empty records have their types.
LEMMA EmptyRecords ==
    /\ NoRequest \in RequestType /\ NoBuild \in BuildType /\ NoEntry \in EntryType
    /\ Frozen \in Stamps
<1>1. Frozen \in Stamps /\ {} \in Lists /\ NoList \in Lists \cup {NoList}
  BY DEF Stamps, Lists
<1>2. "idle" \in RequestPCs /\ "idle" \in BuildPCs
  BY DEF RequestPCs, BuildPCs
<1>3. NoRequest \in RequestType
  BY <1>1, <1>2 DEF NoRequest, RequestType
<1>4. NoBuild \in BuildType
  BY <1>1, <1>2, MaxAttemptsAssumption DEF NoBuild, BuildType
<1>5. NoEntry \in EntryType
  BY <1>1 DEF NoEntry, EntryType, Ages
<1> QED
  BY <1>1, <1>3, <1>4, <1>5

\* A request that gets its answer.
LEMMA AnsweredRequest ==
    ASSUME CacheTypeOK, NEW t \in Tabs, NEW list \in Lists \cup {NoList}, Answer(t, list)
    PROVE  /\ request'[t].pc = "answered" /\ request'[t].stale = NoList
           /\ request'[t].must = request[t].must /\ request'[t].list = list
           /\ \A u \in Tabs \ {t} : request'[u] = request[u]
           /\ request' \in [Tabs -> RequestType]
<1>0. request \in [Tabs -> RequestType]
  BY DEF CacheTypeOK
<1> DEFINE r == [NoRequest EXCEPT !.pc = "answered", !.list = list, !.must = request[t].must]
<1>1. request' = [request EXCEPT ![t] = r]
  BY DEF Answer
<1>2. request[t].must \in Lists
  BY <1>0 DEF RequestType
<1>3. /\ r.pc = "answered" /\ r.stale = NoList /\ r.must = request[t].must /\ r.list = list
      /\ r \in RequestType
  <2>1. "answered" \in RequestPCs
    BY DEF RequestPCs
  <2>2. r \in RequestType
    BY <1>2, <2>1, EmptyRecords, EndedRequest
  <2> QED
    BY <2>2 DEF NoRequest
<1> HIDE DEF r
<1> QED
  BY <1>0, <1>1, <1>3

\* A build that begins.
LEMMA BegunBuild ==
    ASSUME CacheTypeOK, NEW b \in Builders, NEW owner \in BOOLEAN, Begin(b, owner)
    PROVE  /\ build'[b].pc = "begin" /\ build'[b].owner = owner
           /\ \A d \in Builders \ {b} : build'[d] = build[d]
           /\ build' \in [Builders -> BuildType]
<1>0. build \in [Builders -> BuildType]
  BY DEF CacheTypeOK
<1> DEFINE r == [NoBuild EXCEPT !.pc = "begin", !.owner = owner]
<1>1. build' = [build EXCEPT ![b] = r]
  BY DEF Begin
<1>2. r.pc = "begin" /\ r.owner = owner /\ r \in BuildType
  <2>1. "begin" \in BuildPCs
    BY DEF BuildPCs
  <2>2. r \in BuildType
    BY <2>1, EmptyRecords, NewBuild
  <2> QED
    BY <2>2 DEF NoBuild
<1> HIDE DEF r
<1> QED
  BY <1>0, <1>1, <1>2

\* A build that is over, or that starts again because it was invalidated.
LEMMA FinishedBuild ==
    ASSUME CacheTypeOK, NEW b \in Builders, Finish(b)
    PROVE  /\ build'[b].pc = "idle" /\ inflight' = ReleaseClaim(b)
           /\ \A d \in Builders \ {b} : build'[d] = build[d]
           /\ build' \in [Builders -> BuildType]
           /\ request' \in [Tabs -> RequestType]
<1>0. build \in [Builders -> BuildType] /\ request \in [Tabs -> RequestType]
  BY DEF CacheTypeOK
<1>1. NoBuild \in BuildType /\ NoBuild.pc = "idle"
  BY EmptyRecords DEF NoBuild
<1>2. build[b].list \in Lists \cup {NoList}
  BY <1>0 DEF BuildType
<1>3. request' \in [Tabs -> RequestType]
  BY <1>0, <1>2, AnsweredRequest DEF Finish
<1> QED
  BY <1>0, <1>1, <1>3 DEF Finish

\* An invalidated build is over, or its owner starts it again with the claim kept.
LEMMA InvalidatedBuild ==
    ASSUME CacheTypeOK, NEW b \in Builders, Invalidated(b)
    PROVE  \/ Finish(b)
           \/ /\ build[b].owner
              /\ build'[b].pc = "begin" /\ build'[b].owner
              /\ \A d \in Builders \ {b} : build'[d] = build[d]
              /\ build' \in [Builders -> BuildType]
              /\ UNCHANGED <<inflight, request>>
<1>0. build \in [Builders -> BuildType]
  BY DEF CacheTypeOK
<1> SUFFICES ASSUME MayRetry(b),
                    build' = [build EXCEPT ![b] = [NoBuild EXCEPT !.pc = "begin", !.owner = TRUE,
                                                       !.attempts = build[b].attempts + 1]],
                    UNCHANGED <<inflight, request>>
             PROVE  /\ build[b].owner
                    /\ build'[b].pc = "begin" /\ build'[b].owner
                    /\ \A d \in Builders \ {b} : build'[d] = build[d]
                    /\ build' \in [Builders -> BuildType]
  BY DEF Invalidated
<1> DEFINE n == build[b].attempts + 1
           r == [NoBuild EXCEPT !.pc = "begin", !.owner = TRUE, !.attempts = n]
<1>1. build' = [build EXCEPT ![b] = r]
  OBVIOUS
<1>2. build[b].attempts \in 0..(MaxAttempts - 1)
  BY <1>0 DEF BuildType
<1>3. n \in 0..(MaxAttempts - 1)
  BY <1>2, MaxAttemptsAssumption DEF MayRetry
<1> HIDE DEF n
<1>4. r.pc = "begin" /\ r.owner /\ r \in BuildType
  <2>1. "begin" \in BuildPCs
    BY DEF BuildPCs
  <2>2. r \in BuildType
    BY <1>3, <2>1, EmptyRecords, NextBuild
  <2> QED
    BY <2>2 DEF NoBuild
<1> HIDE DEF r
<1> QED
  BY <1>0, <1>1, <1>4 DEF MayRetry

\* What a clear leaves has its types.
LEMMA NextInvalidationIs ==
    ASSUME CacheTypeOK, NEW c \in Published
    PROVE  /\ NextInvalidation(c) \in [global : Nat, profile : [Profiles -> Nat]]
           /\ ClearedCache(c) \in [Profiles -> EntryType]
<1>1. invalidation \in [global : Nat, profile : [Profiles -> Nat]]
  BY DEF CacheTypeOK
<1>2. NextInvalidation(c) \in [global : Nat, profile : [Profiles -> Nat]]
  BY <1>1 DEF NextInvalidation
<1>3. NoEntry \in EntryType
  BY EmptyRecords
<1>4. cache \in [Profiles -> EntryType]
  BY DEF CacheTypeOK
<1>5. ClearedCache(c) \in [Profiles -> EntryType]
  BY <1>3, <1>4 DEF ClearedCache
<1> QED
  BY <1>2, <1>5

\* Every step keeps the types of the cache.
LEMMA CacheTypeStep == CacheTypeOK /\ [Next]_vars => CacheTypeOK'
<1> SUFFICES ASSUME CacheTypeOK, [Next]_vars PROVE CacheTypeOK'
  OBVIOUS
<1>0. /\ saved \subseteq Changes /\ cleared \subseteq Published /\ streaming \in BOOLEAN
      /\ cache \in [Profiles -> EntryType]
      /\ invalidation \in [global : Nat, profile : [Profiles -> Nat]]
      /\ inflight \subseteq Profiles
      /\ request \in [Tabs -> RequestType]
      /\ build \in [Builders -> BuildType]
      /\ due \subseteq Changes /\ requests \in Nat /\ toggles \in Nat /\ failures \in Nat
  BY DEF CacheTypeOK
<1>a. TabProfile \in [Tabs -> Profiles]
  BY SidebarAssumption
<1>c. /\ {"lookup", "reason", "refresh", "claim", "wait", "again", "build"} \subseteq RequestPCs
      /\ {"begin", "read", "built", "stamped"} \subseteq BuildPCs
  BY DEF RequestPCs, BuildPCs
<1>b. Published \subseteq Changes /\ External \subseteq Changes
  BY DEF Changes
<1>1. ASSUME NEW c \in Published, Save(c) PROVE CacheTypeOK'
  BY <1>0, <1>1, <1>b DEF Save, CacheTypeOK
<1>2. ASSUME NEW c \in Published, CallListeners(c) PROVE CacheTypeOK'
  <2>1. cache' \in [Profiles -> EntryType]
        /\ invalidation' \in [global : Nat, profile : [Profiles -> Nat]]
    BY <1>2, NextInvalidationIs DEF CallListeners, ClearCache
  <2> QED
    BY <1>0, <1>2, <2>1 DEF CallListeners, ClearCache, bounds, CacheTypeOK
<1>3. ASSUME NEW t \in Tabs, Refresh(t) PROVE CacheTypeOK'
  <2> DEFINE must == cleared \cap VisibleIn(TabProfile[t])
             r == [NoRequest EXCEPT !.pc = "lookup", !.stamp = SourceStamp, !.must = must]
  <2>1. request' = [request EXCEPT ![t] = r]
    BY <1>3 DEF Refresh, StartRequest
  <2>2. must \in Lists /\ SourceStamp \in Stamps
    BY <1>0, <1>b, StampsAreStamps DEF Lists
  <2> HIDE DEF must
  <2>3. r \in RequestType
    BY <2>2, <1>c, EmptyRecords, NewRequest
  <2> HIDE DEF r
  <2>4. request' \in [Tabs -> RequestType]
    BY <1>0, <2>1, <2>3
  <2>5. requests' \in Nat
    BY <1>0, <1>3 DEF Refresh, StartRequest
  <2> QED
    BY <1>0, <1>3, <2>4, <2>5 DEF Refresh, StartRequest, CacheTypeOK
<1>4. ASSUME NEW t \in Tabs, Lookup(t) PROVE CacheTypeOK'
  <2>1. cache[TabProfile[t]].list \in Lists \cup {NoList}
    BY <1>0, <1>a DEF EntryType
  <2>2. request' \in [Tabs -> RequestType]
    <3>1. CASE Answer(t, cache[TabProfile[t]].list)
      BY <2>1, <3>1, AnsweredRequest
    <3>2. CASE request' = [request EXCEPT ![t].pc = "reason", ![t].stamp = Frozen,
                                          ![t].stale = cache[TabProfile[t]].list]
      BY <1>0, <1>c, <2>1, <3>2, EmptyRecords, SetRequestStale
    <3>3. CASE request' = [request EXCEPT ![t].pc = "claim", ![t].stamp = Frozen]
      BY <1>0, <1>c, <3>3, EmptyRecords, SetRequestStamp
    <3> QED
      BY <1>4, <3>1, <3>2, <3>3 DEF Lookup
  <2> QED
    BY <1>0, <1>4, <2>2 DEF Lookup, bounds, CacheTypeOK
<1>5. ASSUME NEW t \in Tabs, StaleReason(t) PROVE CacheTypeOK'
  <2>1. \E pc \in {"claim", "refresh"} : request' = [request EXCEPT ![t].pc = pc]
    BY <1>5 DEF StaleReason
  <2>2. request' \in [Tabs -> RequestType]
    BY <1>0, <1>c, <2>1, SetRequestPc
  <2> QED
    BY <1>0, <1>5, <2>2 DEF StaleReason, bounds, CacheTypeOK
<1>6. ASSUME NEW t \in Tabs, RefreshBehind(t) PROVE CacheTypeOK'
  <2>1. request' \in [Tabs -> RequestType]
    <3>1. request[t].stale \in Lists \cup {NoList}
      BY <1>0 DEF RequestType
    <3> QED
      BY <1>6, <3>1, AnsweredRequest DEF RefreshBehind
  <2>2. build' \in [Builders -> BuildType] /\ inflight' \subseteq Profiles
    <3>1. TabProfile[t] \in Builders
      BY <1>a DEF Builders
    <3> QED
      <4>1. CASE Begin(TabProfile[t], TRUE) /\ inflight' = inflight \cup {TabProfile[t]}
        <5>1. \A b \in Builders : Begin(b, TRUE) => build' \in [Builders -> BuildType]
          BY BegunBuild
        <5> QED
          BY <1>0, <1>a, <3>1, <4>1, <5>1
      <4>2. CASE UNCHANGED <<inflight, build>>
        BY <1>0, <4>2
      <4> QED
        BY <1>6, <4>1, <4>2 DEF RefreshBehind
  <2> QED
    BY <1>0, <1>6, <2>1, <2>2 DEF RefreshBehind, bounds, CacheTypeOK
<1>7. ASSUME NEW t \in Tabs, ClaimRebuild(t) PROVE CacheTypeOK'
  <2>1. \E pc \in {"build", "wait"} : request' = [request EXCEPT ![t].pc = pc]
    BY <1>7 DEF ClaimRebuild
  <2>2. request' \in [Tabs -> RequestType]
    BY <1>0, <1>c, <2>1, SetRequestPc
  <2>3. build' \in [Builders -> BuildType] /\ inflight' \subseteq Profiles
    <3>1. t \in Builders
      BY DEF Builders
    <3> QED
      <4>1. CASE Begin(t, TRUE) /\ inflight' = inflight \cup {TabProfile[t]}
        BY <1>0, <1>a, <3>1, <4>1, BegunBuild
      <4>2. CASE UNCHANGED <<inflight, build>>
        BY <1>0, <4>2
      <4> QED
        BY <1>7, <4>1, <4>2 DEF ClaimRebuild
  <2> QED
    BY <1>0, <1>7, <2>2, <2>3 DEF ClaimRebuild, bounds, CacheTypeOK
<1>8. ASSUME NEW t \in Tabs, StopWaiting(t) PROVE CacheTypeOK'
  <2>1. request' \in [Tabs -> RequestType]
    BY <1>0, <1>c, <1>8, StampsAreStamps, SetRequestStamp DEF StopWaiting
  <2> QED
    BY <1>0, <1>8, <2>1 DEF StopWaiting, bounds, CacheTypeOK
<1>9. ASSUME NEW t \in Tabs, LookupAgain(t) PROVE CacheTypeOK'
  <2>1. request[t].stale \in Lists \cup {NoList}
        /\ cache[TabProfile[t]].list \in Lists \cup {NoList}
    BY <1>0, <1>a DEF RequestType, EntryType
  <2>2. request' \in [Tabs -> RequestType]
    <3>1. CASE Answer(t, cache[TabProfile[t]].list) \/ Answer(t, request[t].stale)
      <4>1. CASE Answer(t, cache[TabProfile[t]].list)
        BY <2>1, <4>1, AnsweredRequest
      <4>2. CASE Answer(t, request[t].stale)
        BY <2>1, <4>2, AnsweredRequest
      <4> QED
        BY <3>1, <4>1, <4>2
    <3>2. CASE request' = [request EXCEPT ![t].pc = "build", ![t].stamp = Frozen]
      BY <1>0, <1>c, <3>2, EmptyRecords, SetRequestStamp
    <3> QED
      BY <1>9, <3>1, <3>2 DEF LookupAgain
  <2>3. build' \in [Builders -> BuildType]
    BY <1>0, <1>9, BegunBuild DEF LookupAgain, Builders
  <2>4. NoEntry \in EntryType
    BY EmptyRecords
  <2>5. cache' = cache \/ cache' = [cache EXCEPT ![TabProfile[t]] = NoEntry]
    BY <1>9 DEF LookupAgain
  <2>6. cache' \in [Profiles -> EntryType]
    BY <1>0, <2>4, <2>5
  <2> QED
    BY <1>0, <1>9, <2>2, <2>3, <2>6 DEF LookupAgain, bounds, CacheTypeOK
<1>10. ASSUME NEW t \in Tabs, Render(t) PROVE CacheTypeOK'
  <2>1. NoRequest \in RequestType
    BY EmptyRecords
  <2>2. request' \in [Tabs -> RequestType]
    BY <1>0, <1>10, <2>1 DEF Render
  <2> QED
    BY <1>0, <1>10, <2>2 DEF Render, bounds, CacheTypeOK
<1>11. ASSUME NEW b \in Builders, BeginBuild(b) PROVE CacheTypeOK'
  <2>1. InvalidationStamp(ViewOf(b)) \in Nat \X Nat
    BY StampsAreStamps, ViewsAreProfiles
  <2>2. build' \in [Builders -> BuildType]
    BY <1>0, <1>c, <1>11, <2>1, SetBuildInval DEF BeginBuild
  <2> QED
    BY <1>0, <1>11, <2>2 DEF BeginBuild, bounds, CacheTypeOK
<1>12. ASSUME NEW b \in Builders, ReadSources(b) PROVE CacheTypeOK'
  <2>1. saved \cap VisibleIn(ViewOf(b)) \in Lists
    BY <1>0 DEF Lists
  <2>2. build' \in [Builders -> BuildType]
    BY <1>0, <1>c, <1>12, <2>1, SetBuildList DEF ReadSources
  <2> QED
    BY <1>0, <1>12, <2>2 DEF ReadSources, bounds, CacheTypeOK
<1>13. ASSUME NEW b \in Builders, Finish(b) \/ Invalidated(b)
       PROVE  /\ build' \in [Builders -> BuildType] /\ request' \in [Tabs -> RequestType]
              /\ inflight' \subseteq Profiles
  <2>1. ReleaseClaim(b) \subseteq Profiles
    BY <1>0 DEF ReleaseClaim
  <2> QED
    BY <1>0, <1>13, <2>1, FinishedBuild, InvalidatedBuild
<1>14. ASSUME NEW b \in Builders, StampBuild(b) PROVE CacheTypeOK'
  <2>1. CASE build' = [build EXCEPT ![b].pc = "stamped", ![b].stamp = SourceStamp]
             /\ UNCHANGED <<inflight, request>>
    <3>1. build' \in [Builders -> BuildType]
      BY <1>0, <1>c, <2>1, StampsAreStamps, SetBuildStamp
    <3> QED
      BY <1>0, <1>14, <2>1, <3>1 DEF StampBuild, bounds, CacheTypeOK
  <2>2. CASE Invalidated(b)
    BY <1>0, <1>13, <1>14, <2>2 DEF StampBuild, bounds, CacheTypeOK
  <2> QED
    BY <1>14, <2>1, <2>2 DEF StampBuild
<1>15. ASSUME NEW b \in Builders, InsertBuild(b) PROVE CacheTypeOK'
  <2>1. [list |-> build[b].list, stamp |-> build[b].stamp, age |-> 0] \in EntryType
    BY <1>0 DEF BuildType, EntryType, Ages
  <2>2. cache' \in [Profiles -> EntryType]
    BY <1>0, <1>15, <2>1 DEF InsertBuild
  <2>3. Finish(b) \/ Invalidated(b)
    BY <1>15 DEF InsertBuild
  <2> QED
    BY <1>0, <1>13, <1>15, <2>2, <2>3 DEF InsertBuild, bounds, CacheTypeOK
<1>16. ASSUME NEW b \in Builders, BuildFails(b) PROVE CacheTypeOK'
  <2>1. NoBuild \in BuildType /\ NoRequest \in RequestType
    BY EmptyRecords
  <2>2. build' \in [Builders -> BuildType] /\ request' \in [Tabs -> RequestType]
    BY <1>0, <1>16, <2>1 DEF BuildFails, FailedRequest
  <2>3. inflight' \subseteq Profiles
    BY <1>0, <1>16 DEF BuildFails, ReleaseClaim
  <2>4. failures' \in Nat
    BY <1>0, <1>16 DEF BuildFails
  <2> QED
    BY <1>0, <1>16, <2>2, <2>3, <2>4 DEF BuildFails, CacheTypeOK
<1>17. CASE World
  <2>1. ASSUME NEW c \in External, WriteOutside(c) PROVE CacheTypeOK'
    BY <1>0, <1>b, <2>1 DEF WriteOutside, CacheTypeOK
  <2>2. ASSUME ToggleStreaming PROVE CacheTypeOK'
    BY <1>0, <2>2 DEF ToggleStreaming, CacheTypeOK
  <2>3. ASSUME NEW p \in Profiles, GrowOlder(p) PROVE CacheTypeOK'
    <3>1. cache' \in [Profiles -> EntryType]
      <4>0. cache \in [Profiles -> EntryType] /\ cache' = [cache EXCEPT ![p].age = @ + 1]
            /\ cache[p].age < 2
        BY <1>0, <2>3 DEF GrowOlder, CacheTypeOK
      <4>1. [cache[p] EXCEPT !.age = cache[p].age + 1] \in EntryType
        BY <4>0 DEF EntryType, Ages
      <4> QED
        BY <4>0, <4>1
    <3> QED
      BY <1>0, <2>3, <3>1 DEF GrowOlder, bounds, CacheTypeOK
  <2> QED
    BY <1>17, <2>1, <2>2, <2>3 DEF World
<1>18. CASE UNCHANGED cacheVars
  BY <1>0, <1>18 DEF cacheVars, bounds, CacheTypeOK
<1> QED
  BY <1>1, <1>2, <1>3, <1>4, <1>5, <1>6, <1>7, <1>8, <1>9, <1>10, <1>11, <1>12, <1>14, <1>15,
     <1>16, <1>17, <1>18
  DEF Next, Publisher, Listener, ServeRequest, RunBuild, vars

(***************************************************************************)
(* What makes the cache sound.  A stamp that a build took is never ahead   *)
(* of the versions, and every clear a list shows moves them on: a build    *)
(* whose stamp is still the current one has read everything such clears    *)
(* were about.  Announced changes were saved, so a build that begins later *)
(* reads them.                                                             *)
(***************************************************************************)
AnnouncedIsSaved ==
    /\ \A c \in Published : publisher[c].pc # "idle" => c \in saved
    /\ cleared \subseteq saved

Running(b) == build[b].pc \in {"read", "built", "stamped"}

NotAhead(stamp, p) ==
    \/ stamp[1] < invalidation.global
    \/ stamp[1] = invalidation.global /\ stamp[2] <= invalidation.profile[p]

StampsAreNotAhead == \A b \in Builders : Running(b) => NotAhead(build[b].inval, ViewOf(b))

BuildsShowWhatWasCleared ==
    \A b \in Builders : build[b].pc \in {"built", "stamped"} =>
        /\ build[b].list \in Lists
        /\ StillValid(b) => cleared \cap VisibleIn(ViewOf(b)) \subseteq build[b].list

EntriesShowWhatWasCleared ==
    \A p \in Profiles : cache[p] # NoEntry =>
        cache[p].list \in Lists /\ cleared \cap VisibleIn(p) \subseteq cache[p].list

RequestIsSound(t) ==
    /\ request[t].must \subseteq cleared \cap VisibleIn(TabProfile[t])
    /\ request[t].stale # NoList => request[t].must \subseteq request[t].stale
    /\ request[t].pc \in {"reason", "refresh"} => request[t].stale # NoList
    /\ request[t].pc = "answered" => request[t].must \subseteq request[t].list
    /\ build[t].pc # "idle" => request[t].pc = "build"
    /\ build[t].pc \in {"built", "stamped"} => request[t].must \subseteq build[t].list

RequestsAreSound == \A t \in Tabs : RequestIsSound(t)

CacheInv ==
    /\ CacheTypeOK /\ AnnouncedIsSaved /\ StampsAreNotAhead /\ BuildsShowWhatWasCleared
    /\ EntriesShowWhatWasCleared /\ RequestsAreSound

\* A clear that concerns a list removes it and leaves every older stamp behind;
\* one that does not leaves it alone.
LEMMA ClearSteps ==
    ASSUME CacheTypeOK, NEW c \in Published, CallListeners(c), NEW p \in Profiles
    PROVE  \/ /\ c \in VisibleIn(p) /\ cache'[p] = NoEntry
              /\ \A stamp \in Nat \X Nat :
                    NotAhead(stamp, p) => NotAhead(stamp, p)' /\ stamp # InvalidationStamp(p)'
           \/ /\ c \notin VisibleIn(p) /\ cache'[p] = cache[p]
              /\ invalidation'.global = invalidation.global
              /\ invalidation'.profile[p] = invalidation.profile[p]
<1>0. /\ invalidation \in [global : Nat, profile : [Profiles -> Nat]]
      /\ cache \in [Profiles -> EntryType]
  BY DEF CacheTypeOK
<1>1. /\ cache'[p] = IF ProfileOf[c] \in {p, Unscoped} THEN NoEntry ELSE cache[p]
      /\ invalidation' = NextInvalidation(c)
  BY <1>0 DEF CallListeners, ClearCache, ClearedCache
<1>2. c \in VisibleIn(p) <=> ProfileOf[c] \in {p, Unscoped}
  BY SidebarAssumption DEF VisibleIn
<1>3. CASE ProfileOf[c] = Unscoped
  <2>1. invalidation'.global = invalidation.global + 1
    BY <1>1, <1>3 DEF NextInvalidation
  <2>2. ASSUME NEW stamp \in Nat \X Nat, NotAhead(stamp, p)
        PROVE  NotAhead(stamp, p)' /\ stamp # InvalidationStamp(p)'
    BY <1>0, <2>1, <2>2 DEF NotAhead, InvalidationStamp
  <2> QED
    BY <1>1, <1>2, <1>3, <2>2
<1>4. CASE ProfileOf[c] = p
  <2>1. /\ invalidation'.global = invalidation.global
        /\ invalidation'.profile[p] = invalidation.profile[p] + 1
    BY <1>1, <1>4, SidebarAssumption DEF NextInvalidation
  <2>2. ASSUME NEW stamp \in Nat \X Nat, NotAhead(stamp, p)
        PROVE  NotAhead(stamp, p)' /\ stamp # InvalidationStamp(p)'
    BY <1>0, <2>1, <2>2 DEF NotAhead, InvalidationStamp
  <2> QED
    BY <1>1, <1>2, <1>4, <2>2
<1>5. CASE ProfileOf[c] \notin {p, Unscoped}
  <2>1. /\ invalidation'.global = invalidation.global
        /\ invalidation'.profile[p] = invalidation.profile[p]
    BY <1>1, <1>5 DEF NextInvalidation
  <2> QED
    BY <1>1, <1>2, <1>5, <2>1
<1> QED
  BY <1>3, <1>4, <1>5

\* No change is cleared that was not announced, and so saved.
LEMMA AnnouncedIsSavedStep ==
    EventsInv /\ CacheTypeOK /\ AnnouncedIsSaved /\ [Next]_vars
    => AnnouncedIsSaved' /\ saved \subseteq saved' /\ cleared \subseteq cleared'
<1> DEFINE Goal == AnnouncedIsSaved' /\ saved \subseteq saved' /\ cleared \subseteq cleared'
<1> SUFFICES ASSUME EventsInv, CacheTypeOK, AnnouncedIsSaved, [Next]_vars PROVE Goal
  OBVIOUS
<1>0. publisher \in [Published -> Notifier]
  BY DEF EventsInv, EventsTypeOK
<1>a. \A c \in Published : publisher[c].pc = "idle" => publisher[c].at = NoTab
  BY DEF EventsInv, PublishersKnowTheirQueue
<1>1. ASSUME NEW c \in Published, Save(c) PROVE Goal
  BY <1>0, <1>1 DEF Save, AnnouncedIsSaved, Notifier
<1>2. ASSUME NEW c \in Published, CallListeners(c) PROVE Goal
  BY <1>0, <1>2 DEF CallListeners, ListenersCalled, ClearCache, AnnouncedIsSaved, Notifier
<1>3. ASSUME UNCHANGED <<saved, cleared>>,
             \A c \in Published : publisher[c].pc = "idle" => publisher'[c].pc = "idle"
      PROVE  Goal
  BY <1>3 DEF AnnouncedIsSaved
<1>4. ASSUME NEW c \in Published, Publisher(c), ~Save(c), ~CallListeners(c) PROVE Goal
  <2>1. UNCHANGED <<saved, cleared>>
    BY <1>4 DEF Publisher, cacheVars
  <2>2. ASSUME NEW d \in Published, publisher[d].pc = "idle" PROVE publisher'[d].pc = "idle"
    BY <1>0, <1>4, <2>2 DEF Publisher, Publish, PutEvent, TakePending, PutMerged, Notifier
  <2> QED
    BY <1>3, <2>1, <2>2
<1>5. ASSUME NEW t \in Tabs, Listener(t) PROVE Goal
  <2>1. UNCHANGED <<saved, cleared>>
    BY <1>5 DEF Listener, cacheVars
  <2>2. ASSUME NEW d \in Published, publisher[d].pc = "idle" PROVE publisher'[d].pc = "idle"
    <3>1. CASE UNCHANGED publisher
      BY <2>2, <3>1
    <3>2. CASE CloseStream(t)
      <4>1. publisher[d].at # t
        BY <1>a, <2>2, NothingAssumption
      <4>2. publisher'[d] = [publisher[d] EXCEPT
               !.todo = publisher[d].todo \ {t},
               !.at = IF publisher[d].at = t THEN NoTab ELSE publisher[d].at,
               !.pending = IF publisher[d].at = t THEN NoEvent ELSE publisher[d].pending,
               !.pc = IF publisher[d].at = t THEN "notifying" ELSE publisher[d].pc]
        BY <3>2 DEF CloseStream
      <4> QED
        BY <1>0, <2>2, <4>1, <4>2 DEF Notifier
    <3> QED
      BY <1>5, <3>1, <3>2 DEF Listener, OpenStream, Subscribe, TakeEvent
  <2> QED
    BY <1>3, <2>1, <2>2
<1>6. ASSUME NEW c \in External, WriteOutside(c), UNCHANGED publisher PROVE Goal
  BY <1>6 DEF WriteOutside, AnnouncedIsSaved
<1>7. CASE UNCHANGED <<saved, cleared, publisher>>
  BY <1>3, <1>7
<1> QED
  <2>1. ASSUME NEW t \in Tabs, Refresh(t) \/ ServeRequest(t)
        PROVE  UNCHANGED <<saved, cleared, publisher>>
    BY <2>1 DEF Refresh, StartRequest, ServeRequest, Lookup, StaleReason, RefreshBehind,
                ClaimRebuild, StopWaiting, LookupAgain, Render, eventVars
  <2>2. ASSUME NEW b \in Builders, RunBuild(b) PROVE UNCHANGED <<saved, cleared, publisher>>
    BY <2>2 DEF RunBuild, BeginBuild, ReadSources, StampBuild, InsertBuild, BuildFails, eventVars
  <2>3. CASE World
    <3>1. CASE \E c \in External : WriteOutside(c)
      <4>1. UNCHANGED publisher
        BY <2>3 DEF World, eventVars
      <4> QED
        BY <1>6, <3>1, <4>1
    <3>2. CASE ~\E c \in External : WriteOutside(c)
      BY <1>7, <2>3, <3>2 DEF World, ToggleStreaming, GrowOlder, eventVars
    <3> QED
      BY <3>1, <3>2
  <2>4. CASE UNCHANGED vars
    BY <1>7, <2>4 DEF vars, eventVars, cacheVars
  <2> HIDE DEF Goal
  <2> QED
    BY <1>1, <1>2, <1>4, <1>5, <1>7, <2>1, <2>2, <2>3, <2>4 DEF Next

\* What a step does to a build: nothing, a new beginning or an end, or the next
\* of its own steps.
LEMMA BuildSteps ==
    ASSUME CacheTypeOK, [Next]_vars, NEW b \in Builders
    PROVE  \/ build'[b] = build[b]
           \/ build'[b].pc \in {"idle", "begin"}
           \/ /\ build'[b].pc = "read" /\ build'[b].inval = InvalidationStamp(ViewOf(b))
              /\ UNCHANGED <<invalidation, cleared>>
           \/ /\ build[b].pc = "read" /\ build'[b].pc = "built"
              /\ build'[b].inval = build[b].inval
              /\ build'[b].list = saved \cap VisibleIn(ViewOf(b))
              /\ UNCHANGED <<invalidation, cleared, request>>
           \/ /\ build[b].pc = "built" /\ build'[b].pc = "stamped"
              /\ build'[b].inval = build[b].inval /\ build'[b].list = build[b].list
              /\ UNCHANGED <<invalidation, cleared, request>>
<1> DEFINE Goal ==
           \/ build'[b] = build[b]
           \/ build'[b].pc \in {"idle", "begin"}
           \/ /\ build'[b].pc = "read" /\ build'[b].inval = InvalidationStamp(ViewOf(b))
              /\ UNCHANGED <<invalidation, cleared>>
           \/ /\ build[b].pc = "read" /\ build'[b].pc = "built"
              /\ build'[b].inval = build[b].inval
              /\ build'[b].list = saved \cap VisibleIn(ViewOf(b))
              /\ UNCHANGED <<invalidation, cleared, request>>
           \/ /\ build[b].pc = "built" /\ build'[b].pc = "stamped"
              /\ build'[b].inval = build[b].inval /\ build'[b].list = build[b].list
              /\ UNCHANGED <<invalidation, cleared, request>>
<1>0. build \in [Builders -> BuildType]
  BY DEF CacheTypeOK
<1>1. ASSUME UNCHANGED build PROVE Goal
  BY <1>1
<1>2. ASSUME NEW d \in Builders, NEW owner \in BOOLEAN, Begin(d, owner) PROVE Goal
  BY <1>2, BegunBuild
<1>3. ASSUME NEW t \in Tabs, ServeRequest(t) PROVE Goal
  <2>1. t \in Builders /\ TabProfile[t] \in Builders
    BY SidebarAssumption DEF Builders
  <2>2. UNCHANGED build \/ Begin(t, TRUE) \/ Begin(t, FALSE) \/ Begin(TabProfile[t], TRUE)
    BY <1>3 DEF ServeRequest, Lookup, StaleReason, RefreshBehind, ClaimRebuild, StopWaiting,
                LookupAgain, Render
  <2> HIDE DEF Goal
  <2> QED
    BY <1>1, <1>2, <2>1, <2>2
<1>4. ASSUME NEW d \in Builders, RunBuild(d) PROVE Goal
  <2>1. ASSUME Finish(d) \/ Invalidated(d) PROVE Goal
    BY <2>1, FinishedBuild, InvalidatedBuild
  <2>2. ASSUME BuildFails(d) PROVE Goal
    <3>1. NoBuild.pc = "idle"
      BY DEF NoBuild
    <3>2. build' = [build EXCEPT ![d] = NoBuild]
      BY <2>2 DEF BuildFails
    <3> QED
      BY <1>0, <3>1, <3>2
  <2>3. ASSUME BeginBuild(d) PROVE Goal
    <3>1. /\ \A e \in Builders \ {d} : build'[e] = build[e]
          /\ build'[d].pc = "read" /\ build'[d].inval = InvalidationStamp(ViewOf(d))
          /\ UNCHANGED <<invalidation, cleared>>
      BY <1>0, <2>3 DEF BeginBuild, BuildType
    <3> QED
      BY <3>1
  <2>4. ASSUME ReadSources(d) PROVE Goal
    <3>1. /\ \A e \in Builders \ {d} : build'[e] = build[e]
          /\ build[d].pc = "read" /\ build'[d].pc = "built"
          /\ build'[d].inval = build[d].inval
          /\ build'[d].list = saved \cap VisibleIn(ViewOf(d))
          /\ UNCHANGED <<invalidation, cleared, request>>
      BY <1>0, <2>4 DEF ReadSources, BuildType
    <3> QED
      BY <3>1
  <2>5. ASSUME StampBuild(d), ~Invalidated(d) PROVE Goal
    <3>1. /\ \A e \in Builders \ {d} : build'[e] = build[e]
          /\ build[d].pc = "built" /\ build'[d].pc = "stamped"
          /\ build'[d].inval = build[d].inval /\ build'[d].list = build[d].list
          /\ UNCHANGED <<invalidation, cleared, request>>
      BY <1>0, <2>5 DEF StampBuild, BuildType
    <3> QED
      BY <3>1
  <2> HIDE DEF Goal
  <2> QED
    BY <1>4, <2>1, <2>2, <2>3, <2>4, <2>5 DEF RunBuild, InsertBuild, StampBuild
<1>5. ASSUME World PROVE Goal
  BY <1>1, <1>5 DEF World, WriteOutside, ToggleStreaming, GrowOlder
<1>6. ASSUME NEW c \in Published, Publisher(c) PROVE Goal
  BY <1>1, <1>6 DEF Publisher, Save, CallListeners, ClearCache, cacheVars
<1>7. ASSUME NEW t \in Tabs, Listener(t) \/ Refresh(t) PROVE Goal
  BY <1>1, <1>7 DEF Listener, Refresh, StartRequest, cacheVars
<1>8. ASSUME UNCHANGED vars PROVE Goal
  BY <1>1, <1>8 DEF vars, cacheVars
<1> HIDE DEF Goal
<1>9. Goal
  BY <1>3, <1>4, <1>5, <1>6, <1>7, <1>8 DEF Next
<1> QED
  BY <1>9 DEF Goal

\* The versions change, and a change counts as announced, by a clear only.
LEMMA VersionSteps ==
    ASSUME [Next]_vars
    PROVE  UNCHANGED <<invalidation, cleared>> \/ \E c \in Published : CallListeners(c)
BY DEF Next, vars, Publisher, Save, Listener, Refresh, StartRequest, ServeRequest, RunBuild, World,
       cacheVars, Lookup, StaleReason, RefreshBehind, ClaimRebuild, StopWaiting, LookupAgain,
       Render, BeginBuild, ReadSources, StampBuild, InsertBuild, BuildFails, WriteOutside,
       ToggleStreaming, GrowOlder

\* A build that holds the current stamp shows what was cleared.
LEMMA BuildsStep ==
    CacheTypeOK /\ AnnouncedIsSaved /\ StampsAreNotAhead /\ BuildsShowWhatWasCleared /\ [Next]_vars
    => StampsAreNotAhead' /\ BuildsShowWhatWasCleared'
<1> SUFFICES ASSUME CacheTypeOK, AnnouncedIsSaved, StampsAreNotAhead, BuildsShowWhatWasCleared,
                    [Next]_vars, NEW b \in Builders
             PROVE  /\ Running(b)' => NotAhead(build[b].inval, ViewOf(b))'
                    /\ build'[b].pc \in {"built", "stamped"} =>
                          /\ build'[b].list \in Lists
                          /\ StillValid(b)' =>
                                cleared' \cap VisibleIn(ViewOf(b)) \subseteq build'[b].list
  BY DEF StampsAreNotAhead, BuildsShowWhatWasCleared
<1>0. /\ build[b] \in BuildType /\ ViewOf(b) \in Profiles
      /\ invalidation \in [global : Nat, profile : [Profiles -> Nat]]
      /\ saved \in Lists
  BY ViewsAreProfiles DEF CacheTypeOK, Lists
<1>1. Running(b) => NotAhead(build[b].inval, ViewOf(b))
  BY DEF StampsAreNotAhead
<1>2. build[b].pc \in {"built", "stamped"} =>
        /\ build[b].list \in Lists
        /\ StillValid(b) => cleared \cap VisibleIn(ViewOf(b)) \subseteq build[b].list
  BY DEF BuildsShowWhatWasCleared
<1>3. build[b].inval \in Nat \X Nat
  BY <1>0 DEF BuildType
<1>4. CASE build'[b] = build[b]
  <2>1. CASE UNCHANGED <<invalidation, cleared>>
    BY <1>1, <1>2, <1>4, <2>1 DEF Running, NotAhead, StillValid, InvalidationStamp
  <2>2. ASSUME NEW c \in Published, CallListeners(c)
        PROVE  /\ Running(b)' => NotAhead(build[b].inval, ViewOf(b))'
               /\ build'[b].pc \in {"built", "stamped"} =>
                    /\ build'[b].list \in Lists
                    /\ StillValid(b)' => cleared' \cap VisibleIn(ViewOf(b)) \subseteq build'[b].list
    <3>1. cleared' = cleared \cup {c}
      BY <2>2 DEF CallListeners, ClearCache
    <3>2. CASE /\ c \in VisibleIn(ViewOf(b))
               /\ \A stamp \in Nat \X Nat :
                    NotAhead(stamp, ViewOf(b)) =>
                      NotAhead(stamp, ViewOf(b))' /\ stamp # InvalidationStamp(ViewOf(b))'
      <4>1. Running(b) =>
               /\ NotAhead(build[b].inval, ViewOf(b))'
               /\ build[b].inval # InvalidationStamp(ViewOf(b))'
        BY <1>1, <1>3, <1>4, <3>2 DEF NotAhead
      <4> QED
        BY <1>2, <1>4, <4>1 DEF Running, StillValid, NotAhead
    <3>3. CASE /\ c \notin VisibleIn(ViewOf(b))
               /\ invalidation'.global = invalidation.global
               /\ invalidation'.profile[ViewOf(b)] = invalidation.profile[ViewOf(b)]
      <4>1. cleared' \cap VisibleIn(ViewOf(b)) = cleared \cap VisibleIn(ViewOf(b))
        BY <3>1, <3>3
      <4>2. Running(b)' => NotAhead(build[b].inval, ViewOf(b))'
        BY <1>1, <1>4, <3>3 DEF Running, NotAhead
      <4>3. StillValid(b)' <=> StillValid(b)
        BY <1>4, <3>3 DEF StillValid, InvalidationStamp
      <4> QED
        BY <1>2, <1>4, <4>1, <4>2, <4>3
    <3> QED
      BY <1>0, <2>2, <3>2, <3>3, ClearSteps
  <2> QED
    BY <2>1, <2>2, VersionSteps
<1>5. CASE build'[b].pc \in {"idle", "begin"}
  BY <1>5 DEF Running
<1>6. CASE /\ build'[b].pc = "read" /\ build'[b].inval = InvalidationStamp(ViewOf(b))
           /\ UNCHANGED <<invalidation, cleared>>
  BY <1>0, <1>6 DEF Running, NotAhead, InvalidationStamp
<1>7. CASE /\ build[b].pc = "read" /\ build'[b].pc = "built"
           /\ build'[b].inval = build[b].inval
           /\ build'[b].list = saved \cap VisibleIn(ViewOf(b))
           /\ UNCHANGED <<invalidation, cleared, request>>
  <2>1. NotAhead(build[b].inval, ViewOf(b))'
    BY <1>1, <1>7 DEF Running, NotAhead
  <2>2. build'[b].list \in Lists
    BY <1>0, <1>7 DEF Lists
  <2>3. cleared' \cap VisibleIn(ViewOf(b)) \subseteq build'[b].list
    BY <1>7 DEF AnnouncedIsSaved
  <2> QED
    BY <2>1, <2>2, <2>3
<1>8. CASE /\ build[b].pc = "built" /\ build'[b].pc = "stamped"
           /\ build'[b].inval = build[b].inval /\ build'[b].list = build[b].list
           /\ UNCHANGED <<invalidation, cleared, request>>
  BY <1>1, <1>2, <1>8 DEF Running, NotAhead, StillValid, InvalidationStamp
<1> QED
  BY <1>4, <1>5, <1>6, <1>7, <1>8, BuildSteps

\* What a step does to an entry of the cache.
LEMMA EntrySteps ==
    ASSUME CacheTypeOK, [Next]_vars, NEW p \in Profiles
    PROVE  \/ cache'[p] = NoEntry
           \/ cache[p] # NoEntry /\ cache'[p].list = cache[p].list
           \/ \E b \in Builders :
                 /\ build[b].pc = "stamped" /\ StillValid(b) /\ ViewOf(b) = p
                 /\ cache'[p].list = build[b].list /\ UNCHANGED cleared
<1> DEFINE Goal ==
           \/ cache'[p] = NoEntry
           \/ cache[p] # NoEntry /\ cache'[p].list = cache[p].list
           \/ \E b \in Builders :
                 /\ build[b].pc = "stamped" /\ StillValid(b) /\ ViewOf(b) = p
                 /\ cache'[p].list = build[b].list /\ UNCHANGED cleared
<1>0. cache \in [Profiles -> EntryType]
  BY DEF CacheTypeOK
<1>1. ASSUME UNCHANGED cache PROVE Goal
  BY <1>1
<1>2. ASSUME NEW b \in Builders, InsertBuild(b) PROVE Goal
  <2>1. CASE UNCHANGED cache
    BY <2>1
  <2>2. CASE /\ StillValid(b)
             /\ cache' = [cache EXCEPT ![ViewOf(b)] =
                            [list |-> build[b].list, stamp |-> build[b].stamp, age |-> 0]]
    <3>1. CASE ViewOf(b) = p
      BY <1>0, <1>2, <2>2, <3>1 DEF InsertBuild
    <3>2. CASE ViewOf(b) # p
      BY <1>0, <2>2, <3>2
    <3> QED
      BY <3>1, <3>2
  <2> QED
    BY <1>2, <2>1, <2>2 DEF InsertBuild
<1>3. ASSUME NEW q \in Profiles, GrowOlder(q) PROVE Goal
  BY <1>0, <1>3 DEF GrowOlder, EntryType
<1>4. ASSUME NEW t \in Tabs, LookupAgain(t) PROVE Goal
  <2>1. cache' = cache \/ cache' = [cache EXCEPT ![TabProfile[t]] = NoEntry]
    BY <1>4 DEF LookupAgain
  <2> QED
    BY <1>0, <2>1
<1>5. ASSUME NEW c \in Published, CallListeners(c) PROVE Goal
  BY <1>1, <1>5, ClearSteps
<1> HIDE DEF Goal
<1>6. Goal
  BY <1>1, <1>2, <1>3, <1>4, <1>5
  DEF Next, vars, Publisher, Save, Listener, Refresh, StartRequest, ServeRequest, RunBuild, World,
      cacheVars, Lookup, StaleReason, RefreshBehind, ClaimRebuild, StopWaiting, Render,
      BeginBuild, ReadSources, StampBuild, BuildFails, WriteOutside, ToggleStreaming
<1> QED
  BY <1>6 DEF Goal

\* Every step keeps in each entry what was cleared for its profile.
LEMMA EntriesStep ==
    CacheTypeOK /\ BuildsShowWhatWasCleared /\ EntriesShowWhatWasCleared /\ [Next]_vars
    => EntriesShowWhatWasCleared'
<1> SUFFICES ASSUME CacheTypeOK, BuildsShowWhatWasCleared, EntriesShowWhatWasCleared, [Next]_vars,
                    NEW p \in Profiles, cache'[p] # NoEntry
             PROVE  /\ cache'[p].list \in Lists
                    /\ cleared' \cap VisibleIn(p) \subseteq cache'[p].list
  BY DEF EntriesShowWhatWasCleared
<1>1. CASE cache[p] # NoEntry /\ cache'[p].list = cache[p].list
  <2>1. cache[p].list \in Lists /\ cleared \cap VisibleIn(p) \subseteq cache[p].list
    BY <1>1 DEF EntriesShowWhatWasCleared
  <2>2. cleared' \cap VisibleIn(p) = cleared \cap VisibleIn(p)
    <3>1. ASSUME NEW c \in Published, CallListeners(c)
          PROVE  cleared' \cap VisibleIn(p) = cleared \cap VisibleIn(p)
      <4>1. c \notin VisibleIn(p)
        BY <3>1, ClearSteps
      <4> QED
        BY <3>1, <4>1 DEF CallListeners, ClearCache
    <3> QED
      BY <3>1, VersionSteps
  <2> QED
    BY <1>1, <2>1, <2>2
<1>2. CASE \E b \in Builders :
             /\ build[b].pc = "stamped" /\ StillValid(b) /\ ViewOf(b) = p
             /\ cache'[p].list = build[b].list /\ UNCHANGED cleared
  BY <1>2 DEF BuildsShowWhatWasCleared
<1> QED
  BY <1>1, <1>2, EntrySteps

\* A request whose tab a step leaves alone stays sound.
LEMMA OtherRequestsStaySound ==
    ASSUME NEW t \in Tabs, request'[t] = request[t], build'[t] = build[t],
           cleared \subseteq cleared', RequestIsSound(t)
    PROVE  RequestIsSound(t)'
BY DEF RequestIsSound

\* Every step keeps every request sound.
LEMMA RequestsStep == CacheInv /\ EventsInv /\ [Next]_vars => RequestsAreSound'
<1> SUFFICES ASSUME CacheInv, EventsInv, [Next]_vars, NEW t \in Tabs PROVE RequestIsSound(t)'
  BY DEF RequestsAreSound
<1>0. /\ CacheTypeOK /\ request \in [Tabs -> RequestType] /\ build \in [Builders -> BuildType]
      /\ RequestIsSound(t) /\ t \in Builders /\ ViewOf(t) = TabProfile[t]
      /\ TabProfile[t] \in Profiles /\ \A p \in Profiles : p # t
      /\ cleared \subseteq saved /\ cleared \subseteq cleared'
  BY AnnouncedIsSavedStep, SidebarAssumption
  DEF CacheInv, CacheTypeOK, RequestsAreSound, AnnouncedIsSaved, Builders, ViewOf
<1>a. request[t].must \subseteq cleared /\ request[t].must \subseteq VisibleIn(TabProfile[t])
  BY <1>0 DEF RequestIsSound
<1>1. ASSUME request'[t] = request[t], build'[t] = build[t] PROVE RequestIsSound(t)'
  BY <1>0, <1>1, OtherRequestsStaySound
\* A list the request may be answered with.
<1>2. ASSUME NEW list \in Lists \cup {NoList}, Answer(t, list), request[t].must \subseteq list,
             build'[t].pc = "idle"
      PROVE  RequestIsSound(t)'
  <2>1. /\ request'[t].pc = "answered" /\ request'[t].stale = NoList
        /\ request'[t].must = request[t].must /\ request'[t].list = list
    BY <1>0, <1>2, AnsweredRequest
  <2> QED
    BY <1>0, <1>2, <1>a, <2>1 DEF RequestIsSound
\* The request goes on with the stale copy it has.
<1>3. ASSUME request'[t].must = request[t].must, request'[t].stale = request[t].stale,
             request'[t].pc # "answered", request'[t].pc # "reason",
             request'[t].pc = "refresh" => request[t].stale # NoList,
             build'[t].pc \in {"idle", "begin"},
             build'[t].pc = "begin" => request'[t].pc = "build"
      PROVE  RequestIsSound(t)'
  BY <1>0, <1>3, <1>a DEF RequestIsSound
<1>4. request[t].pc # "build" => build[t].pc = "idle"
  BY <1>0 DEF RequestIsSound
<1>5. cache[TabProfile[t]] # NoEntry =>
        /\ cache[TabProfile[t]].list \in Lists
        /\ request[t].must \subseteq cache[TabProfile[t]].list
  BY <1>0, <1>a DEF CacheInv, EntriesShowWhatWasCleared
<1>6. CASE Refresh(t)
  <2>1. build'[t].pc = "idle"
    BY <1>4, <1>6 DEF Refresh, StartRequest
  <2>2. /\ request'[t].pc = "lookup" /\ request'[t].stale = NoList
        /\ request'[t].must = cleared \cap VisibleIn(TabProfile[t])
    <3> DEFINE r == [NoRequest EXCEPT !.pc = "lookup", !.stamp = SourceStamp,
                                      !.must = cleared \cap VisibleIn(TabProfile[t])]
    <3>1. request' = [request EXCEPT ![t] = r]
      BY <1>6 DEF Refresh, StartRequest
    <3>2. /\ r.pc = "lookup" /\ r.stale = NoList
          /\ r.must = cleared \cap VisibleIn(TabProfile[t])
      BY DEF NoRequest
    <3> HIDE DEF r
    <3> QED
      BY <1>0, <3>1, <3>2
  <2>3. cleared' = cleared
    BY <1>6 DEF Refresh, StartRequest
  <2> QED
    BY <2>1, <2>2, <2>3 DEF RequestIsSound
<1>7. CASE Lookup(t)
  <2>1. build'[t].pc = "idle"
    BY <1>4, <1>7 DEF Lookup
  <2>2. CASE cache[TabProfile[t]] # NoEntry /\ Answer(t, cache[TabProfile[t]].list)
    BY <1>2, <1>5, <2>1, <2>2
  <2>3. CASE /\ cache[TabProfile[t]] # NoEntry
             /\ request' = [request EXCEPT ![t].pc = "reason", ![t].stamp = Frozen,
                                           ![t].stale = cache[TabProfile[t]].list]
    <3>1. /\ request'[t].pc = "reason" /\ request'[t].stale = cache[TabProfile[t]].list
          /\ request'[t].must = request[t].must
      BY <1>0, <2>3 DEF RequestType
    <3> QED
      BY <1>0, <1>5, <1>a, <2>1, <2>3, <3>1, NoListAssumption DEF RequestIsSound
  <2>4. CASE request' = [request EXCEPT ![t].pc = "claim", ![t].stamp = Frozen]
    <3>1. /\ request'[t].pc = "claim" /\ request'[t].stale = request[t].stale
          /\ request'[t].must = request[t].must
      BY <1>0, <2>4 DEF RequestType
    <3> QED
      BY <1>3, <2>1, <3>1
  <2> QED
    BY <1>7, <2>2, <2>3, <2>4 DEF Lookup
<1>8. CASE StaleReason(t)
  <2>1. build'[t].pc = "idle"
    BY <1>4, <1>8 DEF StaleReason
  <2>2. /\ request'[t].pc \in {"claim", "refresh"} /\ request'[t].stale = request[t].stale
        /\ request'[t].must = request[t].must
    BY <1>0, <1>8 DEF StaleReason, RequestType
  <2>3. request[t].stale # NoList
    BY <1>0, <1>8 DEF StaleReason, RequestIsSound
  <2> QED
    BY <1>3, <2>1, <2>2, <2>3
<1>9. CASE RefreshBehind(t)
  <2>1. request[t].stale # NoList /\ request[t].must \subseteq request[t].stale
    BY <1>0, <1>9 DEF RefreshBehind, RequestIsSound
  <2>2. build'[t] = build[t]
    <3>1. TabProfile[t] \in Builders /\ TabProfile[t] # t
      BY <1>0 DEF Builders
    <3>2. CASE Begin(TabProfile[t], TRUE)
      <4>1. \A b \in Builders : Begin(b, TRUE) /\ b # t => build'[t] = build[t]
        BY <1>0, BegunBuild
      <4> QED
        BY <3>1, <3>2, <4>1
    <3> QED
      BY <1>9, <3>2 DEF RefreshBehind
  <2>3. build'[t].pc = "idle"
    BY <1>4, <1>9, <2>2 DEF RefreshBehind
  <2>4. Answer(t, request[t].stale) /\ request[t].stale \in Lists \cup {NoList}
    BY <1>0, <1>9 DEF RefreshBehind, RequestType
  <2> QED
    BY <1>2, <2>1, <2>3, <2>4
<1>10. CASE ClaimRebuild(t)
  <2>1. \/ Begin(t, TRUE) /\ request' = [request EXCEPT ![t].pc = "build"]
        \/ UNCHANGED build /\ request' = [request EXCEPT ![t].pc = "wait"]
    BY <1>10 DEF ClaimRebuild
  <2>2. build[t].pc = "idle"
    BY <1>4, <1>10 DEF ClaimRebuild
  <2>3. \/ build'[t].pc = "begin" /\ request'[t].pc = "build"
        \/ build'[t].pc = "idle" /\ request'[t].pc = "wait"
    <3>1. Begin(t, TRUE) => build'[t].pc = "begin"
      BY <1>0, BegunBuild
    <3>2. /\ request' = [request EXCEPT ![t].pc = "build"] => request'[t].pc = "build"
          /\ request' = [request EXCEPT ![t].pc = "wait"] => request'[t].pc = "wait"
      BY <1>0 DEF RequestType
    <3>3. CASE Begin(t, TRUE) /\ request' = [request EXCEPT ![t].pc = "build"]
      BY <3>1, <3>2, <3>3
    <3>4. CASE build' = build /\ request' = [request EXCEPT ![t].pc = "wait"]
      BY <2>2, <3>2, <3>4
    <3> QED
      BY <2>1, <3>3, <3>4
  <2>4. request'[t].stale = request[t].stale /\ request'[t].must = request[t].must
    BY <1>0, <2>1 DEF RequestType
  <2> QED
    BY <1>3, <2>3, <2>4
<1>11. CASE StopWaiting(t)
  <2>1. build'[t].pc = "idle"
    BY <1>4, <1>11 DEF StopWaiting
  <2>2. /\ request'[t].pc = "again" /\ request'[t].stale = request[t].stale
        /\ request'[t].must = request[t].must
    BY <1>0, <1>11 DEF StopWaiting, RequestType
  <2> QED
    BY <1>3, <2>1, <2>2
<1>12. CASE LookupAgain(t)
  <2>1. build[t].pc = "idle"
    BY <1>4, <1>12 DEF LookupAgain
  <2>2. CASE /\ cache[TabProfile[t]] # NoEntry /\ Answer(t, cache[TabProfile[t]].list)
             /\ UNCHANGED build
    BY <1>2, <1>5, <2>1, <2>2
  <2>3. CASE request[t].stale # NoList /\ Answer(t, request[t].stale) /\ UNCHANGED build
    <3>1. request[t].must \subseteq request[t].stale /\ request[t].stale \in Lists \cup {NoList}
      BY <1>0, <2>3 DEF RequestIsSound, RequestType
    <3> QED
      BY <1>2, <2>1, <2>3, <3>1
  <2>4. CASE /\ request' = [request EXCEPT ![t].pc = "build", ![t].stamp = Frozen]
             /\ Begin(t, FALSE)
    <3>1. build'[t].pc = "begin"
      BY <1>0, <2>4, BegunBuild
    <3>2. /\ request'[t].pc = "build" /\ request'[t].stale = request[t].stale
          /\ request'[t].must = request[t].must
      BY <1>0, <2>4 DEF RequestType
    <3> QED
      BY <1>3, <3>1, <3>2
  <2> QED
    BY <1>12, <2>2, <2>3, <2>4 DEF LookupAgain
<1>13. CASE Render(t)
  <2>1. build'[t].pc = "idle"
    BY <1>4, <1>13 DEF Render
  <2>2. request'[t] = NoRequest
    BY <1>0, <1>13 DEF Render
  <2> QED
    BY <2>1, <2>2 DEF RequestIsSound, NoRequest
<1>14. ASSUME Finish(t), build[t].pc \in {"built", "stamped"} PROVE RequestIsSound(t)'
  <2>1. Answer(t, build[t].list) /\ build[t].list \in Lists \cup {NoList}
    BY <1>0, <1>14 DEF Finish, BuildType
  <2>2. build'[t].pc = "idle"
    BY <1>0, <1>14, FinishedBuild
  <2>3. request[t].must \subseteq build[t].list
    BY <1>0, <1>14 DEF RequestIsSound
  <2> QED
    BY <1>2, <2>1, <2>2, <2>3
<1>15. ASSUME Invalidated(t), build[t].pc \in {"built", "stamped"} PROVE RequestIsSound(t)'
  <2>1. CASE Finish(t)
    BY <1>14, <1>15, <2>1
  <2>2. CASE build'[t].pc = "begin" /\ UNCHANGED request
    <3>1. request[t].pc = "build"
      BY <1>0, <1>15 DEF RequestIsSound
    <3> QED
      BY <1>3, <2>2, <3>1
  <2> QED
    BY <1>0, <1>15, <2>1, <2>2, InvalidatedBuild
<1>16. CASE RunBuild(t)
  <2>1. CASE BeginBuild(t)
    <3>1. build'[t].pc = "read" /\ build[t].pc = "begin"
      BY <1>0, <2>1 DEF BeginBuild, BuildType
    <3>2. UNCHANGED <<request, cleared>>
      BY <2>1 DEF BeginBuild
    <3> QED
      BY <1>0, <3>1, <3>2 DEF RequestIsSound
  <2>2. CASE ReadSources(t)
    <3>1. /\ build'[t].pc = "built" /\ build[t].pc = "read"
          /\ build'[t].list = saved \cap VisibleIn(TabProfile[t])
      BY <1>0, <2>2 DEF ReadSources, BuildType
    <3>2. UNCHANGED <<request, cleared>>
      BY <2>2 DEF ReadSources
    <3>3. request[t].must \subseteq build'[t].list
      BY <1>0, <1>a, <3>1
    <3> QED
      BY <1>0, <3>1, <3>2, <3>3 DEF RequestIsSound
  <2>3. CASE StampBuild(t)
    <3>1. CASE Invalidated(t)
      BY <1>15, <2>3, <3>1 DEF StampBuild
    <3>2. CASE ~Invalidated(t)
      <4>1. /\ build'[t].pc = "stamped" /\ build[t].pc = "built"
            /\ build'[t].list = build[t].list /\ UNCHANGED <<request, cleared>>
        BY <1>0, <2>3, <3>2 DEF StampBuild, BuildType
      <4> QED
        BY <1>0, <4>1 DEF RequestIsSound
    <3> QED
      BY <3>1, <3>2
  <2>4. CASE InsertBuild(t)
    BY <1>14, <1>15, <2>4 DEF InsertBuild
  <2>5. CASE BuildFails(t)
    <3>1. NoBuild.pc = "idle"
      BY DEF NoBuild
    <3>2. request'[t] = NoRequest /\ build'[t] = NoBuild
      BY <1>0, <2>5 DEF BuildFails, FailedRequest
    <3> QED
      BY <3>1, <3>2 DEF RequestIsSound, NoRequest
  <2> QED
    BY <1>16, <2>1, <2>2, <2>3, <2>4, <2>5 DEF RunBuild
\* What others do leaves the request and the build of this tab alone.
<1>17. ASSUME NEW b \in Builders, b # t, Finish(b) \/ Invalidated(b) PROVE RequestIsSound(t)'
  <2>1. build'[t] = build[t]
    BY <1>0, <1>17, FinishedBuild, InvalidatedBuild
  <2>2. request'[t] = request[t]
    <3>1. CASE Finish(b)
      <4>1. build[b].list \in Lists \cup {NoList}
        BY <1>0 DEF BuildType
      <4>2. CASE b \in Tabs /\ Answer(b, build[b].list)
        <5>1. \A u \in Tabs \ {b} : request'[u] = request[u]
          BY <1>0, <4>1, <4>2, AnsweredRequest
        <5> QED
          BY <1>17, <5>1
      <4> QED
        BY <3>1, <4>2 DEF Finish
    <3> QED
      BY <1>0, <1>17, <3>1, InvalidatedBuild
  <2> QED
    BY <1>1, <2>1, <2>2
<1>18. ASSUME NEW b \in Builders, b # t, RunBuild(b) PROVE RequestIsSound(t)'
  <2>1. CASE BeginBuild(b) \/ ReadSources(b)
    <3>1. UNCHANGED request /\ build'[t] = build[t]
      BY <1>0, <1>18, <2>1 DEF BeginBuild, ReadSources
    <3> QED
      BY <1>1, <3>1
  <2>2. CASE StampBuild(b) /\ ~Invalidated(b)
    <3>1. UNCHANGED request /\ build'[t] = build[t]
      BY <1>0, <1>18, <2>2 DEF StampBuild
    <3> QED
      BY <1>1, <3>1
  <2>3. CASE BuildFails(b)
    <3>1. request'[t] = request[t] /\ build'[t] = build[t]
      BY <1>0, <1>18, <2>3 DEF BuildFails, FailedRequest
    <3> QED
      BY <1>1, <3>1
  <2> QED
    BY <1>17, <1>18, <2>1, <2>2, <2>3 DEF RunBuild, StampBuild, InsertBuild
<1>19. ASSUME NEW u \in Tabs, u # t, Refresh(u) \/ ServeRequest(u) PROVE RequestIsSound(t)'
  <2>0. u \in Builders /\ TabProfile[u] \in Builders /\ TabProfile[u] # t
    BY <1>0, SidebarAssumption DEF Builders
  <2>1. build'[t] = build[t]
    <3>1. \/ UNCHANGED build
          \/ \E b \in {u, TabProfile[u]}, owner \in BOOLEAN : Begin(b, owner)
      BY <1>19 DEF Refresh, StartRequest, ServeRequest, Lookup, StaleReason, RefreshBehind,
                   ClaimRebuild, StopWaiting, LookupAgain, Render
    <3> QED
      BY <1>0, <1>19, <2>0, <3>1, BegunBuild
  <2>2. request'[t] = request[t]
    <3>1. ASSUME NEW list, Answer(u, list) PROVE request'[t] = request[t]
      BY <1>0, <1>19, <3>1 DEF Answer
    <3>2. CASE Refresh(u) \/ StaleReason(u) \/ ClaimRebuild(u) \/ StopWaiting(u) \/ Render(u)
      BY <1>0, <1>19, <3>2 DEF Refresh, StartRequest, StaleReason, ClaimRebuild, StopWaiting,
                               Render
    <3>3. CASE Lookup(u)
      BY <1>0, <1>19, <3>1, <3>3 DEF Lookup
    <3>4. CASE RefreshBehind(u)
      BY <3>1, <3>4 DEF RefreshBehind
    <3>5. CASE LookupAgain(u)
      BY <1>0, <1>19, <3>1, <3>5 DEF LookupAgain
    <3> QED
      BY <1>19, <3>2, <3>3, <3>4, <3>5 DEF ServeRequest
  <2> QED
    BY <1>1, <2>1, <2>2
<1>20. ASSUME UNCHANGED <<request, build>> PROVE RequestIsSound(t)'
  BY <1>1, <1>20
<1>21. ASSUME NEW c \in Published, Publisher(c) PROVE RequestIsSound(t)'
  BY <1>20, <1>21 DEF Publisher, Save, CallListeners, ClearCache, cacheVars
<1>22. ASSUME World PROVE RequestIsSound(t)'
  BY <1>20, <1>22 DEF World, WriteOutside, ToggleStreaming, GrowOlder
<1>23. ASSUME UNCHANGED cacheVars PROVE RequestIsSound(t)'
  BY <1>20, <1>23 DEF cacheVars
<1>24. ASSUME ServeRequest(t) PROVE RequestIsSound(t)'
  BY <1>7, <1>8, <1>9, <1>10, <1>11, <1>12, <1>13, <1>24 DEF ServeRequest
<1> QED
  BY <1>6, <1>16, <1>18, <1>19, <1>21, <1>22, <1>23, <1>24 DEF Next, Listener, vars

(***************************************************************************)
(* The cache is sound in every reachable state.                            *)
(***************************************************************************)
\* The initial states are sound.
LEMMA CacheHolds == Init => CacheInv
<1> SUFFICES ASSUME Init PROVE CacheInv
  OBVIOUS
<1>1. CacheTypeOK
  <2>1. CacheInit /\ saved \subseteq Changes /\ cleared \subseteq Published
    BY DEF Init, CacheInit
  <2>2. PICK b \in Budgets : due = b.changes /\ opens = b.opens /\ requests = b.requests
                              /\ toggles = b.toggles /\ failures = b.failures
    BY DEF Init
  <2>3. /\ due \subseteq Changes
        /\ requests \in Nat /\ toggles \in Nat /\ failures \in Nat
    BY <2>2, BudgetsAssumption
  <2> QED
    BY <2>1, <2>3, EmptyRecords DEF CacheInit, CacheTypeOK
<1>2. /\ publisher = [c \in Published |->
                       [pc |-> "idle", todo |-> {}, at |-> NoTab, pending |-> NoEvent]]
      /\ saved = {} /\ cleared = {} /\ cache = [p \in Profiles |-> NoEntry]
      /\ request = [t \in Tabs |-> NoRequest] /\ build = [b \in Builders |-> NoBuild]
  BY DEF Init, CacheInit, EventsInit
<1>3. AnnouncedIsSaved
  BY <1>2 DEF AnnouncedIsSaved
<1>4. \A b \in Builders : build[b].pc = "idle"
  BY <1>2 DEF NoBuild
<1>5. StampsAreNotAhead /\ BuildsShowWhatWasCleared
  BY <1>4 DEF StampsAreNotAhead, BuildsShowWhatWasCleared, Running
<1>6. EntriesShowWhatWasCleared
  BY <1>2 DEF EntriesShowWhatWasCleared
<1>7. ASSUME NEW t \in Tabs PROVE RequestIsSound(t)
  <2>1. build[t].pc = "idle"
    BY <1>4 DEF Builders
  <2>2. request[t] = NoRequest
    BY <1>2
  <2> QED
    BY <2>1, <2>2 DEF RequestIsSound, NoRequest
<1> QED
  BY <1>1, <1>3, <1>5, <1>6, <1>7 DEF CacheInv, RequestsAreSound

\* Every step keeps the cache sound.
LEMMA CacheInvStep == CacheInv /\ EventsInv /\ [Next]_vars => CacheInv'
BY CacheTypeStep, AnnouncedIsSavedStep, BuildsStep, EntriesStep, RequestsStep DEF CacheInv

\* Every clear is seen by the builds, the entries and the requests it concerns,
\* in every behaviour.
THEOREM CacheIsSound == Spec => []CacheInv
<1>1. Init => CacheInv
  BY CacheHolds
<1>2. EventsInv /\ CacheInv /\ [Next]_vars => CacheInv'
  BY CacheInvStep
<1> QED
  BY <1>1, <1>2, EventsAreKept, PTL DEF Spec

\* The type invariant of the composed module.
THEOREM TypesAreKept == Spec => []TypeOK
<1>1. EventsInv /\ CacheInv => TypeOK
  BY DEF EventsInv, CacheInv, TypeOK
<1> QED
  BY <1>1, EventsAreKept, CacheIsSound, PTL

\* No build puts back what an invalidation removed.
THEOREM NothingStaleIsCached == Spec => []NoStaleEntry
<1>1. CacheInv => NoStaleEntry
  BY DEF CacheInv, EntriesShowWhatWasCleared, NoStaleEntry
<1> QED
  BY <1>1, CacheIsSound, PTL

\* A list shows what was announced before it was asked for, however it was got.
THEOREM AnswersAreFresh == Spec => []ListsAreFresh
<1>1. CacheInv => ListsAreFresh
  BY DEF CacheInv, RequestsAreSound, RequestIsSound, ListsAreFresh
<1> QED
  BY <1>1, CacheIsSound, PTL


(***************************************************************************)
(* Claims.  A step leaves them alone, adds one for a list nobody rebuilds, *)
(* or ends one together with its build.                                    *)
(***************************************************************************)
Claims(b) == build[b].pc # "idle" /\ build[b].owner

ClaimsAreHeld ==
    /\ \A b \in Builders : Claims(b) => ViewOf(b) \in inflight
    /\ \A b, d \in Builders : Claims(b) /\ Claims(d) /\ ViewOf(b) = ViewOf(d) => b = d
    /\ \A p \in inflight : \E b \in Builders : Claims(b) /\ ViewOf(b) = p

ClaimsStay == inflight' = inflight /\ \A b \in Builders : Claims(b)' = Claims(b)

ClaimMade(b) ==
    /\ ViewOf(b) \notin inflight /\ inflight' = inflight \cup {ViewOf(b)}
    /\ Claims(b)' /\ \A d \in Builders \ {b} : Claims(d)' = Claims(d)

ClaimReleased(b) ==
    /\ Claims(b) /\ inflight' = inflight \ {ViewOf(b)}
    /\ ~Claims(b)' /\ \A d \in Builders \ {b} : Claims(d)' = Claims(d)

\* Each of these keeps one claim per list under way.
LEMMA ClaimsAreHeldStep ==
    ASSUME ClaimsAreHeld,
           ClaimsStay \/ \E b \in Builders : ClaimMade(b) \/ ClaimReleased(b)
    PROVE  ClaimsAreHeld'
<1> DEFINE Held(c, i) ==
      /\ \A b \in Builders : c[b] => ViewOf(b) \in i
      /\ \A b, d \in Builders : c[b] /\ c[d] /\ ViewOf(b) = ViewOf(d) => b = d
      /\ \A p \in i : \E b \in Builders : c[b] /\ ViewOf(b) = p
<1> DEFINE before == [b \in Builders |-> Claims(b)]
           after == [b \in Builders |-> Claims(b)']
<1>1. Held(before, inflight)
  BY DEF ClaimsAreHeld
<1>2. Held(after, inflight') => ClaimsAreHeld'
  BY DEF ClaimsAreHeld, Builders, ViewOf
<1>3. CASE ClaimsStay
  <2>1. after = before /\ inflight' = inflight
    BY <1>3 DEF ClaimsStay
  <2> HIDE DEF before, after
  <2> QED
    BY <1>1, <1>2, <2>1
<1>4. ASSUME NEW b \in Builders, ClaimMade(b) PROVE ClaimsAreHeld'
  <2>1. /\ ViewOf(b) \notin inflight /\ inflight' = inflight \cup {ViewOf(b)} /\ after[b]
        /\ \A d \in Builders \ {b} : after[d] = before[d]
    BY <1>4 DEF ClaimMade
  <2> HIDE DEF before, after
  <2>2. Held(after, inflight')
    BY <1>1, <2>1
  <2> QED
    BY <1>2, <2>2
<1>5. ASSUME NEW b \in Builders, ClaimReleased(b) PROVE ClaimsAreHeld'
  <2>1. /\ before[b] /\ inflight' = inflight \ {ViewOf(b)} /\ ~after[b]
        /\ \A d \in Builders \ {b} : after[d] = before[d]
    BY <1>5 DEF ClaimReleased
  <2> HIDE DEF before, after
  <2>2. Held(after, inflight')
    BY <1>1, <2>1
  <2> QED
    BY <1>2, <2>2
<1> QED
  BY <1>3, <1>4, <1>5

\* Beginnings and ends of builds are the steps that make and release claims.
LEMMA ClaimSteps ==
    CacheInv /\ [Next]_vars
    => ClaimsStay \/ \E b \in Builders : ClaimMade(b) \/ ClaimReleased(b)
<1> DEFINE Goal == ClaimsStay \/ \E b \in Builders : ClaimMade(b) \/ ClaimReleased(b)
<1> SUFFICES ASSUME CacheInv, [Next]_vars PROVE Goal
  OBVIOUS
<1>0. CacheTypeOK /\ build \in [Builders -> BuildType] /\ RequestsAreSound
  BY DEF CacheInv, CacheTypeOK
<1>1. ASSUME UNCHANGED <<build, inflight>> PROVE Goal
  BY <1>1 DEF ClaimsStay, Claims
\* A build that goes on keeps what it has.
<1>2. ASSUME NEW b \in Builders, inflight' = inflight,
             \A d \in Builders \ {b} : build'[d] = build[d], Claims(b)' = Claims(b)
      PROVE  Goal
  <2>1. \A d \in Builders \ {b} : Claims(d)' = Claims(d)
    BY <1>2 DEF Claims
  <2> QED
    BY <1>2, <2>1 DEF ClaimsStay
<1>3. ASSUME NEW b \in Builders, build'[b].pc = "idle", build[b].pc # "idle",
             inflight' = ReleaseClaim(b), \A d \in Builders \ {b} : build'[d] = build[d]
      PROVE  Goal
  <2>1. ~Claims(b)'
    BY <1>3 DEF Claims
  <2>2. \A d \in Builders \ {b} : Claims(d)' = Claims(d)
    BY <1>3 DEF Claims
  <2>3. CASE build[b].owner
    <3>1. ClaimReleased(b)
      BY <1>3, <2>1, <2>2, <2>3 DEF ClaimReleased, ReleaseClaim, Claims
    <3> QED
      BY <3>1
  <2>4. CASE ~build[b].owner
    <3>1. Claims(b)' = Claims(b) /\ inflight' = inflight
      BY <1>3, <2>1, <2>4 DEF ReleaseClaim, Claims
    <3> QED
      BY <1>2, <1>3, <3>1
  <2> QED
    BY <2>3, <2>4
<1>4. ASSUME NEW b \in Builders, ViewOf(b) \notin inflight,
             inflight' = inflight \cup {ViewOf(b)}, Begin(b, TRUE)
      PROVE  Goal
  <2>1. /\ build'[b].pc = "begin" /\ build'[b].owner = TRUE
        /\ \A d \in Builders \ {b} : build'[d] = build[d]
    BY <1>0, <1>4, BegunBuild
  <2>2. Claims(b)'
    BY <2>1 DEF Claims
  <2>3. \A d \in Builders \ {b} : Claims(d)' = Claims(d)
    BY <2>1 DEF Claims
  <2> QED
    BY <1>4, <2>2, <2>3 DEF ClaimMade
<1>5. ASSUME NEW t \in Tabs, ServeRequest(t) PROVE Goal
  <2>0. t \in Builders /\ TabProfile[t] \in Builders /\ TabProfile[t] \in Profiles
    BY SidebarAssumption DEF Builders
  <2>1. CASE RefreshBehind(t)
    <3>1. \/ /\ TabProfile[t] \notin inflight /\ Begin(TabProfile[t], TRUE)
             /\ inflight' = inflight \cup {TabProfile[t]}
          \/ UNCHANGED <<build, inflight>>
      BY <2>1 DEF RefreshBehind
    <3>2. ViewOf(TabProfile[t]) = TabProfile[t]
      BY <2>0, ViewsAreProfiles
    <3> HIDE DEF Goal
    <3> QED
      BY <1>1, <1>4, <2>0, <3>1, <3>2
  <2>2. CASE ClaimRebuild(t)
    <3>1. \/ /\ TabProfile[t] \notin inflight /\ Begin(t, TRUE)
             /\ inflight' = inflight \cup {TabProfile[t]}
          \/ UNCHANGED <<build, inflight>>
      BY <2>2 DEF ClaimRebuild
    <3>2. ViewOf(t) = TabProfile[t]
      BY ViewsAreProfiles
    <3> HIDE DEF Goal
    <3> QED
      BY <1>1, <1>4, <2>0, <3>1, <3>2
  <2>3. CASE LookupAgain(t)
    <3>1. inflight' = inflight /\ (UNCHANGED build \/ Begin(t, FALSE))
      BY <2>3 DEF LookupAgain
    <3>2. CASE Begin(t, FALSE)
      <4>1. build[t].pc = "idle"
        BY <1>0, <2>3 DEF RequestsAreSound, RequestIsSound, LookupAgain
      <4>2. build'[t].owner = FALSE /\ \A d \in Builders \ {t} : build'[d] = build[d]
        BY <1>0, <2>0, <3>2, BegunBuild
      <4>3. Claims(t)' = Claims(t)
        BY <4>1, <4>2 DEF Claims
      <4> QED
        BY <1>2, <2>0, <3>1, <4>2, <4>3
    <3> HIDE DEF Goal
    <3> QED
      BY <1>1, <3>1, <3>2 DEF Goal
  <2> QED
    BY <1>1, <1>5, <2>1, <2>2, <2>3
    DEF ServeRequest, Lookup, StaleReason, StopWaiting, Render
<1>6. ASSUME NEW b \in Builders, RunBuild(b) PROVE Goal
  <2>1. ASSUME Finish(b), build[b].pc # "idle" PROVE Goal
    <3>1. /\ build'[b].pc = "idle" /\ inflight' = ReleaseClaim(b)
          /\ \A d \in Builders \ {b} : build'[d] = build[d]
      BY <1>0, <2>1, FinishedBuild
    <3> HIDE DEF Goal
    <3> QED
      BY <1>3, <2>1, <3>1
  <2>2. ASSUME Invalidated(b), build[b].pc # "idle" PROVE Goal
    <3>1. CASE /\ build[b].owner /\ build'[b].pc = "begin" /\ build'[b].owner
               /\ \A d \in Builders \ {b} : build'[d] = build[d]
               /\ UNCHANGED <<inflight, request>>
      <4>1. Claims(b)' = Claims(b)
        BY <2>2, <3>1 DEF Claims
      <4> QED
        BY <1>2, <3>1, <4>1
    <3> HIDE DEF Goal
    <3> QED
      BY <1>0, <2>1, <2>2, <3>1, InvalidatedBuild DEF Goal
  <2>3. CASE BuildFails(b)
    <3>1. NoBuild.pc = "idle"
      BY DEF NoBuild
    <3>2. /\ build'[b].pc = "idle" /\ build[b].pc = "read" /\ inflight' = ReleaseClaim(b)
          /\ \A d \in Builders \ {b} : build'[d] = build[d]
      BY <1>0, <2>3, <3>1 DEF BuildFails
    <3> HIDE DEF Goal
    <3> QED
      BY <1>3, <3>2 DEF Goal
  <2>4. CASE BeginBuild(b) \/ ReadSources(b) \/ (StampBuild(b) /\ ~Invalidated(b))
    <3>1. /\ build[b].pc # "idle" /\ build'[b].pc # "idle"
          /\ build'[b].owner = build[b].owner /\ inflight' = inflight
          /\ \A d \in Builders \ {b} : build'[d] = build[d]
      BY <1>0, <2>4 DEF BeginBuild, ReadSources, StampBuild, BuildType
    <3>2. Claims(b)' = Claims(b)
      BY <3>1 DEF Claims
    <3> HIDE DEF Goal
    <3> QED
      BY <1>2, <3>1, <3>2 DEF Goal
  <2> HIDE DEF Goal
  <2>5. StampBuild(b) \/ InsertBuild(b) => build[b].pc # "idle"
    BY DEF StampBuild, InsertBuild
  <2>6. InsertBuild(b) => Finish(b) \/ Invalidated(b)
    BY DEF InsertBuild
  <2> QED
    BY <1>6, <2>1, <2>2, <2>3, <2>4, <2>5, <2>6 DEF RunBuild, Goal
<1>7. ASSUME World PROVE Goal
  BY <1>1, <1>7 DEF World, WriteOutside, ToggleStreaming, GrowOlder
<1>8. ASSUME NEW c \in Published, Publisher(c) PROVE Goal
  BY <1>1, <1>8 DEF Publisher, Save, CallListeners, ClearCache, cacheVars
<1>9. ASSUME NEW t \in Tabs, Listener(t) \/ Refresh(t) PROVE Goal
  BY <1>1, <1>9 DEF Listener, Refresh, StartRequest, cacheVars
<1>10. ASSUME UNCHANGED vars PROVE Goal
  BY <1>1, <1>10 DEF vars, cacheVars
<1> HIDE DEF Goal
<1> QED
  BY <1>5, <1>6, <1>7, <1>8, <1>9, <1>10 DEF Next

\* A claim is one build that is under way, and no claim outlives its build.
THEOREM ClaimsAreSingle == Spec => []SingleFlight
<1>1. Init => ClaimsAreHeld
  <2> SUFFICES ASSUME Init PROVE ClaimsAreHeld
    OBVIOUS
  <2>1. inflight = {} /\ \A b \in Builders : build[b].pc = "idle"
    BY DEF Init, CacheInit, NoBuild
  <2> QED
    BY <2>1 DEF ClaimsAreHeld, Claims
<1>2. CacheInv /\ ClaimsAreHeld /\ [Next]_vars => ClaimsAreHeld'
  BY ClaimSteps, ClaimsAreHeldStep
<1>3. ClaimsAreHeld => SingleFlight
  <2> SUFFICES ASSUME ClaimsAreHeld, NEW p \in Profiles
               PROVE  Cardinality(ClaimedBuilds(p)) = IF p \in inflight THEN 1 ELSE 0
    BY DEF SingleFlight
  <2>1. CASE p \in inflight
    <3>1. PICK b \in Builders : Claims(b) /\ ViewOf(b) = p
      BY <2>1 DEF ClaimsAreHeld
    <3>2. ClaimedBuilds(p) = {b}
      BY <3>1 DEF ClaimsAreHeld, ClaimedBuilds, Claims
    <3> QED
      BY <2>1, <3>2, FS_Singleton
  <2>2. CASE p \notin inflight
    <3>1. ClaimedBuilds(p) = {}
      BY <2>2 DEF ClaimsAreHeld, ClaimedBuilds, Claims
    <3> QED
      BY <2>2, <3>1, FS_EmptySet
  <2> QED
    BY <2>1, <2>2
<1> QED
  BY <1>1, <1>2, <1>3, CacheIsSound, PTL DEF Spec

=============================================================================
