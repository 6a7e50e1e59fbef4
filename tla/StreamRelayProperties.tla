----------------------- MODULE StreamRelayProperties -----------------------
(***************************************************************************)
(* What a tab that follows a run may rely on.                              *)
(***************************************************************************)
EXTENDS StreamRelay

Events == 1..MaxEvents

Items == Events \cup {StopEvent}

ProducerType ==
    [pc : {"idle", "journaled", "read", "note", "put", "broadcast", "full", "gone", "dead"},
     item : Items \cup {0}, noted : Events \cup {0}, todo : SUBSET Tabs, at : SUBSET Tabs]

TabType ==
    [pc : {"away", "asking", "ended", "replay", "drain", "reading", "restoring", "over"},
     cursor : Events \cup {0}, first : Events \cup {0}, last : Events \cup {0},
     evicted : Nat, fresh : BOOLEAN, replay : SUBSET Events, bound : Events \cup {0}]

\* The type invariant; the buffer and the queues keep their bound.
TypeOK ==
    /\ produced \in 0..MaxEvents /\ final \in 0..MaxEvents /\ latest \in 0..MaxEvents
    /\ journal \subseteq Events /\ unwritten \subseteq Events
    /\ attached \in BOOLEAN /\ stopped \in BOOLEAN
    /\ lastEventId \in 0..MaxEvents /\ evicted \in Nat /\ ghosts \in Nat
    /\ buffer \in Seq(Items) /\ Len(buffer) <= Cap
    /\ subscribers \subseteq Tabs
    /\ queue \in [Tabs -> Seq(Items)] /\ \A t \in Tabs : Len(queue[t]) <= Cap
    /\ producer \in [{"worker", "stop"} -> ProducerType]
    /\ tab \in [Tabs -> TabType]
    /\ shown \in [Tabs -> Seq(Events)]
    /\ dropped \in [Tabs -> SUBSET Items] /\ missed \in [Tabs -> SUBSET Items]
    /\ misled \subseteq Tabs
    /\ due \in Budget

(***************************************************************************)
(* The relay implements StreamDelivery: a tab sees the journal in order,   *)
(* each event once, through every reconnection, and is not told that the   *)
(* run is over before it has seen all of it; it is told to restore the     *)
(* session only if the run was stopped, the server died or an event was    *)
(* not written.  Its view lapses only if an event it has not seen was      *)
(* dropped from its full queue, or was broadcast to others before its      *)
(* first visit, and it showed a later one; or if it subscribed to a channel *)
(* whose last event id Stop had set back.                                  *)
(***************************************************************************)
Exact(t) == missed[t] \cap journal = {} /\ t \notin misled

Troubles ==
    (IF stopped THEN {"stop"} ELSE {}) \cup (IF producer["stop"].pc = "dead" THEN {"death"} ELSE {})
        \cup (IF unwritten # {} THEN {"failed write"} ELSE {})

Delivery == INSTANCE StreamDelivery WITH
    log <- journal,
    closed <- final # 0,
    trouble <- Troubles,
    exact <- [t \in Tabs |-> Exact(t)],
    view <- [t \in Tabs |-> IF Exact(t) THEN shown[t] ELSE <<>>],
    phase <- [t \in Tabs |->
                IF tab[t].pc \in {"over", "restoring"} THEN tab[t].pc ELSE "following"]

ImplementsDelivery == Delivery!Spec
-----------------------------------------------------------------------------
(***************************************************************************)
(* Fairness.  The threads run on: the worker comes to its end, Stop puts   *)
(* its event, and the handler and the client of a connected tab go on.     *)
(* Nothing is assumed of users and of connections.                         *)
(***************************************************************************)
Fairness ==
    /\ WF_vars(Worker)
    /\ WF_vars(Put("stop"))
    /\ \A t \in Tabs : WF_vars(Serve(t))

FairSpec == Spec /\ Fairness

(***************************************************************************)
(* A tab that is connected comes to the end of the run: it sees it, is     *)
(* told to restore the session, or loses its connection, however full the  *)
(* queues are.  The exceptions: the last event of the run was not written, *)
(* or was broadcast before the tab's first visit, or before one that found *)
(* the last event id set back.                                             *)
(***************************************************************************)
Connected(t) == tab[t].pc \in {"asking", "ended", "replay", "drain", "reading"}

Excused(t) == final \in unwritten \cup dropped[t] \/ t \in misled

TabsFinish == \A t \in Tabs : Connected(t) ~> (~Connected(t) \/ Excused(t))
=============================================================================
