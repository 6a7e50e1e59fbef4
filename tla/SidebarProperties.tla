------------------------- MODULE SidebarProperties --------------------------
(***************************************************************************)
(* What a user who looks at the sidebar may rely on.                       *)
(***************************************************************************)
EXTENDS Sidebar

RequestPCs == {"idle", "lookup", "reason", "refresh", "claim", "wait", "again", "build", "answered"}

RequestType == [pc : RequestPCs, stamp : Stamps, stale : Lists \cup {NoList}, must : Lists,
            list : Lists \cup {NoList}]

BuildPCs == {"idle", "begin", "read", "built", "stamped"}

BuildType == [pc : BuildPCs, owner : BOOLEAN,
              attempts : 0..(MaxAttempts - 1),
              inval : Nat \X Nat, list : Lists \cup {NoList}, stamp : Stamps]

EntryType == [list : Lists \cup {NoList}, stamp : Stamps, age : Ages]

EventsTypeOK ==
    /\ publisher \in [Published -> Notifier]
    /\ subscribers \subseteq Tabs
    /\ slot \in [Tabs -> Event \cup {NoEvent}]
    /\ stream \in [Tabs -> {"closed", "opening", "open"}]
    /\ catchUp \subseteq Tabs /\ wanting \subseteq Tabs /\ dropped \subseteq Tabs
    /\ owed \in [Tabs -> SUBSET Published]
    /\ opens \in [Tabs -> Nat]

CacheTypeOK ==
    /\ saved \subseteq Changes /\ cleared \subseteq Published
    /\ streaming \in BOOLEAN
    /\ cache \in [Profiles -> EntryType]
    /\ invalidation \in [global : Nat, profile : [Profiles -> Nat]]
    /\ inflight \subseteq Profiles
    /\ request \in [Tabs -> RequestType]
    /\ build \in [Builders -> BuildType]
    /\ due \subseteq Changes
    /\ requests \in Nat /\ toggles \in Nat /\ failures \in Nat

\* The type invariant.
TypeOK == EventsTypeOK /\ CacheTypeOK

(***************************************************************************)
(* A tab that was sent a change has an event in its queue that makes it    *)
(* refresh, or a publisher still has one for it, whatever publishers and   *)
(* tabs do to the queue in between.  The one exception: two publishers     *)
(* meet at its queue and the event that stays is for another profile.      *)
(***************************************************************************)
StillToTell(c, t) ==
    \/ t \in publisher[c].todo /\ ActsOn(t, Payload(c))
    \/ publisher[c].at = t /\ publisher[c].pc = "full" /\ ActsOn(t, Payload(c))
    \/ publisher[c].at = t /\ publisher[c].pc = "merging" /\ ActsOn(t, MergedEvent(c))

NoRefreshIsLost ==
    \A t \in Tabs : owed[t] # {} =>
        \/ slot[t] # NoEvent /\ ActsOn(t, slot[t])
        \/ \E c \in Published : StillToTell(c, t)
        \/ t \in dropped

(***************************************************************************)
(* Nothing older than an invalidation stays in the cache: a build that was *)
(* under way when the cache was cleared does not put back what the clear   *)
(* removed, even while a turn streams and the source stamps are frozen.    *)
(***************************************************************************)
NoStaleEntry ==
    \A p \in Profiles : cache[p] # NoEntry => cleared \cap VisibleIn(p) \subseteq cache[p].list

(***************************************************************************)
(* A list that is answered shows every change that was announced, with its *)
(* listeners, before the request came in: by the cache, by a stale copy,   *)
(* by waiting for another request's build, or by a build of its own.       *)
(***************************************************************************)
ListsAreFresh ==
    \A t \in Tabs : request[t].pc = "answered" => request[t].must \subseteq request[t].list

(***************************************************************************)
(* A claim on a rebuild belongs to one build that is under way: no two     *)
(* claimed builds of a list overlap, and no claim outlives its build, on   *)
(* failures too (it would keep every later request waiting).               *)
(***************************************************************************)
ClaimedBuilds(p) == {b \in Builders : ViewOf(b) = p /\ build[b].pc # "idle" /\ build[b].owner}

SingleFlight ==
    \A p \in Profiles : Cardinality(ClaimedBuilds(p)) = IF p \in inflight THEN 1 ELSE 0

-----------------------------------------------------------------------------
(***************************************************************************)
(* Fairness.  Publishers, request handlers and builds are threads that run *)
(* on; an open stream's handler blocks on its queue.  Nothing is assumed   *)
(* of users, of other programs, or of a stream that a tab has closed.      *)
(***************************************************************************)
Fairness ==
    /\ \A c \in Published : WF_vars(Publisher(c) /\ publisher[c].pc # "idle")
    /\ \A t \in Tabs : WF_vars(TakeEvent(t) /\ UNCHANGED cacheVars) /\ WF_vars(ServeRequest(t))
    /\ \A b \in Builders : WF_vars(RunBuild(b))

FairSpec == Spec /\ Fairness

(***************************************************************************)
(* A tab that was sent a change acts on it, closes its stream, or was      *)
(* the victim of the exception of NoRefreshIsLost.                         *)
(***************************************************************************)
EventsArrive == \A t \in Tabs : owed[t] # {} ~> (owed[t] = {} \/ t \in dropped)

(***************************************************************************)
(* Every request comes to its end, whoever it waits for and however often  *)
(* its build is invalidated.                                               *)
(***************************************************************************)
RequestsEnd == \A t \in Tabs : request[t].pc # "idle" ~> request[t].pc = "idle"
=============================================================================
