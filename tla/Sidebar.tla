------------------------------ MODULE Sidebar -------------------------------
(***************************************************************************)
(* The sidebar: changes, the events that announce them and the cached list *)
(* composed.  A mutator saves, then publishes: the tabs are told first,    *)
(* the listener that clears the cache is called last.                      *)
(***************************************************************************)
EXTENDS SessionEvents, SessionListCache

CONSTANT
    Budgets         \* bounds: what may happen in one behaviour

ASSUME BudgetsAssumption ==
    \A b \in Budgets : /\ b.changes \subseteq Changes
                       /\ b.opens \in [Tabs -> Nat]
                       /\ b.requests \in Nat /\ b.toggles \in Nat /\ b.failures \in Nat

vars == <<eventVars, cacheVars>>

Init ==
    /\ EventsInit /\ CacheInit
    /\ \E b \in Budgets : /\ due = b.changes /\ opens = b.opens /\ requests = b.requests
                          /\ toggles = b.toggles /\ failures = b.failures

\* A handler saves what it changed before it publishes.
Save(c) ==
    /\ publisher[c].pc = "idle"
    /\ c \in due
    /\ due' = due \ {c}
    /\ publisher' = [publisher EXCEPT ![c].pc = "saved"]
    /\ saved' = saved \cup {c}
    /\ UNCHANGED <<subscribers, slot, stream, catchUp, wanting, owed, dropped, opens>>
    /\ UNCHANGED <<streaming, cache, invalidation, inflight, request, build, cleared,
                   requests, toggles, failures>>

CallListeners(c) == ListenersCalled(c) /\ ClearCache(c)

\* A tab's scheduled refresh, or one of its own accord (load, poll, profile switch).
Refresh(t) ==
    /\ StartRequest(t)
    /\ wanting' = wanting \ {t}
    /\ UNCHANGED <<publisher, subscribers, slot, stream, catchUp, owed, dropped, opens>>

Publisher(c) ==
    \/ Save(c)
    \/ Publish(c) /\ UNCHANGED cacheVars
    \/ \E t \in Tabs : PutEvent(c, t) /\ UNCHANGED cacheVars
    \/ TakePending(c) /\ UNCHANGED cacheVars
    \/ PutMerged(c) /\ UNCHANGED cacheVars
    \/ CallListeners(c)

Listener(t) ==
    /\ OpenStream(t) \/ Subscribe(t) \/ TakeEvent(t) \/ CloseStream(t)
    /\ UNCHANGED cacheVars

ServeRequest(t) ==
    /\ \/ Lookup(t) \/ StaleReason(t) \/ RefreshBehind(t) \/ ClaimRebuild(t)
       \/ StopWaiting(t) \/ LookupAgain(t) \/ Render(t)
    /\ UNCHANGED eventVars

RunBuild(b) ==
    /\ BeginBuild(b) \/ ReadSources(b) \/ StampBuild(b) \/ InsertBuild(b) \/ BuildFails(b)
    /\ UNCHANGED eventVars

World ==
    /\ \/ \E c \in External : WriteOutside(c)
       \/ ToggleStreaming
       \/ \E p \in Profiles : GrowOlder(p)
    /\ UNCHANGED eventVars

Next ==
    \/ \E c \in Published : Publisher(c)
    \/ \E t \in Tabs : Listener(t) \/ Refresh(t) \/ ServeRequest(t)
    \/ \E b \in Builders : RunBuild(b)
    \/ World

Spec == Init /\ [][Next]_vars
=============================================================================
