-------------------------- MODULE SessionListCache --------------------------
(***************************************************************************)
(* The cache behind GET /api/sessions: api/route_session_list_cache.py and *)
(* _get_cached_session_list_payload (api/routes.py).                       *)
(*                                                                         *)
(* There is one entry per profile (the other parts of the key are display  *)
(* flags).  A request reads it, waits for a build, or builds the list      *)
(* itself; a list served past its TTL is rebuilt by a background thread.   *)
(* A list is the set of changes it shows.                                  *)
(***************************************************************************)
EXTENDS SidebarChanges

CONSTANT
    MaxAttempts     \* a build that keeps being invalidated is tried so often

ASSUME MaxAttemptsAssumption == MaxAttempts \in Nat \ {0}

VARIABLES
    saved,          \* the changes in the sources (sidecars, index, state.db)
    streaming,      \* some turn is active
    cache,          \* _SESSIONS_CACHE
    invalidation,   \* the global and the per-profile invalidation versions
    inflight,       \* _SESSIONS_CACHE_INFLIGHT: who rebuilds a profile's list
    request,        \* the local variables of each tab's request
    build,          \* those of a build, by a tab's request or in the background
    cleared,        \* history: changes whose listeners have been called
    due,            \* bound: changes that may still be made
    requests,       \* bound: list requests that may still come
    toggles,        \* bound: turns that may still start or end
    failures        \* bound: builds that may still fail

bounds == <<due, requests, toggles, failures>>

cacheVars == <<saved, streaming, cache, invalidation, inflight, request, build, cleared, bounds>>

\* A background thread goes by the profile whose list it rebuilds.
Builders == Tabs \cup Profiles

ViewOf(b) == IF b \in Tabs THEN TabProfile[b] ELSE b

Lists == SUBSET Changes

NoList == {"no list"}

Frozen == {"streaming"}

Stamps == Lists \cup {Frozen}

\* _session_list_cache_source_stamp: while a turn streams it is held down to a
\* marker that no write changes.
SourceStamp == IF streaming THEN Frozen ELSE saved

ASSUME NoListAssumption == NoList \notin Lists

NoEntry == [list |-> NoList, stamp |-> Frozen, age |-> 0]

\* The age of an entry: below both TTLs (0), below the streaming TTL (1), older.
Ages == 0..2

Young(e) == e.age = 0 \/ (streaming /\ e.age = 1)

\* _session_list_cache_invalidation_stamp.
InvalidationStamp(p) == <<invalidation.global, invalidation.profile[p]>>

NoRequest == [pc |-> "idle", stamp |-> Frozen, stale |-> NoList, must |-> {}, list |-> NoList]

NoBuild == [pc |-> "idle", owner |-> FALSE, attempts |-> 0, inval |-> <<0, 0>>,
            list |-> NoList, stamp |-> Frozen]

CacheInit ==
    /\ saved = {} /\ streaming = FALSE
    /\ cache = [p \in Profiles |-> NoEntry]
    /\ invalidation = [global |-> 0, profile |-> [p \in Profiles |-> 0]]
    /\ inflight = {}
    /\ request = [t \in Tabs |-> NoRequest]
    /\ build = [b \in Builders |-> NoBuild]
    /\ cleared = {}
-----------------------------------------------------------------------------
(***************************************************************************)
(* The sources and the clock.                                              *)
(***************************************************************************)
\* Another program writes to state.db.
WriteOutside(c) ==
    /\ c \in External \cap due
    /\ due' = due \ {c}
    /\ saved' = saved \cup {c}
    /\ UNCHANGED <<streaming, cache, invalidation, inflight, request, build, cleared,
                   requests, toggles, failures>>

\* A turn starts, or the last one ends.
ToggleStreaming ==
    /\ toggles > 0
    /\ toggles' = toggles - 1
    /\ streaming' = ~streaming
    /\ UNCHANGED <<saved, cache, invalidation, inflight, request, build, cleared,
                   requests, failures, due>>

GrowOlder(p) ==
    /\ cache[p] # NoEntry
    /\ cache[p].age < 2
    /\ cache' = [cache EXCEPT ![p].age = @ + 1]
    /\ UNCHANGED <<saved, streaming, invalidation, inflight, request, build, cleared, bounds>>

ClearedCache_OwnOnly(c) == [p \in Profiles |-> IF ProfileOf[c] = p THEN NoEntry ELSE cache[p]]

\* What _session_list_cache_clear leaves: the entries of other profiles.
ClearedCache(c) ==
    [p \in Profiles |-> IF ProfileOf[c] \in {p, Unscoped} THEN NoEntry ELSE cache[p]]

\* ... and the versions it leaves: a global clear forgets the profiles' ones.
NextInvalidation(c) ==
    IF ProfileOf[c] = Unscoped
    THEN [global |-> invalidation.global + 1, profile |-> [p \in Profiles |-> 0]]
    ELSE [global |-> invalidation.global,
          profile |-> [p \in Profiles |-> IF p = ProfileOf[c] THEN invalidation.profile[p] + 1
                                                              ELSE invalidation.profile[p]]]

\* _session_list_cache_clear, called by the listener for change c.
ClearCache(c) ==
    /\ cache' = ClearedCache(c)
    /\ invalidation' = NextInvalidation(c)
    /\ cleared' = cleared \cup {c}
    /\ UNCHANGED <<saved, streaming, inflight, request, build, bounds>>
-----------------------------------------------------------------------------
(***************************************************************************)
(* A request.  Each lookup takes the source stamp before the cache lock.   *)
(***************************************************************************)
Answer(t, list) ==
    request' = [request EXCEPT ![t] = [NoRequest EXCEPT !.pc = "answered", !.list = list,
                                                        !.must = request[t].must]]

StartRequest(t) ==
    /\ request[t].pc = "idle"
    /\ requests > 0
    /\ requests' = requests - 1
    /\ request' = [request EXCEPT ![t] =
          [NoRequest EXCEPT !.pc = "lookup", !.stamp = SourceStamp,
                            !.must = cleared \cap VisibleIn(TabProfile[t])]]
    /\ UNCHANGED <<saved, streaming, cache, invalidation, inflight, build, cleared,
                   toggles, failures, due>>

\* _session_list_cache_get(key, allow_stale=True).
Lookup(t) ==
    LET e == cache[TabProfile[t]]
    IN  /\ request[t].pc = "lookup"
        /\ \/ e # NoEntry /\ e.stamp = request[t].stamp /\ Young(e) /\ Answer(t, e.list)
           \/ /\ e # NoEntry /\ ~(e.stamp = request[t].stamp /\ Young(e))
              /\ request' = [request EXCEPT ![t].pc = "reason", ![t].stamp = Frozen,
                                                ![t].stale = e.list]
           \/ e = NoEntry /\ request' = [request EXCEPT ![t].pc = "claim", ![t].stamp = Frozen]
        /\ UNCHANGED <<saved, streaming, cache, invalidation, inflight, build, cleared, bounds>>

\* _session_list_cache_stale_reason: an entry that has gone gives no reason.
StaleReason(t) ==
    LET e == cache[TabProfile[t]]
    IN  /\ request[t].pc = "reason"
        /\ request' = [request EXCEPT ![t].pc =
                         IF e # NoEntry /\ e.stamp # SourceStamp THEN "claim" ELSE "refresh"]
        /\ UNCHANGED <<saved, streaming, cache, invalidation, inflight, build, cleared, bounds>>

Begin(b, owner) ==
    build' = [build EXCEPT ![b] = [NoBuild EXCEPT !.pc = "begin", !.owner = owner]]

\* An aged list is answered at once; a background thread rebuilds it, if none does.
RefreshBehind(t) ==
    LET p == TabProfile[t]
    IN  /\ request[t].pc = "refresh"
        /\ \/ p \notin inflight /\ inflight' = inflight \cup {p} /\ Begin(p, TRUE)
           \/ p \in inflight /\ UNCHANGED <<inflight, build>>
        /\ Answer(t, request[t].stale)
        /\ UNCHANGED <<saved, streaming, cache, invalidation, cleared, bounds>>

\* _session_list_cache_claim_rebuild: the first one builds, the others wait.
ClaimRebuild(t) ==
    LET p == TabProfile[t]
    IN  /\ request[t].pc = "claim"
        /\ \/ /\ p \notin inflight /\ inflight' = inflight \cup {p} /\ Begin(t, TRUE)
              /\ request' = [request EXCEPT ![t].pc = "build"]
           \/ /\ p \in inflight /\ UNCHANGED <<inflight, build>>
              /\ request' = [request EXCEPT ![t].pc = "wait"]
        /\ UNCHANGED <<saved, streaming, cache, invalidation, cleared, bounds>>

\* event.wait ends by the event or by its timeout.
StopWaiting(t) ==
    /\ request[t].pc = "wait"
    /\ request' = [request EXCEPT ![t].pc = "again", ![t].stamp = SourceStamp]
    /\ UNCHANGED <<saved, streaming, cache, invalidation, inflight, build, cleared, bounds>>

\* _session_list_cache_get(key): a list, the stale one, or a build without a claim.
LookupAgain(t) ==
    LET e == cache[TabProfile[t]]
        hit == e # NoEntry /\ e.stamp = request[t].stamp /\ Young(e)
    IN  /\ request[t].pc = "again"
        /\ cache' = IF hit THEN cache ELSE [cache EXCEPT ![TabProfile[t]] = NoEntry]
        /\ \/ hit /\ Answer(t, e.list) /\ UNCHANGED build
           \/ ~hit /\ request[t].stale # NoList /\ Answer(t, request[t].stale) /\ UNCHANGED build
           \/ /\ ~hit /\ request[t].stale = NoList
              /\ request' = [request EXCEPT ![t].pc = "build", ![t].stamp = Frozen]
              /\ Begin(t, FALSE)
        /\ UNCHANGED <<saved, streaming, invalidation, inflight, cleared, bounds>>

\* The client renders what it got.
Render(t) ==
    /\ request[t].pc = "answered"
    /\ request' = [request EXCEPT ![t] = NoRequest]
    /\ UNCHANGED <<saved, streaming, cache, invalidation, inflight, build, cleared, bounds>>
-----------------------------------------------------------------------------
(***************************************************************************)
(* A build: the invalidation stamp, the sources, the invalidation stamp    *)
(* again with the source stamp, and the insertion under the lock.          *)
(***************************************************************************)
BeginBuild(b) ==
    /\ build[b].pc = "begin"
    /\ build' = [build EXCEPT ![b].pc = "read", ![b].inval = InvalidationStamp(ViewOf(b))]
    /\ UNCHANGED <<saved, streaming, cache, invalidation, inflight, request, cleared, bounds>>

\* builder(): one reading of the sources.
ReadSources(b) ==
    /\ build[b].pc = "read"
    /\ build' = [build EXCEPT ![b].pc = "built", ![b].list = saved \cap VisibleIn(ViewOf(b))]
    /\ UNCHANGED <<saved, streaming, cache, invalidation, inflight, request, cleared, bounds>>

ReleaseClaim_Anyone(b) == inflight \ {ViewOf(b)}

\* _session_list_cache_done, for the build that made the claim.
ReleaseClaim(b) == IF build[b].owner THEN inflight \ {ViewOf(b)} ELSE inflight

\* The build is over: the claim is released, and a request has its list.
Finish(b) ==
    /\ build' = [build EXCEPT ![b] = NoBuild]
    /\ inflight' = ReleaseClaim(b)
    /\ \/ b \in Tabs /\ Answer(b, build[b].list)
       \/ b \notin Tabs /\ UNCHANGED request

MayRetry_Forever(b) == build[b].owner

\* The owner of a claim builds again, up to three times in all.
MayRetry(b) == build[b].owner /\ build[b].attempts + 1 < MaxAttempts

Invalidated(b) ==
    \/ /\ MayRetry(b)
       /\ build' = [build EXCEPT ![b] = [NoBuild EXCEPT !.pc = "begin", !.owner = TRUE,
                                                        !.attempts = build[b].attempts + 1]]
       /\ UNCHANGED <<inflight, request>>
    \/ ~MayRetry(b) /\ Finish(b)

StillValid_Unchecked(b) == build[b].pc # "idle"

StillValid(b) == build[b].inval = InvalidationStamp(ViewOf(b))

\* The first check, then _session_list_cache_set takes the source stamp.
StampBuild(b) ==
    /\ build[b].pc = "built"
    /\ \/ /\ StillValid(b)
          /\ build' = [build EXCEPT ![b].pc = "stamped", ![b].stamp = SourceStamp]
          /\ UNCHANGED <<inflight, request>>
       \/ ~StillValid(b) /\ Invalidated(b)
    /\ UNCHANGED <<saved, streaming, cache, invalidation, cleared, bounds>>

\* The second check and the insertion, under the lock.
InsertBuild(b) ==
    /\ build[b].pc = "stamped"
    /\ \/ /\ StillValid(b)
          /\ cache' = [cache EXCEPT ![ViewOf(b)] =
                         [list |-> build[b].list, stamp |-> build[b].stamp, age |-> 0]]
          /\ Finish(b)
       \/ ~StillValid(b) /\ Invalidated(b) /\ UNCHANGED cache
    /\ UNCHANGED <<saved, streaming, invalidation, cleared, bounds>>

FailedRequest_Background(b) == IF b \in Builders THEN request ELSE request

FailedRequest(b) == IF b \in Tabs THEN [request EXCEPT ![b] = NoRequest] ELSE request

\* builder() raises: the request fails, the claim is released by the finally.
BuildFails(b) ==
    /\ build[b].pc = "read"
    /\ failures > 0
    /\ failures' = failures - 1
    /\ build' = [build EXCEPT ![b] = NoBuild]
    /\ inflight' = ReleaseClaim(b)
    /\ request' = FailedRequest(b)
    /\ UNCHANGED <<saved, streaming, cache, invalidation, cleared, requests, toggles, due>>
=============================================================================
