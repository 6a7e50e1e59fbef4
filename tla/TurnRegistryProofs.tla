------------------------- MODULE TurnRegistryProofs -------------------------
(***************************************************************************)
(* The registries of TurnLifecycle follow the workers: for any number of   *)
(* turns, Stops and restarts, however late each thread is, and whatever    *)
(* the prompts say, a worker that is gone has left nothing behind.         *)
(***************************************************************************)
EXTENDS TurnLifecycleProofs

Open == {"opened", "spawned"} \cup Working

\* Turns are admitted in order, and every admitted one has begun.
TurnsBeginInOrder == \A n \in Turns : n > latest <=> pc[n] = "none"

\* What a registry holds belongs to a worker that will take it out again.
RegistriesFollowWorkers ==
    \A n \in Turns :
        /\ n \in streams \cup owners => pc[n] \in Open
        /\ n \in cancelFlags \cup agents => pc[n] \in Working
        /\ runs[n] # "none" => pc[n] \in Working

OwnerIsLatest ==
    /\ wbOwner \in {0, latest}
    /\ \A n \in Turns : wbOwner = n => pc[n] \in {"prepared"} \cup Open

\* A session has at most the latest turn, with its prompt.
SessionShape(s) == s.pending = s.active /\ s.active \in {0, latest}

SessionsHaveShape == SessionShape(session) /\ SessionShape(disk)

\* Only a worker that has not settled its turn still has the session.
Unsettled == {"opened", "spawned", "starting", "running", "rejected", "returned", "writing",
              "raised", "failing", "merging"} \cup WithAgent

ActiveIsUnsettled ==
    \A n \in Turns :
        session.active = n => pc[n] \in {"prepared", "launchFailed", "finished", "dead"} \cup Unsettled

\* ... and the writeback with it.
ActiveOwnsWriteback ==
    \A n \in Turns : session.active = n /\ pc[n] \in {"prepared"} \cup Unsettled => wbOwner = n

\* The disk is behind only between a merge and its save.
DiskFollows ==
    disk.active # session.active =>
        \E n \in Turns : pc[n] = "merged" /\ disk.active = n /\ wbOwner = n

LockIsExclusive ==
    \A m, n \in Turns : pc[m] \in HoldsSessionLock /\ pc[n] \in HoldsSessionLock => m = n

\* What WritebackBegins has found stays true while the lock is held.
WritebackIsCurrent ==
    \A n \in Turns :
        /\ pc[n] = "merging" =>
              StreamWritebackIsCurrent(n) \/ StreamWritebackCanSupersedeRecoveryMarker(n)
        /\ pc[n] \in {"merged", "saved"} => session.active = 0

StopsAreOfOpenTurns ==
    \A k \in Stops :
        stops[k].pc # "idle" =>
            /\ stops[k].known
            /\ pc[stops[k].turn] \notin {"none", "prepared", "dead"}
            /\ stops[k].pc = "settled" => session.active # stops[k].turn

\* Who detaches the stream of a turn that has the session is still at work on it.
DetachedIsStopped ==
    \A n \in Turns :
        session.active = n /\ n \notin streams /\ pc[n] \in {"finished"} \cup Open => StopInFlight(n)

RegistryInv ==
    /\ TypeOK
    /\ TurnsBeginInOrder
    /\ RegistriesFollowWorkers
    /\ OwnerIsLatest
    /\ SessionsHaveShape
    /\ ActiveIsUnsettled
    /\ ActiveOwnsWriteback
    /\ DiskFollows
    /\ LockIsExclusive
    /\ WritebackIsCurrent
    /\ StopsAreOfOpenTurns
    /\ DetachedIsStopped
    /\ OwnersKnown

-----------------------------------------------------------------------------
\* Whether a repair marker may be replaced depends on the session only.
LEMMA SupersedeFrame ==
    ASSUME UNCHANGED session, NEW n \in Turns
    PROVE  /\ StreamWritebackCanSupersedeRecoveryMarker(n)' <=>
                  StreamWritebackCanSupersedeRecoveryMarker(n)
           /\ StreamWritebackIsCurrent(n)' <=> StreamWritebackIsCurrent(n)
BY DEF StreamWritebackCanSupersedeRecoveryMarker, StreamWritebackIsCurrent, LastUserRow, InLastTurn

\* Turns begin in the order of their numbers.
LEMMA NextTurnsBeginInOrder ==
    ASSUME TypeOK, TurnsBeginInOrder, [Next]_vars
    PROVE  TurnsBeginInOrder'
<1>0. pc \in [Turns -> PCs] /\ latest \in Turn0
    BY DEF TypeOK
<1> USE <1>0 DEF ReclaimRuns, Store, Settled, Goto, ClearWritebackOwnerIfOwned,
        FinalizeCancelledTurn, EndCancelled, Put, Log, SettlePendingSteer, registries, logs,
        history, bounds, TurnsBeginInOrder, Turns, Turn0, PCs, Working, WithAgent,
        HoldsSessionLock, Launching
<1>1. ASSUME Start PROVE TurnsBeginInOrder'
    BY <1>1 DEF Start
<1>2. ASSUME NEW m \in Turns, OpenStream(m) PROVE TurnsBeginInOrder'
    BY <1>2 DEF OpenStream
<1>3. ASSUME NEW m \in Turns, StartThread(m) \/ InvocationReturns(m) \/ Raises(m)
      PROVE  TurnsBeginInOrder'
    BY <1>3 DEF StartThread, InvocationReturns, Raises
<1>4. ASSUME NEW m \in Turns, StartThreadFails(m) PROVE TurnsBeginInOrder'
    BY <1>4 DEF StartThreadFails
<1>5. ASSUME NEW m \in Turns, CleanupLaunchFailure(m) PROVE TurnsBeginInOrder'
    BY <1>5 DEF CleanupLaunchFailure
<1>6. ASSUME NEW m \in Turns, Admit(m) PROVE TurnsBeginInOrder'
    <2>1. CASE m \in streams
        BY <1>6, <2>1 DEF Admit
    <2>2. CASE ~(m \in streams)
        BY <1>6, <2>2 DEF Admit
    <2> QED BY <2>1, <2>2
<1>7. ASSUME NEW m \in Turns, MarkRunning(m) PROVE TurnsBeginInOrder'
    BY <1>7 DEF MarkRunning
<1>8. ASSUME NEW m \in Turns, RegisterAgentIfCurrent(m) PROVE TurnsBeginInOrder'
    <2>1. CASE m \in streams /\ m \notin cancelled
        BY <1>8, <2>1 DEF RegisterAgentIfCurrent
    <2>2. CASE ~(m \in streams /\ m \notin cancelled)
        BY <1>8, <2>2 DEF RegisterAgentIfCurrent
    <2> QED BY <2>1, <2>2
<1>9. ASSUME NEW m \in Turns, AgentCanInvoke(m) PROVE TurnsBeginInOrder'
    <2>1. CASE m \in streams /\ m \notin cancelled /\ m \in agents
        BY <1>9, <2>1 DEF AgentCanInvoke
    <2>2. CASE ~(m \in streams /\ m \notin cancelled /\ m \in agents)
        BY <1>9, <2>2 DEF AgentCanInvoke
    <2> QED BY <2>1, <2>2
<1>10. ASSUME NEW m \in Turns, PassesCancelCheck(m) PROVE TurnsBeginInOrder'
    <2>1. CASE pc[m] = "returned"
        BY <1>10, <2>1 DEF PassesCancelCheck
    <2>2. CASE ~(pc[m] = "returned")
        BY <1>10, <2>2 DEF PassesCancelCheck
    <2> QED BY <2>1, <2>2
<1>11. ASSUME NEW m \in Turns, FinalizeRejected(m) PROVE TurnsBeginInOrder'
    BY <1>11 DEF FinalizeRejected
<1>12. ASSUME NEW m \in Turns, CancelledOnReturn(m) PROVE TurnsBeginInOrder'
    BY <1>12 DEF CancelledOnReturn
<1>13. ASSUME NEW m \in Turns, CancelledInWriteback(m) PROVE TurnsBeginInOrder'
    BY <1>13 DEF CancelledInWriteback
<1>14. ASSUME NEW m \in Turns, WritebackBegins(m) PROVE TurnsBeginInOrder'
    <2>1. CASE StreamWritebackIsCurrent(m) \/ StreamWritebackCanSupersedeRecoveryMarker(m)
        BY <1>14, <2>1 DEF WritebackBegins
    <2>2. CASE ~(StreamWritebackIsCurrent(m) \/ StreamWritebackCanSupersedeRecoveryMarker(m))
        BY <1>14, <2>2 DEF WritebackBegins
    <2> QED BY <2>1, <2>2
<1>15. ASSUME NEW m \in Turns, MergeResult(m) PROVE TurnsBeginInOrder'
    BY <1>15 DEF MergeResult
<1>16. ASSUME NEW m \in Turns, ReturnsError(m) PROVE TurnsBeginInOrder'
    BY <1>16 DEF ReturnsError
<1>17. ASSUME NEW m \in Turns, SaveResult(m) PROVE TurnsBeginInOrder'
    BY <1>17 DEF SaveResult
<1>18. ASSUME NEW m \in Turns, CompleteTurn(m) PROVE TurnsBeginInOrder'
    BY <1>18 DEF CompleteTurn
<1>19. ASSUME NEW m \in Turns, CommitWriteback(m) PROVE TurnsBeginInOrder'
    BY <1>19 DEF CommitWriteback
<1>20. ASSUME NEW m \in Turns, PutDone(m) PROVE TurnsBeginInOrder'
    BY <1>20 DEF PutDone
<1>21. ASSUME NEW m \in Turns, FailTurn(m) PROVE TurnsBeginInOrder'
    BY <1>21 DEF FailTurn
<1>22. ASSUME NEW m \in Turns, Unwind(m) PROVE TurnsBeginInOrder'
    BY <1>22 DEF Unwind
<1>23. ASSUME NEW m \in Turns, TearDown(m) PROVE TurnsBeginInOrder'
    BY <1>23 DEF TearDown
<1>24. ASSUME NEW m \in Turns, RowAges(m) PROVE TurnsBeginInOrder'
    BY <1>24 DEF RowAges
<1>25. ASSUME NEW k \in Stops, NEW m \in Turns, StopClaims(k, m) PROVE TurnsBeginInOrder'
    BY <1>25 DEF StopClaims
<1>26. ASSUME NEW k \in Stops, StopSignals(k) PROVE TurnsBeginInOrder'
    BY <1>26 DEF StopSignals
<1>27. ASSUME NEW k \in Stops, StopSettles(k) PROVE TurnsBeginInOrder'
    <2>1. CASE stops[k].known /\ StreamWritebackIsCurrent(stops[k].turn)
        BY <1>27, <2>1 DEF StopSettles
    <2>2. CASE ~(stops[k].known /\ StreamWritebackIsCurrent(stops[k].turn))
        BY <1>27, <2>2 DEF StopSettles
    <2> QED BY <2>1, <2>2
<1>28. ASSUME NEW k \in Stops, StopEmits(k) PROVE TurnsBeginInOrder'
    BY <1>28 DEF StopEmits
<1>29. ASSUME PendingAges \/ ClearStaleChecks PROVE TurnsBeginInOrder'
    BY <1>29 DEF PendingAges, ClearStaleChecks
<1>30. ASSUME ClearStaleClears PROVE TurnsBeginInOrder'
    BY <1>30 DEF ClearStaleClears
<1>31. ASSUME DropStaleCancelledRuns PROVE TurnsBeginInOrder'
    BY <1>31 DEF DropStaleCancelledRuns
<1>32. ASSUME Crash PROVE TurnsBeginInOrder'
    BY <1>32 DEF Crash
<1>33. CASE UNCHANGED vars
    BY <1>33 DEF vars
<1> QED
    BY <1>1, <1>2, <1>3, <1>4, <1>5, <1>6, <1>7, <1>8, <1>9, <1>10, <1>11, <1>12, <1>13, <1>14,
       <1>15, <1>16, <1>17, <1>18, <1>19, <1>20, <1>21, <1>22, <1>23, <1>24, <1>25, <1>26,
       <1>27, <1>28, <1>29, <1>30, <1>31, <1>32, <1>33
       DEF Next, LaunchStep, WorkerStep, BeforeAgent, WritebackStep, StopStep

\* A worker takes out of the registries what was put in for it.
LEMMA NextRegistriesFollow ==
    ASSUME TypeOK, TurnsBeginInOrder, RegistriesFollowWorkers, [Next]_vars
    PROVE  RegistriesFollowWorkers'
<1>0. pc \in [Turns -> PCs] /\ latest \in Turn0 /\ runs \in [Turns -> RunPhases]
    BY DEF TypeOK
<1> USE <1>0 DEF ReclaimRuns, Store, Settled, Goto, ClearWritebackOwnerIfOwned,
        FinalizeCancelledTurn, EndCancelled, Put, Log, SettlePendingSteer, registries, logs,
        history, bounds, TurnsBeginInOrder, RegistriesFollowWorkers, Open, Turns, Turn0, PCs,
        Working, WithAgent, HoldsSessionLock, Launching
<1>1. ASSUME Start PROVE RegistriesFollowWorkers'
    BY <1>1 DEF Start
<1>2. ASSUME NEW m \in Turns, OpenStream(m) PROVE RegistriesFollowWorkers'
    BY <1>2 DEF OpenStream
<1>3. ASSUME NEW m \in Turns, StartThread(m) \/ InvocationReturns(m) \/ Raises(m)
      PROVE  RegistriesFollowWorkers'
    BY <1>3 DEF StartThread, InvocationReturns, Raises
<1>4. ASSUME NEW m \in Turns, StartThreadFails(m) PROVE RegistriesFollowWorkers'
    BY <1>4 DEF StartThreadFails
<1>5. ASSUME NEW m \in Turns, CleanupLaunchFailure(m) PROVE RegistriesFollowWorkers'
    BY <1>5 DEF CleanupLaunchFailure
<1>6. ASSUME NEW m \in Turns, Admit(m) PROVE RegistriesFollowWorkers'
    <2>1. /\ pc[m] = "spawned" /\ pc'[m] \in {"starting", "finished"}
          /\ \A n \in Turns \ {m} : pc'[n] = pc[n] /\ runs'[n] = runs[n]
        BY <1>6 DEF Admit
    <2>2. UNCHANGED <<streams, agents>> /\ cancelFlags' \subseteq cancelFlags \cup {m}
          /\ owners' \subseteq owners
        BY <1>6 DEF Admit
    <2>3. CASE m \in streams
        <3>1. pc'[m] = "starting"
            BY <1>6, <2>3 DEF Admit
        <3> QED BY <2>1, <2>2, <3>1
    <2>4. CASE m \notin streams
        <3>1. m \notin owners' /\ cancelFlags' = cancelFlags /\ runs' = runs
            BY <1>6, <2>4 DEF Admit
        <3> QED BY <2>1, <2>2, <2>4, <3>1
    <2> QED BY <2>3, <2>4
<1>7. ASSUME NEW m \in Turns, MarkRunning(m) PROVE RegistriesFollowWorkers'
    BY <1>7 DEF MarkRunning
<1>8. ASSUME NEW m \in Turns, RegisterAgentIfCurrent(m) PROVE RegistriesFollowWorkers'
    <2>1. /\ pc[m] = "running" /\ pc'[m] \in {"registered", "rejected"}
          /\ \A n \in Turns \ {m} : pc'[n] = pc[n]
        BY <1>8 DEF RegisterAgentIfCurrent
    <2>2. UNCHANGED <<streams, owners, cancelFlags, runs>>
        BY <1>8 DEF RegisterAgentIfCurrent
    <2>3. agents' \subseteq agents \cup {m}
        BY <1>8 DEF RegisterAgentIfCurrent
    <2> QED BY <2>1, <2>2, <2>3
<1>9. ASSUME NEW m \in Turns, AgentCanInvoke(m) PROVE RegistriesFollowWorkers'
    <2>1. CASE m \in streams /\ m \notin cancelled /\ m \in agents
        BY <1>9, <2>1 DEF AgentCanInvoke
    <2>2. CASE ~(m \in streams /\ m \notin cancelled /\ m \in agents)
        BY <1>9, <2>2 DEF AgentCanInvoke
    <2> QED BY <2>1, <2>2
<1>10. ASSUME NEW m \in Turns, PassesCancelCheck(m) PROVE RegistriesFollowWorkers'
    <2>1. CASE pc[m] = "returned"
        BY <1>10, <2>1 DEF PassesCancelCheck
    <2>2. CASE ~(pc[m] = "returned")
        BY <1>10, <2>2 DEF PassesCancelCheck
    <2> QED BY <2>1, <2>2
<1>11. ASSUME NEW m \in Turns, FinalizeRejected(m) PROVE RegistriesFollowWorkers'
    BY <1>11 DEF FinalizeRejected
<1>12. ASSUME NEW m \in Turns, CancelledOnReturn(m) PROVE RegistriesFollowWorkers'
    BY <1>12 DEF CancelledOnReturn
<1>13. ASSUME NEW m \in Turns, CancelledInWriteback(m) PROVE RegistriesFollowWorkers'
    BY <1>13 DEF CancelledInWriteback
<1>14. ASSUME NEW m \in Turns, WritebackBegins(m) PROVE RegistriesFollowWorkers'
    <2>1. CASE StreamWritebackIsCurrent(m) \/ StreamWritebackCanSupersedeRecoveryMarker(m)
        BY <1>14, <2>1 DEF WritebackBegins
    <2>2. CASE ~(StreamWritebackIsCurrent(m) \/ StreamWritebackCanSupersedeRecoveryMarker(m))
        BY <1>14, <2>2 DEF WritebackBegins
    <2> QED BY <2>1, <2>2
<1>15. ASSUME NEW m \in Turns, MergeResult(m) PROVE RegistriesFollowWorkers'
    BY <1>15 DEF MergeResult
<1>16. ASSUME NEW m \in Turns, ReturnsError(m) PROVE RegistriesFollowWorkers'
    BY <1>16 DEF ReturnsError
<1>17. ASSUME NEW m \in Turns, SaveResult(m) PROVE RegistriesFollowWorkers'
    BY <1>17 DEF SaveResult
<1>18. ASSUME NEW m \in Turns, CompleteTurn(m) PROVE RegistriesFollowWorkers'
    BY <1>18 DEF CompleteTurn
<1>19. ASSUME NEW m \in Turns, CommitWriteback(m) PROVE RegistriesFollowWorkers'
    BY <1>19 DEF CommitWriteback
<1>20. ASSUME NEW m \in Turns, PutDone(m) PROVE RegistriesFollowWorkers'
    BY <1>20 DEF PutDone
<1>21. ASSUME NEW m \in Turns, FailTurn(m) PROVE RegistriesFollowWorkers'
    BY <1>21 DEF FailTurn
<1>22. ASSUME NEW m \in Turns, Unwind(m) PROVE RegistriesFollowWorkers'
    BY <1>22 DEF Unwind
<1>23. ASSUME NEW m \in Turns, TearDown(m) PROVE RegistriesFollowWorkers'
    BY <1>23 DEF TearDown
<1>24. ASSUME NEW m \in Turns, RowAges(m) PROVE RegistriesFollowWorkers'
    BY <1>24 DEF RowAges
<1>25. ASSUME NEW k \in Stops, NEW m \in Turns, StopClaims(k, m) PROVE RegistriesFollowWorkers'
    BY <1>25 DEF StopClaims
<1>26. ASSUME NEW k \in Stops, StopSignals(k) PROVE RegistriesFollowWorkers'
    BY <1>26 DEF StopSignals
<1>27. ASSUME NEW k \in Stops, StopSettles(k) PROVE RegistriesFollowWorkers'
    <2>1. CASE stops[k].known /\ StreamWritebackIsCurrent(stops[k].turn)
        BY <1>27, <2>1 DEF StopSettles
    <2>2. CASE ~(stops[k].known /\ StreamWritebackIsCurrent(stops[k].turn))
        BY <1>27, <2>2 DEF StopSettles
    <2> QED BY <2>1, <2>2
<1>28. ASSUME NEW k \in Stops, StopEmits(k) PROVE RegistriesFollowWorkers'
    BY <1>28 DEF StopEmits
<1>29. ASSUME PendingAges \/ ClearStaleChecks PROVE RegistriesFollowWorkers'
    BY <1>29 DEF PendingAges, ClearStaleChecks
<1>30. ASSUME ClearStaleClears PROVE RegistriesFollowWorkers'
    BY <1>30 DEF ClearStaleClears
<1>31. ASSUME DropStaleCancelledRuns PROVE RegistriesFollowWorkers'
    BY <1>31 DEF DropStaleCancelledRuns
<1>32. ASSUME Crash PROVE RegistriesFollowWorkers'
    BY <1>32 DEF Crash
<1>33. CASE UNCHANGED vars
    BY <1>33 DEF vars
<1> QED
    BY <1>1, <1>2, <1>3, <1>4, <1>5, <1>6, <1>7, <1>8, <1>9, <1>10, <1>11, <1>12, <1>13, <1>14,
       <1>15, <1>16, <1>17, <1>18, <1>19, <1>20, <1>21, <1>22, <1>23, <1>24, <1>25, <1>26,
       <1>27, <1>28, <1>29, <1>30, <1>31, <1>32, <1>33
       DEF Next, LaunchStep, WorkerStep, BeforeAgent, WritebackStep, StopStep

\* The writeback belongs to the latest turn while it has a worker.
LEMMA NextOwnerIsLatest ==
    ASSUME TypeOK, TurnsBeginInOrder, OwnerIsLatest, [Next]_vars
    PROVE  OwnerIsLatest'
<1>0. pc \in [Turns -> PCs] /\ latest \in Turn0 /\ wbOwner \in Turn0
    BY DEF TypeOK
<1> USE <1>0 DEF ReclaimRuns, Store, Settled, Goto, ClearWritebackOwnerIfOwned,
        FinalizeCancelledTurn, EndCancelled, Put, Log, SettlePendingSteer, registries, logs,
        history, bounds, TurnsBeginInOrder, OwnerIsLatest, Open, Turns, Turn0, PCs, Working,
        WithAgent, HoldsSessionLock, Launching
<1>1. ASSUME Start PROVE OwnerIsLatest'
    BY <1>1 DEF Start
<1>2. ASSUME NEW m \in Turns, OpenStream(m) PROVE OwnerIsLatest'
    BY <1>2 DEF OpenStream
<1>3. ASSUME NEW m \in Turns, StartThread(m) \/ InvocationReturns(m) \/ Raises(m)
      PROVE  OwnerIsLatest'
    BY <1>3 DEF StartThread, InvocationReturns, Raises
<1>4. ASSUME NEW m \in Turns, StartThreadFails(m) PROVE OwnerIsLatest'
    BY <1>4 DEF StartThreadFails
<1>5. ASSUME NEW m \in Turns, CleanupLaunchFailure(m) PROVE OwnerIsLatest'
    BY <1>5 DEF CleanupLaunchFailure
<1>6. ASSUME NEW m \in Turns, Admit(m) PROVE OwnerIsLatest'
    <2>1. /\ pc[m] = "spawned" /\ pc'[m] \in {"starting", "finished"}
          /\ \A n \in Turns \ {m} : pc'[n] = pc[n]
        BY <1>6 DEF Admit
    <2>2. UNCHANGED <<session, disk, latest>>
        BY <1>6 DEF Admit
    <2>3. \/ wbOwner' = wbOwner /\ pc'[m] = "starting"
          \/ wbOwner' = (IF wbOwner = m THEN 0 ELSE wbOwner) /\ pc'[m] = "finished"
        BY <1>6 DEF Admit
    <2> QED BY <2>1, <2>2, <2>3
<1>7. ASSUME NEW m \in Turns, MarkRunning(m) PROVE OwnerIsLatest'
    BY <1>7 DEF MarkRunning
<1>8. ASSUME NEW m \in Turns, RegisterAgentIfCurrent(m) PROVE OwnerIsLatest'
    <2>1. CASE m \in streams /\ m \notin cancelled
        BY <1>8, <2>1 DEF RegisterAgentIfCurrent
    <2>2. CASE ~(m \in streams /\ m \notin cancelled)
        BY <1>8, <2>2 DEF RegisterAgentIfCurrent
    <2> QED BY <2>1, <2>2
<1>9. ASSUME NEW m \in Turns, AgentCanInvoke(m) PROVE OwnerIsLatest'
    <2>1. CASE m \in streams /\ m \notin cancelled /\ m \in agents
        BY <1>9, <2>1 DEF AgentCanInvoke
    <2>2. CASE ~(m \in streams /\ m \notin cancelled /\ m \in agents)
        BY <1>9, <2>2 DEF AgentCanInvoke
    <2> QED BY <2>1, <2>2
<1>10. ASSUME NEW m \in Turns, PassesCancelCheck(m) PROVE OwnerIsLatest'
    <2>1. CASE pc[m] = "returned"
        BY <1>10, <2>1 DEF PassesCancelCheck
    <2>2. CASE ~(pc[m] = "returned")
        BY <1>10, <2>2 DEF PassesCancelCheck
    <2> QED BY <2>1, <2>2
<1>11. ASSUME NEW m \in Turns, FinalizeRejected(m) PROVE OwnerIsLatest'
    BY <1>11 DEF FinalizeRejected
<1>12. ASSUME NEW m \in Turns, CancelledOnReturn(m) PROVE OwnerIsLatest'
    BY <1>12 DEF CancelledOnReturn
<1>13. ASSUME NEW m \in Turns, CancelledInWriteback(m) PROVE OwnerIsLatest'
    BY <1>13 DEF CancelledInWriteback
<1>14. ASSUME NEW m \in Turns, WritebackBegins(m) PROVE OwnerIsLatest'
    <2>1. CASE StreamWritebackIsCurrent(m) \/ StreamWritebackCanSupersedeRecoveryMarker(m)
        BY <1>14, <2>1 DEF WritebackBegins
    <2>2. CASE ~(StreamWritebackIsCurrent(m) \/ StreamWritebackCanSupersedeRecoveryMarker(m))
        BY <1>14, <2>2 DEF WritebackBegins
    <2> QED BY <2>1, <2>2
<1>15. ASSUME NEW m \in Turns, MergeResult(m) PROVE OwnerIsLatest'
    BY <1>15 DEF MergeResult
<1>16. ASSUME NEW m \in Turns, ReturnsError(m) PROVE OwnerIsLatest'
    BY <1>16 DEF ReturnsError
<1>17. ASSUME NEW m \in Turns, SaveResult(m) PROVE OwnerIsLatest'
    BY <1>17 DEF SaveResult
<1>18. ASSUME NEW m \in Turns, CompleteTurn(m) PROVE OwnerIsLatest'
    BY <1>18 DEF CompleteTurn
<1>19. ASSUME NEW m \in Turns, CommitWriteback(m) PROVE OwnerIsLatest'
    BY <1>19 DEF CommitWriteback
<1>20. ASSUME NEW m \in Turns, PutDone(m) PROVE OwnerIsLatest'
    BY <1>20 DEF PutDone
<1>21. ASSUME NEW m \in Turns, FailTurn(m) PROVE OwnerIsLatest'
    BY <1>21 DEF FailTurn
<1>22. ASSUME NEW m \in Turns, Unwind(m) PROVE OwnerIsLatest'
    BY <1>22 DEF Unwind
<1>23. ASSUME NEW m \in Turns, TearDown(m) PROVE OwnerIsLatest'
    BY <1>23 DEF TearDown
<1>24. ASSUME NEW m \in Turns, RowAges(m) PROVE OwnerIsLatest'
    BY <1>24 DEF RowAges
<1>25. ASSUME NEW k \in Stops, NEW m \in Turns, StopClaims(k, m) PROVE OwnerIsLatest'
    BY <1>25 DEF StopClaims
<1>26. ASSUME NEW k \in Stops, StopSignals(k) PROVE OwnerIsLatest'
    BY <1>26 DEF StopSignals
<1>27. ASSUME NEW k \in Stops, StopSettles(k) PROVE OwnerIsLatest'
    <2>1. CASE stops[k].known /\ StreamWritebackIsCurrent(stops[k].turn)
        BY <1>27, <2>1 DEF StopSettles
    <2>2. CASE ~(stops[k].known /\ StreamWritebackIsCurrent(stops[k].turn))
        BY <1>27, <2>2 DEF StopSettles
    <2> QED BY <2>1, <2>2
<1>28. ASSUME NEW k \in Stops, StopEmits(k) PROVE OwnerIsLatest'
    BY <1>28 DEF StopEmits
<1>29. ASSUME PendingAges \/ ClearStaleChecks PROVE OwnerIsLatest'
    BY <1>29 DEF PendingAges, ClearStaleChecks
<1>30. ASSUME ClearStaleClears PROVE OwnerIsLatest'
    BY <1>30 DEF ClearStaleClears
<1>31. ASSUME DropStaleCancelledRuns PROVE OwnerIsLatest'
    BY <1>31 DEF DropStaleCancelledRuns
<1>32. ASSUME Crash PROVE OwnerIsLatest'
    BY <1>32 DEF Crash
<1>33. CASE UNCHANGED vars
    BY <1>33 DEF vars
<1> QED
    BY <1>1, <1>2, <1>3, <1>4, <1>5, <1>6, <1>7, <1>8, <1>9, <1>10, <1>11, <1>12, <1>13, <1>14,
       <1>15, <1>16, <1>17, <1>18, <1>19, <1>20, <1>21, <1>22, <1>23, <1>24, <1>25, <1>26,
       <1>27, <1>28, <1>29, <1>30, <1>31, <1>32, <1>33
       DEF Next, LaunchStep, WorkerStep, BeforeAgent, WritebackStep, StopStep

\* One worker at a time holds the session lock.
LEMMA NextLockIsExclusive ==
    ASSUME TypeOK, TurnsBeginInOrder, LockIsExclusive, [Next]_vars
    PROVE  LockIsExclusive'
<1>0. pc \in [Turns -> PCs] /\ latest \in Turn0
    BY DEF TypeOK
<1> USE <1>0 DEF ReclaimRuns, Store, Settled, Goto, ClearWritebackOwnerIfOwned,
        FinalizeCancelledTurn, EndCancelled, Put, Log, SettlePendingSteer, registries, logs,
        history, bounds, TurnsBeginInOrder, LockIsExclusive, LockFree, PCs, Working, WithAgent,
        HoldsSessionLock, Launching
<1>1. ASSUME Start PROVE LockIsExclusive'
    BY <1>1 DEF Start
<1>2. ASSUME NEW m \in Turns, OpenStream(m) PROVE LockIsExclusive'
    BY <1>2 DEF OpenStream
<1>3. ASSUME NEW m \in Turns, StartThread(m) \/ InvocationReturns(m) \/ Raises(m)
      PROVE  LockIsExclusive'
    BY <1>3 DEF StartThread, InvocationReturns, Raises
<1>4. ASSUME NEW m \in Turns, StartThreadFails(m) PROVE LockIsExclusive'
    BY <1>4 DEF StartThreadFails
<1>5. ASSUME NEW m \in Turns, CleanupLaunchFailure(m) PROVE LockIsExclusive'
    BY <1>5 DEF CleanupLaunchFailure
<1>6. ASSUME NEW m \in Turns, Admit(m) PROVE LockIsExclusive'
    <2>1. CASE m \in streams
        BY <1>6, <2>1 DEF Admit
    <2>2. CASE ~(m \in streams)
        BY <1>6, <2>2 DEF Admit
    <2> QED BY <2>1, <2>2
<1>7. ASSUME NEW m \in Turns, MarkRunning(m) PROVE LockIsExclusive'
    BY <1>7 DEF MarkRunning
<1>8. ASSUME NEW m \in Turns, RegisterAgentIfCurrent(m) PROVE LockIsExclusive'
    <2>1. CASE m \in streams /\ m \notin cancelled
        BY <1>8, <2>1 DEF RegisterAgentIfCurrent
    <2>2. CASE ~(m \in streams /\ m \notin cancelled)
        BY <1>8, <2>2 DEF RegisterAgentIfCurrent
    <2> QED BY <2>1, <2>2
<1>9. ASSUME NEW m \in Turns, AgentCanInvoke(m) PROVE LockIsExclusive'
    <2>1. CASE m \in streams /\ m \notin cancelled /\ m \in agents
        BY <1>9, <2>1 DEF AgentCanInvoke
    <2>2. CASE ~(m \in streams /\ m \notin cancelled /\ m \in agents)
        BY <1>9, <2>2 DEF AgentCanInvoke
    <2> QED BY <2>1, <2>2
<1>10. ASSUME NEW m \in Turns, PassesCancelCheck(m) PROVE LockIsExclusive'
    <2>1. CASE pc[m] = "returned"
        BY <1>10, <2>1 DEF PassesCancelCheck
    <2>2. CASE ~(pc[m] = "returned")
        BY <1>10, <2>2 DEF PassesCancelCheck
    <2> QED BY <2>1, <2>2
<1>11. ASSUME NEW m \in Turns, FinalizeRejected(m) PROVE LockIsExclusive'
    BY <1>11 DEF FinalizeRejected
<1>12. ASSUME NEW m \in Turns, CancelledOnReturn(m) PROVE LockIsExclusive'
    BY <1>12 DEF CancelledOnReturn
<1>13. ASSUME NEW m \in Turns, CancelledInWriteback(m) PROVE LockIsExclusive'
    BY <1>13 DEF CancelledInWriteback
<1>14. ASSUME NEW m \in Turns, WritebackBegins(m) PROVE LockIsExclusive'
    <2>1. CASE StreamWritebackIsCurrent(m) \/ StreamWritebackCanSupersedeRecoveryMarker(m)
        BY <1>14, <2>1 DEF WritebackBegins
    <2>2. CASE ~(StreamWritebackIsCurrent(m) \/ StreamWritebackCanSupersedeRecoveryMarker(m))
        BY <1>14, <2>2 DEF WritebackBegins
    <2> QED BY <2>1, <2>2
<1>15. ASSUME NEW m \in Turns, MergeResult(m) PROVE LockIsExclusive'
    BY <1>15 DEF MergeResult
<1>16. ASSUME NEW m \in Turns, ReturnsError(m) PROVE LockIsExclusive'
    BY <1>16 DEF ReturnsError
<1>17. ASSUME NEW m \in Turns, SaveResult(m) PROVE LockIsExclusive'
    BY <1>17 DEF SaveResult
<1>18. ASSUME NEW m \in Turns, CompleteTurn(m) PROVE LockIsExclusive'
    BY <1>18 DEF CompleteTurn
<1>19. ASSUME NEW m \in Turns, CommitWriteback(m) PROVE LockIsExclusive'
    BY <1>19 DEF CommitWriteback
<1>20. ASSUME NEW m \in Turns, PutDone(m) PROVE LockIsExclusive'
    BY <1>20 DEF PutDone
<1>21. ASSUME NEW m \in Turns, FailTurn(m) PROVE LockIsExclusive'
    BY <1>21 DEF FailTurn
<1>22. ASSUME NEW m \in Turns, Unwind(m) PROVE LockIsExclusive'
    BY <1>22 DEF Unwind
<1>23. ASSUME NEW m \in Turns, TearDown(m) PROVE LockIsExclusive'
    BY <1>23 DEF TearDown
<1>24. ASSUME NEW m \in Turns, RowAges(m) PROVE LockIsExclusive'
    BY <1>24 DEF RowAges
<1>25. ASSUME NEW k \in Stops, NEW m \in Turns, StopClaims(k, m) PROVE LockIsExclusive'
    BY <1>25 DEF StopClaims
<1>26. ASSUME NEW k \in Stops, StopSignals(k) PROVE LockIsExclusive'
    BY <1>26 DEF StopSignals
<1>27. ASSUME NEW k \in Stops, StopSettles(k) PROVE LockIsExclusive'
    <2>1. CASE stops[k].known /\ StreamWritebackIsCurrent(stops[k].turn)
        BY <1>27, <2>1 DEF StopSettles
    <2>2. CASE ~(stops[k].known /\ StreamWritebackIsCurrent(stops[k].turn))
        BY <1>27, <2>2 DEF StopSettles
    <2> QED BY <2>1, <2>2
<1>28. ASSUME NEW k \in Stops, StopEmits(k) PROVE LockIsExclusive'
    BY <1>28 DEF StopEmits
<1>29. ASSUME PendingAges \/ ClearStaleChecks PROVE LockIsExclusive'
    BY <1>29 DEF PendingAges, ClearStaleChecks
<1>30. ASSUME ClearStaleClears PROVE LockIsExclusive'
    BY <1>30 DEF ClearStaleClears
<1>31. ASSUME DropStaleCancelledRuns PROVE LockIsExclusive'
    BY <1>31 DEF DropStaleCancelledRuns
<1>32. ASSUME Crash PROVE LockIsExclusive'
    BY <1>32 DEF Crash
<1>33. CASE UNCHANGED vars
    BY <1>33 DEF vars
<1> QED
    BY <1>1, <1>2, <1>3, <1>4, <1>5, <1>6, <1>7, <1>8, <1>9, <1>10, <1>11, <1>12, <1>13, <1>14,
       <1>15, <1>16, <1>17, <1>18, <1>19, <1>20, <1>21, <1>22, <1>23, <1>24, <1>25, <1>26,
       <1>27, <1>28, <1>29, <1>30, <1>31, <1>32, <1>33
       DEF Next, LaunchStep, WorkerStep, BeforeAgent, WritebackStep, StopStep

\* Whoever writes the session leaves it with the latest turn or none.
LEMMA NextSessionsHaveShape ==
    ASSUME TypeOK, TurnsBeginInOrder, LockIsExclusive, SessionsHaveShape, [Next]_vars
    PROVE  SessionsHaveShape'
<1>0. pc \in [Turns -> PCs] /\ latest \in Turn0
      /\ session \in Session /\ disk \in Session
    BY DEF TypeOK
<1> USE <1>0 DEF ReclaimRuns, Store, Settled, Goto, ClearWritebackOwnerIfOwned,
        FinalizeCancelledTurn, EndCancelled, Put, Log, SettlePendingSteer, registries, logs,
        history, bounds, TurnsBeginInOrder, SessionsHaveShape, SessionShape, Session, Turns,
        Turn0, PCs, Working, WithAgent, HoldsSessionLock, Launching
<1>1. ASSUME Start PROVE SessionsHaveShape'
    BY <1>1 DEF Start
<1>2. ASSUME NEW m \in Turns, OpenStream(m) PROVE SessionsHaveShape'
    BY <1>2 DEF OpenStream
<1>3. ASSUME NEW m \in Turns, StartThread(m) \/ InvocationReturns(m) \/ Raises(m)
      PROVE  SessionsHaveShape'
    BY <1>3 DEF StartThread, InvocationReturns, Raises
<1>4. ASSUME NEW m \in Turns, StartThreadFails(m) PROVE SessionsHaveShape'
    BY <1>4 DEF StartThreadFails
<1>5. ASSUME NEW m \in Turns, CleanupLaunchFailure(m) PROVE SessionsHaveShape'
    BY <1>5 DEF CleanupLaunchFailure
<1>6. ASSUME NEW m \in Turns, Admit(m) PROVE SessionsHaveShape'
    BY <1>6 DEF Admit
<1>7. ASSUME NEW m \in Turns, MarkRunning(m) PROVE SessionsHaveShape'
    BY <1>7 DEF MarkRunning
<1>8. ASSUME NEW m \in Turns, RegisterAgentIfCurrent(m) PROVE SessionsHaveShape'
    BY <1>8 DEF RegisterAgentIfCurrent
<1>9. ASSUME NEW m \in Turns, AgentCanInvoke(m) PROVE SessionsHaveShape'
    BY <1>9 DEF AgentCanInvoke
<1>10. ASSUME NEW m \in Turns, PassesCancelCheck(m) PROVE SessionsHaveShape'
    BY <1>10 DEF PassesCancelCheck
<1>11. ASSUME NEW m \in Turns, FinalizeRejected(m) PROVE SessionsHaveShape'
    BY <1>11 DEF FinalizeRejected
<1>12. ASSUME NEW m \in Turns, CancelledOnReturn(m) PROVE SessionsHaveShape'
    BY <1>12 DEF CancelledOnReturn
<1>13. ASSUME NEW m \in Turns, CancelledInWriteback(m) PROVE SessionsHaveShape'
    BY <1>13 DEF CancelledInWriteback
<1>14. ASSUME NEW m \in Turns, WritebackBegins(m) PROVE SessionsHaveShape'
    BY <1>14 DEF WritebackBegins
<1>15. ASSUME NEW m \in Turns, MergeResult(m) PROVE SessionsHaveShape'
    BY <1>15 DEF MergeResult
<1>16. ASSUME NEW m \in Turns, ReturnsError(m) PROVE SessionsHaveShape'
    BY <1>16 DEF ReturnsError
<1>17. ASSUME NEW m \in Turns, SaveResult(m) PROVE SessionsHaveShape'
    BY <1>17 DEF SaveResult
<1>18. ASSUME NEW m \in Turns, CompleteTurn(m) PROVE SessionsHaveShape'
    BY <1>18 DEF CompleteTurn
<1>19. ASSUME NEW m \in Turns, CommitWriteback(m) PROVE SessionsHaveShape'
    BY <1>19 DEF CommitWriteback
<1>20. ASSUME NEW m \in Turns, PutDone(m) PROVE SessionsHaveShape'
    BY <1>20 DEF PutDone
<1>21. ASSUME NEW m \in Turns, FailTurn(m) PROVE SessionsHaveShape'
    BY <1>21 DEF FailTurn
<1>22. ASSUME NEW m \in Turns, Unwind(m) PROVE SessionsHaveShape'
    BY <1>22 DEF Unwind
<1>23. ASSUME NEW m \in Turns, TearDown(m) PROVE SessionsHaveShape'
    BY <1>23 DEF TearDown
<1>24. ASSUME NEW m \in Turns, RowAges(m) PROVE SessionsHaveShape'
    BY <1>24 DEF RowAges
<1>25. ASSUME NEW k \in Stops, NEW m \in Turns, StopClaims(k, m) PROVE SessionsHaveShape'
    BY <1>25 DEF StopClaims
<1>26. ASSUME NEW k \in Stops, StopSignals(k) PROVE SessionsHaveShape'
    BY <1>26 DEF StopSignals
<1>27. ASSUME NEW k \in Stops, StopSettles(k) PROVE SessionsHaveShape'
    BY <1>27 DEF StopSettles
<1>28. ASSUME NEW k \in Stops, StopEmits(k) PROVE SessionsHaveShape'
    BY <1>28 DEF StopEmits
<1>29. ASSUME PendingAges \/ ClearStaleChecks PROVE SessionsHaveShape'
    BY <1>29 DEF PendingAges, ClearStaleChecks
<1>30. ASSUME ClearStaleClears PROVE SessionsHaveShape'
    BY <1>30 DEF ClearStaleClears
<1>31. ASSUME DropStaleCancelledRuns PROVE SessionsHaveShape'
    BY <1>31 DEF DropStaleCancelledRuns
<1>32. ASSUME Crash PROVE SessionsHaveShape'
    BY <1>32 DEF Crash
<1>33. CASE UNCHANGED vars
    BY <1>33 DEF vars
<1> QED
    BY <1>1, <1>2, <1>3, <1>4, <1>5, <1>6, <1>7, <1>8, <1>9, <1>10, <1>11, <1>12, <1>13, <1>14,
       <1>15, <1>16, <1>17, <1>18, <1>19, <1>20, <1>21, <1>22, <1>23, <1>24, <1>25, <1>26,
       <1>27, <1>28, <1>29, <1>30, <1>31, <1>32, <1>33
       DEF Next, LaunchStep, WorkerStep, BeforeAgent, WritebackStep, StopStep

\* A worker leaves the turns it has settled.
LEMMA NextActiveIsUnsettled ==
    ASSUME TypeOK, TurnsBeginInOrder, SessionsHaveShape, OwnerIsLatest, ActiveOwnsWriteback,
          WritebackIsCurrent, DiskFollows, ActiveIsUnsettled, [Next]_vars
    PROVE  ActiveIsUnsettled'
<1>0. pc \in [Turns -> PCs] /\ latest \in Turn0
      /\ session \in Session /\ disk \in Session
    BY DEF TypeOK
<1> USE <1>0 DEF ReclaimRuns, Store, Settled, Goto, ClearWritebackOwnerIfOwned,
        FinalizeCancelledTurn, EndCancelled, Put, Log, SettlePendingSteer, registries, logs,
        history, bounds, TurnsBeginInOrder, SessionsHaveShape, SessionShape, OwnerIsLatest,
        ActiveOwnsWriteback, WritebackIsCurrent, DiskFollows, ActiveIsUnsettled, Unsettled,
        Open, StreamWritebackIsCurrent, StreamWritebackCanSupersedeRecoveryMarker, Session,
        Turns, Turn0, PCs, Working, WithAgent, HoldsSessionLock, Launching
<1>1. ASSUME Start PROVE ActiveIsUnsettled'
    BY <1>1 DEF Start
<1>2. ASSUME NEW m \in Turns, OpenStream(m) PROVE ActiveIsUnsettled'
    BY <1>2 DEF OpenStream
<1>3. ASSUME NEW m \in Turns, StartThread(m) \/ InvocationReturns(m) \/ Raises(m)
      PROVE  ActiveIsUnsettled'
    BY <1>3 DEF StartThread, InvocationReturns, Raises
<1>4. ASSUME NEW m \in Turns, StartThreadFails(m) PROVE ActiveIsUnsettled'
    BY <1>4 DEF StartThreadFails
<1>5. ASSUME NEW m \in Turns, CleanupLaunchFailure(m) PROVE ActiveIsUnsettled'
    BY <1>5 DEF CleanupLaunchFailure
<1>6. ASSUME NEW m \in Turns, Admit(m) PROVE ActiveIsUnsettled'
    <2>1. CASE m \in streams
        BY <1>6, <2>1 DEF Admit
    <2>2. CASE ~(m \in streams)
        BY <1>6, <2>2 DEF Admit
    <2> QED BY <2>1, <2>2
<1>7. ASSUME NEW m \in Turns, MarkRunning(m) PROVE ActiveIsUnsettled'
    BY <1>7 DEF MarkRunning
<1>8. ASSUME NEW m \in Turns, RegisterAgentIfCurrent(m) PROVE ActiveIsUnsettled'
    <2>1. CASE m \in streams /\ m \notin cancelled
        BY <1>8, <2>1 DEF RegisterAgentIfCurrent
    <2>2. CASE ~(m \in streams /\ m \notin cancelled)
        BY <1>8, <2>2 DEF RegisterAgentIfCurrent
    <2> QED BY <2>1, <2>2
<1>9. ASSUME NEW m \in Turns, AgentCanInvoke(m) PROVE ActiveIsUnsettled'
    <2>1. CASE m \in streams /\ m \notin cancelled /\ m \in agents
        BY <1>9, <2>1 DEF AgentCanInvoke
    <2>2. CASE ~(m \in streams /\ m \notin cancelled /\ m \in agents)
        BY <1>9, <2>2 DEF AgentCanInvoke
    <2> QED BY <2>1, <2>2
<1>10. ASSUME NEW m \in Turns, PassesCancelCheck(m) PROVE ActiveIsUnsettled'
    <2>1. CASE pc[m] = "returned"
        BY <1>10, <2>1 DEF PassesCancelCheck
    <2>2. CASE ~(pc[m] = "returned")
        BY <1>10, <2>2 DEF PassesCancelCheck
    <2> QED BY <2>1, <2>2
<1>11. ASSUME NEW m \in Turns, FinalizeRejected(m) PROVE ActiveIsUnsettled'
    BY <1>11 DEF FinalizeRejected
<1>12. ASSUME NEW m \in Turns, CancelledOnReturn(m) PROVE ActiveIsUnsettled'
    BY <1>12 DEF CancelledOnReturn
<1>13. ASSUME NEW m \in Turns, CancelledInWriteback(m) PROVE ActiveIsUnsettled'
    BY <1>13 DEF CancelledInWriteback
<1>14. ASSUME NEW m \in Turns, WritebackBegins(m) PROVE ActiveIsUnsettled'
    <2>1. CASE StreamWritebackIsCurrent(m) \/ StreamWritebackCanSupersedeRecoveryMarker(m)
        BY <1>14, <2>1 DEF WritebackBegins
    <2>2. CASE ~(StreamWritebackIsCurrent(m) \/ StreamWritebackCanSupersedeRecoveryMarker(m))
        BY <1>14, <2>2 DEF WritebackBegins
    <2> QED BY <2>1, <2>2
<1>15. ASSUME NEW m \in Turns, MergeResult(m) PROVE ActiveIsUnsettled'
    BY <1>15 DEF MergeResult
<1>16. ASSUME NEW m \in Turns, ReturnsError(m) PROVE ActiveIsUnsettled'
    BY <1>16 DEF ReturnsError
<1>17. ASSUME NEW m \in Turns, SaveResult(m) PROVE ActiveIsUnsettled'
    BY <1>17 DEF SaveResult
<1>18. ASSUME NEW m \in Turns, CompleteTurn(m) PROVE ActiveIsUnsettled'
    BY <1>18 DEF CompleteTurn
<1>19. ASSUME NEW m \in Turns, CommitWriteback(m) PROVE ActiveIsUnsettled'
    BY <1>19 DEF CommitWriteback
<1>20. ASSUME NEW m \in Turns, PutDone(m) PROVE ActiveIsUnsettled'
    BY <1>20 DEF PutDone
<1>21. ASSUME NEW m \in Turns, FailTurn(m) PROVE ActiveIsUnsettled'
    BY <1>21 DEF FailTurn
<1>22. ASSUME NEW m \in Turns, Unwind(m) PROVE ActiveIsUnsettled'
    BY <1>22 DEF Unwind
<1>23. ASSUME NEW m \in Turns, TearDown(m) PROVE ActiveIsUnsettled'
    BY <1>23 DEF TearDown
<1>24. ASSUME NEW m \in Turns, RowAges(m) PROVE ActiveIsUnsettled'
    BY <1>24 DEF RowAges
<1>25. ASSUME NEW k \in Stops, NEW m \in Turns, StopClaims(k, m) PROVE ActiveIsUnsettled'
    BY <1>25 DEF StopClaims
<1>26. ASSUME NEW k \in Stops, StopSignals(k) PROVE ActiveIsUnsettled'
    BY <1>26 DEF StopSignals
<1>27. ASSUME NEW k \in Stops, StopSettles(k) PROVE ActiveIsUnsettled'
    <2>1. CASE stops[k].known /\ StreamWritebackIsCurrent(stops[k].turn)
        BY <1>27, <2>1 DEF StopSettles
    <2>2. CASE ~(stops[k].known /\ StreamWritebackIsCurrent(stops[k].turn))
        BY <1>27, <2>2 DEF StopSettles
    <2> QED BY <2>1, <2>2
<1>28. ASSUME NEW k \in Stops, StopEmits(k) PROVE ActiveIsUnsettled'
    BY <1>28 DEF StopEmits
<1>29. ASSUME PendingAges \/ ClearStaleChecks PROVE ActiveIsUnsettled'
    BY <1>29 DEF PendingAges, ClearStaleChecks
<1>30. ASSUME ClearStaleClears PROVE ActiveIsUnsettled'
    BY <1>30 DEF ClearStaleClears
<1>31. ASSUME DropStaleCancelledRuns PROVE ActiveIsUnsettled'
    BY <1>31 DEF DropStaleCancelledRuns
<1>32. ASSUME Crash PROVE ActiveIsUnsettled'
    BY <1>32 DEF Crash
<1>33. CASE UNCHANGED vars
    BY <1>33 DEF vars
<1> QED
    BY <1>1, <1>2, <1>3, <1>4, <1>5, <1>6, <1>7, <1>8, <1>9, <1>10, <1>11, <1>12, <1>13, <1>14,
       <1>15, <1>16, <1>17, <1>18, <1>19, <1>20, <1>21, <1>22, <1>23, <1>24, <1>25, <1>26,
       <1>27, <1>28, <1>29, <1>30, <1>31, <1>32, <1>33
       DEF Next, LaunchStep, WorkerStep, BeforeAgent, WritebackStep, StopStep

\* A turn that has the session has the writeback.
LEMMA NextActiveOwnsWriteback ==
    ASSUME TypeOK, TurnsBeginInOrder, LockIsExclusive, SessionsHaveShape, OwnerIsLatest,
          ActiveIsUnsettled, WritebackIsCurrent, ActiveOwnsWriteback, [Next]_vars
    PROVE  ActiveOwnsWriteback'
<1>0. pc \in [Turns -> PCs] /\ latest \in Turn0
      /\ session \in Session /\ disk \in Session
    BY DEF TypeOK
<1> USE <1>0 DEF ReclaimRuns, Store, Settled, Goto, ClearWritebackOwnerIfOwned,
        FinalizeCancelledTurn, EndCancelled, Put, Log, SettlePendingSteer, registries, logs,
        history, bounds, TurnsBeginInOrder, SessionsHaveShape, SessionShape, ActiveIsUnsettled,
        ActiveOwnsWriteback, OwnerIsLatest, Unsettled, Open, Session, Turns, Turn0, PCs,
        Working, WithAgent, HoldsSessionLock, Launching
<1>1. ASSUME Start PROVE ActiveOwnsWriteback'
    BY <1>1 DEF Start
<1>2. ASSUME NEW m \in Turns, OpenStream(m) PROVE ActiveOwnsWriteback'
    BY <1>2 DEF OpenStream
<1>3. ASSUME NEW m \in Turns, StartThread(m) \/ InvocationReturns(m) \/ Raises(m)
      PROVE  ActiveOwnsWriteback'
    BY <1>3 DEF StartThread, InvocationReturns, Raises
<1>4. ASSUME NEW m \in Turns, StartThreadFails(m) PROVE ActiveOwnsWriteback'
    BY <1>4 DEF StartThreadFails
<1>5. ASSUME NEW m \in Turns, CleanupLaunchFailure(m) PROVE ActiveOwnsWriteback'
    BY <1>5 DEF CleanupLaunchFailure
<1>6. ASSUME NEW m \in Turns, Admit(m) PROVE ActiveOwnsWriteback'
    <2>1. /\ pc[m] = "spawned" /\ pc'[m] \in {"starting", "finished"}
          /\ \A n \in Turns \ {m} : pc'[n] = pc[n]
        BY <1>6 DEF Admit
    <2>2. UNCHANGED <<session, disk, latest>>
        BY <1>6 DEF Admit
    <2>3. \/ wbOwner' = wbOwner /\ pc'[m] = "starting"
          \/ wbOwner' = (IF wbOwner = m THEN 0 ELSE wbOwner) /\ pc'[m] = "finished"
        BY <1>6 DEF Admit
    <2> QED BY <2>1, <2>2, <2>3
<1>7. ASSUME NEW m \in Turns, MarkRunning(m) PROVE ActiveOwnsWriteback'
    BY <1>7 DEF MarkRunning
<1>8. ASSUME NEW m \in Turns, RegisterAgentIfCurrent(m) PROVE ActiveOwnsWriteback'
    <2>1. CASE m \in streams /\ m \notin cancelled
        BY <1>8, <2>1 DEF RegisterAgentIfCurrent
    <2>2. CASE ~(m \in streams /\ m \notin cancelled)
        BY <1>8, <2>2 DEF RegisterAgentIfCurrent
    <2> QED BY <2>1, <2>2
<1>9. ASSUME NEW m \in Turns, AgentCanInvoke(m) PROVE ActiveOwnsWriteback'
    <2>1. CASE m \in streams /\ m \notin cancelled /\ m \in agents
        BY <1>9, <2>1 DEF AgentCanInvoke
    <2>2. CASE ~(m \in streams /\ m \notin cancelled /\ m \in agents)
        BY <1>9, <2>2 DEF AgentCanInvoke
    <2> QED BY <2>1, <2>2
<1>10. ASSUME NEW m \in Turns, PassesCancelCheck(m) PROVE ActiveOwnsWriteback'
    <2>1. CASE pc[m] = "returned"
        BY <1>10, <2>1 DEF PassesCancelCheck
    <2>2. CASE ~(pc[m] = "returned")
        BY <1>10, <2>2 DEF PassesCancelCheck
    <2> QED BY <2>1, <2>2
<1>11. ASSUME NEW m \in Turns, FinalizeRejected(m) PROVE ActiveOwnsWriteback'
    BY <1>11 DEF FinalizeRejected
<1>12. ASSUME NEW m \in Turns, CancelledOnReturn(m) PROVE ActiveOwnsWriteback'
    BY <1>12 DEF CancelledOnReturn
<1>13. ASSUME NEW m \in Turns, CancelledInWriteback(m) PROVE ActiveOwnsWriteback'
    BY <1>13 DEF CancelledInWriteback
<1>14. ASSUME NEW m \in Turns, WritebackBegins(m) PROVE ActiveOwnsWriteback'
    <2>1. CASE StreamWritebackIsCurrent(m) \/ StreamWritebackCanSupersedeRecoveryMarker(m)
        BY <1>14, <2>1 DEF WritebackBegins
    <2>2. CASE ~(StreamWritebackIsCurrent(m) \/ StreamWritebackCanSupersedeRecoveryMarker(m))
        BY <1>14, <2>2 DEF WritebackBegins
    <2> QED BY <2>1, <2>2
<1>15. ASSUME NEW m \in Turns, MergeResult(m) PROVE ActiveOwnsWriteback'
    BY <1>15 DEF MergeResult
<1>16. ASSUME NEW m \in Turns, ReturnsError(m) PROVE ActiveOwnsWriteback'
    BY <1>16 DEF ReturnsError
<1>17. ASSUME NEW m \in Turns, SaveResult(m) PROVE ActiveOwnsWriteback'
    BY <1>17 DEF SaveResult
<1>18. ASSUME NEW m \in Turns, CompleteTurn(m) PROVE ActiveOwnsWriteback'
    BY <1>18 DEF CompleteTurn
<1>19. ASSUME NEW m \in Turns, CommitWriteback(m) PROVE ActiveOwnsWriteback'
    BY <1>19 DEF CommitWriteback
<1>20. ASSUME NEW m \in Turns, PutDone(m) PROVE ActiveOwnsWriteback'
    BY <1>20 DEF PutDone
<1>21. ASSUME NEW m \in Turns, FailTurn(m) PROVE ActiveOwnsWriteback'
    BY <1>21 DEF FailTurn
<1>22. ASSUME NEW m \in Turns, Unwind(m) PROVE ActiveOwnsWriteback'
    BY <1>22 DEF Unwind
<1>23. ASSUME NEW m \in Turns, TearDown(m) PROVE ActiveOwnsWriteback'
    BY <1>23 DEF TearDown
<1>24. ASSUME NEW m \in Turns, RowAges(m) PROVE ActiveOwnsWriteback'
    BY <1>24 DEF RowAges
<1>25. ASSUME NEW k \in Stops, NEW m \in Turns, StopClaims(k, m) PROVE ActiveOwnsWriteback'
    BY <1>25 DEF StopClaims
<1>26. ASSUME NEW k \in Stops, StopSignals(k) PROVE ActiveOwnsWriteback'
    BY <1>26 DEF StopSignals
<1>27. ASSUME NEW k \in Stops, StopSettles(k) PROVE ActiveOwnsWriteback'
    <2>1. CASE stops[k].known /\ StreamWritebackIsCurrent(stops[k].turn)
        BY <1>27, <2>1 DEF StopSettles
    <2>2. CASE ~(stops[k].known /\ StreamWritebackIsCurrent(stops[k].turn))
        BY <1>27, <2>2 DEF StopSettles
    <2> QED BY <2>1, <2>2
<1>28. ASSUME NEW k \in Stops, StopEmits(k) PROVE ActiveOwnsWriteback'
    BY <1>28 DEF StopEmits
<1>29. ASSUME PendingAges \/ ClearStaleChecks PROVE ActiveOwnsWriteback'
    BY <1>29 DEF PendingAges, ClearStaleChecks
<1>30. ASSUME ClearStaleClears PROVE ActiveOwnsWriteback'
    BY <1>30 DEF ClearStaleClears
<1>31. ASSUME DropStaleCancelledRuns PROVE ActiveOwnsWriteback'
    BY <1>31 DEF DropStaleCancelledRuns
<1>32. ASSUME Crash PROVE ActiveOwnsWriteback'
    BY <1>32 DEF Crash
<1>33. CASE UNCHANGED vars
    BY <1>33 DEF vars
<1> QED
    BY <1>1, <1>2, <1>3, <1>4, <1>5, <1>6, <1>7, <1>8, <1>9, <1>10, <1>11, <1>12, <1>13, <1>14,
       <1>15, <1>16, <1>17, <1>18, <1>19, <1>20, <1>21, <1>22, <1>23, <1>24, <1>25, <1>26,
       <1>27, <1>28, <1>29, <1>30, <1>31, <1>32, <1>33
       DEF Next, LaunchStep, WorkerStep, BeforeAgent, WritebackStep, StopStep

\* The disk is behind for as long as a worker is between merge and save.
LEMMA NextDiskFollows ==
    ASSUME TypeOK, TurnsBeginInOrder, LockIsExclusive, SessionsHaveShape, OwnerIsLatest,
          ActiveIsUnsettled, WritebackIsCurrent, ActiveOwnsWriteback, DiskFollows, [Next]_vars
    PROVE  DiskFollows'
<1>0. pc \in [Turns -> PCs] /\ latest \in Turn0
      /\ session \in Session /\ disk \in Session
    BY DEF TypeOK
<1> USE <1>0 DEF ReclaimRuns, Store, Settled, Goto, ClearWritebackOwnerIfOwned,
        FinalizeCancelledTurn, EndCancelled, Put, Log, SettlePendingSteer, registries, logs,
        history, bounds, TurnsBeginInOrder, LockIsExclusive, SessionsHaveShape, SessionShape,
        OwnerIsLatest, ActiveOwnsWriteback, WritebackIsCurrent, DiskFollows, ActiveIsUnsettled,
        LockFree, Unsettled, Open, Session, StreamWritebackIsCurrent,
        StreamWritebackCanSupersedeRecoveryMarker, Turns, Turn0, PCs, Working, WithAgent,
        HoldsSessionLock, Launching
<1>1. ASSUME Start PROVE DiskFollows'
    BY <1>1 DEF Start
<1>2. ASSUME NEW m \in Turns, OpenStream(m) PROVE DiskFollows'
    BY <1>2 DEF OpenStream
<1>3. ASSUME NEW m \in Turns, StartThread(m) PROVE DiskFollows'
    BY <1>3 DEF StartThread
<1>4. ASSUME NEW m \in Turns, InvocationReturns(m) PROVE DiskFollows'
    BY <1>4 DEF InvocationReturns
<1>5. ASSUME NEW m \in Turns, Raises(m) PROVE DiskFollows'
    BY <1>5 DEF Raises
<1>6. ASSUME NEW m \in Turns, StartThreadFails(m) PROVE DiskFollows'
    BY <1>6 DEF StartThreadFails
<1>7. ASSUME NEW m \in Turns, CleanupLaunchFailure(m) PROVE DiskFollows'
    BY <1>7 DEF CleanupLaunchFailure
<1>8. ASSUME NEW m \in Turns, Admit(m) PROVE DiskFollows'
    <2>1. /\ pc[m] = "spawned" /\ pc'[m] \in {"starting", "finished"}
          /\ \A n \in Turns \ {m} : pc'[n] = pc[n]
        BY <1>8 DEF Admit
    <2>2. UNCHANGED <<session, disk, latest>>
        BY <1>8 DEF Admit
    <2>3. \/ wbOwner' = wbOwner /\ pc'[m] = "starting"
          \/ wbOwner' = (IF wbOwner = m THEN 0 ELSE wbOwner) /\ pc'[m] = "finished"
        BY <1>8 DEF Admit
    <2> QED BY <2>1, <2>2, <2>3
<1>9. ASSUME NEW m \in Turns, MarkRunning(m) PROVE DiskFollows'
    BY <1>9 DEF MarkRunning
<1>10. ASSUME NEW m \in Turns, RegisterAgentIfCurrent(m) PROVE DiskFollows'
    <2>1. CASE m \in streams /\ m \notin cancelled
        BY <1>10, <2>1 DEF RegisterAgentIfCurrent
    <2>2. CASE ~(m \in streams /\ m \notin cancelled)
        BY <1>10, <2>2 DEF RegisterAgentIfCurrent
    <2> QED BY <2>1, <2>2
<1>11. ASSUME NEW m \in Turns, AgentCanInvoke(m) PROVE DiskFollows'
    <2>1. CASE m \in streams /\ m \notin cancelled /\ m \in agents
        BY <1>11, <2>1 DEF AgentCanInvoke
    <2>2. CASE ~(m \in streams /\ m \notin cancelled /\ m \in agents)
        BY <1>11, <2>2 DEF AgentCanInvoke
    <2> QED BY <2>1, <2>2
<1>12. ASSUME NEW m \in Turns, PassesCancelCheck(m) PROVE DiskFollows'
    <2>1. CASE pc[m] = "returned"
        BY <1>12, <2>1 DEF PassesCancelCheck
    <2>2. CASE ~(pc[m] = "returned")
        BY <1>12, <2>2 DEF PassesCancelCheck
    <2> QED BY <2>1, <2>2
<1>13. ASSUME NEW m \in Turns, FinalizeRejected(m) PROVE DiskFollows'
    BY <1>13 DEF FinalizeRejected
<1>14. ASSUME NEW m \in Turns, CancelledOnReturn(m) PROVE DiskFollows'
    BY <1>14 DEF CancelledOnReturn
<1>15. ASSUME NEW m \in Turns, CancelledInWriteback(m) PROVE DiskFollows'
    BY <1>15 DEF CancelledInWriteback
<1>16. ASSUME NEW m \in Turns, WritebackBegins(m) PROVE DiskFollows'
    <2>1. CASE StreamWritebackIsCurrent(m) \/ StreamWritebackCanSupersedeRecoveryMarker(m)
        BY <1>16, <2>1 DEF WritebackBegins
    <2>2. CASE ~(StreamWritebackIsCurrent(m) \/ StreamWritebackCanSupersedeRecoveryMarker(m))
        BY <1>16, <2>2 DEF WritebackBegins
    <2> QED BY <2>1, <2>2
<1>17. ASSUME NEW m \in Turns, MergeResult(m) PROVE DiskFollows'
    BY <1>17 DEF MergeResult
<1>18. ASSUME NEW m \in Turns, ReturnsError(m) PROVE DiskFollows'
    BY <1>18 DEF ReturnsError
<1>19. ASSUME NEW m \in Turns, SaveResult(m) PROVE DiskFollows'
    BY <1>19 DEF SaveResult
<1>20. ASSUME NEW m \in Turns, CompleteTurn(m) PROVE DiskFollows'
    BY <1>20 DEF CompleteTurn
<1>21. ASSUME NEW m \in Turns, CommitWriteback(m) PROVE DiskFollows'
    BY <1>21 DEF CommitWriteback
<1>22. ASSUME NEW m \in Turns, PutDone(m) PROVE DiskFollows'
    BY <1>22 DEF PutDone
<1>23. ASSUME NEW m \in Turns, FailTurn(m) PROVE DiskFollows'
    BY <1>23 DEF FailTurn
<1>24. ASSUME NEW m \in Turns, Unwind(m) PROVE DiskFollows'
    BY <1>24 DEF Unwind
<1>25. ASSUME NEW m \in Turns, TearDown(m) PROVE DiskFollows'
    BY <1>25 DEF TearDown
<1>26. ASSUME NEW m \in Turns, RowAges(m) PROVE DiskFollows'
    BY <1>26 DEF RowAges
<1>27. ASSUME NEW k \in Stops, NEW m \in Turns, StopClaims(k, m) PROVE DiskFollows'
    BY <1>27 DEF StopClaims
<1>28. ASSUME NEW k \in Stops, StopSignals(k) PROVE DiskFollows'
    BY <1>28 DEF StopSignals
<1>29. ASSUME NEW k \in Stops, StopSettles(k) PROVE DiskFollows'
    <2>1. CASE stops[k].known /\ StreamWritebackIsCurrent(stops[k].turn)
        BY <1>29, <2>1 DEF StopSettles
    <2>2. CASE ~(stops[k].known /\ StreamWritebackIsCurrent(stops[k].turn))
        BY <1>29, <2>2 DEF StopSettles
    <2> QED BY <2>1, <2>2
<1>30. ASSUME NEW k \in Stops, StopEmits(k) PROVE DiskFollows'
    BY <1>30 DEF StopEmits
<1>31. ASSUME PendingAges \/ ClearStaleChecks PROVE DiskFollows'
    BY <1>31 DEF PendingAges, ClearStaleChecks
<1>32. ASSUME ClearStaleClears PROVE DiskFollows'
    BY <1>32 DEF ClearStaleClears
<1>33. ASSUME DropStaleCancelledRuns PROVE DiskFollows'
    BY <1>33 DEF DropStaleCancelledRuns
<1>34. ASSUME Crash PROVE DiskFollows'
    BY <1>34 DEF Crash
<1>35. CASE UNCHANGED vars
    BY <1>35 DEF vars
<1> QED
    BY <1>1, <1>2, <1>3, <1>4, <1>5, <1>6, <1>7, <1>8, <1>9, <1>10, <1>11, <1>12, <1>13, <1>14,
       <1>15, <1>16, <1>17, <1>18, <1>19, <1>20, <1>21, <1>22, <1>23, <1>24, <1>25, <1>26,
       <1>27, <1>28, <1>29, <1>30, <1>31, <1>32, <1>33, <1>34, <1>35
       DEF Next, LaunchStep, WorkerStep, BeforeAgent, WritebackStep, StopStep

\* Nobody else writes the session while a worker holds the lock.
LEMMA NextWritebackIsCurrent ==
    ASSUME TypeOK, TurnsBeginInOrder, LockIsExclusive, SessionsHaveShape, ActiveIsUnsettled,
          WritebackIsCurrent, [Next]_vars
    PROVE  WritebackIsCurrent'
<1>0. pc \in [Turns -> PCs] /\ latest \in Turn0
      /\ session \in Session /\ disk \in Session
    BY DEF TypeOK
<1> USE <1>0, SupersedeFrame DEF ReclaimRuns, Store, Settled, Goto, ClearWritebackOwnerIfOwned,
        FinalizeCancelledTurn, EndCancelled, Put, Log, SettlePendingSteer, registries, logs,
        history, bounds, TurnsBeginInOrder, LockIsExclusive, SessionsHaveShape, SessionShape,
        WritebackIsCurrent, ActiveIsUnsettled, LockFree, Unsettled, Turns, Turn0, PCs, Working,
        WithAgent, HoldsSessionLock, Launching
<1>1. ASSUME Start PROVE WritebackIsCurrent'
    BY <1>1 DEF Start
<1>2. ASSUME NEW m \in Turns, OpenStream(m) PROVE WritebackIsCurrent'
    BY <1>2 DEF OpenStream
<1>3. ASSUME NEW m \in Turns, StartThread(m) \/ InvocationReturns(m) \/ Raises(m)
      PROVE  WritebackIsCurrent'
    BY <1>3 DEF StartThread, InvocationReturns, Raises
<1>4. ASSUME NEW m \in Turns, StartThreadFails(m) PROVE WritebackIsCurrent'
    BY <1>4 DEF StartThreadFails
<1>5. ASSUME NEW m \in Turns, CleanupLaunchFailure(m) PROVE WritebackIsCurrent'
    BY <1>5 DEF CleanupLaunchFailure
<1>6. ASSUME NEW m \in Turns, Admit(m) PROVE WritebackIsCurrent'
    <2>1. CASE m \in streams
        BY <1>6, <2>1 DEF Admit
    <2>2. CASE ~(m \in streams)
        BY <1>6, <2>2 DEF Admit
    <2> QED BY <2>1, <2>2
<1>7. ASSUME NEW m \in Turns, MarkRunning(m) PROVE WritebackIsCurrent'
    BY <1>7 DEF MarkRunning
<1>8. ASSUME NEW m \in Turns, RegisterAgentIfCurrent(m) PROVE WritebackIsCurrent'
    <2>1. CASE m \in streams /\ m \notin cancelled
        BY <1>8, <2>1 DEF RegisterAgentIfCurrent
    <2>2. CASE ~(m \in streams /\ m \notin cancelled)
        BY <1>8, <2>2 DEF RegisterAgentIfCurrent
    <2> QED BY <2>1, <2>2
<1>9. ASSUME NEW m \in Turns, AgentCanInvoke(m) PROVE WritebackIsCurrent'
    <2>1. CASE m \in streams /\ m \notin cancelled /\ m \in agents
        BY <1>9, <2>1 DEF AgentCanInvoke
    <2>2. CASE ~(m \in streams /\ m \notin cancelled /\ m \in agents)
        BY <1>9, <2>2 DEF AgentCanInvoke
    <2> QED BY <2>1, <2>2
<1>10. ASSUME NEW m \in Turns, PassesCancelCheck(m) PROVE WritebackIsCurrent'
    <2>1. CASE pc[m] = "returned"
        BY <1>10, <2>1 DEF PassesCancelCheck
    <2>2. CASE ~(pc[m] = "returned")
        BY <1>10, <2>2 DEF PassesCancelCheck
    <2> QED BY <2>1, <2>2
<1>11. ASSUME NEW m \in Turns, FinalizeRejected(m) PROVE WritebackIsCurrent'
    BY <1>11 DEF FinalizeRejected
<1>12. ASSUME NEW m \in Turns, CancelledOnReturn(m) PROVE WritebackIsCurrent'
    BY <1>12 DEF CancelledOnReturn
<1>13. ASSUME NEW m \in Turns, CancelledInWriteback(m) PROVE WritebackIsCurrent'
    BY <1>13 DEF CancelledInWriteback
<1>14. ASSUME NEW m \in Turns, WritebackBegins(m) PROVE WritebackIsCurrent'
    <2>1. CASE StreamWritebackIsCurrent(m) \/ StreamWritebackCanSupersedeRecoveryMarker(m)
        BY <1>14, <2>1 DEF WritebackBegins
    <2>2. CASE ~(StreamWritebackIsCurrent(m) \/ StreamWritebackCanSupersedeRecoveryMarker(m))
        BY <1>14, <2>2 DEF WritebackBegins
    <2> QED BY <2>1, <2>2
<1>15. ASSUME NEW m \in Turns, MergeResult(m) PROVE WritebackIsCurrent'
    BY <1>15 DEF MergeResult
<1>16. ASSUME NEW m \in Turns, ReturnsError(m) PROVE WritebackIsCurrent'
    BY <1>16 DEF ReturnsError
<1>17. ASSUME NEW m \in Turns, SaveResult(m) PROVE WritebackIsCurrent'
    BY <1>17 DEF SaveResult
<1>18. ASSUME NEW m \in Turns, CompleteTurn(m) PROVE WritebackIsCurrent'
    BY <1>18 DEF CompleteTurn
<1>19. ASSUME NEW m \in Turns, CommitWriteback(m) PROVE WritebackIsCurrent'
    BY <1>19 DEF CommitWriteback
<1>20. ASSUME NEW m \in Turns, PutDone(m) PROVE WritebackIsCurrent'
    BY <1>20 DEF PutDone
<1>21. ASSUME NEW m \in Turns, FailTurn(m) PROVE WritebackIsCurrent'
    BY <1>21 DEF FailTurn
<1>22. ASSUME NEW m \in Turns, Unwind(m) PROVE WritebackIsCurrent'
    BY <1>22 DEF Unwind
<1>23. ASSUME NEW m \in Turns, TearDown(m) PROVE WritebackIsCurrent'
    BY <1>23 DEF TearDown
<1>24. ASSUME NEW m \in Turns, RowAges(m) PROVE WritebackIsCurrent'
    BY <1>24 DEF RowAges
<1>25. ASSUME NEW k \in Stops, NEW m \in Turns, StopClaims(k, m) PROVE WritebackIsCurrent'
    BY <1>25 DEF StopClaims
<1>26. ASSUME NEW k \in Stops, StopSignals(k) PROVE WritebackIsCurrent'
    BY <1>26 DEF StopSignals
<1>27. ASSUME NEW k \in Stops, StopSettles(k) PROVE WritebackIsCurrent'
    <2>1. CASE stops[k].known /\ StreamWritebackIsCurrent(stops[k].turn)
        BY <1>27, <2>1 DEF StopSettles
    <2>2. CASE ~(stops[k].known /\ StreamWritebackIsCurrent(stops[k].turn))
        BY <1>27, <2>2 DEF StopSettles
    <2> QED BY <2>1, <2>2
<1>28. ASSUME NEW k \in Stops, StopEmits(k) PROVE WritebackIsCurrent'
    BY <1>28 DEF StopEmits
<1>29. ASSUME PendingAges \/ ClearStaleChecks PROVE WritebackIsCurrent'
    BY <1>29 DEF PendingAges, ClearStaleChecks
<1>30. ASSUME ClearStaleClears PROVE WritebackIsCurrent'
    BY <1>30 DEF ClearStaleClears
<1>31. ASSUME DropStaleCancelledRuns PROVE WritebackIsCurrent'
    BY <1>31 DEF DropStaleCancelledRuns
<1>32. ASSUME Crash PROVE WritebackIsCurrent'
    BY <1>32 DEF Crash
<1>33. CASE UNCHANGED vars
    BY <1>33 DEF vars
<1> QED
    BY <1>1, <1>2, <1>3, <1>4, <1>5, <1>6, <1>7, <1>8, <1>9, <1>10, <1>11, <1>12, <1>13, <1>14,
       <1>15, <1>16, <1>17, <1>18, <1>19, <1>20, <1>21, <1>22, <1>23, <1>24, <1>25, <1>26,
       <1>27, <1>28, <1>29, <1>30, <1>31, <1>32, <1>33
       DEF Next, LaunchStep, WorkerStep, BeforeAgent, WritebackStep, StopStep

\* A Stop is of a turn that was opened, and settles it for good.
LEMMA NextStopsAreOfOpenTurns ==
    ASSUME TypeOK, TurnsBeginInOrder, RegistriesFollowWorkers, RunsHaveTheirOwner,
          StopsAreOfOpenTurns, [Next]_vars
    PROVE  StopsAreOfOpenTurns'
<1>0. pc \in [Turns -> PCs] /\ latest \in Turn0 /\ session \in Session
      /\ stops \in [Stops -> Stop]
      /\ \A k \in Stops : stops[k].pc # "idle" => stops[k].turn \in Turns
    BY DEF TypeOK
<1> USE <1>0 DEF ReclaimRuns, Store, Settled, Goto, ClearWritebackOwnerIfOwned,
        FinalizeCancelledTurn, EndCancelled, Put, Log, SettlePendingSteer, registries, logs,
        history, bounds, TurnsBeginInOrder, RegistriesFollowWorkers, RunsHaveTheirOwner,
        StopsAreOfOpenTurns, Stop, NoStop, Open, StreamWritebackIsCurrent, Turns, Turn0,
        Session, PCs, Working, WithAgent, HoldsSessionLock, Launching
<1>1. ASSUME Start PROVE StopsAreOfOpenTurns'
    BY <1>1 DEF Start
<1>2. ASSUME NEW m \in Turns, OpenStream(m) PROVE StopsAreOfOpenTurns'
    BY <1>2 DEF OpenStream
<1>3. ASSUME NEW m \in Turns, StartThread(m) PROVE StopsAreOfOpenTurns'
    <2>1. pc[m] = "opened" /\ pc'[m] = "spawned" /\ \A n \in Turns \ {m} : pc'[n] = pc[n]
        BY <1>3 DEF StartThread
    <2>2. UNCHANGED <<stops, session>>
        BY <1>3 DEF StartThread
    <2> QED BY <2>1, <2>2
<1>4. ASSUME NEW m \in Turns, InvocationReturns(m) PROVE StopsAreOfOpenTurns'
    <2>1. pc[m] = "invoked" /\ pc'[m] = "returned" /\ \A n \in Turns \ {m} : pc'[n] = pc[n]
        BY <1>4 DEF InvocationReturns
    <2>2. UNCHANGED <<stops, session>>
        BY <1>4 DEF InvocationReturns
    <2> QED BY <2>1, <2>2
<1>5. ASSUME NEW m \in Turns, Raises(m) PROVE StopsAreOfOpenTurns'
    <2>1. /\ pc[m] \in {"running", "registered", "invoked"} /\ pc'[m] = "raised"
          /\ \A n \in Turns \ {m} : pc'[n] = pc[n]
        BY <1>5 DEF Raises
    <2>2. UNCHANGED <<stops, session>>
        BY <1>5 DEF Raises
    <2> QED BY <2>1, <2>2
<1>6. ASSUME NEW m \in Turns, StartThreadFails(m) PROVE StopsAreOfOpenTurns'
    BY <1>6 DEF StartThreadFails
<1>7. ASSUME NEW m \in Turns, CleanupLaunchFailure(m) PROVE StopsAreOfOpenTurns'
    BY <1>7 DEF CleanupLaunchFailure
<1>8. ASSUME NEW m \in Turns, Admit(m) PROVE StopsAreOfOpenTurns'
    <2>1. /\ pc[m] = "spawned" /\ pc'[m] \in {"starting", "finished"}
          /\ \A n \in Turns \ {m} : pc'[n] = pc[n]
        BY <1>8 DEF Admit
    <2>2. UNCHANGED <<stops, session>>
        BY <1>8 DEF Admit
    <2> QED BY <2>1, <2>2
<1>9. ASSUME NEW m \in Turns, MarkRunning(m) PROVE StopsAreOfOpenTurns'
    BY <1>9 DEF MarkRunning
<1>10. ASSUME NEW m \in Turns, RegisterAgentIfCurrent(m) PROVE StopsAreOfOpenTurns'
    <2>1. /\ pc[m] = "running" /\ pc'[m] \in {"registered", "rejected"}
          /\ \A n \in Turns \ {m} : pc'[n] = pc[n]
        BY <1>10 DEF RegisterAgentIfCurrent
    <2>2. UNCHANGED <<stops, session>>
        BY <1>10 DEF RegisterAgentIfCurrent
    <2> QED BY <2>1, <2>2
<1>11. ASSUME NEW m \in Turns, AgentCanInvoke(m) PROVE StopsAreOfOpenTurns'
    <2>1. /\ pc[m] = "registered" /\ pc'[m] \in {"invoked", "rejected"}
          /\ \A n \in Turns \ {m} : pc'[n] = pc[n]
        BY <1>11 DEF AgentCanInvoke
    <2>2. UNCHANGED <<stops, session>>
        BY <1>11 DEF AgentCanInvoke
    <2> QED BY <2>1, <2>2
<1>12. ASSUME NEW m \in Turns, PassesCancelCheck(m) PROVE StopsAreOfOpenTurns'
    <2>1. /\ pc[m] \in {"returned", "raised"} /\ pc'[m] \in {"writing", "failing"}
          /\ \A n \in Turns \ {m} : pc'[n] = pc[n]
        BY <1>12 DEF PassesCancelCheck
    <2>2. UNCHANGED <<stops, session>>
        BY <1>12 DEF PassesCancelCheck
    <2> QED BY <2>1, <2>2
<1>13. ASSUME NEW m \in Turns, FinalizeRejected(m) PROVE StopsAreOfOpenTurns'
    BY <1>13 DEF FinalizeRejected
<1>14. ASSUME NEW m \in Turns, CancelledOnReturn(m) PROVE StopsAreOfOpenTurns'
    BY <1>14 DEF CancelledOnReturn
<1>15. ASSUME NEW m \in Turns, CancelledInWriteback(m) PROVE StopsAreOfOpenTurns'
    BY <1>15 DEF CancelledInWriteback
<1>16. ASSUME NEW m \in Turns, WritebackBegins(m) PROVE StopsAreOfOpenTurns'
    <2>1. /\ pc[m] = "writing" /\ pc'[m] \in {"merging", "unwinding"}
          /\ \A n \in Turns \ {m} : pc'[n] = pc[n]
        BY <1>16 DEF WritebackBegins
    <2>2. UNCHANGED <<stops, session>>
        BY <1>16 DEF WritebackBegins
    <2> QED BY <2>1, <2>2
<1>17. ASSUME NEW m \in Turns, MergeResult(m) PROVE StopsAreOfOpenTurns'
    BY <1>17 DEF MergeResult
<1>18. ASSUME NEW m \in Turns, ReturnsError(m) PROVE StopsAreOfOpenTurns'
    BY <1>18 DEF ReturnsError
<1>19. ASSUME NEW m \in Turns, SaveResult(m) PROVE StopsAreOfOpenTurns'
    BY <1>19 DEF SaveResult
<1>20. ASSUME NEW m \in Turns, CompleteTurn(m) PROVE StopsAreOfOpenTurns'
    BY <1>20 DEF CompleteTurn
<1>21. ASSUME NEW m \in Turns, CommitWriteback(m) PROVE StopsAreOfOpenTurns'
    BY <1>21 DEF CommitWriteback
<1>22. ASSUME NEW m \in Turns, PutDone(m) PROVE StopsAreOfOpenTurns'
    BY <1>22 DEF PutDone
<1>23. ASSUME NEW m \in Turns, FailTurn(m) PROVE StopsAreOfOpenTurns'
    BY <1>23 DEF FailTurn
<1>24. ASSUME NEW m \in Turns, Unwind(m) PROVE StopsAreOfOpenTurns'
    BY <1>24 DEF Unwind
<1>25. ASSUME NEW m \in Turns, TearDown(m) PROVE StopsAreOfOpenTurns'
    BY <1>25 DEF TearDown
<1>26. ASSUME NEW m \in Turns, RowAges(m) PROVE StopsAreOfOpenTurns'
    BY <1>26 DEF RowAges
<1>27. ASSUME NEW k \in Stops, NEW m \in Turns, StopClaims(k, m) PROVE StopsAreOfOpenTurns'
    BY <1>27 DEF StopClaims
<1>28. ASSUME NEW k \in Stops, StopSignals(k) PROVE StopsAreOfOpenTurns'
    BY <1>28 DEF StopSignals
<1>29. ASSUME NEW k \in Stops, StopSettles(k) PROVE StopsAreOfOpenTurns'
    <2>1. CASE stops[k].known /\ StreamWritebackIsCurrent(stops[k].turn)
        BY <1>29, <2>1 DEF StopSettles
    <2>2. CASE stops[k].known /\ ~StreamWritebackIsCurrent(stops[k].turn)
        <3>1. UNCHANGED <<pc, session>> /\ stops' = [stops EXCEPT ![k] = NoStop]
            BY <1>29, <2>2 DEF StopSettles
        <3> QED BY <3>1
    <2> QED BY <1>29, <2>1, <2>2 DEF StopSettles
<1>30. ASSUME NEW k \in Stops, StopEmits(k) PROVE StopsAreOfOpenTurns'
    BY <1>30 DEF StopEmits
<1>31. ASSUME PendingAges \/ ClearStaleChecks PROVE StopsAreOfOpenTurns'
    BY <1>31 DEF PendingAges, ClearStaleChecks
<1>32. ASSUME ClearStaleClears PROVE StopsAreOfOpenTurns'
    BY <1>32 DEF ClearStaleClears
<1>33. ASSUME DropStaleCancelledRuns PROVE StopsAreOfOpenTurns'
    BY <1>33 DEF DropStaleCancelledRuns
<1>34. ASSUME Crash PROVE StopsAreOfOpenTurns'
    BY <1>34 DEF Crash
<1>35. CASE UNCHANGED vars
    BY <1>35 DEF vars
<1> QED
    BY <1>1, <1>2, <1>3, <1>4, <1>5, <1>6, <1>7, <1>8, <1>9, <1>10, <1>11, <1>12, <1>13, <1>14,
       <1>15, <1>16, <1>17, <1>18, <1>19, <1>20, <1>21, <1>22, <1>23, <1>24, <1>25, <1>26,
       <1>27, <1>28, <1>29, <1>30, <1>31, <1>32, <1>33, <1>34, <1>35
       DEF Next, LaunchStep, WorkerStep, BeforeAgent, WritebackStep, StopStep

\* The Stop that detached a stream stays until the turn has lost the session.
LEMMA NextDetachedIsStopped ==
    ASSUME TypeOK, TurnsBeginInOrder, RegistriesFollowWorkers, SessionsHaveShape,
          ActiveIsUnsettled, StopsAreOfOpenTurns, DetachedIsStopped, [Next]_vars
    PROVE  DetachedIsStopped'
<1>0. pc \in [Turns -> PCs] /\ latest \in Turn0 /\ session \in Session
      /\ stops \in [Stops -> Stop]
      /\ \A k \in Stops : stops[k].pc # "idle" => stops[k].turn \in Turns
    BY DEF TypeOK
<1> USE <1>0 DEF ReclaimRuns, Store, Settled, Goto, ClearWritebackOwnerIfOwned,
        FinalizeCancelledTurn, EndCancelled, Put, Log, SettlePendingSteer, registries, logs,
        history, bounds, TurnsBeginInOrder, RegistriesFollowWorkers, SessionsHaveShape,
        SessionShape, ActiveIsUnsettled, StopsAreOfOpenTurns, DetachedIsStopped, StopInFlight,
        NoStop, Stop, Open, Unsettled, StreamWritebackIsCurrent, Turns, Turn0, Session, PCs,
        Working, WithAgent, HoldsSessionLock, Launching
<1>1. ASSUME Start PROVE DetachedIsStopped'
    BY <1>1 DEF Start
<1>2. ASSUME NEW m \in Turns, OpenStream(m) PROVE DetachedIsStopped'
    BY <1>2 DEF OpenStream
<1>3. ASSUME NEW m \in Turns, StartThread(m) PROVE DetachedIsStopped'
    <2>1. pc[m] = "opened" /\ pc'[m] = "spawned" /\ \A n \in Turns \ {m} : pc'[n] = pc[n]
        BY <1>3 DEF StartThread
    <2>2. UNCHANGED <<stops, session, streams>>
        BY <1>3 DEF StartThread
    <2> QED BY <2>1, <2>2
<1>4. ASSUME NEW m \in Turns, InvocationReturns(m) PROVE DetachedIsStopped'
    <2>1. pc[m] = "invoked" /\ pc'[m] = "returned" /\ \A n \in Turns \ {m} : pc'[n] = pc[n]
        BY <1>4 DEF InvocationReturns
    <2>2. UNCHANGED <<stops, session, streams>>
        BY <1>4 DEF InvocationReturns
    <2> QED BY <2>1, <2>2
<1>5. ASSUME NEW m \in Turns, Raises(m) PROVE DetachedIsStopped'
    <2>1. /\ pc[m] \in {"running", "registered", "invoked"} /\ pc'[m] = "raised"
          /\ \A n \in Turns \ {m} : pc'[n] = pc[n]
        BY <1>5 DEF Raises
    <2>2. UNCHANGED <<stops, session, streams>>
        BY <1>5 DEF Raises
    <2> QED BY <2>1, <2>2
<1>6. ASSUME NEW m \in Turns, StartThreadFails(m) PROVE DetachedIsStopped'
    BY <1>6 DEF StartThreadFails
<1>7. ASSUME NEW m \in Turns, CleanupLaunchFailure(m) PROVE DetachedIsStopped'
    BY <1>7 DEF CleanupLaunchFailure
<1>8. ASSUME NEW m \in Turns, Admit(m) PROVE DetachedIsStopped'
    <2>1. /\ pc[m] = "spawned" /\ pc'[m] \in {"starting", "finished"}
          /\ \A n \in Turns \ {m} : pc'[n] = pc[n]
        BY <1>8 DEF Admit
    <2>2. UNCHANGED <<stops, session, streams>>
        BY <1>8 DEF Admit
    <2> QED BY <2>1, <2>2
<1>9. ASSUME NEW m \in Turns, MarkRunning(m) PROVE DetachedIsStopped'
    BY <1>9 DEF MarkRunning
<1>10. ASSUME NEW m \in Turns, RegisterAgentIfCurrent(m) PROVE DetachedIsStopped'
    <2>1. /\ pc[m] = "running" /\ pc'[m] \in {"registered", "rejected"}
          /\ \A n \in Turns \ {m} : pc'[n] = pc[n]
        BY <1>10 DEF RegisterAgentIfCurrent
    <2>2. UNCHANGED <<stops, session, streams>>
        BY <1>10 DEF RegisterAgentIfCurrent
    <2> QED BY <2>1, <2>2
<1>11. ASSUME NEW m \in Turns, AgentCanInvoke(m) PROVE DetachedIsStopped'
    <2>1. /\ pc[m] = "registered" /\ pc'[m] \in {"invoked", "rejected"}
          /\ \A n \in Turns \ {m} : pc'[n] = pc[n]
        BY <1>11 DEF AgentCanInvoke
    <2>2. UNCHANGED <<stops, session, streams>>
        BY <1>11 DEF AgentCanInvoke
    <2> QED BY <2>1, <2>2
<1>12. ASSUME NEW m \in Turns, PassesCancelCheck(m) PROVE DetachedIsStopped'
    <2>1. /\ pc[m] \in {"returned", "raised"} /\ pc'[m] \in {"writing", "failing"}
          /\ \A n \in Turns \ {m} : pc'[n] = pc[n]
        BY <1>12 DEF PassesCancelCheck
    <2>2. UNCHANGED <<stops, session, streams>>
        BY <1>12 DEF PassesCancelCheck
    <2> QED BY <2>1, <2>2
<1>13. ASSUME NEW m \in Turns, FinalizeRejected(m) PROVE DetachedIsStopped'
    BY <1>13 DEF FinalizeRejected
<1>14. ASSUME NEW m \in Turns, CancelledOnReturn(m) PROVE DetachedIsStopped'
    BY <1>14 DEF CancelledOnReturn
<1>15. ASSUME NEW m \in Turns, CancelledInWriteback(m) PROVE DetachedIsStopped'
    BY <1>15 DEF CancelledInWriteback
<1>16. ASSUME NEW m \in Turns, WritebackBegins(m) PROVE DetachedIsStopped'
    <2>1. /\ pc[m] = "writing" /\ pc'[m] \in {"merging", "unwinding"}
          /\ \A n \in Turns \ {m} : pc'[n] = pc[n]
        BY <1>16 DEF WritebackBegins
    <2>2. UNCHANGED <<stops, session, streams>>
        BY <1>16 DEF WritebackBegins
    <2> QED BY <2>1, <2>2
<1>17. ASSUME NEW m \in Turns, MergeResult(m) PROVE DetachedIsStopped'
    BY <1>17 DEF MergeResult
<1>18. ASSUME NEW m \in Turns, ReturnsError(m) PROVE DetachedIsStopped'
    BY <1>18 DEF ReturnsError
<1>19. ASSUME NEW m \in Turns, SaveResult(m) PROVE DetachedIsStopped'
    BY <1>19 DEF SaveResult
<1>20. ASSUME NEW m \in Turns, CompleteTurn(m) PROVE DetachedIsStopped'
    BY <1>20 DEF CompleteTurn
<1>21. ASSUME NEW m \in Turns, CommitWriteback(m) PROVE DetachedIsStopped'
    BY <1>21 DEF CommitWriteback
<1>22. ASSUME NEW m \in Turns, PutDone(m) PROVE DetachedIsStopped'
    BY <1>22 DEF PutDone
<1>23. ASSUME NEW m \in Turns, FailTurn(m) PROVE DetachedIsStopped'
    BY <1>23 DEF FailTurn
<1>24. ASSUME NEW m \in Turns, Unwind(m) PROVE DetachedIsStopped'
    BY <1>24 DEF Unwind
<1>25. ASSUME NEW m \in Turns, TearDown(m) PROVE DetachedIsStopped'
    BY <1>25 DEF TearDown
<1>26. ASSUME NEW m \in Turns, RowAges(m) PROVE DetachedIsStopped'
    BY <1>26 DEF RowAges
<1>27. ASSUME NEW k \in Stops, NEW m \in Turns, StopClaims(k, m) PROVE DetachedIsStopped'
    BY <1>27 DEF StopClaims
<1>28. ASSUME NEW k \in Stops, StopSignals(k) PROVE DetachedIsStopped'
    BY <1>28 DEF StopSignals
<1>29. ASSUME NEW k \in Stops, StopSettles(k) PROVE DetachedIsStopped'
    <2>1. CASE stops[k].known /\ StreamWritebackIsCurrent(stops[k].turn)
        BY <1>29, <2>1 DEF StopSettles
    <2>2. CASE ~(stops[k].known /\ StreamWritebackIsCurrent(stops[k].turn))
        BY <1>29, <2>2 DEF StopSettles
    <2> QED BY <2>1, <2>2
<1>30. ASSUME NEW k \in Stops, StopEmits(k) PROVE DetachedIsStopped'
    BY <1>30 DEF StopEmits
<1>31. ASSUME PendingAges PROVE DetachedIsStopped'
    BY <1>31 DEF PendingAges
<1>32. ASSUME ClearStaleChecks PROVE DetachedIsStopped'
    BY <1>32 DEF ClearStaleChecks
<1>33. ASSUME ClearStaleClears PROVE DetachedIsStopped'
    BY <1>33 DEF ClearStaleClears
<1>34. ASSUME DropStaleCancelledRuns PROVE DetachedIsStopped'
    BY <1>34 DEF DropStaleCancelledRuns
<1>35. ASSUME Crash PROVE DetachedIsStopped'
    BY <1>35 DEF Crash
<1>36. CASE UNCHANGED vars
    BY <1>36 DEF vars
<1> QED
    BY <1>1, <1>2, <1>3, <1>4, <1>5, <1>6, <1>7, <1>8, <1>9, <1>10, <1>11, <1>12, <1>13, <1>14,
       <1>15, <1>16, <1>17, <1>18, <1>19, <1>20, <1>21, <1>22, <1>23, <1>24, <1>25, <1>26,
       <1>27, <1>28, <1>29, <1>30, <1>31, <1>32, <1>33, <1>34, <1>35, <1>36
       DEF Next, LaunchStep, WorkerStep, BeforeAgent, WritebackStep, StopStep

-----------------------------------------------------------------------------
\* Nothing is registered to begin with.
LEMMA InitRegistryInv == Init => RegistryInv
<1> SUFFICES ASSUME Init PROVE RegistryInv
    OBVIOUS
<1>1. TypeOK
    BY InitTypeOK
<1>2. TurnsBeginInOrder /\ OwnersKnown
    BY BoundAssumption
       DEF Init, TurnsBeginInOrder, OwnersKnown, RowsBeginWithAdmission, RunsHaveTheirOwner, Turns
<1>3. RegistriesFollowWorkers /\ OwnerIsLatest /\ SessionsHaveShape
    BY DEF Init, RegistriesFollowWorkers, OwnerIsLatest, SessionsHaveShape, SessionShape,
           EmptySession, Turns
<1>4. ActiveIsUnsettled /\ ActiveOwnsWriteback /\ DiskFollows /\ DetachedIsStopped
    BY DEF Init, ActiveIsUnsettled, ActiveOwnsWriteback, DiskFollows, DetachedIsStopped,
           EmptySession, Turns
<1>5. LockIsExclusive /\ WritebackIsCurrent
    BY DEF Init, LockIsExclusive, WritebackIsCurrent, HoldsSessionLock
<1>6. StopsAreOfOpenTurns
    BY DEF Init, StopsAreOfOpenTurns, NoStop
<1> QED BY <1>1, <1>2, <1>3, <1>4, <1>5, <1>6 DEF RegistryInv

\* Every step keeps the registries in line with the workers.
LEMMA NextRegistryInv == RegistryInv /\ [Next]_vars => RegistryInv'
<1> SUFFICES ASSUME RegistryInv, [Next]_vars
             PROVE  RegistryInv'
    OBVIOUS
<1>1. /\ TypeOK /\ TurnsBeginInOrder /\ RegistriesFollowWorkers /\ OwnerIsLatest
      /\ SessionsHaveShape /\ ActiveIsUnsettled /\ ActiveOwnsWriteback /\ DiskFollows
      /\ LockIsExclusive /\ WritebackIsCurrent /\ StopsAreOfOpenTurns /\ DetachedIsStopped
      /\ OwnersKnown /\ RunsHaveTheirOwner
    BY DEF RegistryInv, OwnersKnown
<1>2. TypeOK' /\ TurnsBeginInOrder' /\ OwnersKnown'
    BY <1>1, NextTypeOK, NextTurnsBeginInOrder, NextOwnersKnown
<1>3. RegistriesFollowWorkers' /\ OwnerIsLatest' /\ LockIsExclusive' /\ SessionsHaveShape'
    BY <1>1, NextRegistriesFollow, NextOwnerIsLatest, NextLockIsExclusive, NextSessionsHaveShape
<1>4. ActiveIsUnsettled' /\ ActiveOwnsWriteback' /\ DiskFollows' /\ WritebackIsCurrent'
    BY <1>1, NextActiveIsUnsettled, NextActiveOwnsWriteback, NextDiskFollows,
       NextWritebackIsCurrent
<1>5. StopsAreOfOpenTurns' /\ DetachedIsStopped'
    BY <1>1, NextStopsAreOfOpenTurns, NextDetachedIsStopped
<1> QED BY <1>2, <1>3, <1>4, <1>5 DEF RegistryInv

\* The registries follow the workers in every state that is reached.
THEOREM RegistriesAreInLine == Spec => []RegistryInv
BY InitRegistryInv, NextRegistryInv, PTL DEF Spec

(***************************************************************************)
(* FinishedTurnIsForgotten, for every instance: whichever of a failed      *)
(* launch, a Stop, a reclaim and its own finally took a turn out of each   *)
(* registry, a worker that is gone has left nothing there, and the session *)
(* it may have left behind has a Stop that will free it.                   *)
(***************************************************************************)
THEOREM NothingIsLeftBehind == Spec => []FinishedTurnIsForgotten
<1>1. RegistryInv => FinishedTurnIsForgotten
    BY DEF RegistryInv, RegistriesFollowWorkers, OwnerIsLatest, DetachedIsStopped, TypeOK,
           FinishedTurnIsForgotten, Open, Working, WithAgent, HoldsSessionLock
<1> QED BY <1>1, RegistriesAreInLine, PTL
-----------------------------------------------------------------------------
(***************************************************************************)
(* What holds when no thread stalls for 30 s where it waits for nothing    *)
(* (Timely): the repair of stale turns, which looks at the age of a turn   *)
(* and at the registries, then takes no turn from a worker that still      *)
(* wants it.                                                               *)
(***************************************************************************)
\* A Stop has taken the stream of its turn away, and nobody opens it again.
StoppedIsDetached ==
    /\ \A k \in Stops : stops[k].pc # "idle" => stops[k].turn \notin streams
    /\ \A n \in Turns : runs[n] = "cancelling" => n \notin streams

\* Only a reclaim takes the row of a worker that is still there.
RowlessIsReclaimed == \A n \in Turns : pc[n] \in Working /\ runs[n] = "none" => n \in reclaimed

ReaderIsKnown == reader <= latest

\* A turn that is past its grace was launched, and its worker has not left.
OldTurnsAreLaunched ==
    Timely => \A n \in Turns :
        session.active = n /\ pendingOld => pc[n] \notin Launching \cup {"spawned", "finished"}

\* A worker that has the session has a row, and not a stale one.
HoldersHaveFreshRows ==
    Timely => \A n \in Turns :
        session.active = n /\ pc[n] \in Unsettled \ {"opened", "spawned", "merging"} =>
            runs[n] # "none" /\ ~CancelledRunIsStale(n)

\* The repair takes a turn from the dead, or comes late for one that is merging.
RepairIsOfTheDead ==
    Timely => \A n \in Turns :
        reader = n /\ session.active = n => pc[n] \in {"dead", "merging"}

\* Until it settles, a turn with a stream has the session.
OpenTurnsHaveTheSession ==
    Timely => \A n \in Turns :
        (n \in streams /\ pc[n] \in Unsettled) \/ pc[n] = "prepared" => session.active = n

\* An agent runs beside a later turn only if its row was reclaimed.
OlderAgentsAreReclaimed ==
    Timely => \A n \in Turns : n < latest /\ pc[n] \in WithAgent => n \in reclaimed

TimingInv ==
    /\ StoppedIsDetached
    /\ RowlessIsReclaimed
    /\ ReaderIsKnown
    /\ OldTurnsAreLaunched
    /\ HoldersHaveFreshRows
    /\ RepairIsOfTheDead
    /\ OpenTurnsHaveTheSession
    /\ OlderAgentsAreReclaimed
-----------------------------------------------------------------------------
\* A turn is opened before anyone can stop it.
LEMMA NextStoppedIsDetached ==
    ASSUME TypeOK, TurnsBeginInOrder, OwnersKnown, StopsAreOfOpenTurns, StoppedIsDetached,
          [Next]_vars
    PROVE  StoppedIsDetached'
<1>0. pc \in [Turns -> PCs] /\ latest \in Turn0 /\ runs \in [Turns -> RunPhases]
      /\ stops \in [Stops -> Stop]
      /\ \A k \in Stops : stops[k].pc # "idle" => stops[k].turn \in Turns
    BY DEF TypeOK
<1> USE <1>0 DEF ReclaimRuns, Store, Settled, Goto, ClearWritebackOwnerIfOwned,
        FinalizeCancelledTurn, EndCancelled, Put, Log, SettlePendingSteer, registries, logs,
        history, bounds, OwnersKnown, RowsBeginWithAdmission, BeforeAdmission,
        StopsAreOfOpenTurns, StoppedIsDetached, Stop, NoStop, Turns, Turn0, PCs, Working,
        WithAgent, HoldsSessionLock, Launching
<1>1. ASSUME Start PROVE StoppedIsDetached'
    BY <1>1 DEF Start
<1>2. ASSUME NEW m \in Turns, OpenStream(m) PROVE StoppedIsDetached'
    BY <1>2 DEF OpenStream
<1>3. ASSUME NEW m \in Turns, StartThread(m) PROVE StoppedIsDetached'
    <2>1. pc[m] = "opened" /\ pc'[m] = "spawned" /\ \A n \in Turns \ {m} : pc'[n] = pc[n]
        BY <1>3 DEF StartThread
    <2>2. UNCHANGED <<stops, streams, runs>>
        BY <1>3 DEF StartThread
    <2> QED BY <2>1, <2>2
<1>4. ASSUME NEW m \in Turns, InvocationReturns(m) PROVE StoppedIsDetached'
    <2>1. pc[m] = "invoked" /\ pc'[m] = "returned" /\ \A n \in Turns \ {m} : pc'[n] = pc[n]
        BY <1>4 DEF InvocationReturns
    <2>2. UNCHANGED <<stops, streams, runs>>
        BY <1>4 DEF InvocationReturns
    <2> QED BY <2>1, <2>2
<1>5. ASSUME NEW m \in Turns, Raises(m) PROVE StoppedIsDetached'
    <2>1. /\ pc[m] \in {"running", "registered", "invoked"} /\ pc'[m] = "raised"
          /\ \A n \in Turns \ {m} : pc'[n] = pc[n]
        BY <1>5 DEF Raises
    <2>2. UNCHANGED <<stops, streams, runs>>
        BY <1>5 DEF Raises
    <2> QED BY <2>1, <2>2
<1>6. ASSUME NEW m \in Turns, StartThreadFails(m) PROVE StoppedIsDetached'
    BY <1>6 DEF StartThreadFails
<1>7. ASSUME NEW m \in Turns, CleanupLaunchFailure(m) PROVE StoppedIsDetached'
    BY <1>7 DEF CleanupLaunchFailure
<1>8. ASSUME NEW m \in Turns, Admit(m) PROVE StoppedIsDetached'
    <2>1. CASE m \in streams
        BY <1>8, <2>1 DEF Admit
    <2>2. CASE ~(m \in streams)
        BY <1>8, <2>2 DEF Admit
    <2> QED BY <2>1, <2>2
<1>9. ASSUME NEW m \in Turns, MarkRunning(m) PROVE StoppedIsDetached'
    BY <1>9 DEF MarkRunning
<1>10. ASSUME NEW m \in Turns, RegisterAgentIfCurrent(m) PROVE StoppedIsDetached'
    <2>1. /\ pc[m] = "running" /\ pc'[m] \in {"registered", "rejected"}
          /\ \A n \in Turns \ {m} : pc'[n] = pc[n]
        BY <1>10 DEF RegisterAgentIfCurrent
    <2>2. UNCHANGED <<stops, streams, runs>>
        BY <1>10 DEF RegisterAgentIfCurrent
    <2> QED BY <2>1, <2>2
<1>11. ASSUME NEW m \in Turns, AgentCanInvoke(m) PROVE StoppedIsDetached'
    <2>1. /\ pc[m] = "registered" /\ pc'[m] \in {"invoked", "rejected"}
          /\ \A n \in Turns \ {m} : pc'[n] = pc[n]
        BY <1>11 DEF AgentCanInvoke
    <2>2. UNCHANGED <<stops, streams, runs>>
        BY <1>11 DEF AgentCanInvoke
    <2> QED BY <2>1, <2>2
<1>12. ASSUME NEW m \in Turns, PassesCancelCheck(m) PROVE StoppedIsDetached'
    <2>1. /\ pc[m] \in {"returned", "raised"} /\ pc'[m] \in {"writing", "failing"}
          /\ \A n \in Turns \ {m} : pc'[n] = pc[n]
        BY <1>12 DEF PassesCancelCheck
    <2>2. UNCHANGED <<stops, streams, runs>>
        BY <1>12 DEF PassesCancelCheck
    <2> QED BY <2>1, <2>2
<1>13. ASSUME NEW m \in Turns, FinalizeRejected(m) PROVE StoppedIsDetached'
    BY <1>13 DEF FinalizeRejected
<1>14. ASSUME NEW m \in Turns, CancelledOnReturn(m) PROVE StoppedIsDetached'
    BY <1>14 DEF CancelledOnReturn
<1>15. ASSUME NEW m \in Turns, CancelledInWriteback(m) PROVE StoppedIsDetached'
    BY <1>15 DEF CancelledInWriteback
<1>16. ASSUME NEW m \in Turns, WritebackBegins(m) PROVE StoppedIsDetached'
    <2>1. /\ pc[m] = "writing" /\ pc'[m] \in {"merging", "unwinding"}
          /\ \A n \in Turns \ {m} : pc'[n] = pc[n]
        BY <1>16 DEF WritebackBegins
    <2>2. UNCHANGED <<stops, streams, runs>>
        BY <1>16 DEF WritebackBegins
    <2> QED BY <2>1, <2>2
<1>17. ASSUME NEW m \in Turns, MergeResult(m) PROVE StoppedIsDetached'
    BY <1>17 DEF MergeResult
<1>18. ASSUME NEW m \in Turns, ReturnsError(m) PROVE StoppedIsDetached'
    BY <1>18 DEF ReturnsError
<1>19. ASSUME NEW m \in Turns, SaveResult(m) PROVE StoppedIsDetached'
    <2>1. pc[m] = "merged" /\ pc'[m] = "saved" /\ \A n \in Turns \ {m} : pc'[n] = pc[n]
        BY <1>19 DEF SaveResult
    <2>2. UNCHANGED <<stops, streams, runs>>
        BY <1>19 DEF SaveResult
    <2> QED BY <2>1, <2>2
<1>20. ASSUME NEW m \in Turns, CompleteTurn(m) PROVE StoppedIsDetached'
    <2>1. pc[m] = "saved" /\ pc'[m] = "settling" /\ \A n \in Turns \ {m} : pc'[n] = pc[n]
        BY <1>20 DEF CompleteTurn
    <2>2. UNCHANGED <<stops, streams, runs>>
        BY <1>20 DEF CompleteTurn
    <2> QED BY <2>1, <2>2
<1>21. ASSUME NEW m \in Turns, CommitWriteback(m) PROVE StoppedIsDetached'
    <2>1. pc[m] = "settling" /\ pc'[m] = "committed" /\ \A n \in Turns \ {m} : pc'[n] = pc[n]
        BY <1>21 DEF CommitWriteback
    <2>2. UNCHANGED <<stops, streams, runs>>
        BY <1>21 DEF CommitWriteback
    <2> QED BY <2>1, <2>2
<1>22. ASSUME NEW m \in Turns, PutDone(m) PROVE StoppedIsDetached'
    BY <1>22 DEF PutDone
<1>23. ASSUME NEW m \in Turns, FailTurn(m) PROVE StoppedIsDetached'
    BY <1>23 DEF FailTurn
<1>24. ASSUME NEW m \in Turns, Unwind(m) PROVE StoppedIsDetached'
    BY <1>24 DEF Unwind
<1>25. ASSUME NEW m \in Turns, TearDown(m) PROVE StoppedIsDetached'
    BY <1>25 DEF TearDown
<1>26. ASSUME NEW m \in Turns, RowAges(m) PROVE StoppedIsDetached'
    BY <1>26 DEF RowAges
<1>27. ASSUME NEW k \in Stops, NEW m \in Turns, StopClaims(k, m) PROVE StoppedIsDetached'
    BY <1>27 DEF StopClaims
<1>28. ASSUME NEW k \in Stops, StopSignals(k) PROVE StoppedIsDetached'
    BY <1>28 DEF StopSignals
<1>29. ASSUME NEW k \in Stops, StopSettles(k) PROVE StoppedIsDetached'
    <2>1. CASE stops[k].known /\ StreamWritebackIsCurrent(stops[k].turn)
        BY <1>29, <2>1 DEF StopSettles
    <2>2. CASE ~(stops[k].known /\ StreamWritebackIsCurrent(stops[k].turn))
        BY <1>29, <2>2 DEF StopSettles
    <2> QED BY <2>1, <2>2
<1>30. ASSUME NEW k \in Stops, StopEmits(k) PROVE StoppedIsDetached'
    BY <1>30 DEF StopEmits
<1>31. ASSUME PendingAges \/ ClearStaleChecks PROVE StoppedIsDetached'
    BY <1>31 DEF PendingAges, ClearStaleChecks
<1>32. ASSUME ClearStaleClears PROVE StoppedIsDetached'
    BY <1>32 DEF ClearStaleClears
<1>33. ASSUME DropStaleCancelledRuns PROVE StoppedIsDetached'
    BY <1>33 DEF DropStaleCancelledRuns
<1>34. ASSUME Crash PROVE StoppedIsDetached'
    BY <1>34 DEF Crash
<1>35. CASE UNCHANGED vars
    BY <1>35 DEF vars
<1> QED
    BY <1>1, <1>2, <1>3, <1>4, <1>5, <1>6, <1>7, <1>8, <1>9, <1>10, <1>11, <1>12, <1>13, <1>14,
       <1>15, <1>16, <1>17, <1>18, <1>19, <1>20, <1>21, <1>22, <1>23, <1>24, <1>25, <1>26,
       <1>27, <1>28, <1>29, <1>30, <1>31, <1>32, <1>33, <1>34, <1>35
       DEF Next, LaunchStep, WorkerStep, BeforeAgent, WritebackStep, StopStep

\* A row that is gone under its worker was reclaimed.
LEMMA NextRowlessIsReclaimed ==
    ASSUME TypeOK, TurnsBeginInOrder, RowlessIsReclaimed, [Next]_vars
    PROVE  RowlessIsReclaimed'
<1>0. pc \in [Turns -> PCs] /\ latest \in Turn0 /\ runs \in [Turns -> RunPhases]
    BY DEF TypeOK
<1> USE <1>0 DEF ReclaimRuns, Store, Settled, Goto, ClearWritebackOwnerIfOwned,
        FinalizeCancelledTurn, EndCancelled, Put, Log, SettlePendingSteer, registries, logs,
        history, bounds, TurnsBeginInOrder, RowlessIsReclaimed, Turns, Turn0, PCs, Working,
        WithAgent, HoldsSessionLock, Launching
<1>1. ASSUME Start PROVE RowlessIsReclaimed'
    BY <1>1 DEF Start
<1>2. ASSUME NEW m \in Turns, OpenStream(m) PROVE RowlessIsReclaimed'
    BY <1>2 DEF OpenStream
<1>3. ASSUME NEW m \in Turns, StartThread(m) PROVE RowlessIsReclaimed'
    <2>1. pc[m] = "opened" /\ pc'[m] = "spawned" /\ \A n \in Turns \ {m} : pc'[n] = pc[n]
        BY <1>3 DEF StartThread
    <2>2. UNCHANGED <<runs, reclaimed>>
        BY <1>3 DEF StartThread
    <2> QED BY <2>1, <2>2
<1>4. ASSUME NEW m \in Turns, InvocationReturns(m) PROVE RowlessIsReclaimed'
    <2>1. pc[m] = "invoked" /\ pc'[m] = "returned" /\ \A n \in Turns \ {m} : pc'[n] = pc[n]
        BY <1>4 DEF InvocationReturns
    <2>2. UNCHANGED <<runs, reclaimed>>
        BY <1>4 DEF InvocationReturns
    <2> QED BY <2>1, <2>2
<1>5. ASSUME NEW m \in Turns, Raises(m) PROVE RowlessIsReclaimed'
    <2>1. /\ pc[m] \in {"running", "registered", "invoked"} /\ pc'[m] = "raised"
          /\ \A n \in Turns \ {m} : pc'[n] = pc[n]
        BY <1>5 DEF Raises
    <2>2. UNCHANGED <<runs, reclaimed>>
        BY <1>5 DEF Raises
    <2> QED BY <2>1, <2>2
<1>6. ASSUME NEW m \in Turns, StartThreadFails(m) PROVE RowlessIsReclaimed'
    BY <1>6 DEF StartThreadFails
<1>7. ASSUME NEW m \in Turns, CleanupLaunchFailure(m) PROVE RowlessIsReclaimed'
    BY <1>7 DEF CleanupLaunchFailure
<1>8. ASSUME NEW m \in Turns, Admit(m) PROVE RowlessIsReclaimed'
    <2>1. CASE m \in streams
        BY <1>8, <2>1 DEF Admit
    <2>2. CASE ~(m \in streams)
        BY <1>8, <2>2 DEF Admit
    <2> QED BY <2>1, <2>2
<1>9. ASSUME NEW m \in Turns, MarkRunning(m) PROVE RowlessIsReclaimed'
    BY <1>9 DEF MarkRunning
<1>10. ASSUME NEW m \in Turns, RegisterAgentIfCurrent(m) PROVE RowlessIsReclaimed'
    <2>1. /\ pc[m] = "running" /\ pc'[m] \in {"registered", "rejected"}
          /\ \A n \in Turns \ {m} : pc'[n] = pc[n]
        BY <1>10 DEF RegisterAgentIfCurrent
    <2>2. UNCHANGED <<runs, reclaimed>>
        BY <1>10 DEF RegisterAgentIfCurrent
    <2> QED BY <2>1, <2>2
<1>11. ASSUME NEW m \in Turns, AgentCanInvoke(m) PROVE RowlessIsReclaimed'
    <2>1. /\ pc[m] = "registered" /\ pc'[m] \in {"invoked", "rejected"}
          /\ \A n \in Turns \ {m} : pc'[n] = pc[n]
        BY <1>11 DEF AgentCanInvoke
    <2>2. UNCHANGED <<runs, reclaimed>>
        BY <1>11 DEF AgentCanInvoke
    <2> QED BY <2>1, <2>2
<1>12. ASSUME NEW m \in Turns, PassesCancelCheck(m) PROVE RowlessIsReclaimed'
    <2>1. /\ pc[m] \in {"returned", "raised"} /\ pc'[m] \in {"writing", "failing"}
          /\ \A n \in Turns \ {m} : pc'[n] = pc[n]
        BY <1>12 DEF PassesCancelCheck
    <2>2. UNCHANGED <<runs, reclaimed>>
        BY <1>12 DEF PassesCancelCheck
    <2> QED BY <2>1, <2>2
<1>13. ASSUME NEW m \in Turns, FinalizeRejected(m) PROVE RowlessIsReclaimed'
    BY <1>13 DEF FinalizeRejected
<1>14. ASSUME NEW m \in Turns, CancelledOnReturn(m) PROVE RowlessIsReclaimed'
    BY <1>14 DEF CancelledOnReturn
<1>15. ASSUME NEW m \in Turns, CancelledInWriteback(m) PROVE RowlessIsReclaimed'
    BY <1>15 DEF CancelledInWriteback
<1>16. ASSUME NEW m \in Turns, WritebackBegins(m) PROVE RowlessIsReclaimed'
    <2>1. /\ pc[m] = "writing" /\ pc'[m] \in {"merging", "unwinding"}
          /\ \A n \in Turns \ {m} : pc'[n] = pc[n]
        BY <1>16 DEF WritebackBegins
    <2>2. UNCHANGED <<runs, reclaimed>>
        BY <1>16 DEF WritebackBegins
    <2> QED BY <2>1, <2>2
<1>17. ASSUME NEW m \in Turns, MergeResult(m) PROVE RowlessIsReclaimed'
    BY <1>17 DEF MergeResult
<1>18. ASSUME NEW m \in Turns, ReturnsError(m) PROVE RowlessIsReclaimed'
    BY <1>18 DEF ReturnsError
<1>19. ASSUME NEW m \in Turns, SaveResult(m) PROVE RowlessIsReclaimed'
    <2>1. pc[m] = "merged" /\ pc'[m] = "saved" /\ \A n \in Turns \ {m} : pc'[n] = pc[n]
        BY <1>19 DEF SaveResult
    <2>2. UNCHANGED <<runs, reclaimed>>
        BY <1>19 DEF SaveResult
    <2> QED BY <2>1, <2>2
<1>20. ASSUME NEW m \in Turns, CompleteTurn(m) PROVE RowlessIsReclaimed'
    <2>1. pc[m] = "saved" /\ pc'[m] = "settling" /\ \A n \in Turns \ {m} : pc'[n] = pc[n]
        BY <1>20 DEF CompleteTurn
    <2>2. UNCHANGED <<runs, reclaimed>>
        BY <1>20 DEF CompleteTurn
    <2> QED BY <2>1, <2>2
<1>21. ASSUME NEW m \in Turns, CommitWriteback(m) PROVE RowlessIsReclaimed'
    <2>1. pc[m] = "settling" /\ pc'[m] = "committed" /\ \A n \in Turns \ {m} : pc'[n] = pc[n]
        BY <1>21 DEF CommitWriteback
    <2>2. UNCHANGED <<runs, reclaimed>>
        BY <1>21 DEF CommitWriteback
    <2> QED BY <2>1, <2>2
<1>22. ASSUME NEW m \in Turns, PutDone(m) PROVE RowlessIsReclaimed'
    BY <1>22 DEF PutDone
<1>23. ASSUME NEW m \in Turns, FailTurn(m) PROVE RowlessIsReclaimed'
    BY <1>23 DEF FailTurn
<1>24. ASSUME NEW m \in Turns, Unwind(m) PROVE RowlessIsReclaimed'
    BY <1>24 DEF Unwind
<1>25. ASSUME NEW m \in Turns, TearDown(m) PROVE RowlessIsReclaimed'
    BY <1>25 DEF TearDown
<1>26. ASSUME NEW m \in Turns, RowAges(m) PROVE RowlessIsReclaimed'
    BY <1>26 DEF RowAges
<1>27. ASSUME NEW k \in Stops, NEW m \in Turns, StopClaims(k, m) PROVE RowlessIsReclaimed'
    BY <1>27 DEF StopClaims
<1>28. ASSUME NEW k \in Stops, StopSignals(k) PROVE RowlessIsReclaimed'
    BY <1>28 DEF StopSignals
<1>29. ASSUME NEW k \in Stops, StopSettles(k) PROVE RowlessIsReclaimed'
    <2>1. CASE stops[k].known /\ StreamWritebackIsCurrent(stops[k].turn)
        BY <1>29, <2>1 DEF StopSettles
    <2>2. CASE ~(stops[k].known /\ StreamWritebackIsCurrent(stops[k].turn))
        BY <1>29, <2>2 DEF StopSettles
    <2> QED BY <2>1, <2>2
<1>30. ASSUME NEW k \in Stops, StopEmits(k) PROVE RowlessIsReclaimed'
    BY <1>30 DEF StopEmits
<1>31. ASSUME PendingAges \/ ClearStaleChecks PROVE RowlessIsReclaimed'
    BY <1>31 DEF PendingAges, ClearStaleChecks
<1>32. ASSUME ClearStaleClears PROVE RowlessIsReclaimed'
    BY <1>32 DEF ClearStaleClears
<1>33. ASSUME DropStaleCancelledRuns PROVE RowlessIsReclaimed'
    BY <1>33 DEF DropStaleCancelledRuns
<1>34. ASSUME Crash PROVE RowlessIsReclaimed'
    BY <1>34 DEF Crash
<1>35. CASE UNCHANGED vars
    BY <1>35 DEF vars
<1> QED
    BY <1>1, <1>2, <1>3, <1>4, <1>5, <1>6, <1>7, <1>8, <1>9, <1>10, <1>11, <1>12, <1>13, <1>14,
       <1>15, <1>16, <1>17, <1>18, <1>19, <1>20, <1>21, <1>22, <1>23, <1>24, <1>25, <1>26,
       <1>27, <1>28, <1>29, <1>30, <1>31, <1>32, <1>33, <1>34, <1>35
       DEF Next, LaunchStep, WorkerStep, BeforeAgent, WritebackStep, StopStep

\* The repair looks at a turn that was admitted.
LEMMA NextReaderIsKnown ==
    ASSUME TypeOK, SessionsHaveShape, ReaderIsKnown, [Next]_vars
    PROVE  ReaderIsKnown'
<1>0. latest \in Turn0 /\ reader \in Turn0 /\ session \in Session
    BY DEF TypeOK
<1> USE <1>0 DEF ReclaimRuns, Store, Settled, Goto, ClearWritebackOwnerIfOwned,
        FinalizeCancelledTurn, EndCancelled, Put, Log, SettlePendingSteer, registries, logs,
        history, bounds, SessionsHaveShape, SessionShape, Session, ReaderIsKnown, Turns, Turn0
<1>1. ASSUME Start PROVE ReaderIsKnown'
    BY <1>1 DEF Start
<1>2. ASSUME NEW m \in Turns, OpenStream(m) PROVE ReaderIsKnown'
    BY <1>2 DEF OpenStream
<1>3. ASSUME NEW m \in Turns, StartThread(m) \/ InvocationReturns(m) \/ Raises(m)
      PROVE  ReaderIsKnown'
    BY <1>3 DEF StartThread, InvocationReturns, Raises
<1>4. ASSUME NEW m \in Turns, StartThreadFails(m) PROVE ReaderIsKnown'
    BY <1>4 DEF StartThreadFails
<1>5. ASSUME NEW m \in Turns, CleanupLaunchFailure(m) PROVE ReaderIsKnown'
    BY <1>5 DEF CleanupLaunchFailure
<1>6. ASSUME NEW m \in Turns, Admit(m) PROVE ReaderIsKnown'
    BY <1>6 DEF Admit
<1>7. ASSUME NEW m \in Turns, MarkRunning(m) PROVE ReaderIsKnown'
    BY <1>7 DEF MarkRunning
<1>8. ASSUME NEW m \in Turns, RegisterAgentIfCurrent(m) PROVE ReaderIsKnown'
    BY <1>8 DEF RegisterAgentIfCurrent
<1>9. ASSUME NEW m \in Turns, AgentCanInvoke(m) PROVE ReaderIsKnown'
    BY <1>9 DEF AgentCanInvoke
<1>10. ASSUME NEW m \in Turns, PassesCancelCheck(m) PROVE ReaderIsKnown'
    BY <1>10 DEF PassesCancelCheck
<1>11. ASSUME NEW m \in Turns, FinalizeRejected(m) PROVE ReaderIsKnown'
    BY <1>11 DEF FinalizeRejected
<1>12. ASSUME NEW m \in Turns, CancelledOnReturn(m) PROVE ReaderIsKnown'
    BY <1>12 DEF CancelledOnReturn
<1>13. ASSUME NEW m \in Turns, CancelledInWriteback(m) PROVE ReaderIsKnown'
    BY <1>13 DEF CancelledInWriteback
<1>14. ASSUME NEW m \in Turns, WritebackBegins(m) PROVE ReaderIsKnown'
    BY <1>14 DEF WritebackBegins
<1>15. ASSUME NEW m \in Turns, MergeResult(m) PROVE ReaderIsKnown'
    BY <1>15 DEF MergeResult
<1>16. ASSUME NEW m \in Turns, ReturnsError(m) PROVE ReaderIsKnown'
    BY <1>16 DEF ReturnsError
<1>17. ASSUME NEW m \in Turns, SaveResult(m) PROVE ReaderIsKnown'
    BY <1>17 DEF SaveResult
<1>18. ASSUME NEW m \in Turns, CompleteTurn(m) PROVE ReaderIsKnown'
    BY <1>18 DEF CompleteTurn
<1>19. ASSUME NEW m \in Turns, CommitWriteback(m) PROVE ReaderIsKnown'
    BY <1>19 DEF CommitWriteback
<1>20. ASSUME NEW m \in Turns, PutDone(m) PROVE ReaderIsKnown'
    BY <1>20 DEF PutDone
<1>21. ASSUME NEW m \in Turns, FailTurn(m) PROVE ReaderIsKnown'
    BY <1>21 DEF FailTurn
<1>22. ASSUME NEW m \in Turns, Unwind(m) PROVE ReaderIsKnown'
    BY <1>22 DEF Unwind
<1>23. ASSUME NEW m \in Turns, TearDown(m) PROVE ReaderIsKnown'
    BY <1>23 DEF TearDown
<1>24. ASSUME NEW m \in Turns, RowAges(m) PROVE ReaderIsKnown'
    BY <1>24 DEF RowAges
<1>25. ASSUME NEW k \in Stops, NEW m \in Turns, StopClaims(k, m) PROVE ReaderIsKnown'
    BY <1>25 DEF StopClaims
<1>26. ASSUME NEW k \in Stops, StopSignals(k) PROVE ReaderIsKnown'
    BY <1>26 DEF StopSignals
<1>27. ASSUME NEW k \in Stops, StopSettles(k) PROVE ReaderIsKnown'
    BY <1>27 DEF StopSettles
<1>28. ASSUME NEW k \in Stops, StopEmits(k) PROVE ReaderIsKnown'
    BY <1>28 DEF StopEmits
<1>29. ASSUME PendingAges \/ ClearStaleChecks PROVE ReaderIsKnown'
    BY <1>29 DEF PendingAges, ClearStaleChecks
<1>30. ASSUME ClearStaleClears PROVE ReaderIsKnown'
    BY <1>30 DEF ClearStaleClears
<1>31. ASSUME DropStaleCancelledRuns PROVE ReaderIsKnown'
    BY <1>31 DEF DropStaleCancelledRuns
<1>32. ASSUME Crash PROVE ReaderIsKnown'
    BY <1>32 DEF Crash
<1>33. CASE UNCHANGED vars
    BY <1>33 DEF vars
<1> QED
    BY <1>1, <1>2, <1>3, <1>4, <1>5, <1>6, <1>7, <1>8, <1>9, <1>10, <1>11, <1>12, <1>13, <1>14,
       <1>15, <1>16, <1>17, <1>18, <1>19, <1>20, <1>21, <1>22, <1>23, <1>24, <1>25, <1>26,
       <1>27, <1>28, <1>29, <1>30, <1>31, <1>32, <1>33
       DEF Next, LaunchStep, WorkerStep, BeforeAgent, WritebackStep, StopStep

\* Where a worker goes that looks at its registries.
LEMMA AdmitMoves ==
    ASSUME TypeOK, NEW m \in Turns, Admit(m)
    PROVE  /\ pc[m] = "spawned" /\ pc'[m] \in {"starting", "finished"}
           /\ \A n \in Turns \ {m} : pc'[n] = pc[n]
BY DEF Admit, Goto, TypeOK

\* A worker that publishes its agent does so for a stream that is still registered.
LEMMA RegisterAgentMoves ==
    ASSUME TypeOK, NEW m \in Turns, RegisterAgentIfCurrent(m)
    PROVE  /\ pc[m] = "running" /\ pc'[m] \in {"registered", "rejected"}
           /\ \A n \in Turns \ {m} : pc'[n] = pc[n]
           /\ pc'[m] = "registered" => m \in streams
BY DEF RegisterAgentIfCurrent, Goto, TypeOK

\* The check before the agent is called moves one worker only.
LEMMA AgentCanInvokeMoves ==
    ASSUME TypeOK, NEW m \in Turns, AgentCanInvoke(m)
    PROVE  /\ pc[m] = "registered" /\ pc'[m] \in {"invoked", "rejected"}
           /\ \A n \in Turns \ {m} : pc'[n] = pc[n]
BY DEF AgentCanInvoke, Goto, TypeOK

\* Whoever holds the session lock has the turn of the session, if it has one.
LEMMA LockedIsMerging ==
    ASSUME TypeOK, WritebackIsCurrent, ~LockFree, NEW n \in Turns, session.active = n
    PROVE  pc[n] = "merging"
BY DEF TypeOK, WritebackIsCurrent, LockFree, HoldsSessionLock, Turns, StreamWritebackIsCurrent,
       StreamWritebackCanSupersedeRecoveryMarker

\* A turn grows old only while nobody is late.
LEMMA NextOldTurnsAreLaunched ==
    ASSUME TypeOK, TurnsBeginInOrder, RegistriesFollowWorkers, SessionsHaveShape,
          ActiveIsUnsettled, WritebackIsCurrent, StopsAreOfOpenTurns, DetachedIsStopped,
          OldTurnsAreLaunched, [Next]_vars
    PROVE  OldTurnsAreLaunched'
<1>0. pc \in [Turns -> PCs] /\ latest \in Turn0 /\ session \in Session
      /\ disk \in Session
    BY DEF TypeOK
<1> USE <1>0 DEF ReclaimRuns, Store, Settled, Goto, ClearWritebackOwnerIfOwned,
        FinalizeCancelledTurn, EndCancelled, Put, Log, SettlePendingSteer, registries, logs,
        history, bounds, OldTurnsAreLaunched, TurnsBeginInOrder, SessionsHaveShape,
        SessionShape, ActiveIsUnsettled, Unsettled, Open, Session, Turns, Turn0,
        StreamWritebackIsCurrent, PCs, Working, WithAgent, HoldsSessionLock, Launching
<1>1. ASSUME Start PROVE OldTurnsAreLaunched'
    BY <1>1 DEF Start
<1>2. ASSUME NEW m \in Turns, OpenStream(m) PROVE OldTurnsAreLaunched'
    BY <1>2 DEF OpenStream
<1>3. ASSUME NEW m \in Turns, StartThread(m) PROVE OldTurnsAreLaunched'
    <2>1. pc[m] = "opened" /\ pc'[m] = "spawned" /\ \A n \in Turns \ {m} : pc'[n] = pc[n]
        BY <1>3 DEF StartThread
    <2>2. UNCHANGED <<session, pendingOld>>
        BY <1>3 DEF StartThread
    <2> QED BY <2>1, <2>2
<1>4. ASSUME NEW m \in Turns, InvocationReturns(m) PROVE OldTurnsAreLaunched'
    <2>1. pc[m] = "invoked" /\ pc'[m] = "returned" /\ \A n \in Turns \ {m} : pc'[n] = pc[n]
        BY <1>4 DEF InvocationReturns
    <2>2. UNCHANGED <<session, pendingOld>>
        BY <1>4 DEF InvocationReturns
    <2> QED BY <2>1, <2>2
<1>5. ASSUME NEW m \in Turns, Raises(m) PROVE OldTurnsAreLaunched'
    <2>1. /\ pc[m] \in {"running", "registered", "invoked"} /\ pc'[m] = "raised"
          /\ \A n \in Turns \ {m} : pc'[n] = pc[n]
        BY <1>5 DEF Raises
    <2>2. UNCHANGED <<session, pendingOld>>
        BY <1>5 DEF Raises
    <2> QED BY <2>1, <2>2
<1>6. ASSUME NEW m \in Turns, StartThreadFails(m) PROVE OldTurnsAreLaunched'
    BY <1>6 DEF StartThreadFails
<1>7. ASSUME NEW m \in Turns, CleanupLaunchFailure(m) PROVE OldTurnsAreLaunched'
    BY <1>7 DEF CleanupLaunchFailure
<1>8. ASSUME NEW m \in Turns, Admit(m) PROVE OldTurnsAreLaunched'
    <2>1. /\ pc[m] = "spawned" /\ pc'[m] \in {"starting", "finished"}
          /\ \A n \in Turns \ {m} : pc'[n] = pc[n]
        BY <1>8 DEF Admit
    <2>2. UNCHANGED <<session, pendingOld>>
        BY <1>8 DEF Admit
    <2> QED BY <2>1, <2>2
<1>9. ASSUME NEW m \in Turns, MarkRunning(m) PROVE OldTurnsAreLaunched'
    <2>1. pc[m] = "starting" /\ pc'[m] = "running" /\ \A n \in Turns \ {m} : pc'[n] = pc[n]
        BY <1>9 DEF MarkRunning
    <2>2. UNCHANGED <<session, pendingOld>>
        BY <1>9 DEF MarkRunning
    <2> QED BY <2>1, <2>2
<1>10. ASSUME NEW m \in Turns, RegisterAgentIfCurrent(m) PROVE OldTurnsAreLaunched'
    <2>1. /\ pc[m] = "running" /\ pc'[m] \in {"registered", "rejected"}
          /\ \A n \in Turns \ {m} : pc'[n] = pc[n]
        BY <1>10 DEF RegisterAgentIfCurrent
    <2>2. UNCHANGED <<session, pendingOld>>
        BY <1>10 DEF RegisterAgentIfCurrent
    <2> QED BY <2>1, <2>2
<1>11. ASSUME NEW m \in Turns, AgentCanInvoke(m) PROVE OldTurnsAreLaunched'
    <2>1. /\ pc[m] = "registered" /\ pc'[m] \in {"invoked", "rejected"}
          /\ \A n \in Turns \ {m} : pc'[n] = pc[n]
        BY <1>11 DEF AgentCanInvoke
    <2>2. UNCHANGED <<session, pendingOld>>
        BY <1>11 DEF AgentCanInvoke
    <2> QED BY <2>1, <2>2
<1>12. ASSUME NEW m \in Turns, PassesCancelCheck(m) PROVE OldTurnsAreLaunched'
    <2>1. /\ pc[m] \in {"returned", "raised"} /\ pc'[m] \in {"writing", "failing"}
          /\ \A n \in Turns \ {m} : pc'[n] = pc[n]
        BY <1>12 DEF PassesCancelCheck
    <2>2. UNCHANGED <<session, pendingOld>>
        BY <1>12 DEF PassesCancelCheck
    <2> QED BY <2>1, <2>2
<1>13. ASSUME NEW m \in Turns, FinalizeRejected(m) PROVE OldTurnsAreLaunched'
    BY <1>13 DEF FinalizeRejected
<1>14. ASSUME NEW m \in Turns, CancelledOnReturn(m) PROVE OldTurnsAreLaunched'
    BY <1>14 DEF CancelledOnReturn
<1>15. ASSUME NEW m \in Turns, CancelledInWriteback(m) PROVE OldTurnsAreLaunched'
    BY <1>15 DEF CancelledInWriteback
<1>16. ASSUME NEW m \in Turns, WritebackBegins(m) PROVE OldTurnsAreLaunched'
    <2>1. /\ pc[m] = "writing" /\ pc'[m] \in {"merging", "unwinding"}
          /\ \A n \in Turns \ {m} : pc'[n] = pc[n]
        BY <1>16 DEF WritebackBegins
    <2>2. UNCHANGED <<session, pendingOld>>
        BY <1>16 DEF WritebackBegins
    <2> QED BY <2>1, <2>2
<1>17. ASSUME NEW m \in Turns, MergeResult(m) PROVE OldTurnsAreLaunched'
    BY <1>17 DEF MergeResult
<1>18. ASSUME NEW m \in Turns, ReturnsError(m) PROVE OldTurnsAreLaunched'
    BY <1>18 DEF ReturnsError
<1>19. ASSUME NEW m \in Turns, SaveResult(m) PROVE OldTurnsAreLaunched'
    <2>1. pc[m] = "merged" /\ pc'[m] = "saved" /\ \A n \in Turns \ {m} : pc'[n] = pc[n]
        BY <1>19 DEF SaveResult
    <2>2. UNCHANGED <<session, pendingOld>>
        BY <1>19 DEF SaveResult
    <2> QED BY <2>1, <2>2
<1>20. ASSUME NEW m \in Turns, CompleteTurn(m) PROVE OldTurnsAreLaunched'
    <2>1. pc[m] = "saved" /\ pc'[m] = "settling" /\ \A n \in Turns \ {m} : pc'[n] = pc[n]
        BY <1>20 DEF CompleteTurn
    <2>2. UNCHANGED <<session, pendingOld>>
        BY <1>20 DEF CompleteTurn
    <2> QED BY <2>1, <2>2
<1>21. ASSUME NEW m \in Turns, CommitWriteback(m) PROVE OldTurnsAreLaunched'
    <2>1. pc[m] = "settling" /\ pc'[m] = "committed" /\ \A n \in Turns \ {m} : pc'[n] = pc[n]
        BY <1>21 DEF CommitWriteback
    <2>2. UNCHANGED <<session, pendingOld>>
        BY <1>21 DEF CommitWriteback
    <2> QED BY <2>1, <2>2
<1>22. ASSUME NEW m \in Turns, PutDone(m) PROVE OldTurnsAreLaunched'
    BY <1>22 DEF PutDone
<1>23. ASSUME NEW m \in Turns, FailTurn(m) PROVE OldTurnsAreLaunched'
    BY <1>23 DEF FailTurn
<1>24. ASSUME NEW m \in Turns, Unwind(m) PROVE OldTurnsAreLaunched'
    BY <1>24 DEF Unwind
<1>25. ASSUME NEW m \in Turns, TearDown(m) PROVE OldTurnsAreLaunched'
    BY <1>25 DEF TearDown
<1>26. ASSUME NEW m \in Turns, RowAges(m) PROVE OldTurnsAreLaunched'
    BY <1>26 DEF RowAges
<1>27. ASSUME NEW k \in Stops, NEW m \in Turns, StopClaims(k, m) PROVE OldTurnsAreLaunched'
    BY <1>27 DEF StopClaims
<1>28. ASSUME NEW k \in Stops, StopSignals(k) PROVE OldTurnsAreLaunched'
    BY <1>28 DEF StopSignals
<1>29. ASSUME NEW k \in Stops, StopSettles(k) PROVE OldTurnsAreLaunched'
    <2>1. CASE stops[k].known /\ StreamWritebackIsCurrent(stops[k].turn)
        BY <1>29, <2>1 DEF StopSettles
    <2>2. CASE ~(stops[k].known /\ StreamWritebackIsCurrent(stops[k].turn))
        BY <1>29, <2>2 DEF StopSettles
    <2> QED BY <2>1, <2>2
<1>30. ASSUME NEW k \in Stops, StopEmits(k) PROVE OldTurnsAreLaunched'
    BY <1>30 DEF StopEmits
<1>31. ASSUME ClearStaleChecks PROVE OldTurnsAreLaunched'
    BY <1>31 DEF ClearStaleChecks
<1>32. ASSUME PendingAges PROVE OldTurnsAreLaunched'
    <2> SUFFICES ASSUME Timely, NEW n \in Turns, session.active = n,
                         pc[n] \in Launching \cup {"spawned", "finished"}
                  PROVE  FALSE
        BY <1>32 DEF PendingAges
    <2>1. ~Stalls(n)
        BY <1>32 DEF PendingAges
    <2>2. pc[n] = "finished"
        BY <2>1 DEF Stalls
    <2>3. PICK k \in Stops : stops[k].pc # "idle" /\ stops[k].turn = n
        BY <2>2 DEF DetachedIsStopped, StopInFlight, RegistriesFollowWorkers
    <2>4. stops[k].pc \in {"claimed", "signalled"}
        <3>1. stops[k].pc \in {"idle", "claimed", "signalled", "settled"}
            <4>1. stops[k] \in Stop
                BY DEF TypeOK
            <4> QED BY <4>1 DEF Stop
        <3>2. stops[k].pc # "settled"
            BY <2>3 DEF StopsAreOfOpenTurns
        <3> QED BY <2>3, <3>1, <3>2
    <2>5. ~LockFree
        BY <2>1, <2>3, <2>4 DEF Stalls
    <2> QED BY <2>2, <2>5, LockedIsMerging
<1>33. ASSUME ClearStaleClears PROVE OldTurnsAreLaunched'
    BY <1>33 DEF ClearStaleClears
<1>34. ASSUME DropStaleCancelledRuns PROVE OldTurnsAreLaunched'
    BY <1>34 DEF DropStaleCancelledRuns
<1>35. ASSUME Crash PROVE OldTurnsAreLaunched'
    BY <1>35 DEF Crash
<1>36. CASE UNCHANGED vars
    BY <1>36 DEF vars
<1> QED
    BY <1>1, <1>2, <1>3, <1>4, <1>5, <1>6, <1>7, <1>8, <1>9, <1>10, <1>11, <1>12, <1>13, <1>14,
       <1>15, <1>16, <1>17, <1>18, <1>19, <1>20, <1>21, <1>22, <1>23, <1>24, <1>25, <1>26,
       <1>27, <1>28, <1>29, <1>30, <1>31, <1>32, <1>33, <1>34, <1>35, <1>36
       DEF Next, LaunchStep, WorkerStep, BeforeAgent, WritebackStep, StopStep

\* A row grows stale only while nobody is late.
LEMMA NextHoldersHaveFreshRows ==
    ASSUME TypeOK, TurnsBeginInOrder, SessionsHaveShape, ActiveIsUnsettled, WritebackIsCurrent,
          StopsAreOfOpenTurns, DetachedIsStopped, StoppedIsDetached, HoldersHaveFreshRows,
          [Next]_vars
    PROVE  HoldersHaveFreshRows'
<1>0. pc \in [Turns -> PCs] /\ latest \in Turn0 /\ session \in Session /\ disk \in Session
      /\ runs \in [Turns -> RunPhases] /\ age \in [Turns -> Nat]
      /\ stops \in [Stops -> Stop]
      /\ \A k \in Stops : stops[k].pc # "idle" => stops[k].turn \in Turns
    BY DEF TypeOK
<1> USE <1>0 DEF ReclaimRuns, Store, Settled, Goto, ClearWritebackOwnerIfOwned,
        FinalizeCancelledTurn, EndCancelled, Put, Log, SettlePendingSteer, registries, logs,
        history, bounds, HoldersHaveFreshRows, CancelledRunIsStale, TurnsBeginInOrder,
        SessionsHaveShape, SessionShape, ActiveIsUnsettled, Unsettled, Open, Session, Turns,
        Turn0, StreamWritebackIsCurrent, PCs, Working, WithAgent, HoldsSessionLock, Launching
<1>1. ASSUME Start PROVE HoldersHaveFreshRows'
    BY <1>1 DEF Start
<1>2. ASSUME NEW m \in Turns, OpenStream(m) PROVE HoldersHaveFreshRows'
    BY <1>2 DEF OpenStream
<1>3. ASSUME NEW m \in Turns, StartThread(m) PROVE HoldersHaveFreshRows'
    <2>1. pc[m] = "opened" /\ pc'[m] = "spawned" /\ \A n \in Turns \ {m} : pc'[n] = pc[n]
        BY <1>3 DEF StartThread
    <2>2. UNCHANGED <<session, runs, age>>
        BY <1>3 DEF StartThread
    <2> QED BY <2>1, <2>2
<1>4. ASSUME NEW m \in Turns, InvocationReturns(m) PROVE HoldersHaveFreshRows'
    <2>1. pc[m] = "invoked" /\ pc'[m] = "returned" /\ \A n \in Turns \ {m} : pc'[n] = pc[n]
        BY <1>4 DEF InvocationReturns
    <2>2. UNCHANGED <<session, runs, age>>
        BY <1>4 DEF InvocationReturns
    <2> QED BY <2>1, <2>2
<1>5. ASSUME NEW m \in Turns, Raises(m) PROVE HoldersHaveFreshRows'
    <2>1. /\ pc[m] \in {"running", "registered", "invoked"} /\ pc'[m] = "raised"
          /\ \A n \in Turns \ {m} : pc'[n] = pc[n]
        BY <1>5 DEF Raises
    <2>2. UNCHANGED <<session, runs, age>>
        BY <1>5 DEF Raises
    <2> QED BY <2>1, <2>2
<1>6. ASSUME NEW m \in Turns, StartThreadFails(m) PROVE HoldersHaveFreshRows'
    BY <1>6 DEF StartThreadFails
<1>7. ASSUME NEW m \in Turns, CleanupLaunchFailure(m) PROVE HoldersHaveFreshRows'
    BY <1>7 DEF CleanupLaunchFailure
<1>8. ASSUME NEW m \in Turns, Admit(m) PROVE HoldersHaveFreshRows'
    <2>1. pc[m] = "spawned" /\ \A n \in Turns \ {m} : pc'[n] = pc[n]
        BY <1>8 DEF Admit
    <2>2. session' = session /\ \A n \in Turns \ {m} : runs'[n] = runs[n] /\ age'[n] = age[n]
        BY <1>8 DEF Admit
    <2>3. \/ pc'[m] = "starting" /\ runs'[m] = "starting"
          \/ pc'[m] = "finished"
        BY <1>8 DEF Admit
    <2> QED BY <2>1, <2>2, <2>3
<1>9. ASSUME NEW m \in Turns, MarkRunning(m) PROVE HoldersHaveFreshRows'
    <2>1. /\ pc[m] = "starting" /\ pc'[m] = "running"
          /\ \A n \in Turns \ {m} : pc'[n] = pc[n] /\ runs'[n] = runs[n]
        BY <1>9 DEF MarkRunning
    <2>2. session' = session /\ age' = age /\ (runs[m] # "none" => runs'[m] = "running")
        BY <1>9 DEF MarkRunning
    <2> QED BY <2>1, <2>2
<1>10. ASSUME NEW m \in Turns, RegisterAgentIfCurrent(m) PROVE HoldersHaveFreshRows'
    <2>1. /\ pc[m] = "running" /\ pc'[m] \in {"registered", "rejected"}
          /\ \A n \in Turns \ {m} : pc'[n] = pc[n]
        BY <1>10 DEF RegisterAgentIfCurrent
    <2>2. UNCHANGED <<session, runs, age>>
        BY <1>10 DEF RegisterAgentIfCurrent
    <2> QED BY <2>1, <2>2
<1>11. ASSUME NEW m \in Turns, AgentCanInvoke(m) PROVE HoldersHaveFreshRows'
    <2>1. /\ pc[m] = "registered" /\ pc'[m] \in {"invoked", "rejected"}
          /\ \A n \in Turns \ {m} : pc'[n] = pc[n]
        BY <1>11 DEF AgentCanInvoke
    <2>2. UNCHANGED <<session, runs, age>>
        BY <1>11 DEF AgentCanInvoke
    <2> QED BY <2>1, <2>2
<1>12. ASSUME NEW m \in Turns, PassesCancelCheck(m) PROVE HoldersHaveFreshRows'
    <2>1. /\ pc[m] \in {"returned", "raised"} /\ pc'[m] \in {"writing", "failing"}
          /\ \A n \in Turns \ {m} : pc'[n] = pc[n]
        BY <1>12 DEF PassesCancelCheck
    <2>2. UNCHANGED <<session, runs, age>>
        BY <1>12 DEF PassesCancelCheck
    <2> QED BY <2>1, <2>2
<1>13. ASSUME NEW m \in Turns, FinalizeRejected(m) PROVE HoldersHaveFreshRows'
    BY <1>13 DEF FinalizeRejected
<1>14. ASSUME NEW m \in Turns, CancelledOnReturn(m) PROVE HoldersHaveFreshRows'
    BY <1>14 DEF CancelledOnReturn
<1>15. ASSUME NEW m \in Turns, CancelledInWriteback(m) PROVE HoldersHaveFreshRows'
    BY <1>15 DEF CancelledInWriteback
<1>16. ASSUME NEW m \in Turns, WritebackBegins(m) PROVE HoldersHaveFreshRows'
    <2>1. /\ pc[m] = "writing" /\ pc'[m] \in {"merging", "unwinding"}
          /\ \A n \in Turns \ {m} : pc'[n] = pc[n]
        BY <1>16 DEF WritebackBegins
    <2>2. UNCHANGED <<session, runs, age>>
        BY <1>16 DEF WritebackBegins
    <2> QED BY <2>1, <2>2
<1>17. ASSUME NEW m \in Turns, MergeResult(m) PROVE HoldersHaveFreshRows'
    BY <1>17 DEF MergeResult
<1>18. ASSUME NEW m \in Turns, ReturnsError(m) PROVE HoldersHaveFreshRows'
    BY <1>18 DEF ReturnsError
<1>19. ASSUME NEW m \in Turns, SaveResult(m) PROVE HoldersHaveFreshRows'
    <2>1. pc[m] = "merged" /\ pc'[m] = "saved" /\ \A n \in Turns \ {m} : pc'[n] = pc[n]
        BY <1>19 DEF SaveResult
    <2>2. UNCHANGED <<session, runs, age>>
        BY <1>19 DEF SaveResult
    <2> QED BY <2>1, <2>2
<1>20. ASSUME NEW m \in Turns, CompleteTurn(m) PROVE HoldersHaveFreshRows'
    <2>1. pc[m] = "saved" /\ pc'[m] = "settling" /\ \A n \in Turns \ {m} : pc'[n] = pc[n]
        BY <1>20 DEF CompleteTurn
    <2>2. UNCHANGED <<session, runs, age>>
        BY <1>20 DEF CompleteTurn
    <2> QED BY <2>1, <2>2
<1>21. ASSUME NEW m \in Turns, CommitWriteback(m) PROVE HoldersHaveFreshRows'
    <2>1. pc[m] = "settling" /\ pc'[m] = "committed" /\ \A n \in Turns \ {m} : pc'[n] = pc[n]
        BY <1>21 DEF CommitWriteback
    <2>2. UNCHANGED <<session, runs, age>>
        BY <1>21 DEF CommitWriteback
    <2> QED BY <2>1, <2>2
<1>22. ASSUME NEW m \in Turns, PutDone(m) PROVE HoldersHaveFreshRows'
    BY <1>22 DEF PutDone
<1>23. ASSUME NEW m \in Turns, FailTurn(m) PROVE HoldersHaveFreshRows'
    <2>1. CASE StreamWritebackIsCurrent(m)
        BY <1>23, <2>1 DEF FailTurn
    <2>2. CASE ~StreamWritebackIsCurrent(m)
        <3>1. /\ pc[m] = "failing" /\ pc'[m] = "unwinding" /\ UNCHANGED <<session, runs, age>>
              /\ \A n \in Turns \ {m} : pc'[n] = pc[n]
            BY <1>23, <2>2 DEF FailTurn
        <3> QED BY <3>1
    <2> QED BY <2>1, <2>2
<1>24. ASSUME NEW m \in Turns, Unwind(m) PROVE HoldersHaveFreshRows'
    BY <1>24 DEF Unwind
<1>25. ASSUME NEW m \in Turns, TearDown(m) PROVE HoldersHaveFreshRows'
    BY <1>25 DEF TearDown
<1>26. ASSUME NEW m \in Turns, RowAges(m) PROVE HoldersHaveFreshRows'
    <2> SUFFICES ASSUME Timely, session.active = m, runs[m] = "cancelling",
                         pc[m] \in Unsettled \ {"opened", "spawned", "merging"}
                  PROVE  FALSE
        BY <1>26 DEF RowAges
    <2>1. ~Stalls(m)
        BY <1>26 DEF RowAges
    <2>2. PICK k \in Stops : stops[k].pc # "idle" /\ stops[k].turn = m
        BY DEF DetachedIsStopped, StopInFlight, StoppedIsDetached
    <2>3. stops[k].pc = "signalled" /\ ~LockFree
        BY <2>1, <2>2 DEF Stalls, StopsAreOfOpenTurns, Stop
    <2> QED BY <2>3, LockedIsMerging
<1>27. ASSUME NEW k \in Stops, NEW m \in Turns, StopClaims(k, m) PROVE HoldersHaveFreshRows'
    BY <1>27 DEF StopClaims
<1>28. ASSUME NEW k \in Stops, StopSignals(k) PROVE HoldersHaveFreshRows'
    BY <1>28 DEF StopSignals
<1>29. ASSUME NEW k \in Stops, StopSettles(k) PROVE HoldersHaveFreshRows'
    <2>1. CASE stops[k].known /\ StreamWritebackIsCurrent(stops[k].turn)
        BY <1>29, <2>1 DEF StopSettles
    <2>2. CASE ~(stops[k].known /\ StreamWritebackIsCurrent(stops[k].turn))
        BY <1>29, <2>2 DEF StopSettles
    <2> QED BY <2>1, <2>2
<1>30. ASSUME NEW k \in Stops, StopEmits(k) PROVE HoldersHaveFreshRows'
    BY <1>30 DEF StopEmits
<1>31. ASSUME PendingAges \/ ClearStaleChecks PROVE HoldersHaveFreshRows'
    BY <1>31 DEF PendingAges, ClearStaleChecks
<1>32. ASSUME ClearStaleClears PROVE HoldersHaveFreshRows'
    BY <1>32 DEF ClearStaleClears
<1>33. ASSUME DropStaleCancelledRuns PROVE HoldersHaveFreshRows'
    BY <1>33 DEF DropStaleCancelledRuns
<1>34. ASSUME Crash PROVE HoldersHaveFreshRows'
    BY <1>34 DEF Crash
<1>35. CASE UNCHANGED vars
    BY <1>35 DEF vars
<1> QED
    BY <1>1, <1>2, <1>3, <1>4, <1>5, <1>6, <1>7, <1>8, <1>9, <1>10, <1>11, <1>12, <1>13, <1>14,
       <1>15, <1>16, <1>17, <1>18, <1>19, <1>20, <1>21, <1>22, <1>23, <1>24, <1>25, <1>26,
       <1>27, <1>28, <1>29, <1>30, <1>31, <1>32, <1>33, <1>34, <1>35
       DEF Next, LaunchStep, WorkerStep, BeforeAgent, WritebackStep, StopStep

\* What the repair reads without the lock is true when it has the lock.
LEMMA NextRepairIsOfTheDead ==
    ASSUME TypeOK, TurnsBeginInOrder, SessionsHaveShape, ActiveIsUnsettled, ActiveOwnsWriteback,
          WritebackIsCurrent, ReaderIsKnown, OldTurnsAreLaunched, HoldersHaveFreshRows,
          RepairIsOfTheDead, [Next]_vars
    PROVE  RepairIsOfTheDead'
<1>0. pc \in [Turns -> PCs] /\ latest \in Turn0 /\ session \in Session /\ disk \in Session
    BY DEF TypeOK
<1> USE <1>0 DEF ReclaimRuns, Store, Settled, Goto, ClearWritebackOwnerIfOwned,
        FinalizeCancelledTurn, EndCancelled, Put, Log, SettlePendingSteer, registries, logs,
        history, bounds, RepairIsOfTheDead, ReaderIsKnown, OldTurnsAreLaunched,
        HoldersHaveFreshRows, CancelledRunIsStale, TurnsBeginInOrder, ActiveOwnsWriteback,
        SessionsHaveShape, SessionShape, ActiveIsUnsettled, Unsettled, Open, Session, Turns,
        Turn0, StreamWritebackIsCurrent, PCs, Working, WithAgent, HoldsSessionLock, Launching
<1>1. ASSUME Start PROVE RepairIsOfTheDead'
    BY <1>1 DEF Start
<1>2. ASSUME NEW m \in Turns, OpenStream(m) PROVE RepairIsOfTheDead'
    BY <1>2 DEF OpenStream
<1>3. ASSUME NEW m \in Turns, StartThread(m) PROVE RepairIsOfTheDead'
    <2>1. pc[m] = "opened" /\ pc'[m] = "spawned" /\ \A n \in Turns \ {m} : pc'[n] = pc[n]
        BY <1>3 DEF StartThread
    <2>2. UNCHANGED <<session, reader>>
        BY <1>3 DEF StartThread
    <2> QED BY <2>1, <2>2
<1>4. ASSUME NEW m \in Turns, InvocationReturns(m) PROVE RepairIsOfTheDead'
    <2>1. pc[m] = "invoked" /\ pc'[m] = "returned" /\ \A n \in Turns \ {m} : pc'[n] = pc[n]
        BY <1>4 DEF InvocationReturns
    <2>2. UNCHANGED <<session, reader>>
        BY <1>4 DEF InvocationReturns
    <2> QED BY <2>1, <2>2
<1>5. ASSUME NEW m \in Turns, Raises(m) PROVE RepairIsOfTheDead'
    <2>1. /\ pc[m] \in {"running", "registered", "invoked"} /\ pc'[m] = "raised"
          /\ \A n \in Turns \ {m} : pc'[n] = pc[n]
        BY <1>5 DEF Raises
    <2>2. UNCHANGED <<session, reader>>
        BY <1>5 DEF Raises
    <2> QED BY <2>1, <2>2
<1>6. ASSUME NEW m \in Turns, StartThreadFails(m) PROVE RepairIsOfTheDead'
    BY <1>6 DEF StartThreadFails
<1>7. ASSUME NEW m \in Turns, CleanupLaunchFailure(m) PROVE RepairIsOfTheDead'
    BY <1>7 DEF CleanupLaunchFailure
<1>8. ASSUME NEW m \in Turns, Admit(m) PROVE RepairIsOfTheDead'
    <2>1. /\ pc[m] = "spawned" /\ pc'[m] \in {"starting", "finished"}
          /\ \A n \in Turns \ {m} : pc'[n] = pc[n]
        BY <1>8 DEF Admit
    <2>2. UNCHANGED <<session, reader>>
        BY <1>8 DEF Admit
    <2> QED BY <2>1, <2>2
<1>9. ASSUME NEW m \in Turns, MarkRunning(m) PROVE RepairIsOfTheDead'
    <2>1. pc[m] = "starting" /\ pc'[m] = "running" /\ \A n \in Turns \ {m} : pc'[n] = pc[n]
        BY <1>9 DEF MarkRunning
    <2>2. UNCHANGED <<session, reader>>
        BY <1>9 DEF MarkRunning
    <2> QED BY <2>1, <2>2
<1>10. ASSUME NEW m \in Turns, RegisterAgentIfCurrent(m) PROVE RepairIsOfTheDead'
    <2>1. /\ pc[m] = "running" /\ pc'[m] \in {"registered", "rejected"}
          /\ \A n \in Turns \ {m} : pc'[n] = pc[n]
        BY <1>10 DEF RegisterAgentIfCurrent
    <2>2. UNCHANGED <<session, reader>>
        BY <1>10 DEF RegisterAgentIfCurrent
    <2> QED BY <2>1, <2>2
<1>11. ASSUME NEW m \in Turns, AgentCanInvoke(m) PROVE RepairIsOfTheDead'
    <2>1. /\ pc[m] = "registered" /\ pc'[m] \in {"invoked", "rejected"}
          /\ \A n \in Turns \ {m} : pc'[n] = pc[n]
        BY <1>11 DEF AgentCanInvoke
    <2>2. UNCHANGED <<session, reader>>
        BY <1>11 DEF AgentCanInvoke
    <2> QED BY <2>1, <2>2
<1>12. ASSUME NEW m \in Turns, PassesCancelCheck(m) PROVE RepairIsOfTheDead'
    <2>1. /\ pc[m] \in {"returned", "raised"} /\ pc'[m] \in {"writing", "failing"}
          /\ \A n \in Turns \ {m} : pc'[n] = pc[n]
        BY <1>12 DEF PassesCancelCheck
    <2>2. UNCHANGED <<session, reader>>
        BY <1>12 DEF PassesCancelCheck
    <2> QED BY <2>1, <2>2
<1>13. ASSUME NEW m \in Turns, FinalizeRejected(m) PROVE RepairIsOfTheDead'
    BY <1>13 DEF FinalizeRejected
<1>14. ASSUME NEW m \in Turns, CancelledOnReturn(m) PROVE RepairIsOfTheDead'
    BY <1>14 DEF CancelledOnReturn
<1>15. ASSUME NEW m \in Turns, CancelledInWriteback(m) PROVE RepairIsOfTheDead'
    BY <1>15 DEF CancelledInWriteback
<1>16. ASSUME NEW m \in Turns, WritebackBegins(m) PROVE RepairIsOfTheDead'
    <2>1. /\ pc[m] = "writing" /\ pc'[m] \in {"merging", "unwinding"}
          /\ \A n \in Turns \ {m} : pc'[n] = pc[n]
        BY <1>16 DEF WritebackBegins
    <2>2. UNCHANGED <<session, reader>>
        BY <1>16 DEF WritebackBegins
    <2> QED BY <2>1, <2>2
<1>17. ASSUME NEW m \in Turns, MergeResult(m) PROVE RepairIsOfTheDead'
    BY <1>17 DEF MergeResult
<1>18. ASSUME NEW m \in Turns, ReturnsError(m) PROVE RepairIsOfTheDead'
    BY <1>18 DEF ReturnsError
<1>19. ASSUME NEW m \in Turns, SaveResult(m) PROVE RepairIsOfTheDead'
    <2>1. pc[m] = "merged" /\ pc'[m] = "saved" /\ \A n \in Turns \ {m} : pc'[n] = pc[n]
        BY <1>19 DEF SaveResult
    <2>2. UNCHANGED <<session, reader>>
        BY <1>19 DEF SaveResult
    <2> QED BY <2>1, <2>2
<1>20. ASSUME NEW m \in Turns, CompleteTurn(m) PROVE RepairIsOfTheDead'
    <2>1. pc[m] = "saved" /\ pc'[m] = "settling" /\ \A n \in Turns \ {m} : pc'[n] = pc[n]
        BY <1>20 DEF CompleteTurn
    <2>2. UNCHANGED <<session, reader>>
        BY <1>20 DEF CompleteTurn
    <2> QED BY <2>1, <2>2
<1>21. ASSUME NEW m \in Turns, CommitWriteback(m) PROVE RepairIsOfTheDead'
    <2>1. pc[m] = "settling" /\ pc'[m] = "committed" /\ \A n \in Turns \ {m} : pc'[n] = pc[n]
        BY <1>21 DEF CommitWriteback
    <2>2. UNCHANGED <<session, reader>>
        BY <1>21 DEF CommitWriteback
    <2> QED BY <2>1, <2>2
<1>22. ASSUME NEW m \in Turns, PutDone(m) PROVE RepairIsOfTheDead'
    BY <1>22 DEF PutDone
<1>23. ASSUME NEW m \in Turns, FailTurn(m) PROVE RepairIsOfTheDead'
    BY <1>23 DEF FailTurn
<1>24. ASSUME NEW m \in Turns, Unwind(m) PROVE RepairIsOfTheDead'
    BY <1>24 DEF Unwind
<1>25. ASSUME NEW m \in Turns, TearDown(m) PROVE RepairIsOfTheDead'
    BY <1>25 DEF TearDown
<1>26. ASSUME NEW m \in Turns, RowAges(m) PROVE RepairIsOfTheDead'
    BY <1>26 DEF RowAges
<1>27. ASSUME NEW k \in Stops, NEW m \in Turns, StopClaims(k, m) PROVE RepairIsOfTheDead'
    BY <1>27 DEF StopClaims
<1>28. ASSUME NEW k \in Stops, StopSignals(k) PROVE RepairIsOfTheDead'
    BY <1>28 DEF StopSignals
<1>29. ASSUME NEW k \in Stops, StopSettles(k) PROVE RepairIsOfTheDead'
    <2>1. CASE stops[k].known /\ StreamWritebackIsCurrent(stops[k].turn)
        BY <1>29, <2>1 DEF StopSettles
    <2>2. CASE ~(stops[k].known /\ StreamWritebackIsCurrent(stops[k].turn))
        BY <1>29, <2>2 DEF StopSettles
    <2> QED BY <2>1, <2>2
<1>30. ASSUME NEW k \in Stops, StopEmits(k) PROVE RepairIsOfTheDead'
    BY <1>30 DEF StopEmits
<1>31. ASSUME PendingAges \/ ClearStaleChecks PROVE RepairIsOfTheDead'
    BY <1>31 DEF PendingAges, ClearStaleChecks
<1>32. ASSUME ClearStaleClears PROVE RepairIsOfTheDead'
    BY <1>32 DEF ClearStaleClears
<1>33. ASSUME DropStaleCancelledRuns PROVE RepairIsOfTheDead'
    BY <1>33 DEF DropStaleCancelledRuns
<1>34. ASSUME Crash PROVE RepairIsOfTheDead'
    BY <1>34 DEF Crash
<1>35. CASE UNCHANGED vars
    BY <1>35 DEF vars
<1> QED
    BY <1>1, <1>2, <1>3, <1>4, <1>5, <1>6, <1>7, <1>8, <1>9, <1>10, <1>11, <1>12, <1>13, <1>14,
       <1>15, <1>16, <1>17, <1>18, <1>19, <1>20, <1>21, <1>22, <1>23, <1>24, <1>25, <1>26,
       <1>27, <1>28, <1>29, <1>30, <1>31, <1>32, <1>33, <1>34, <1>35
       DEF Next, LaunchStep, WorkerStep, BeforeAgent, WritebackStep, StopStep

\* Only who has taken the stream takes the session.
LEMMA NextOpenTurnsHaveTheSession ==
    ASSUME TypeOK, TurnsBeginInOrder, SessionsHaveShape, LockIsExclusive, ActiveIsUnsettled,
          WritebackIsCurrent, StopsAreOfOpenTurns, StoppedIsDetached, RepairIsOfTheDead,
          OpenTurnsHaveTheSession, [Next]_vars
    PROVE  OpenTurnsHaveTheSession'
<1>0. pc \in [Turns -> PCs] /\ latest \in Turn0 /\ session \in Session /\ disk \in Session
      /\ stops \in [Stops -> Stop]
      /\ \A k \in Stops : stops[k].pc # "idle" => stops[k].turn \in Turns
    BY DEF TypeOK
<1> USE <1>0 DEF ReclaimRuns, Store, Settled, Goto, ClearWritebackOwnerIfOwned,
        FinalizeCancelledTurn, EndCancelled, Put, Log, SettlePendingSteer, registries, logs,
        history, bounds, OpenTurnsHaveTheSession, StoppedIsDetached, RepairIsOfTheDead,
        LockIsExclusive, LockFree, TurnsBeginInOrder, SessionsHaveShape, SessionShape,
        ActiveIsUnsettled, Unsettled, Open, Session, Turns, Turn0, StreamWritebackIsCurrent,
        PCs, Working, WithAgent, HoldsSessionLock, Launching
<1>1. ASSUME Start PROVE OpenTurnsHaveTheSession'
    BY <1>1 DEF Start
<1>2. ASSUME NEW m \in Turns, OpenStream(m) PROVE OpenTurnsHaveTheSession'
    BY <1>2 DEF OpenStream
<1>3. ASSUME NEW m \in Turns, StartThread(m) PROVE OpenTurnsHaveTheSession'
    <2>1. pc[m] = "opened" /\ pc'[m] = "spawned" /\ \A n \in Turns \ {m} : pc'[n] = pc[n]
        BY <1>3 DEF StartThread
    <2>2. UNCHANGED <<session, streams>>
        BY <1>3 DEF StartThread
    <2> QED BY <2>1, <2>2
<1>4. ASSUME NEW m \in Turns, InvocationReturns(m) PROVE OpenTurnsHaveTheSession'
    <2>1. pc[m] = "invoked" /\ pc'[m] = "returned" /\ \A n \in Turns \ {m} : pc'[n] = pc[n]
        BY <1>4 DEF InvocationReturns
    <2>2. UNCHANGED <<session, streams>>
        BY <1>4 DEF InvocationReturns
    <2> QED BY <2>1, <2>2
<1>5. ASSUME NEW m \in Turns, Raises(m) PROVE OpenTurnsHaveTheSession'
    <2>1. /\ pc[m] \in {"running", "registered", "invoked"} /\ pc'[m] = "raised"
          /\ \A n \in Turns \ {m} : pc'[n] = pc[n]
        BY <1>5 DEF Raises
    <2>2. UNCHANGED <<session, streams>>
        BY <1>5 DEF Raises
    <2> QED BY <2>1, <2>2
<1>6. ASSUME NEW m \in Turns, StartThreadFails(m) PROVE OpenTurnsHaveTheSession'
    BY <1>6 DEF StartThreadFails
<1>7. ASSUME NEW m \in Turns, CleanupLaunchFailure(m) PROVE OpenTurnsHaveTheSession'
    BY <1>7 DEF CleanupLaunchFailure
<1>8. ASSUME NEW m \in Turns, Admit(m) PROVE OpenTurnsHaveTheSession'
    <2>1. UNCHANGED <<session, streams>>
        BY <1>8 DEF Admit
    <2> QED BY <1>8, <2>1, AdmitMoves
<1>9. ASSUME NEW m \in Turns, MarkRunning(m) PROVE OpenTurnsHaveTheSession'
    <2>1. pc[m] = "starting" /\ pc'[m] = "running" /\ \A n \in Turns \ {m} : pc'[n] = pc[n]
        BY <1>9 DEF MarkRunning
    <2>2. UNCHANGED <<session, streams>>
        BY <1>9 DEF MarkRunning
    <2> QED BY <2>1, <2>2
<1>10. ASSUME NEW m \in Turns, RegisterAgentIfCurrent(m) PROVE OpenTurnsHaveTheSession'
    <2>1. UNCHANGED <<session, streams>>
        BY <1>10 DEF RegisterAgentIfCurrent
    <2> QED BY <1>10, <2>1, RegisterAgentMoves
<1>11. ASSUME NEW m \in Turns, AgentCanInvoke(m) PROVE OpenTurnsHaveTheSession'
    <2>1. UNCHANGED <<session, streams>>
        BY <1>11 DEF AgentCanInvoke
    <2> QED BY <1>11, <2>1, AgentCanInvokeMoves
<1>12. ASSUME NEW m \in Turns, PassesCancelCheck(m) PROVE OpenTurnsHaveTheSession'
    <2>1. /\ pc[m] \in {"returned", "raised"} /\ pc'[m] \in {"writing", "failing"}
          /\ \A n \in Turns \ {m} : pc'[n] = pc[n]
        BY <1>12 DEF PassesCancelCheck
    <2>2. UNCHANGED <<session, streams>>
        BY <1>12 DEF PassesCancelCheck
    <2> QED BY <2>1, <2>2
<1>13. ASSUME NEW m \in Turns, FinalizeRejected(m) PROVE OpenTurnsHaveTheSession'
    BY <1>13 DEF FinalizeRejected
<1>14. ASSUME NEW m \in Turns, CancelledOnReturn(m) PROVE OpenTurnsHaveTheSession'
    BY <1>14 DEF CancelledOnReturn
<1>15. ASSUME NEW m \in Turns, CancelledInWriteback(m) PROVE OpenTurnsHaveTheSession'
    BY <1>15 DEF CancelledInWriteback
<1>16. ASSUME NEW m \in Turns, WritebackBegins(m) PROVE OpenTurnsHaveTheSession'
    <2>1. /\ pc[m] = "writing" /\ pc'[m] \in {"merging", "unwinding"}
          /\ \A n \in Turns \ {m} : pc'[n] = pc[n]
        BY <1>16 DEF WritebackBegins
    <2>2. UNCHANGED <<session, streams>>
        BY <1>16 DEF WritebackBegins
    <2> QED BY <2>1, <2>2
<1>17. ASSUME NEW m \in Turns, MergeResult(m) PROVE OpenTurnsHaveTheSession'
    <2>1. session.active \in {0, m}
        BY <1>17 DEF MergeResult, WritebackIsCurrent, StreamWritebackCanSupersedeRecoveryMarker
    <2>2. /\ pc'[m] = "merged" /\ session'.active = 0 /\ streams' = streams
          /\ \A n \in Turns \ {m} : pc'[n] = pc[n]
        BY <1>17 DEF MergeResult
    <2> QED BY <2>1, <2>2
<1>18. ASSUME NEW m \in Turns, ReturnsError(m) PROVE OpenTurnsHaveTheSession'
    <2>1. session.active \in {0, m}
        BY <1>18 DEF ReturnsError, WritebackIsCurrent, StreamWritebackCanSupersedeRecoveryMarker
    <2>2. /\ pc'[m] = "unwinding" /\ session'.active = 0 /\ streams' = streams
          /\ \A n \in Turns \ {m} : pc'[n] = pc[n]
        BY <1>18 DEF ReturnsError
    <2> QED BY <2>1, <2>2
<1>19. ASSUME NEW m \in Turns, SaveResult(m) PROVE OpenTurnsHaveTheSession'
    <2>1. pc[m] = "merged" /\ pc'[m] = "saved" /\ \A n \in Turns \ {m} : pc'[n] = pc[n]
        BY <1>19 DEF SaveResult
    <2>2. UNCHANGED <<session, streams>>
        BY <1>19 DEF SaveResult
    <2> QED BY <2>1, <2>2
<1>20. ASSUME NEW m \in Turns, CompleteTurn(m) PROVE OpenTurnsHaveTheSession'
    <2>1. pc[m] = "saved" /\ pc'[m] = "settling" /\ \A n \in Turns \ {m} : pc'[n] = pc[n]
        BY <1>20 DEF CompleteTurn
    <2>2. UNCHANGED <<session, streams>>
        BY <1>20 DEF CompleteTurn
    <2> QED BY <2>1, <2>2
<1>21. ASSUME NEW m \in Turns, CommitWriteback(m) PROVE OpenTurnsHaveTheSession'
    <2>1. pc[m] = "settling" /\ pc'[m] = "committed" /\ \A n \in Turns \ {m} : pc'[n] = pc[n]
        BY <1>21 DEF CommitWriteback
    <2>2. UNCHANGED <<session, streams>>
        BY <1>21 DEF CommitWriteback
    <2> QED BY <2>1, <2>2
<1>22. ASSUME NEW m \in Turns, PutDone(m) PROVE OpenTurnsHaveTheSession'
    BY <1>22 DEF PutDone
<1>23. ASSUME NEW m \in Turns, FailTurn(m) PROVE OpenTurnsHaveTheSession'
    BY <1>23 DEF FailTurn
<1>24. ASSUME NEW m \in Turns, Unwind(m) PROVE OpenTurnsHaveTheSession'
    BY <1>24 DEF Unwind
<1>25. ASSUME NEW m \in Turns, TearDown(m) PROVE OpenTurnsHaveTheSession'
    BY <1>25 DEF TearDown
<1>26. ASSUME NEW m \in Turns, RowAges(m) PROVE OpenTurnsHaveTheSession'
    BY <1>26 DEF RowAges
<1>27. ASSUME NEW k \in Stops, NEW m \in Turns, StopClaims(k, m) PROVE OpenTurnsHaveTheSession'
    BY <1>27 DEF StopClaims
<1>28. ASSUME NEW k \in Stops, StopSignals(k) PROVE OpenTurnsHaveTheSession'
    BY <1>28 DEF StopSignals
<1>29. ASSUME NEW k \in Stops, StopSettles(k) PROVE OpenTurnsHaveTheSession'
    <2>1. CASE stops[k].known /\ StreamWritebackIsCurrent(stops[k].turn)
        <3>1. stops[k].pc = "signalled" /\ UNCHANGED <<pc, streams>>
            BY <1>29 DEF StopSettles
        <3>2. stops[k].turn \notin streams /\ stops[k].turn \in Turns
            BY <3>1
        <3>3. pc[stops[k].turn] # "prepared"
            BY <3>1 DEF StopsAreOfOpenTurns
        <3> QED BY <2>1, <3>1, <3>2, <3>3
    <2>2. CASE ~(stops[k].known /\ StreamWritebackIsCurrent(stops[k].turn))
        BY <1>29, <2>2 DEF StopSettles
    <2> QED BY <2>1, <2>2
<1>30. ASSUME NEW k \in Stops, StopEmits(k) PROVE OpenTurnsHaveTheSession'
    BY <1>30 DEF StopEmits
<1>31. ASSUME PendingAges \/ ClearStaleChecks PROVE OpenTurnsHaveTheSession'
    BY <1>31 DEF PendingAges, ClearStaleChecks
<1>32. ASSUME ClearStaleClears PROVE OpenTurnsHaveTheSession'
    BY <1>32 DEF ClearStaleClears
<1>33. ASSUME DropStaleCancelledRuns PROVE OpenTurnsHaveTheSession'
    BY <1>33 DEF DropStaleCancelledRuns
<1>34. ASSUME Crash PROVE OpenTurnsHaveTheSession'
    BY <1>34 DEF Crash
<1>35. CASE UNCHANGED vars
    BY <1>35 DEF vars
<1> QED
    BY <1>1, <1>2, <1>3, <1>4, <1>5, <1>6, <1>7, <1>8, <1>9, <1>10, <1>11, <1>12, <1>13, <1>14,
       <1>15, <1>16, <1>17, <1>18, <1>19, <1>20, <1>21, <1>22, <1>23, <1>24, <1>25, <1>26,
       <1>27, <1>28, <1>29, <1>30, <1>31, <1>32, <1>33, <1>34, <1>35
       DEF Next, LaunchStep, WorkerStep, BeforeAgent, WritebackStep, StopStep

\* A turn starts beside an agent only when it reclaimed its row.
LEMMA NextOlderAgentsAreReclaimed ==
    ASSUME TypeOK, TurnsBeginInOrder, SessionsHaveShape, RowlessIsReclaimed,
          OpenTurnsHaveTheSession, OlderAgentsAreReclaimed, [Next]_vars
    PROVE  OlderAgentsAreReclaimed'
<1>0. pc \in [Turns -> PCs] /\ latest \in Turn0 /\ session \in Session
    BY DEF TypeOK
<1> USE <1>0 DEF ReclaimRuns, Store, Settled, Goto, ClearWritebackOwnerIfOwned,
        FinalizeCancelledTurn, EndCancelled, Put, Log, SettlePendingSteer, registries, logs,
        history, bounds, OlderAgentsAreReclaimed, NoRunBlocks, RowlessIsReclaimed,
        OpenTurnsHaveTheSession, TurnsBeginInOrder, SessionsHaveShape, SessionShape,
        ActiveIsUnsettled, Unsettled, Open, Session, Turns, Turn0, StreamWritebackIsCurrent,
        PCs, Working, WithAgent, HoldsSessionLock, Launching
<1>1. ASSUME Start PROVE OlderAgentsAreReclaimed'
    BY <1>1 DEF Start, Reclaimable, PastCeiling
<1>2. ASSUME NEW m \in Turns, OpenStream(m) PROVE OlderAgentsAreReclaimed'
    BY <1>2 DEF OpenStream
<1>3. ASSUME NEW m \in Turns, StartThread(m) PROVE OlderAgentsAreReclaimed'
    <2>1. pc[m] = "opened" /\ pc'[m] = "spawned" /\ \A n \in Turns \ {m} : pc'[n] = pc[n]
        BY <1>3 DEF StartThread
    <2>2. UNCHANGED <<session, latest, reclaimed, streams>>
        BY <1>3 DEF StartThread
    <2> QED BY <2>1, <2>2
<1>4. ASSUME NEW m \in Turns, InvocationReturns(m) PROVE OlderAgentsAreReclaimed'
    <2>1. pc[m] = "invoked" /\ pc'[m] = "returned" /\ \A n \in Turns \ {m} : pc'[n] = pc[n]
        BY <1>4 DEF InvocationReturns
    <2>2. UNCHANGED <<session, latest, reclaimed, streams>>
        BY <1>4 DEF InvocationReturns
    <2> QED BY <2>1, <2>2
<1>5. ASSUME NEW m \in Turns, Raises(m) PROVE OlderAgentsAreReclaimed'
    <2>1. /\ pc[m] \in {"running", "registered", "invoked"} /\ pc'[m] = "raised"
          /\ \A n \in Turns \ {m} : pc'[n] = pc[n]
        BY <1>5 DEF Raises
    <2>2. UNCHANGED <<session, latest, reclaimed, streams>>
        BY <1>5 DEF Raises
    <2> QED BY <2>1, <2>2
<1>6. ASSUME NEW m \in Turns, StartThreadFails(m) PROVE OlderAgentsAreReclaimed'
    BY <1>6 DEF StartThreadFails
<1>7. ASSUME NEW m \in Turns, CleanupLaunchFailure(m) PROVE OlderAgentsAreReclaimed'
    BY <1>7 DEF CleanupLaunchFailure
<1>8. ASSUME NEW m \in Turns, Admit(m) PROVE OlderAgentsAreReclaimed'
    <2>1. UNCHANGED <<session, latest, reclaimed, streams>>
        BY <1>8 DEF Admit
    <2> QED BY <1>8, <2>1, AdmitMoves
<1>9. ASSUME NEW m \in Turns, MarkRunning(m) PROVE OlderAgentsAreReclaimed'
    <2>1. pc[m] = "starting" /\ pc'[m] = "running" /\ \A n \in Turns \ {m} : pc'[n] = pc[n]
        BY <1>9 DEF MarkRunning
    <2>2. UNCHANGED <<session, latest, reclaimed, streams>>
        BY <1>9 DEF MarkRunning
    <2> QED BY <2>1, <2>2
<1>10. ASSUME NEW m \in Turns, RegisterAgentIfCurrent(m) PROVE OlderAgentsAreReclaimed'
    <2>1. UNCHANGED <<session, latest, reclaimed, streams>>
        BY <1>10 DEF RegisterAgentIfCurrent
    <2> QED BY <1>10, <2>1, RegisterAgentMoves
<1>11. ASSUME NEW m \in Turns, AgentCanInvoke(m) PROVE OlderAgentsAreReclaimed'
    <2>1. UNCHANGED <<session, latest, reclaimed, streams>>
        BY <1>11 DEF AgentCanInvoke
    <2> QED BY <1>11, <2>1, AgentCanInvokeMoves
<1>12. ASSUME NEW m \in Turns, PassesCancelCheck(m) PROVE OlderAgentsAreReclaimed'
    <2>1. /\ pc[m] \in {"returned", "raised"} /\ pc'[m] \in {"writing", "failing"}
          /\ \A n \in Turns \ {m} : pc'[n] = pc[n]
        BY <1>12 DEF PassesCancelCheck
    <2>2. UNCHANGED <<session, latest, reclaimed, streams>>
        BY <1>12 DEF PassesCancelCheck
    <2> QED BY <2>1, <2>2
<1>13. ASSUME NEW m \in Turns, FinalizeRejected(m) PROVE OlderAgentsAreReclaimed'
    BY <1>13 DEF FinalizeRejected
<1>14. ASSUME NEW m \in Turns, CancelledOnReturn(m) PROVE OlderAgentsAreReclaimed'
    BY <1>14 DEF CancelledOnReturn
<1>15. ASSUME NEW m \in Turns, CancelledInWriteback(m) PROVE OlderAgentsAreReclaimed'
    BY <1>15 DEF CancelledInWriteback
<1>16. ASSUME NEW m \in Turns, WritebackBegins(m) PROVE OlderAgentsAreReclaimed'
    <2>1. /\ pc[m] = "writing" /\ pc'[m] \in {"merging", "unwinding"}
          /\ \A n \in Turns \ {m} : pc'[n] = pc[n]
        BY <1>16 DEF WritebackBegins
    <2>2. UNCHANGED <<session, latest, reclaimed, streams>>
        BY <1>16 DEF WritebackBegins
    <2> QED BY <2>1, <2>2
<1>17. ASSUME NEW m \in Turns, MergeResult(m) PROVE OlderAgentsAreReclaimed'
    BY <1>17 DEF MergeResult
<1>18. ASSUME NEW m \in Turns, ReturnsError(m) PROVE OlderAgentsAreReclaimed'
    BY <1>18 DEF ReturnsError
<1>19. ASSUME NEW m \in Turns, SaveResult(m) PROVE OlderAgentsAreReclaimed'
    <2>1. pc[m] = "merged" /\ pc'[m] = "saved" /\ \A n \in Turns \ {m} : pc'[n] = pc[n]
        BY <1>19 DEF SaveResult
    <2>2. UNCHANGED <<session, latest, reclaimed, streams>>
        BY <1>19 DEF SaveResult
    <2> QED BY <2>1, <2>2
<1>20. ASSUME NEW m \in Turns, CompleteTurn(m) PROVE OlderAgentsAreReclaimed'
    <2>1. pc[m] = "saved" /\ pc'[m] = "settling" /\ \A n \in Turns \ {m} : pc'[n] = pc[n]
        BY <1>20 DEF CompleteTurn
    <2>2. UNCHANGED <<session, latest, reclaimed, streams>>
        BY <1>20 DEF CompleteTurn
    <2> QED BY <2>1, <2>2
<1>21. ASSUME NEW m \in Turns, CommitWriteback(m) PROVE OlderAgentsAreReclaimed'
    <2>1. pc[m] = "settling" /\ pc'[m] = "committed" /\ \A n \in Turns \ {m} : pc'[n] = pc[n]
        BY <1>21 DEF CommitWriteback
    <2>2. UNCHANGED <<session, latest, reclaimed, streams>>
        BY <1>21 DEF CommitWriteback
    <2> QED BY <2>1, <2>2
<1>22. ASSUME NEW m \in Turns, PutDone(m) PROVE OlderAgentsAreReclaimed'
    BY <1>22 DEF PutDone
<1>23. ASSUME NEW m \in Turns, FailTurn(m) PROVE OlderAgentsAreReclaimed'
    BY <1>23 DEF FailTurn
<1>24. ASSUME NEW m \in Turns, Unwind(m) PROVE OlderAgentsAreReclaimed'
    BY <1>24 DEF Unwind
<1>25. ASSUME NEW m \in Turns, TearDown(m) PROVE OlderAgentsAreReclaimed'
    BY <1>25 DEF TearDown
<1>26. ASSUME NEW m \in Turns, RowAges(m) PROVE OlderAgentsAreReclaimed'
    BY <1>26 DEF RowAges
<1>27. ASSUME NEW k \in Stops, NEW m \in Turns, StopClaims(k, m) PROVE OlderAgentsAreReclaimed'
    BY <1>27 DEF StopClaims
<1>28. ASSUME NEW k \in Stops, StopSignals(k) PROVE OlderAgentsAreReclaimed'
    BY <1>28 DEF StopSignals
<1>29. ASSUME NEW k \in Stops, StopSettles(k) PROVE OlderAgentsAreReclaimed'
    <2>1. CASE stops[k].known /\ StreamWritebackIsCurrent(stops[k].turn)
        BY <1>29, <2>1 DEF StopSettles
    <2>2. CASE ~(stops[k].known /\ StreamWritebackIsCurrent(stops[k].turn))
        BY <1>29, <2>2 DEF StopSettles
    <2> QED BY <2>1, <2>2
<1>30. ASSUME NEW k \in Stops, StopEmits(k) PROVE OlderAgentsAreReclaimed'
    BY <1>30 DEF StopEmits
<1>31. ASSUME PendingAges \/ ClearStaleChecks PROVE OlderAgentsAreReclaimed'
    BY <1>31 DEF PendingAges, ClearStaleChecks
<1>32. ASSUME ClearStaleClears PROVE OlderAgentsAreReclaimed'
    BY <1>32 DEF ClearStaleClears
<1>33. ASSUME DropStaleCancelledRuns PROVE OlderAgentsAreReclaimed'
    BY <1>33 DEF DropStaleCancelledRuns
<1>34. ASSUME Crash PROVE OlderAgentsAreReclaimed'
    BY <1>34 DEF Crash
<1>35. CASE UNCHANGED vars
    BY <1>35 DEF vars
<1> QED
    BY <1>1, <1>2, <1>3, <1>4, <1>5, <1>6, <1>7, <1>8, <1>9, <1>10, <1>11, <1>12, <1>13, <1>14,
       <1>15, <1>16, <1>17, <1>18, <1>19, <1>20, <1>21, <1>22, <1>23, <1>24, <1>25, <1>26,
       <1>27, <1>28, <1>29, <1>30, <1>31, <1>32, <1>33, <1>34, <1>35
       DEF Next, LaunchStep, WorkerStep, BeforeAgent, WritebackStep, StopStep

\* At the start there is no worker, Stop or repair.
LEMMA InitTimingInv == Init => TimingInv
BY BoundAssumption
   DEF Init, TimingInv, StoppedIsDetached, RowlessIsReclaimed, ReaderIsKnown, OldTurnsAreLaunched,
       HoldersHaveFreshRows, RepairIsOfTheDead, OpenTurnsHaveTheSession,
       OlderAgentsAreReclaimed, EmptySession, NoStop, Turns, Working, WithAgent, HoldsSessionLock,
       Launching, Unsettled

\* Every step keeps the repair away from turns that are alive.
LEMMA NextTimingInv == RegistryInv /\ TimingInv /\ [Next]_vars => TimingInv'
<1> SUFFICES ASSUME RegistryInv, TimingInv, [Next]_vars
             PROVE  TimingInv'
    OBVIOUS
<1>1. /\ TypeOK /\ TurnsBeginInOrder /\ RegistriesFollowWorkers /\ OwnerIsLatest
      /\ SessionsHaveShape /\ ActiveIsUnsettled /\ ActiveOwnsWriteback /\ DiskFollows
      /\ LockIsExclusive /\ WritebackIsCurrent /\ StopsAreOfOpenTurns /\ DetachedIsStopped
      /\ OwnersKnown
    BY DEF RegistryInv
<1>2. /\ StoppedIsDetached /\ RowlessIsReclaimed /\ ReaderIsKnown /\ OldTurnsAreLaunched
      /\ HoldersHaveFreshRows /\ RepairIsOfTheDead /\ OpenTurnsHaveTheSession
      /\ OlderAgentsAreReclaimed
    BY DEF TimingInv
<1>3. StoppedIsDetached' /\ RowlessIsReclaimed' /\ ReaderIsKnown'
    BY <1>1, <1>2, NextStoppedIsDetached, NextRowlessIsReclaimed, NextReaderIsKnown
<1>4. OldTurnsAreLaunched' /\ HoldersHaveFreshRows' /\ RepairIsOfTheDead'
    BY <1>1, <1>2, NextOldTurnsAreLaunched, NextHoldersHaveFreshRows, NextRepairIsOfTheDead
<1>5. OpenTurnsHaveTheSession' /\ OlderAgentsAreReclaimed'
    BY <1>1, <1>2, NextOpenTurnsHaveTheSession, NextOlderAgentsAreReclaimed
<1> QED BY <1>3, <1>4, <1>5 DEF TimingInv

\* The timing invariant holds in every state that is reached.
THEOREM RepairsComeAfterWorkers == Spec => [](RegistryInv /\ TimingInv)
BY InitRegistryInv, NextRegistryInv, InitTimingInv, NextTimingInv, PTL DEF Spec

(***************************************************************************)
(* AgentsDoNotOverlap, for every instance in which no thread stalls: the   *)
(* admission of a turn finds no row of an older one, or a row past the     *)
(* unwind ceiling, and whichever of Stop, repair and reclaim freed the     *)
(* session of an agent that still runs, its row was reclaimed.             *)
(***************************************************************************)
THEOREM AgentsRunAlone == Timely => (Spec => []AgentsDoNotOverlap)
<1> SUFFICES ASSUME Timely PROVE Spec => []AgentsDoNotOverlap
    OBVIOUS
<1>1. RegistryInv /\ TimingInv => AgentsDoNotOverlap
    BY DEF RegistryInv, TimingInv, OlderAgentsAreReclaimed, AgentsDoNotOverlap, TurnsBeginInOrder,
           Turns, TypeOK, Turn0, Working, WithAgent, HoldsSessionLock
<1> QED BY <1>1, RepairsComeAfterWorkers, PTL
=============================================================================
