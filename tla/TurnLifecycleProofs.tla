------------------------- MODULE TurnLifecycleProofs -------------------------
(***************************************************************************)
(* What holds of TurnLifecycle for any number of turns, Stops and          *)
(* restarts, however late each thread is (Timely or not), and whatever the *)
(* prompts say.                                                            *)
(***************************************************************************)
EXTENDS TurnLifecycleProperties, TLAPS

(***************************************************************************)
(* What the writers of the transcript write is a transcript.               *)
(***************************************************************************)
LEMMA RowInRows ==
    ASSUME NEW n \in Turns, NEW kind \in {"user", "answer", "error", "cancel", "recovery"}
    PROVE  Row(kind, n) \in Rows
BY DEF Row, Rows

\* Writing the pending message of a turn into the session yields rows.
LEMMA MaterializeType ==
    ASSUME NEW s \in Session
    PROVE  MaterializePendingUserTurn(s) \in Seq(Rows)
<1>1. s.rows \in Seq(Rows) /\ s.pending \in Turn0
    BY DEF Session
<1>2. CASE s.pending = 0
    BY <1>1, <1>2 DEF MaterializePendingUserTurn
<1>3. CASE s.pending # 0
    <2>1. s.pending \in Turns
        BY <1>1, <1>3, BoundAssumption DEF Turns, Turn0
    <2>2. Append(s.rows, Row("user", s.pending)) \in Seq(Rows)
        BY <1>1, <2>1, RowInRows
    <2> QED BY <1>1, <2>2 DEF MaterializePendingUserTurn
<1> QED BY <1>2, <1>3

\* So do the rows of a cancelled turn,
LEMMA CancelledRowsType ==
    ASSUME NEW s \in Session, NEW n \in Turns
    PROVE  CancelledRows(s, n) \in Seq(Rows)
BY MaterializeType, RowInRows DEF CancelledRows

\* of a failed one,
LEMMA FailedRowsType ==
    ASSUME NEW s \in Session, NEW n \in Turns
    PROVE  FailedRows(s, n) \in Seq(Rows)
BY MaterializeType, RowInRows DEF FailedRows

\* of a recovered one,
LEMMA RecoveredRowsType ==
    ASSUME NEW s \in Session, s.pending # 0
    PROVE  RecoveredRows(s) \in Seq(Rows)
<1>1. s.pending \in Turns
    BY BoundAssumption DEF Session, Turns, Turn0
<1> QED BY <1>1, MaterializeType, RowInRows DEF RecoveredRows

\* and of one that was answered.
LEMMA MergedRowsType ==
    ASSUME TypeOK, NEW n \in Turns
    PROVE  MergedRows(n) \in Seq(Rows)
<1>1. seen[n] \in Seq(Rows)
    BY DEF TypeOK
<1>2. Row("user", n) \in Rows /\ Row("answer", n) \in Rows
    BY RowInRows
<1>3. <<Row("answer", n)>> \in Seq(Rows)
    BY <1>2
<1>4. Append(seen[n], Row("user", n)) \in Seq(Rows)
    BY <1>1, <1>2
<1> QED BY <1>1, <1>3, <1>4 DEF MergedRows

\* A session settled with rows is a session.
LEMMA SettledType ==
    ASSUME NEW rows \in Seq(Rows)
    PROVE  Settled(rows) \in Session
BY BoundAssumption DEF Settled, Session, Turn0
-----------------------------------------------------------------------------
\* The variables have their types to begin with.
LEMMA InitTypeOK == Init => TypeOK
<1>1. EmptySession \in Session
    BY BoundAssumption DEF EmptySession, Session, Turn0
<1>2. NoStop \in Stop
    BY BoundAssumption DEF NoStop, Stop, Turn0
<1> SUFFICES ASSUME Init PROVE TypeOK
    OBVIOUS
<1>3. 0 \in Turn0
    BY BoundAssumption DEF Turn0
<1>4. "none" \in PCs /\ "none" \in RunPhases
    BY DEF PCs, RunPhases
<1>5. /\ pc \in [Turns -> PCs] /\ runs \in [Turns -> RunPhases] /\ age \in [Turns -> Nat]
      /\ channel \in [Turns -> SUBSET Closing]
    BY <1>4 DEF Init
<1>6. seen \in [Turns -> Seq(Rows)] /\ turnLog \in [Turns -> Seq({"completed", "interrupted"})]
    BY DEF Init
<1>7. stops \in [Stops -> Stop]
    BY <1>2 DEF Init
<1>8. \A k \in Stops : stops[k].pc = "idle"
    BY DEF Init, NoStop
<1> QED BY <1>1, <1>3, <1>5, <1>6, <1>7, <1>8 DEF Init, TypeOK

\* What a cancelled turn's finalizer writes.
LEMMA FinalizeType ==
    ASSUME TypeOK, NEW n \in Turns, FinalizeCancelledTurn(n)
    PROVE  session' \in Session /\ disk' \in Session
<1>1. Settled(CancelledRows(session, n)) \in Session
    BY CancelledRowsType, SettledType DEF TypeOK
<1> QED BY <1>1 DEF FinalizeCancelledTurn, Store, TypeOK

\* Closing a turn to Steer leaves its run in a phase.
LEMMA SteerType ==
    ASSUME TypeOK, NEW n \in Turns, SettlePendingSteer(n)
    PROVE  runs' \in [Turns -> RunPhases]
BY DEF SettlePendingSteer, TypeOK, RunPhases

\* An event put on a channel is one of its events.
LEMMA PutType ==
    ASSUME TypeOK, NEW n \in Turns, NEW event \in Closing, Put(n, event)
    PROVE  channel' \in [Turns -> SUBSET Closing] /\ runLog' \subseteq Turns
BY DEF Put, TypeOK

\* An event logged in the turn journal is one of its events.
LEMMA LogType ==
    ASSUME TypeOK, NEW n \in Turns, NEW event \in {"completed", "interrupted"}, Log(n, event)
    PROVE  turnLog' \in [Turns -> Seq({"completed", "interrupted"})]
BY DEF Log, TypeOK

\* A worker that moves on stays in its type.
LEMMA GotoType ==
    ASSUME TypeOK, NEW n, NEW where \in PCs, Goto(n, where)
    PROVE  pc' \in [Turns -> PCs]
BY DEF Goto, TypeOK

\* A worker that ends as cancelled keeps the types.
LEMMA EndCancelledType ==
    ASSUME TypeOK, NEW n \in Turns, EndCancelled(n)
    PROVE  TypeOK'
<1>1. session' \in Session /\ disk' \in Session
    BY FinalizeType DEF EndCancelled
<1>2. turnLog' \in [Turns -> Seq({"completed", "interrupted"})]
    BY LogType DEF EndCancelled
<1>3. channel' \in [Turns -> SUBSET Closing] /\ runLog' \subseteq Turns
    BY PutType DEF EndCancelled, Closing
<1>4. pc' \in [Turns -> PCs]
    BY GotoType DEF EndCancelled, PCs, Working
<1> QED BY <1>1, <1>2, <1>3, <1>4 DEF EndCancelled, TypeOK, registries, history, bounds

\* The idle Stop request has its type.
LEMMA NoStopType == NoStop \in Stop
BY BoundAssumption DEF NoStop, Stop, Turn0

\* Every step keeps the types.
LEMMA NextTypeOK == TypeOK /\ [Next]_vars => TypeOK'
<1> SUFFICES ASSUME TypeOK, [Next]_vars
             PROVE  TypeOK'
    OBVIOUS
<1> DEFINE StopsOK == /\ stops' \in [Stops -> Stop]
                      /\ \A k \in Stops : stops'[k].pc # "idle" => stops'[k].turn \in Turns
<1> USE BoundAssumption
<1>1. ASSUME Start
      PROVE  TypeOK'
    <2> DEFINE n == latest + 1
    <2>1. n \in Turns /\ n \in Turn0
        BY <1>1 DEF Start, TypeOK, Turns, Turn0
    <2>2. [session EXCEPT !.active = n, !.pending = n] \in Session
        BY <2>1 DEF TypeOK, Session
    <2>3. session' \in Session /\ disk' \in Session
        BY <1>1, <2>2 DEF Start, Store
    <2>4. Reclaimable \subseteq Turns
        BY DEF Reclaimable
    <2>5. runs' \in [Turns -> RunPhases] /\ owners' \subseteq Turns /\ reclaimed' \subseteq
       Turns
        BY <1>1, <2>4 DEF Start, ReclaimRuns, TypeOK, RunPhases
    <2>6. pc' \in [Turns -> PCs]
        BY <1>1, GotoType DEF Start, PCs, Launching
    <2> QED BY <1>1, <2>1, <2>3, <2>5, <2>6 DEF Start, TypeOK, logs, bounds
<1>2. ASSUME NEW n \in Turns, OpenStream(n)
      PROVE  TypeOK'
    BY <1>2, GotoType
       DEF OpenStream, TypeOK, registries, logs, history, bounds, PCs, Launching
<1>3. ASSUME NEW n \in Turns, StartThread(n)
      PROVE  TypeOK'
    BY <1>3, GotoType
       DEF StartThread, TypeOK, registries, logs, history, bounds, PCs
<1>4. ASSUME NEW n \in Turns, StartThreadFails(n)
      PROVE  TypeOK'
    BY <1>4, GotoType
       DEF StartThreadFails, TypeOK, registries, logs, history, bounds, PCs, Launching,
           ClearWritebackOwnerIfOwned, Turn0
<1>5. ASSUME NEW n \in Turns, CleanupLaunchFailure(n)
      PROVE  TypeOK'
    BY <1>5, GotoType, SettledType
       DEF CleanupLaunchFailure, TypeOK, registries, logs, history, bounds, PCs, Store, Session
<1>6. ASSUME NEW n \in Turns, Admit(n)
      PROVE  TypeOK'
    <2>1. pc' \in [Turns -> PCs]
        BY <1>6, GotoType DEF Admit, PCs, Working
    <2>2. runs' \in [Turns -> RunPhases] /\ age' \in [Turns -> Nat]
        <3>1. CASE n \in streams
            <4>1. runs' = [runs EXCEPT ![n] = "starting"] /\ age' = [age EXCEPT ![n] = 0]
                BY <1>6, <3>1 DEF Admit
            <4> QED BY <4>1 DEF TypeOK, RunPhases
        <3>2. CASE n \notin streams
            BY <1>6, <3>2 DEF Admit, TypeOK
        <3> QED BY <3>1, <3>2
    <2>3. wbOwner' \in Turn0 /\ owners' \subseteq Turns /\ cancelFlags' \subseteq Turns
        BY <1>6 DEF Admit, ClearWritebackOwnerIfOwned, TypeOK, Turn0
    <2>4. /\ UNCHANGED <<session, disk, latest, streams, cancelled, agents, pendingOld>>
          /\ UNCHANGED <<seen, stops, reader, logs, history, bounds>>
        BY <1>6 DEF Admit
    <2> QED BY <2>1, <2>2, <2>3, <2>4 DEF TypeOK, logs, history, bounds
<1>7. ASSUME NEW n \in Turns, MarkRunning(n)
      PROVE  TypeOK'
    BY <1>7, GotoType
       DEF MarkRunning, TypeOK, registries, logs, history, bounds, PCs, Working, RunPhases
<1>8. ASSUME NEW n \in Turns, RegisterAgentIfCurrent(n)
      PROVE  TypeOK'
    BY <1>8, GotoType
       DEF RegisterAgentIfCurrent, TypeOK, registries, logs, history, bounds, PCs, Working,
           WithAgent, Session
<1>9. ASSUME NEW n \in Turns, AgentCanInvoke(n)
      PROVE  TypeOK'
    BY <1>9, GotoType
       DEF AgentCanInvoke, TypeOK, registries, logs, history, bounds, PCs, Working, WithAgent
<1>10. ASSUME NEW n \in Turns, FinalizeRejected(n)
      PROVE  TypeOK'
    BY <1>10, GotoType, FinalizeType, PutType
       DEF FinalizeRejected, TypeOK, registries, logs, history, bounds, PCs, Working, Closing
<1>11. ASSUME NEW n \in Turns, CancelledOnReturn(n)
      PROVE  TypeOK'
    BY <1>11, EndCancelledType
       DEF CancelledOnReturn, TypeOK, registries, logs, history, bounds
<1>12. ASSUME NEW n \in Turns, CancelledInWriteback(n)
      PROVE  TypeOK'
    BY <1>12, EndCancelledType
       DEF CancelledInWriteback, TypeOK, registries, logs, history, bounds
<1>13. ASSUME NEW n \in Turns, PassesCancelCheck(n)
      PROVE  TypeOK'
    BY <1>13, GotoType
       DEF PassesCancelCheck, TypeOK, registries, logs, history, bounds, PCs, Working
<1>14. ASSUME NEW n \in Turns, WritebackBegins(n)
      PROVE  TypeOK'
    BY <1>14, GotoType
       DEF WritebackBegins, TypeOK, registries, logs, history, bounds, PCs, Working,
           HoldsSessionLock
<1>15. ASSUME NEW n \in Turns, MergeResult(n)
      PROVE  TypeOK'
    BY <1>15, GotoType, MergedRowsType, SettledType
       DEF MergeResult, TypeOK, registries, logs, history, bounds, PCs, Working,
           HoldsSessionLock
<1>16. ASSUME NEW n \in Turns, ReturnsError(n)
      PROVE  TypeOK'
    <2> DEFINE s == [session EXCEPT !.rows = seen[n], !.pending = n]
    <2>1. s \in Session
        <3>1. session \in Session /\ seen[n] \in Seq(Rows) /\ n \in Turn0
            BY DEF TypeOK, Turns, Turn0
        <3> QED BY <3>1 DEF Session
    <2>2. Settled(FailedRows(s, n)) \in Session
        BY <2>1, FailedRowsType, SettledType
    <2>3. session' \in Session /\ disk' \in Session
        BY <1>16, <2>2 DEF ReturnsError, Store
    <2>4. runs' \in [Turns -> RunPhases]
        BY <1>16, SteerType DEF ReturnsError
    <2>5. channel' \in [Turns -> SUBSET Closing] /\ runLog' \subseteq Turns
        BY <1>16, PutType DEF ReturnsError, Closing
    <2>6. pc' \in [Turns -> PCs]
        BY <1>16, GotoType DEF ReturnsError, PCs, Working
    <2> QED BY <1>16, <2>3, <2>4, <2>5, <2>6 DEF ReturnsError, TypeOK, history, bounds
<1>17. ASSUME NEW n \in Turns, SaveResult(n)
      PROVE  TypeOK'
    BY <1>17, GotoType
       DEF SaveResult, TypeOK, registries, logs, history, bounds, PCs, Working, HoldsSessionLock
<1>18. ASSUME NEW n \in Turns, CompleteTurn(n)
      PROVE  TypeOK'
    BY <1>18, GotoType, LogType
       DEF CompleteTurn, TypeOK, registries, logs, history, bounds, PCs, Working
<1>19. ASSUME NEW n \in Turns, CommitWriteback(n)
      PROVE  TypeOK'
    BY <1>19, GotoType
       DEF CommitWriteback, TypeOK, registries, logs, history, bounds, PCs, Working
<1>20. ASSUME NEW n \in Turns, PutDone(n)
      PROVE  TypeOK'
    BY <1>20, GotoType, SteerType, PutType
       DEF PutDone, TypeOK, registries, logs, history, bounds, PCs, Working, Closing
<1>21. ASSUME NEW n \in Turns, FailTurn(n)
      PROVE  TypeOK'
    <2>1. Settled(FailedRows(session, n)) \in Session
        BY FailedRowsType, SettledType DEF TypeOK
    <2>2. /\ session' \in Session /\ disk' \in Session
          /\ runs' \in [Turns -> RunPhases]
          /\ turnLog' \in [Turns -> Seq({"completed", "interrupted"})]
          /\ channel' \in [Turns -> SUBSET Closing] /\ runLog' \subseteq Turns
        <3>1. CASE StreamWritebackIsCurrent(n)
            <4>1. Store(Settled(FailedRows(session, n))) /\ Log(n, "interrupted")
                  /\ SettlePendingSteer(n) /\ Put(n, "apperror")
                BY <1>21, <3>1 DEF FailTurn
            <4>2. "apperror" \in Closing
                BY DEF Closing
            <4>3. session' \in Session /\ disk' \in Session
                BY <2>1, <4>1 DEF Store
            <4> QED BY <4>1, <4>2, <4>3, SteerType, LogType, PutType
        <3>2. CASE ~StreamWritebackIsCurrent(n)
            BY <1>21, <3>2 DEF FailTurn, TypeOK, logs
        <3> QED BY <3>1, <3>2
    <2>3. pc' \in [Turns -> PCs]
        BY <1>21, GotoType DEF FailTurn, PCs, Working
    <2> QED BY <1>21, <2>2, <2>3 DEF FailTurn, TypeOK, history, bounds
<1>22. ASSUME NEW n \in Turns, Unwind(n)
      PROVE  TypeOK'
    BY <1>22, GotoType, RecoveredRowsType, SettledType, SteerType
       DEF Unwind, TypeOK, registries, logs, history, bounds, PCs, Working, Store
<1>23. ASSUME NEW n \in Turns, TearDown(n)
      PROVE  TypeOK'
    <2>1. wbOwner' \in Turn0
        BY <1>23 DEF TearDown, ClearWritebackOwnerIfOwned, TypeOK, Turn0
    <2>2. runs' \in [Turns -> RunPhases]
        BY <1>23 DEF TearDown, TypeOK, RunPhases
    <2>3. /\ streams' \subseteq Turns /\ cancelFlags' \subseteq Turns
          /\ agents' \subseteq Turns /\ owners' \subseteq Turns
        BY <1>23 DEF TearDown, TypeOK
    <2>4. pc' \in [Turns -> PCs]
        BY <1>23, GotoType DEF TearDown, PCs
    <2> QED BY <1>23, <2>1, <2>2, <2>3, <2>4 DEF TearDown, TypeOK, logs, history, bounds
<1>24. ASSUME NEW n \in Turns, InvocationReturns(n)
      PROVE  TypeOK'
    BY <1>24, GotoType
       DEF InvocationReturns, TypeOK, registries, logs, history, bounds, PCs, Working
<1>25. ASSUME NEW n \in Turns, Raises(n)
      PROVE  TypeOK'
    BY <1>25, GotoType
       DEF Raises, TypeOK, registries, logs, history, bounds, PCs, Working
<1>26. ASSUME NEW n \in Turns, RowAges(n)
      PROVE  TypeOK'
    BY <1>26
       DEF RowAges, TypeOK, registries, logs, history, bounds
<1>27. ASSUME NEW k \in Stops, NEW n \in Turns, StopClaims(k, n)
      PROVE  TypeOK'
    <2>1. stops' \in [Stops -> Stop]
        BY <1>27 DEF StopClaims, TypeOK, Stop, Turn0, Turns
    <2>2. \A j \in Stops : stops'[j].pc # "idle" => stops'[j].turn \in Turns
        BY <1>27 DEF StopClaims, TypeOK
    <2>3. runs' \in [Turns -> RunPhases] /\ age' \in [Turns -> Nat]
        BY <1>27 DEF StopClaims, TypeOK, RunPhases
    <2>4. streams' \subseteq Turns /\ cancelFlags' \subseteq Turns /\ agents' \subseteq Turns
        BY <1>27 DEF StopClaims, TypeOK
    <2>5. stopCount' \in Nat
        BY <1>27 DEF StopClaims, TypeOK
    <2> QED BY <1>27, <2>1, <2>2, <2>3, <2>4, <2>5 DEF StopClaims, TypeOK, logs, history
<1>28. ASSUME NEW k \in Stops, StopSignals(k)
      PROVE  TypeOK'
    <2>1. stops[k] \in Stop /\ stops[k].turn \in Turns
        BY <1>28 DEF StopSignals, TypeOK
    <2>2. stops' = [stops EXCEPT ![k] = [stops[k] EXCEPT !.pc = "signalled"]]
        BY <1>28 DEF StopSignals
    <2>3. [stops[k] EXCEPT !.pc = "signalled"] \in Stop
        BY <2>1 DEF Stop
    <2>4. StopsOK
        BY <2>1, <2>2, <2>3 DEF TypeOK
    <2>5. cancelled' \subseteq Turns /\ interrupted' \subseteq Turns
        BY <1>28, <2>1 DEF StopSignals, TypeOK
    <2> QED BY <1>28, <2>4, <2>5 DEF StopSignals, TypeOK, registries, logs, bounds
<1>29. ASSUME NEW k \in Stops, StopSettles(k)
      PROVE  TypeOK'
    <2>1. stops[k] \in Stop /\ stops[k].turn \in Turns
        BY <1>29 DEF StopSettles, TypeOK
    <2>2. [stops[k] EXCEPT !.pc = "settled"] \in Stop /\ NoStop \in Stop
        BY <2>1, NoStopType DEF Stop
    <2>3. \/ stops' = [stops EXCEPT ![k] = [stops[k] EXCEPT !.pc = "settled"]]
          \/ stops' = [stops EXCEPT ![k] = NoStop]
        BY <1>29 DEF StopSettles
    <2>4. StopsOK
        <3>1. CASE stops' = [stops EXCEPT ![k] = [stops[k] EXCEPT !.pc = "settled"]]
            BY <2>1, <2>2, <3>1 DEF TypeOK
        <3>2. CASE stops' = [stops EXCEPT ![k] = NoStop]
            BY <2>2, <3>2 DEF TypeOK, NoStop
        <3> QED BY <2>3, <3>1, <3>2
    <2>5. Settled(CancelledRows(session, stops[k].turn)) \in Session
        BY <2>1, CancelledRowsType, SettledType DEF TypeOK
    <2>6. session' \in Session /\ disk' \in Session
        BY <1>29, <2>5 DEF StopSettles, Store, TypeOK
    <2> QED BY <1>29, <2>4, <2>6 DEF StopSettles, TypeOK, registries, logs, history, bounds
<1>30. ASSUME NEW k \in Stops, StopEmits(k)
      PROVE  TypeOK'
    <2>1. stops' = [stops EXCEPT ![k] = NoStop]
        BY <1>30 DEF StopEmits
    <2>2. StopsOK
        BY <2>1, NoStopType DEF TypeOK, NoStop
    <2>3. channel' \in [Turns -> SUBSET Closing]
        BY <1>30 DEF StopEmits, TypeOK, Closing
    <2> QED BY <1>30, <2>2, <2>3 DEF StopEmits, TypeOK, registries, history, bounds
<1>31. ASSUME PendingAges
      PROVE  TypeOK'
    BY <1>31
       DEF PendingAges, TypeOK, registries, logs, history, bounds
<1>32. ASSUME ClearStaleChecks
      PROVE  TypeOK'
    BY <1>32
       DEF ClearStaleChecks, TypeOK, registries, logs, history, bounds, Session
<1>33. ASSUME ClearStaleClears
      PROVE  TypeOK'
    <2>1. session' \in Session /\ disk' \in Session
        <3>1. Settled(MaterializePendingUserTurn(session)) \in Session
            BY MaterializeType, SettledType DEF TypeOK
        <3>2. session.pending # 0 => Settled(RecoveredRows(session)) \in Session
            BY RecoveredRowsType, SettledType DEF TypeOK
        <3> QED BY <1>33, <3>1, <3>2 DEF ClearStaleClears, TypeOK, Store
    <2>2. reader' \in Turn0
        BY <1>33, BoundAssumption DEF ClearStaleClears, Turn0
    <2> QED BY <1>33, <2>1, <2>2
            DEF ClearStaleClears, TypeOK, registries, logs, history, bounds
<1>34. ASSUME DropStaleCancelledRuns
      PROVE  TypeOK'
    BY <1>34
       DEF DropStaleCancelledRuns, TypeOK, registries, logs, history, bounds, ReclaimRuns,
           RunPhases
<1>35. ASSUME Crash
      PROVE  TypeOK'
    <2>1. stops' \in [Stops -> Stop] /\ \A k \in Stops : stops'[k].pc = "idle"
        BY <1>35, NoStopType DEF Crash, NoStop
    <2>2. pc' \in [Turns -> PCs]
        BY <1>35 DEF Crash, TypeOK, PCs
    <2>3. runs' \in [Turns -> RunPhases] /\ age' \in [Turns -> Nat]
        BY <1>35 DEF Crash, RunPhases
    <2>4. wbOwner' \in Turn0 /\ reader' \in Turn0
        BY <1>35 DEF Crash, Turn0
    <2>5. seen' \in [Turns -> Seq(Rows)]
        BY <1>35 DEF Crash
    <2>6. streams' = {} /\ owners' = {} /\ cancelFlags' = {} /\ cancelled' = {} /\ agents' = {}
        BY <1>35 DEF Crash
    <2> QED BY <1>35, <2>1, <2>2, <2>3, <2>4, <2>5, <2>6 DEF Crash, TypeOK, logs, history
<1>36. CASE UNCHANGED vars
    BY <1>36 DEF vars, TypeOK, registries, logs, history, bounds
<1> QED
    BY <1>1, <1>2, <1>3, <1>4, <1>5, <1>6, <1>7, <1>8, <1>9, <1>10, <1>11, <1>12, <1>13,
       <1>14, <1>15, <1>16, <1>17, <1>18, <1>19, <1>20, <1>21, <1>22, <1>23, <1>24, <1>25,
       <1>26, <1>27, <1>28, <1>29, <1>30, <1>31, <1>32, <1>33, <1>34, <1>35, <1>36
       DEF Next, LaunchStep, WorkerStep, BeforeAgent, WritebackStep, StopStep

(***************************************************************************)
(* TypeOK, for every instance: every registry names admitted turns, every  *)
(* transcript is a sequence of rows of turns.                              *)
(***************************************************************************)
THEOREM TypeCorrect == Spec => []TypeOK
BY InitTypeOK, NextTypeOK, PTL DEF Spec
-----------------------------------------------------------------------------
(***************************************************************************)
(* A turn with a handle is found by whoever takes its channel away.        *)
(***************************************************************************)
AgentIsPublished == \A n \in Turns : pc[n] \in WithAgent /\ n \in streams => n \in agents

StopReaches == AgentIsPublished /\ StoppedAgentIsInterrupted

\* A worker that goes on without its agent, and touches nothing Stop looks at.
LEMMA WithoutAgentReaches ==
    ASSUME TypeOK, StopReaches, NEW m \in Turns, NEW where, where \notin WithAgent,
           pc' = [pc EXCEPT ![m] = where],
           UNCHANGED <<streams, agents, stops, interrupted>>
    PROVE  StopReaches'
  BY DEF StopReaches, TypeOK, AgentIsPublished, StoppedAgentIsInterrupted, WithAgent

\* Every step keeps a stopped agent interrupted, and a running one published.
LEMMA NextStopReaches == TypeOK /\ StopReaches /\ [Next]_vars => StopReaches'
<1> SUFFICES ASSUME TypeOK, StopReaches, [Next]_vars
             PROVE  StopReaches'
    OBVIOUS
<1>1. ASSUME Start
      PROVE  StopReaches'
    BY <1>1
       DEF Start, StopReaches, TypeOK, AgentIsPublished, StoppedAgentIsInterrupted, WithAgent,
           Goto, registries, logs, history, bounds, ReclaimRuns
<1>2. ASSUME NEW m \in Turns, OpenStream(m)
      PROVE  StopReaches'
    BY <1>2
       DEF OpenStream, StopReaches, TypeOK, AgentIsPublished, StoppedAgentIsInterrupted,
           WithAgent, Goto, registries, logs, history, bounds
<1>3. ASSUME NEW m \in Turns, StartThread(m)
      PROVE  StopReaches'
    BY <1>3
       DEF StartThread, StopReaches, TypeOK, AgentIsPublished, StoppedAgentIsInterrupted,
           WithAgent, Goto, registries, logs, history, bounds
<1>4. ASSUME NEW m \in Turns, StartThreadFails(m)
      PROVE  StopReaches'
    BY <1>4
       DEF StartThreadFails, StopReaches, TypeOK, AgentIsPublished, StoppedAgentIsInterrupted,
           WithAgent, Goto, registries, logs, history, bounds, ClearWritebackOwnerIfOwned
<1>5. ASSUME NEW m \in Turns, CleanupLaunchFailure(m)
      PROVE  StopReaches'
    BY <1>5
       DEF CleanupLaunchFailure, StopReaches, TypeOK, AgentIsPublished,
           StoppedAgentIsInterrupted, WithAgent, Goto, registries, logs, history, bounds
<1>6. ASSUME NEW m \in Turns, Admit(m)
      PROVE  StopReaches'
    <2>1. UNCHANGED <<streams, agents, stops, interrupted>>
        BY <1>6 DEF Admit, history
    <2>2. pc' = [pc EXCEPT ![m] = "starting"] \/ pc' = [pc EXCEPT ![m] = "finished"]
        BY <1>6 DEF Admit, Goto
    <2> QED BY <2>1, <2>2, WithoutAgentReaches DEF WithAgent
<1>7. ASSUME NEW m \in Turns, MarkRunning(m)
      PROVE  StopReaches'
    BY <1>7
       DEF MarkRunning, StopReaches, TypeOK, AgentIsPublished, StoppedAgentIsInterrupted,
           WithAgent, Goto, registries, logs, history, bounds
<1>8. ASSUME NEW m \in Turns, RegisterAgentIfCurrent(m)
      PROVE  StopReaches'
    <2>1. UNCHANGED <<streams, stops, interrupted>>
        BY <1>8 DEF RegisterAgentIfCurrent, history
    <2>2. CASE m \in streams /\ m \notin cancelled
        <3>1. agents' = agents \cup {m} /\ pc' = [pc EXCEPT ![m] = "registered"]
            BY <1>8, <2>2 DEF RegisterAgentIfCurrent, Goto
        <3> QED BY <2>1, <3>1
                DEF StopReaches, AgentIsPublished, StoppedAgentIsInterrupted, TypeOK
    <2>3. CASE ~(m \in streams /\ m \notin cancelled)
        <3>1. UNCHANGED agents /\ pc' = [pc EXCEPT ![m] = "rejected"]
            BY <1>8, <2>3 DEF RegisterAgentIfCurrent, Goto
        <3> QED BY <2>1, <3>1, WithoutAgentReaches DEF WithAgent
    <2> QED BY <2>2, <2>3
<1>9. ASSUME NEW m \in Turns, AgentCanInvoke(m)
      PROVE  StopReaches'
    <2>1. UNCHANGED <<streams, stops, interrupted>>
        BY <1>9 DEF AgentCanInvoke, registries, history
    <2>2. CASE m \in streams /\ m \notin cancelled /\ m \in agents
        <3>1. agents' = agents /\ pc' = [pc EXCEPT ![m] = "invoked"]
            BY <1>9, <2>2 DEF AgentCanInvoke, Goto
        <3> QED BY <2>1, <2>2, <3>1
                DEF StopReaches, AgentIsPublished, StoppedAgentIsInterrupted, WithAgent, TypeOK
    <2>3. CASE ~(m \in streams /\ m \notin cancelled /\ m \in agents)
        <3>1. agents' = agents \ {m} /\ pc' = [pc EXCEPT ![m] = "rejected"]
            BY <1>9, <2>3 DEF AgentCanInvoke, Goto
        <3> QED BY <2>1, <3>1
                DEF StopReaches, AgentIsPublished, StoppedAgentIsInterrupted, WithAgent, TypeOK
    <2> QED BY <2>2, <2>3
<1>10. ASSUME NEW m \in Turns, FinalizeRejected(m)
      PROVE  StopReaches'
    BY <1>10
       DEF FinalizeRejected, StopReaches, TypeOK, AgentIsPublished, StoppedAgentIsInterrupted,
           WithAgent, Goto, registries, logs, history, bounds, Put
<1>11. ASSUME NEW m \in Turns, CancelledOnReturn(m)
      PROVE  StopReaches'
    BY <1>11
       DEF CancelledOnReturn, StopReaches, TypeOK, AgentIsPublished,
           StoppedAgentIsInterrupted, WithAgent, Goto, registries, logs, history, bounds,
           EndCancelled
<1>12. ASSUME NEW m \in Turns, CancelledInWriteback(m)
      PROVE  StopReaches'
    BY <1>12
       DEF CancelledInWriteback, StopReaches, TypeOK, AgentIsPublished,
           StoppedAgentIsInterrupted, WithAgent, Goto, registries, logs, history, bounds,
           EndCancelled
<1>13. ASSUME NEW m \in Turns, PassesCancelCheck(m)
      PROVE  StopReaches'
    <2>1. UNCHANGED <<streams, agents, stops, interrupted>>
        BY <1>13 DEF PassesCancelCheck, registries, history
    <2>2. pc' = [pc EXCEPT ![m] = "writing"] \/ pc' = [pc EXCEPT ![m] = "failing"]
        BY <1>13 DEF PassesCancelCheck, Goto
    <2> QED BY <2>1, <2>2, WithoutAgentReaches DEF WithAgent
<1>14. ASSUME NEW m \in Turns, WritebackBegins(m)
      PROVE  StopReaches'
    <2>1. UNCHANGED <<streams, agents, stops, interrupted>>
        BY <1>14 DEF WritebackBegins, registries, history
    <2>2. pc' = [pc EXCEPT ![m] = "merging"] \/ pc' = [pc EXCEPT ![m] = "unwinding"]
        BY <1>14 DEF WritebackBegins, Goto
    <2> QED BY <2>1, <2>2, WithoutAgentReaches DEF WithAgent
<1>15. ASSUME NEW m \in Turns, MergeResult(m)
      PROVE  StopReaches'
    BY <1>15
       DEF MergeResult, StopReaches, TypeOK, AgentIsPublished, StoppedAgentIsInterrupted,
           WithAgent, Goto, registries, logs, history, bounds
<1>16. ASSUME NEW m \in Turns, ReturnsError(m)
      PROVE  StopReaches'
    BY <1>16
       DEF ReturnsError, StopReaches, TypeOK, AgentIsPublished, StoppedAgentIsInterrupted,
           WithAgent, Goto, registries, logs, history, bounds, SettlePendingSteer, Put
<1>17. ASSUME NEW m \in Turns, SaveResult(m)
      PROVE  StopReaches'
    BY <1>17
       DEF SaveResult, StopReaches, TypeOK, AgentIsPublished, StoppedAgentIsInterrupted,
           WithAgent, Goto, registries, logs, history, bounds
<1>18. ASSUME NEW m \in Turns, CompleteTurn(m)
      PROVE  StopReaches'
    BY <1>18
       DEF CompleteTurn, StopReaches, TypeOK, AgentIsPublished, StoppedAgentIsInterrupted,
           WithAgent, Goto, registries, logs, history, bounds
<1>19. ASSUME NEW m \in Turns, CommitWriteback(m)
      PROVE  StopReaches'
    BY <1>19
       DEF CommitWriteback, StopReaches, TypeOK, AgentIsPublished, StoppedAgentIsInterrupted,
           WithAgent, Goto, registries, logs, history, bounds
<1>20. ASSUME NEW m \in Turns, PutDone(m)
      PROVE  StopReaches'
    BY <1>20
       DEF PutDone, StopReaches, TypeOK, AgentIsPublished, StoppedAgentIsInterrupted,
           WithAgent, Goto, registries, logs, history, bounds, SettlePendingSteer, Put
<1>21. ASSUME NEW m \in Turns, FailTurn(m)
      PROVE  StopReaches'
    BY <1>21
       DEF FailTurn, StopReaches, TypeOK, AgentIsPublished, StoppedAgentIsInterrupted,
           WithAgent, Goto, registries, logs, history, bounds, SettlePendingSteer, Put, Log
<1>22. ASSUME NEW m \in Turns, Unwind(m)
      PROVE  StopReaches'
    BY <1>22
       DEF Unwind, StopReaches, TypeOK, AgentIsPublished, StoppedAgentIsInterrupted,
           WithAgent, Goto, registries, logs, history, bounds, SettlePendingSteer
<1>23. ASSUME NEW m \in Turns, TearDown(m)
      PROVE  StopReaches'
    BY <1>23
       DEF TearDown, StopReaches, TypeOK, AgentIsPublished, StoppedAgentIsInterrupted,
           WithAgent, Goto, registries, logs, history, bounds, ClearWritebackOwnerIfOwned
<1>24. ASSUME NEW m \in Turns, InvocationReturns(m)
      PROVE  StopReaches'
    BY <1>24
       DEF InvocationReturns, StopReaches, TypeOK, AgentIsPublished,
           StoppedAgentIsInterrupted, WithAgent, Goto, registries, logs, history, bounds
<1>25. ASSUME NEW m \in Turns, Raises(m)
      PROVE  StopReaches'
    BY <1>25
       DEF Raises, StopReaches, TypeOK, AgentIsPublished, StoppedAgentIsInterrupted,
           WithAgent, Goto, registries, logs, history, bounds
<1>26. ASSUME NEW m \in Turns, RowAges(m)
      PROVE  StopReaches'
    BY <1>26
       DEF RowAges, StopReaches, TypeOK, AgentIsPublished, StoppedAgentIsInterrupted,
           WithAgent, Goto, registries, logs, history, bounds
<1>27. ASSUME NEW k \in Stops, NEW m \in Turns, StopClaims(k, m)
      PROVE  StopReaches'
    <2>1. /\ stops[k].pc = "idle" /\ stops'[k].pc = "claimed" /\ stops'[k].turn = m
          /\ stops'[k].agent = (m \in agents)
          /\ \A j \in Stops \ {k} : stops'[j] = stops[j]
        BY <1>27 DEF StopClaims, TypeOK
    <2>2. UNCHANGED <<pc, interrupted>>
        BY <1>27 DEF StopClaims
    <2>3. CASE m \in streams
        <3>1. streams' = streams \ {m} /\ agents' = agents \ {m}
            BY <1>27, <2>3 DEF StopClaims
        <3>2. AgentIsPublished'
            BY <2>2, <3>1 DEF StopReaches, AgentIsPublished
        <3>3. pc[m] = "invoked" => stops'[k].agent
            BY <2>1, <2>3 DEF StopReaches, AgentIsPublished, WithAgent
        <3>4. StoppedAgentIsInterrupted'
            <4> SUFFICES ASSUME NEW n \in Turns, pc[n] = "invoked", n \notin streams'
                         PROVE  \/ n \in interrupted
                                \/ \E j \in Stops : /\ stops'[j].pc = "claimed"
                                                   /\ stops'[j].turn = n /\ stops'[j].agent
                BY <2>2 DEF StoppedAgentIsInterrupted
            <4>1. CASE n = m
                BY <2>1, <3>3, <4>1
            <4>2. CASE n # m
                BY <2>1, <3>1, <4>2 DEF StopReaches, StoppedAgentIsInterrupted
            <4> QED BY <4>1, <4>2
        <3> QED BY <3>2, <3>4 DEF StopReaches
    <2>4. CASE m \notin streams
        <3>1. UNCHANGED <<streams, agents>>
            BY <1>27, <2>4 DEF StopClaims
        <3> QED BY <2>1, <2>2, <3>1
                DEF StopReaches, AgentIsPublished, StoppedAgentIsInterrupted
    <2> QED BY <2>3, <2>4
<1>28. ASSUME NEW k \in Stops, StopSignals(k)
      PROVE  StopReaches'
    BY <1>28
       DEF StopSignals, StopReaches, TypeOK, AgentIsPublished, StoppedAgentIsInterrupted,
           WithAgent, Goto, registries, logs, history, bounds
<1>29. ASSUME NEW k \in Stops, StopSettles(k)
      PROVE  StopReaches'
    <2>1. UNCHANGED <<pc, streams, agents, interrupted>>
        BY <1>29 DEF StopSettles, registries, history
    <2>2. stops[k].pc = "signalled" /\ \A j \in Stops : j # k => stops'[j] = stops[j]
        BY <1>29 DEF StopSettles, TypeOK
    <2> QED BY <2>1, <2>2 DEF StopReaches, AgentIsPublished, StoppedAgentIsInterrupted
<1>30. ASSUME NEW k \in Stops, StopEmits(k)
      PROVE  StopReaches'
    BY <1>30
       DEF StopEmits, StopReaches, TypeOK, AgentIsPublished, StoppedAgentIsInterrupted,
           WithAgent, Goto, registries, logs, history, bounds
<1>31. ASSUME PendingAges
      PROVE  StopReaches'
    BY <1>31
       DEF PendingAges, StopReaches, TypeOK, AgentIsPublished, StoppedAgentIsInterrupted,
           WithAgent, Goto, registries, logs, history, bounds
<1>32. ASSUME ClearStaleChecks
      PROVE  StopReaches'
    BY <1>32
       DEF ClearStaleChecks, StopReaches, TypeOK, AgentIsPublished, StoppedAgentIsInterrupted,
           WithAgent, Goto, registries, logs, history, bounds
<1>33. ASSUME ClearStaleClears
      PROVE  StopReaches'
    BY <1>33
       DEF ClearStaleClears, StopReaches, TypeOK, AgentIsPublished, StoppedAgentIsInterrupted,
           WithAgent, Goto, registries, logs, history, bounds
<1>34. ASSUME DropStaleCancelledRuns
      PROVE  StopReaches'
    BY <1>34
       DEF DropStaleCancelledRuns, StopReaches, TypeOK, AgentIsPublished,
           StoppedAgentIsInterrupted, WithAgent, Goto, registries, logs, history, bounds,
           ReclaimRuns
<1>35. ASSUME Crash
      PROVE  StopReaches'
    BY <1>35
       DEF Crash, StopReaches, TypeOK, AgentIsPublished, StoppedAgentIsInterrupted, WithAgent,
           Goto, registries, logs, history, bounds
<1>36. CASE UNCHANGED vars
    BY <1>36 DEF vars, StopReaches, AgentIsPublished, StoppedAgentIsInterrupted, WithAgent,
       Goto, registries, logs, history, bounds
<1> QED
    BY <1>1, <1>2, <1>3, <1>4, <1>5, <1>6, <1>7, <1>8, <1>9, <1>10, <1>11, <1>12, <1>13,
       <1>14, <1>15, <1>16, <1>17, <1>18, <1>19, <1>20, <1>21, <1>22, <1>23, <1>24, <1>25,
       <1>26, <1>27, <1>28, <1>29, <1>30, <1>31, <1>32, <1>33, <1>34, <1>35, <1>36
       DEF Next, LaunchStep, WorkerStep, BeforeAgent, WritebackStep, StopStep

(***************************************************************************)
(* StoppedAgentIsInterrupted, for every instance: no interleaving of Stops *)
(* with a starting worker leaves an agent running that nobody interrupts.  *)
(***************************************************************************)
THEOREM StopReachesTheAgent == Spec => []StoppedAgentIsInterrupted
<1>1. Init => StopReaches
    BY DEF Init, StopReaches, AgentIsPublished, StoppedAgentIsInterrupted, WithAgent
<1>2. StopReaches => StoppedAgentIsInterrupted
    BY DEF StopReaches
<1> QED BY <1>1, <1>2, InitTypeOK, NextTypeOK, NextStopReaches, PTL DEF Spec
-----------------------------------------------------------------------------
(***************************************************************************)
(* A turn whose worker is not admitted yet has no row: what a failed       *)
(* launch and a rejected worker forget is only the owner of a channel.     *)
(***************************************************************************)
BeforeAdmission == {"none", "spawned", "unlaunched"} \cup Launching

RowsBeginWithAdmission ==
    /\ \A n \in Turns : pc[n] \in BeforeAdmission => runs[n] = "none"
    /\ \A n \in Turns : n > latest => pc[n] = "none"

OwnersKnown == RowsBeginWithAdmission /\ RunsHaveTheirOwner

\* Every step keeps the owners of the turns that have a channel or a row.
LEMMA NextOwnersKnown == TypeOK /\ OwnersKnown /\ [Next]_vars => OwnersKnown'
<1> SUFFICES ASSUME TypeOK, OwnersKnown, [Next]_vars
             PROVE  OwnersKnown'
    OBVIOUS
<1>1. ASSUME Start
      PROVE  OwnersKnown'
    BY <1>1
       DEF Start, OwnersKnown, TypeOK, RowsBeginWithAdmission, RunsHaveTheirOwner,
           BeforeAdmission, Launching, Goto, registries, logs, history, bounds, ReclaimRuns,
           Reclaimable, Turns, Turn0
<1>2. ASSUME NEW m \in Turns, OpenStream(m)
      PROVE  OwnersKnown'
    BY <1>2
       DEF OpenStream, OwnersKnown, TypeOK, RowsBeginWithAdmission, RunsHaveTheirOwner,
           BeforeAdmission, Launching, Goto, registries, logs, history, bounds
<1>3. ASSUME NEW m \in Turns, StartThread(m)
      PROVE  OwnersKnown'
    BY <1>3
       DEF StartThread, OwnersKnown, TypeOK, RowsBeginWithAdmission, RunsHaveTheirOwner,
           BeforeAdmission, Launching, Goto, registries, logs, history, bounds
<1>4. ASSUME NEW m \in Turns, StartThreadFails(m)
      PROVE  OwnersKnown'
    BY <1>4
       DEF StartThreadFails, OwnersKnown, TypeOK, RowsBeginWithAdmission, RunsHaveTheirOwner,
           BeforeAdmission, Launching, Goto, registries, logs, history, bounds,
           ClearWritebackOwnerIfOwned
<1>5. ASSUME NEW m \in Turns, CleanupLaunchFailure(m)
      PROVE  OwnersKnown'
    BY <1>5
       DEF CleanupLaunchFailure, OwnersKnown, TypeOK, RowsBeginWithAdmission,
           RunsHaveTheirOwner, BeforeAdmission, Launching, Goto, registries, logs, history,
           bounds
<1>6. ASSUME NEW m \in Turns, Admit(m)
      PROVE  OwnersKnown'
    <2>1. UNCHANGED <<latest, streams>> /\ pc[m] = "spawned"
        BY <1>6 DEF Admit
    <2>2. CASE m \in streams
        <3>1. /\ runs' = [runs EXCEPT ![m] = "starting"] /\ owners' = owners
              /\ pc' = [pc EXCEPT ![m] = "starting"]
            BY <1>6, <2>2 DEF Admit, Goto
        <3> QED BY <2>1, <2>2, <3>1
                DEF OwnersKnown, RowsBeginWithAdmission, RunsHaveTheirOwner, BeforeAdmission,
                    Launching, TypeOK
    <2>3. CASE m \notin streams
        <3>1. /\ runs' = runs /\ owners' = owners \ {m}
              /\ pc' = [pc EXCEPT ![m] = "finished"]
            BY <1>6, <2>3 DEF Admit, Goto
        <3> QED BY <2>1, <2>3, <3>1
                DEF OwnersKnown, RowsBeginWithAdmission, RunsHaveTheirOwner, BeforeAdmission,
                    Launching, TypeOK
    <2> QED BY <2>2, <2>3
<1>7. ASSUME NEW m \in Turns, MarkRunning(m)
      PROVE  OwnersKnown'
    BY <1>7
       DEF MarkRunning, OwnersKnown, TypeOK, RowsBeginWithAdmission, RunsHaveTheirOwner,
           BeforeAdmission, Launching, Goto, registries, logs, history, bounds
<1>8. ASSUME NEW m \in Turns, RegisterAgentIfCurrent(m)
      PROVE  OwnersKnown'
    BY <1>8
       DEF RegisterAgentIfCurrent, OwnersKnown, TypeOK, RowsBeginWithAdmission,
           RunsHaveTheirOwner, BeforeAdmission, Launching, Goto, registries, logs, history,
           bounds, WithAgent
<1>9. ASSUME NEW m \in Turns, AgentCanInvoke(m)
      PROVE  OwnersKnown'
    BY <1>9
       DEF AgentCanInvoke, OwnersKnown, TypeOK, RowsBeginWithAdmission, RunsHaveTheirOwner,
           BeforeAdmission, Launching, Goto, registries, logs, history, bounds, WithAgent
<1>10. ASSUME NEW m \in Turns, FinalizeRejected(m)
      PROVE  OwnersKnown'
    BY <1>10
       DEF FinalizeRejected, OwnersKnown, TypeOK, RowsBeginWithAdmission, RunsHaveTheirOwner,
           BeforeAdmission, Launching, Goto, registries, logs, history, bounds, Put
<1>11. ASSUME NEW m \in Turns, CancelledOnReturn(m)
      PROVE  OwnersKnown'
    BY <1>11
       DEF CancelledOnReturn, OwnersKnown, TypeOK, RowsBeginWithAdmission, RunsHaveTheirOwner,
           BeforeAdmission, Launching, Goto, registries, logs, history, bounds, EndCancelled
<1>12. ASSUME NEW m \in Turns, CancelledInWriteback(m)
      PROVE  OwnersKnown'
    BY <1>12
       DEF CancelledInWriteback, OwnersKnown, TypeOK, RowsBeginWithAdmission,
           RunsHaveTheirOwner, BeforeAdmission, Launching, Goto, registries, logs, history,
           bounds, EndCancelled, HoldsSessionLock
<1>13. ASSUME NEW m \in Turns, PassesCancelCheck(m)
      PROVE  OwnersKnown'
    BY <1>13
       DEF PassesCancelCheck, OwnersKnown, TypeOK, RowsBeginWithAdmission, RunsHaveTheirOwner,
           BeforeAdmission, Launching, Goto, registries, logs, history, bounds
<1>14. ASSUME NEW m \in Turns, WritebackBegins(m)
      PROVE  OwnersKnown'
    BY <1>14
       DEF WritebackBegins, OwnersKnown, TypeOK, RowsBeginWithAdmission, RunsHaveTheirOwner,
           BeforeAdmission, Launching, Goto, registries, logs, history, bounds
<1>15. ASSUME NEW m \in Turns, MergeResult(m)
      PROVE  OwnersKnown'
    BY <1>15
       DEF MergeResult, OwnersKnown, TypeOK, RowsBeginWithAdmission, RunsHaveTheirOwner,
           BeforeAdmission, Launching, Goto, registries, logs, history, bounds
<1>16. ASSUME NEW m \in Turns, ReturnsError(m)
      PROVE  OwnersKnown'
    BY <1>16
       DEF ReturnsError, OwnersKnown, TypeOK, RowsBeginWithAdmission, RunsHaveTheirOwner,
           BeforeAdmission, Launching, Goto, registries, logs, history, bounds,
           SettlePendingSteer, Put
<1>17. ASSUME NEW m \in Turns, SaveResult(m)
      PROVE  OwnersKnown'
    BY <1>17
       DEF SaveResult, OwnersKnown, TypeOK, RowsBeginWithAdmission, RunsHaveTheirOwner,
           BeforeAdmission, Launching, Goto, registries, logs, history, bounds
<1>18. ASSUME NEW m \in Turns, CompleteTurn(m)
      PROVE  OwnersKnown'
    BY <1>18
       DEF CompleteTurn, OwnersKnown, TypeOK, RowsBeginWithAdmission, RunsHaveTheirOwner,
           BeforeAdmission, Launching, Goto, registries, logs, history, bounds
<1>19. ASSUME NEW m \in Turns, CommitWriteback(m)
      PROVE  OwnersKnown'
    BY <1>19
       DEF CommitWriteback, OwnersKnown, TypeOK, RowsBeginWithAdmission, RunsHaveTheirOwner,
           BeforeAdmission, Launching, Goto, registries, logs, history, bounds
<1>20. ASSUME NEW m \in Turns, PutDone(m)
      PROVE  OwnersKnown'
    BY <1>20
       DEF PutDone, OwnersKnown, TypeOK, RowsBeginWithAdmission, RunsHaveTheirOwner,
           BeforeAdmission, Launching, Goto, registries, logs, history, bounds,
           SettlePendingSteer, Put
<1>21. ASSUME NEW m \in Turns, FailTurn(m)
      PROVE  OwnersKnown'
    BY <1>21
       DEF FailTurn, OwnersKnown, TypeOK, RowsBeginWithAdmission, RunsHaveTheirOwner,
           BeforeAdmission, Launching, Goto, registries, logs, history, bounds,
           SettlePendingSteer, Put, Log
<1>22. ASSUME NEW m \in Turns, Unwind(m)
      PROVE  OwnersKnown'
    BY <1>22
       DEF Unwind, OwnersKnown, TypeOK, RowsBeginWithAdmission, RunsHaveTheirOwner,
           BeforeAdmission, Launching, Goto, registries, logs, history, bounds,
           SettlePendingSteer
<1>23. ASSUME NEW m \in Turns, TearDown(m)
      PROVE  OwnersKnown'
    BY <1>23
       DEF TearDown, OwnersKnown, TypeOK, RowsBeginWithAdmission, RunsHaveTheirOwner,
           BeforeAdmission, Launching, Goto, registries, logs, history, bounds,
           ClearWritebackOwnerIfOwned
<1>24. ASSUME NEW m \in Turns, InvocationReturns(m)
      PROVE  OwnersKnown'
    BY <1>24
       DEF InvocationReturns, OwnersKnown, TypeOK, RowsBeginWithAdmission, RunsHaveTheirOwner,
           BeforeAdmission, Launching, Goto, registries, logs, history, bounds
<1>25. ASSUME NEW m \in Turns, Raises(m)
      PROVE  OwnersKnown'
    BY <1>25
       DEF Raises, OwnersKnown, TypeOK, RowsBeginWithAdmission, RunsHaveTheirOwner,
           BeforeAdmission, Launching, Goto, registries, logs, history, bounds
<1>26. ASSUME NEW m \in Turns, RowAges(m)
      PROVE  OwnersKnown'
    BY <1>26
       DEF RowAges, OwnersKnown, TypeOK, RowsBeginWithAdmission, RunsHaveTheirOwner,
           BeforeAdmission, Launching, Goto, registries, logs, history, bounds
<1>27. ASSUME NEW k \in Stops, NEW m \in Turns, StopClaims(k, m)
      PROVE  OwnersKnown'
    BY <1>27
       DEF StopClaims, OwnersKnown, TypeOK, RowsBeginWithAdmission, RunsHaveTheirOwner,
           BeforeAdmission, Launching, Goto, registries, logs, history, bounds
<1>28. ASSUME NEW k \in Stops, StopSignals(k)
      PROVE  OwnersKnown'
    BY <1>28
       DEF StopSignals, OwnersKnown, TypeOK, RowsBeginWithAdmission, RunsHaveTheirOwner,
           BeforeAdmission, Launching, Goto, registries, logs, history, bounds
<1>29. ASSUME NEW k \in Stops, StopSettles(k)
      PROVE  OwnersKnown'
    BY <1>29
       DEF StopSettles, OwnersKnown, TypeOK, RowsBeginWithAdmission, RunsHaveTheirOwner,
           BeforeAdmission, Launching, Goto, registries, logs, history, bounds
<1>30. ASSUME NEW k \in Stops, StopEmits(k)
      PROVE  OwnersKnown'
    BY <1>30
       DEF StopEmits, OwnersKnown, TypeOK, RowsBeginWithAdmission, RunsHaveTheirOwner,
           BeforeAdmission, Launching, Goto, registries, logs, history, bounds
<1>31. ASSUME PendingAges
      PROVE  OwnersKnown'
    BY <1>31
       DEF PendingAges, OwnersKnown, TypeOK, RowsBeginWithAdmission, RunsHaveTheirOwner,
           BeforeAdmission, Launching, Goto, registries, logs, history, bounds
<1>32. ASSUME ClearStaleChecks
      PROVE  OwnersKnown'
    BY <1>32
       DEF ClearStaleChecks, OwnersKnown, TypeOK, RowsBeginWithAdmission, RunsHaveTheirOwner,
           BeforeAdmission, Launching, Goto, registries, logs, history, bounds
<1>33. ASSUME ClearStaleClears
      PROVE  OwnersKnown'
    BY <1>33
       DEF ClearStaleClears, OwnersKnown, TypeOK, RowsBeginWithAdmission, RunsHaveTheirOwner,
           BeforeAdmission, Launching, Goto, registries, logs, history, bounds
<1>34. ASSUME DropStaleCancelledRuns
      PROVE  OwnersKnown'
    BY <1>34
       DEF DropStaleCancelledRuns, OwnersKnown, TypeOK, RowsBeginWithAdmission,
           RunsHaveTheirOwner, BeforeAdmission, Launching, Goto, registries, logs, history,
           bounds, ReclaimRuns
<1>35. ASSUME Crash
      PROVE  OwnersKnown'
    BY <1>35
       DEF Crash, OwnersKnown, TypeOK, RowsBeginWithAdmission, RunsHaveTheirOwner,
           BeforeAdmission, Launching, Goto, registries, logs, history, bounds
<1>36. CASE UNCHANGED vars
    BY <1>36 DEF vars, OwnersKnown, RowsBeginWithAdmission, RunsHaveTheirOwner,
       BeforeAdmission, Launching, Goto, registries, logs, history, bounds
<1> QED
    BY <1>1, <1>2, <1>3, <1>4, <1>5, <1>6, <1>7, <1>8, <1>9, <1>10, <1>11, <1>12, <1>13,
       <1>14, <1>15, <1>16, <1>17, <1>18, <1>19, <1>20, <1>21, <1>22, <1>23, <1>24, <1>25,
       <1>26, <1>27, <1>28, <1>29, <1>30, <1>31, <1>32, <1>33, <1>34, <1>35, <1>36
       DEF Next, LaunchStep, WorkerStep, BeforeAgent, WritebackStep, StopStep

(***************************************************************************)
(* RunsHaveTheirOwner, for every instance: a Stop can always name the      *)
(* session of the turn it stops.                                           *)
(***************************************************************************)
THEOREM OwnersOutliveRuns == Spec => []RunsHaveTheirOwner
<1>1. Init => OwnersKnown
    BY DEF Init, OwnersKnown, RowsBeginWithAdmission, RunsHaveTheirOwner
<1>2. OwnersKnown => RunsHaveTheirOwner
    BY DEF OwnersKnown
<1> QED BY <1>1, <1>2, InitTypeOK, NextTypeOK, NextOwnersKnown, PTL DEF Spec
=============================================================================
