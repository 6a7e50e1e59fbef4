--------------------------- MODULE TurnLifecycle ----------------------------
(***************************************************************************)
(* The life of the turns of one session: admission by POST /api/chat/start *)
(* (api/routes.py), the worker thread that runs the agent and writes its   *)
(* result back, Stop (both api/streaming.py), the repair of stale turns    *)
(* (api/routes.py, api/models.py), and a crash with restart.               *)
(*                                                                         *)
(* A turn is its number in order of admission: its stream id, its prompt   *)
(* and its worker.  0 stands for "no turn".  One action is what one thread *)
(* does under one lock (or between two reads of shared state); only the    *)
(* worker's writeback keeps the session lock over several actions, because *)
(* Stop publishes its cancellation without taking that lock.               *)
(*                                                                         *)
(* A name with an underscore, F_Bug, is a mutated form of F: what a        *)
(* plausible mistake in the code would make of it.  No action uses it; it  *)
(* is put in F's place to see the property that guards F fail.             *)
(***************************************************************************)
EXTENDS Integers, Sequences, FiniteSets

CONSTANTS
    MaxTurns,      \* bound: turns of the session
    Stops,         \* Stop requests that may run at the same time
    MaxStops,      \* bound: Stop requests in all
    MaxCrashes,    \* bound: restarts of the server
    MaxAge,        \* bound: how old a run row may grow (0, 1: 60 s, 2: 180 s)
    Timely,        \* no thread stalls for 30 s where it waits for nothing
    Text           \* the text of each turn's prompt

Turns == 1..MaxTurns
Turn0 == 0..MaxTurns

ASSUME BoundAssumption ==
    /\ MaxTurns \in Nat /\ MaxStops \in Nat /\ MaxCrashes \in Nat /\ MaxAge \in Nat
    /\ Timely \in BOOLEAN

VARIABLES
    session,     \* the cached Session: active_stream_id, pending turn, messages
    disk,        \* its JSON sidecar
    latest,      \* the turn admitted last
    streams,     \* STREAMS: turns with an SSE channel
    owners,      \* STREAM_SESSION_OWNERS: turns whose session is recorded
    runs,        \* ACTIVE_RUNS: the phase of a turn's row
    age,         \* how long ago a row's age anchor is
    cancelFlags, \* CANCEL_FLAGS: turns whose cancel event is published
    cancelled,   \* turns whose cancel event is set
    agents,      \* AGENT_INSTANCES: turns whose agent is published
    wbOwner,     \* SESSION_WRITEBACK_OWNERS: the turn that owns the writeback
    pendingOld,  \* the pending turn is past its 30 s grace
    pc,          \* where the worker of each turn is
    seen,        \* _previous_messages: the messages a worker's turn began with
    stops,       \* the local variables of each Stop request
    reader,      \* a request in _clear_stale_stream_state: the turn it clears
    turnLog,     \* the turn journal: completed and interrupted events
    channel,     \* terminal events put on a turn's SSE channel
    runLog,      \* turns whose run journal holds a terminal event
    interrupted, \* history: turns whose agent was interrupted while it ran
    reclaimed,   \* history: turns whose row outlived the unwind ceiling
    restopped,   \* history: turns stopped again while a Stop was at work on them
    stopCount, crashes

registries == <<streams, owners, runs, age, cancelFlags, cancelled, agents, wbOwner>>
logs == <<turnLog, channel, runLog>>
history == <<interrupted, reclaimed, restopped>>
bounds == <<stopCount, crashes>>

vars == <<session, disk, latest, registries, pendingOld, pc, seen, stops, reader,
          logs, history, bounds>>
-----------------------------------------------------------------------------
(***************************************************************************)
(* The session's record.                                                   *)
(***************************************************************************)
Row(kind, n) == [kind |-> kind, turn |-> n]

Rows == [kind : {"user", "answer", "error", "cancel", "recovery"}, turn : Turns]

Session == [active : Turn0, pending : Turn0, rows : Seq(Rows)]

EmptySession == [active |-> 0, pending |-> 0, rows |-> <<>>]

Settled(rows) == [active |-> 0, pending |-> 0, rows |-> rows]

\* The row at i belongs to the last user turn of the transcript.
InLastTurn(rows, i) == \A j \in (i + 1)..Len(rows) : rows[j].kind # "user"

MaterializePendingUserTurn_NoTest(s) == Append(s.rows, Row("user", s.pending))

\* _materialize_pending_user_turn_before_error, and the same step of cancel_stream.
MaterializePendingUserTurn(s) ==
    IF s.pending = 0
       \/ \E i \in 1..Len(s.rows) : s.rows[i] = Row("user", s.pending) /\ InLastTurn(s.rows, i)
    THEN s.rows
    ELSE Append(s.rows, Row("user", s.pending))

SessionHasCancelMarker(rows) ==
    \E i \in 1..Len(rows) : rows[i].kind = "cancel" /\ InLastTurn(rows, i)

CancelledRows_NoPrompt(s, n) ==
    IF SessionHasCancelMarker(s.rows) THEN s.rows ELSE Append(s.rows, Row("cancel", n))

CancelledRows_NoTest(s, n) == Append(MaterializePendingUserTurn(s), Row("cancel", n))

\* The rows of turn n once its cancellation is recorded.
CancelledRows(s, n) ==
    LET rows == MaterializePendingUserTurn(s)
    IN  IF SessionHasCancelMarker(rows) THEN rows ELSE Append(rows, Row("cancel", n))

FailedRows(s, n) == Append(MaterializePendingUserTurn(s), Row("error", n))

RecoveredRows_NoPrompt(s) == Append(s.rows, Row("recovery", s.pending))

\* _apply_core_sync_or_error_marker: the pending turn with an "interrupted" marker.
RecoveredRows(s) == Append(MaterializePendingUserTurn(s), Row("recovery", s.pending))

\* Change the session and save it.
Store(s) == session' = s /\ disk' = s

StreamWritebackIsCurrent_NoTest(n) == n \in Turns

StreamWritebackIsCurrent(n) == session.active = n

LastUserRow(rows) ==
    CHOOSE i \in 1..Len(rows) : rows[i].kind = "user" /\ InLastTurn(rows, i)

StreamWritebackCanSupersedeRecoveryMarker_AnyPrompt(n) ==
    /\ session.active = 0
    /\ session.pending = 0
    /\ Len(session.rows) >= 2
    /\ session.rows[Len(session.rows)].kind = "recovery"

(***************************************************************************)
(* A worker that lost the session may still replace the repair marker of   *)
(* its own prompt, recognised by the prompt's text.                        *)
(***************************************************************************)
StreamWritebackCanSupersedeRecoveryMarker(n) ==
    LET rows == session.rows IN
    /\ session.active = 0
    /\ session.pending = 0
    /\ Len(rows) >= 2
    /\ rows[Len(rows)].kind = "recovery"
    /\ \E i \in 1..Len(rows) : rows[i].kind = "user"
    /\ Text[rows[LastUserRow(rows)].turn] = Text[n]

MergedRows_NoHistory(n) == <<Row("user", n), Row("answer", n)>>

\* _settle_result_messages: the messages the turn began with, its prompt and its answer.
MergedRows(n) ==
    LET mine == \E i \in 1..Len(seen[n]) : seen[n][i] = Row("user", n)
    IN  (IF mine THEN seen[n] ELSE Append(seen[n], Row("user", n)))
          \o <<Row("answer", n)>>
-----------------------------------------------------------------------------
(***************************************************************************)
(* Where a worker is: before it has a thread, with one, and after.         *)
(***************************************************************************)
HoldsSessionLock == {"merging", "merged", "saved"}

Launching == {"prepared", "opened", "launchFailed"}

WithAgent == {"registered", "invoked"}

Working == {"starting", "running", "rejected", "returned", "writing", "settling",
            "committed", "raised", "failing", "unwinding", "tearingDown"}
           \cup WithAgent \cup HoldsSessionLock

PCs == {"none", "spawned", "unlaunched", "finished", "dead"} \cup Launching \cup Working

LockFree == \A n \in Turns : pc[n] \notin HoldsSessionLock

Goto(n, where) == pc' = [pc EXCEPT ![n] = where]

Closing == {"cancel", "apperror", "done"}   \* "done" with the stream_end after it

Log(n, event) == turnLog' = [turnLog EXCEPT ![n] = Append(@, event)]

(***************************************************************************)
(* put: the event goes to the run journal and then to the channel.  It     *)
(* drops events of a cancelled turn, but never cancel and apperror; done   *)
(* is only put once the writeback is committed, when nothing is dropped.   *)
(***************************************************************************)
Put(n, event) ==
    /\ channel' = [channel EXCEPT ![n] = @ \cup {event}]
    /\ runLog' = runLog \cup {n}

\* _settle_pending_steer, which closes the turn to Steer before its last event.
SettlePendingSteer(n) ==
    runs' = IF runs[n] # "none" /\ n \in streams /\ n \notin cancelled
            THEN [runs EXCEPT ![n] = "finalizing"] ELSE runs

FinalizeCancelledTurn_AnyOwner(n) ==
    IF session.active \in {0, n} THEN Store(Settled(CancelledRows(session, n)))
    ELSE UNCHANGED <<session, disk>>

\* _finalize_cancelled_turn acts only for the turn that owns the writeback.
FinalizeCancelledTurn(n) ==
    IF wbOwner = n /\ session.active \in {0, n}
    THEN Store(Settled(CancelledRows(session, n)))
    ELSE UNCHANGED <<session, disk>>

ClearWritebackOwnerIfOwned_Never(n) == wbOwner' = wbOwner

ClearWritebackOwnerIfOwned(n) == wbOwner' = IF wbOwner = n THEN 0 ELSE wbOwner
-----------------------------------------------------------------------------
NoStop == [pc |-> "idle", turn |-> 0, channel |-> FALSE, flag |-> FALSE,
           agent |-> FALSE, known |-> FALSE]

Init ==
    /\ session = EmptySession /\ disk = EmptySession
    /\ latest = 0
    /\ streams = {} /\ owners = {} /\ cancelFlags = {} /\ cancelled = {} /\ agents = {}
    /\ runs = [n \in Turns |-> "none"] /\ age = [n \in Turns |-> 0]
    /\ wbOwner = 0
    /\ pendingOld = FALSE
    /\ pc = [n \in Turns |-> "none"]
    /\ seen = [n \in Turns |-> <<>>]
    /\ stops = [k \in Stops |-> NoStop]
    /\ reader = 0
    /\ turnLog = [n \in Turns |-> <<>>]
    /\ channel = [n \in Turns |-> {}]
    /\ runLog = {}
    /\ interrupted = {} /\ reclaimed = {} /\ restopped = {}
    /\ stopCount = 0 /\ crashes = 0
-----------------------------------------------------------------------------
(***************************************************************************)
(* Launching a turn.                                                       *)
(***************************************************************************)
PastCeiling_Never(n) == n \notin Turns

\* A row this old no longer blocks a successor ...
PastCeiling(n) == runs[n] # "none" /\ age[n] >= 2

NoRunBlocks_Attachable == \A n \in Turns : runs[n] \in {"none", "cancelling"} \/ PastCeiling(n)

NoRunBlocks == \A n \in Turns : runs[n] = "none" \/ PastCeiling(n)

Reclaimable_WithChannel == {n \in Turns : PastCeiling(n)}

\* ... and is dropped unless its worker still has a channel.
Reclaimable == {n \in Turns : PastCeiling(n) /\ n \notin streams}

ReclaimRuns(gone) ==
    /\ runs' = [n \in Turns |-> IF n \in gone THEN "none" ELSE runs[n]]
    /\ owners' = owners \ gone
    /\ reclaimed' = reclaimed \cup gone

\* _start_chat_stream_for_session up to the end of its locked section.
Start ==
    LET n == latest + 1 IN
    /\ n \in Turns
    /\ LockFree
    /\ session.active = 0
    /\ NoRunBlocks
    /\ ReclaimRuns(Reclaimable)
    /\ latest' = n
    /\ Store([session EXCEPT !.active = n, !.pending = n])
    /\ wbOwner' = n
    /\ pendingOld' = FALSE
    /\ Goto(n, "prepared")
    /\ UNCHANGED <<streams, age, cancelFlags, cancelled, agents, seen, stops, reader,
                   logs, interrupted, restopped, bounds>>

OpenStream(n) ==
    /\ pc[n] = "prepared"
    /\ streams' = streams \cup {n}
    /\ owners' = owners \cup {n}
    /\ Goto(n, "opened")
    /\ UNCHANGED <<session, disk, latest, runs, age, cancelFlags, cancelled, agents, wbOwner,
                   pendingOld, seen, stops, reader, logs, history, bounds>>

StartThread(n) ==
    /\ pc[n] = "opened"
    /\ Goto(n, "spawned")
    /\ UNCHANGED <<session, disk, latest, registries, pendingOld, seen, stops, reader,
                   logs, history, bounds>>

\* thr.start() raises: _cleanup_chat_start_launch_failure.
StartThreadFails(n) ==
    /\ pc[n] = "opened"
    /\ ClearWritebackOwnerIfOwned(n)
    /\ streams' = streams \ {n}
    /\ owners' = owners \ {n}
    /\ Goto(n, "launchFailed")
    /\ UNCHANGED <<session, disk, latest, runs, age, cancelFlags, cancelled, agents,
                   pendingOld, seen, stops, reader, logs, history, bounds>>

CleanupLaunchFailure(n) ==
    /\ pc[n] = "launchFailed"
    /\ LockFree
    /\ IF session.active = n THEN Store(Settled(session.rows)) ELSE UNCHANGED <<session, disk>>
    /\ Goto(n, "unlaunched")
    /\ UNCHANGED <<latest, registries, pendingOld, seen, stops, reader, logs, history, bounds>>
-----------------------------------------------------------------------------
(***************************************************************************)
(* The worker thread, up to the agent's answer.                            *)
(***************************************************************************)
\* Under STREAMS_LOCK: register the run, or leave if Stop detached the stream.
Admit(n) ==
    /\ pc[n] = "spawned"
    /\ IF n \in streams
       THEN /\ cancelFlags' = cancelFlags \cup {n}
            /\ runs' = [runs EXCEPT ![n] = "starting"]
            /\ age' = [age EXCEPT ![n] = 0]
            /\ Goto(n, "starting")
            /\ UNCHANGED <<owners, wbOwner>>
       ELSE /\ owners' = owners \ {n}
            /\ ClearWritebackOwnerIfOwned(n)
            /\ Goto(n, "finished")
            /\ UNCHANGED <<cancelFlags, runs, age>>
    /\ UNCHANGED <<session, disk, latest, streams, cancelled, agents, pendingOld, seen,
                   stops, reader, logs, history, bounds>>

\* update_active_run(phase="running"), whatever the row's phase is by now.
MarkRunning(n) ==
    /\ pc[n] = "starting"
    /\ runs' = IF runs[n] = "none" THEN runs ELSE [runs EXCEPT ![n] = "running"]
    /\ Goto(n, "running")
    /\ UNCHANGED <<session, disk, latest, streams, owners, age, cancelFlags, cancelled, agents,
                   wbOwner, pendingOld, seen, stops, reader, logs, history, bounds>>

\* _register_agent_if_current, and the messages the turn begins with.
RegisterAgentIfCurrent(n) ==
    /\ pc[n] = "running"
    /\ IF n \in streams /\ n \notin cancelled
       THEN /\ agents' = agents \cup {n}
            /\ seen' = [seen EXCEPT ![n] = session.rows]
            /\ Goto(n, "registered")
       ELSE /\ Goto(n, "rejected")
            /\ UNCHANGED <<agents, seen>>
    /\ UNCHANGED <<session, disk, latest, streams, owners, runs, age, cancelFlags, cancelled,
                   wbOwner, pendingOld, stops, reader, logs, history, bounds>>

AgentCanInvoke_NoTest(n) ==
    /\ pc[n] = "registered"
    /\ Goto(n, "invoked")
    /\ UNCHANGED <<session, disk, latest, registries, pendingOld, seen, stops, reader,
                   logs, history, bounds>>

AgentCanInvoke(n) ==
    /\ pc[n] = "registered"
    /\ IF n \in streams /\ n \notin cancelled /\ n \in agents
       THEN Goto(n, "invoked") /\ UNCHANGED agents
       ELSE Goto(n, "rejected") /\ agents' = agents \ {n}
    /\ UNCHANGED <<session, disk, latest, streams, owners, runs, age, cancelFlags, cancelled,
                   wbOwner, pendingOld, seen, stops, reader, logs, history, bounds>>

FinalizeRejected_Silent(n) ==
    /\ pc[n] = "rejected"
    /\ LockFree
    /\ FinalizeCancelledTurn(n)
    /\ Goto(n, "unwinding")
    /\ UNCHANGED <<latest, registries, pendingOld, seen, stops, reader, logs, history, bounds>>

\* A turn stopped before its agent ran.
FinalizeRejected(n) ==
    /\ pc[n] = "rejected"
    /\ LockFree
    /\ FinalizeCancelledTurn(n)
    /\ Put(n, "cancel")
    /\ Goto(n, "unwinding")
    /\ UNCHANGED <<latest, registries, pendingOld, seen, stops, reader, turnLog, history, bounds>>

\* run_conversation returns, or something of the turn up to here raises.
InvocationReturns(n) ==
    /\ pc[n] = "invoked"
    /\ Goto(n, "returned")
    /\ UNCHANGED <<session, disk, latest, registries, pendingOld, seen, stops, reader,
                   logs, history, bounds>>

Raises(n) ==
    /\ pc[n] \in {"running", "registered", "invoked"}
    /\ Goto(n, "raised")
    /\ UNCHANGED <<session, disk, latest, registries, pendingOld, seen, stops, reader,
                   logs, history, bounds>>
-----------------------------------------------------------------------------
(***************************************************************************)
(* The worker's writeback.                                                 *)
(***************************************************************************)
\* Every cancel check of the writeback ends the turn the same way.
EndCancelled(n) ==
    /\ n \in cancelled
    /\ FinalizeCancelledTurn(n)
    /\ Log(n, "interrupted")
    /\ Put(n, "cancel")
    /\ Goto(n, "unwinding")
    /\ UNCHANGED <<latest, registries, pendingOld, seen, stops, reader, history, bounds>>

\* With the lock still to take, and with the lock held.
CancelledOnReturn(n) == pc[n] \in {"returned", "raised", "settling"} /\ LockFree /\ EndCancelled(n)

CancelledInWriteback(n) == pc[n] \in HoldsSessionLock /\ EndCancelled(n)

PassesCancelCheck(n) ==
    /\ n \notin cancelled
    /\ \/ pc[n] = "returned" /\ Goto(n, "writing")
       \/ pc[n] = "raised" /\ Goto(n, "failing")
    /\ UNCHANGED <<session, disk, latest, registries, pendingOld, seen, stops, reader,
                   logs, history, bounds>>

\* The session lock is taken; a worker that lost the session leaves silently.
WritebackBegins(n) ==
    /\ pc[n] = "writing"
    /\ LockFree
    /\ IF StreamWritebackIsCurrent(n) \/ StreamWritebackCanSupersedeRecoveryMarker(n)
       THEN Goto(n, "merging") ELSE Goto(n, "unwinding")
    /\ UNCHANGED <<session, disk, latest, registries, pendingOld, seen, stops, reader,
                   logs, history, bounds>>

MergeResult(n) ==
    /\ pc[n] = "merging"
    /\ n \notin cancelled
    /\ session' = Settled(MergedRows(n))
    /\ Goto(n, "merged")
    /\ UNCHANGED <<disk, latest, registries, pendingOld, seen, stops, reader, logs,
                   history, bounds>>

\* The result is a provider error.
ReturnsError(n) ==
    /\ pc[n] = "merging"
    /\ n \notin cancelled
    /\ Store(Settled(FailedRows([session EXCEPT !.rows = seen[n], !.pending = n], n)))
    /\ SettlePendingSteer(n)
    /\ Put(n, "apperror")
    /\ Goto(n, "unwinding")
    /\ UNCHANGED <<latest, streams, owners, age, cancelFlags, cancelled, agents, wbOwner,
                   pendingOld, seen, stops, reader, turnLog, history, bounds>>

SaveResult(n) ==
    /\ pc[n] = "merged"
    /\ n \notin cancelled
    /\ disk' = session
    /\ Goto(n, "saved")
    /\ UNCHANGED <<session, latest, registries, pendingOld, seen, stops, reader, logs,
                   history, bounds>>

CompleteTurn_Early(n) ==
    /\ pc[n] \in {"merged", "saved"}
    /\ n \notin cancelled
    /\ Log(n, "completed")
    /\ IF pc[n] = "saved" THEN Goto(n, "settling") ELSE UNCHANGED pc
    /\ UNCHANGED <<session, disk, latest, registries, pendingOld, seen, stops, reader,
                   channel, runLog, history, bounds>>

\* The completed event; then the lock is released.
CompleteTurn(n) ==
    /\ pc[n] = "saved"
    /\ n \notin cancelled
    /\ Log(n, "completed")
    /\ Goto(n, "settling")
    /\ UNCHANGED <<session, disk, latest, registries, pendingOld, seen, stops, reader,
                   channel, runLog, history, bounds>>

\* The last cancel check: _success_writeback_committed.
CommitWriteback(n) ==
    /\ pc[n] = "settling"
    /\ LockFree
    /\ n \notin cancelled
    /\ Goto(n, "committed")
    /\ UNCHANGED <<session, disk, latest, registries, pendingOld, seen, stops, reader,
                   logs, history, bounds>>

PutDone(n) ==
    /\ pc[n] = "committed"
    /\ SettlePendingSteer(n)
    /\ Put(n, "done")
    /\ Goto(n, "unwinding")
    /\ UNCHANGED <<session, disk, latest, streams, owners, age, cancelFlags, cancelled, agents,
                   wbOwner, pendingOld, seen, stops, reader, turnLog, history, bounds>>

\* An exception outside a cancellation; its turn's session may be gone, too.
FailTurn(n) ==
    /\ pc[n] = "failing"
    /\ LockFree
    /\ IF StreamWritebackIsCurrent(n)
       THEN /\ Store(Settled(FailedRows(session, n)))
            /\ Log(n, "interrupted")
            /\ SettlePendingSteer(n)
            /\ Put(n, "apperror")
       ELSE UNCHANGED <<session, disk, runs, logs>>
    /\ Goto(n, "unwinding")
    /\ UNCHANGED <<latest, streams, owners, age, cancelFlags, cancelled, agents, wbOwner,
                   pendingOld, seen, stops, reader, history, bounds>>
-----------------------------------------------------------------------------
(***************************************************************************)
(* The worker's finally.                                                   *)
(***************************************************************************)
\* Last resort for a turn that is still pending: _last_resort_sync_from_core.
Unwind(n) ==
    /\ pc[n] = "unwinding"
    /\ SettlePendingSteer(n)
    /\ IF /\ session.active = n
          /\ session.pending # 0
          /\ ~(n \in cancelFlags /\ n \in cancelled)
       THEN LockFree /\ Store(Settled(RecoveredRows(session)))
       ELSE UNCHANGED <<session, disk>>
    /\ Goto(n, "tearingDown")
    /\ UNCHANGED <<latest, streams, owners, age, cancelFlags, cancelled, agents, wbOwner,
                   pendingOld, seen, stops, reader, logs, history, bounds>>

\* Under STREAMS_LOCK: the turn leaves every registry.
TearDown(n) ==
    /\ pc[n] = "tearingDown"
    /\ streams' = streams \ {n}
    /\ cancelFlags' = cancelFlags \ {n}
    /\ agents' = agents \ {n}
    /\ runs' = [runs EXCEPT ![n] = "none"]
    /\ owners' = owners \ {n}
    /\ ClearWritebackOwnerIfOwned(n)
    /\ Goto(n, "finished")
    /\ UNCHANGED <<session, disk, latest, age, cancelled, pendingOld, seen, stops, reader,
                   logs, history, bounds>>
-----------------------------------------------------------------------------
(***************************************************************************)
(* cancel_stream.                                                          *)
(***************************************************************************)
StopInFlight(n) == \E k \in Stops : stops[k].pc # "idle" /\ stops[k].turn = n

\* Under STREAMS_LOCK: snapshot what the worker's finally may drop, mark the
\* row, and detach the stream.
StopClaims(k, n) ==
    LET there == n \in streams
        row == runs[n] # "none"
    IN  /\ stops[k].pc = "idle"
        /\ stopCount < MaxStops
        /\ there \/ row
        /\ stops' = [stops EXCEPT ![k] =
                [pc |-> "claimed", turn |-> n, channel |-> there, flag |-> n \in cancelFlags,
                 agent |-> n \in agents, known |-> n \in agents \/ row \/ n \in owners]]
        /\ runs' = IF row THEN [runs EXCEPT ![n] = "cancelling"] ELSE runs
        /\ age' = IF row THEN [age EXCEPT ![n] = 0] ELSE age
        /\ IF there
           THEN /\ streams' = streams \ {n}
                /\ cancelFlags' = cancelFlags \ {n}
                /\ agents' = agents \ {n}
           ELSE UNCHANGED <<streams, cancelFlags, agents>>
        /\ stopCount' = stopCount + 1
        /\ restopped' = IF StopInFlight(n) THEN restopped \cup {n} ELSE restopped
        /\ UNCHANGED <<session, disk, latest, owners, cancelled, wbOwner, pendingOld, pc,
                       seen, reader, logs, interrupted, reclaimed, crashes>>

\* After STREAMS_LOCK is released: set the event, interrupt the agent.
StopSignals(k) ==
    LET n == stops[k].turn IN
    /\ stops[k].pc = "claimed"
    /\ cancelled' = IF stops[k].flag \/ n \in cancelFlags THEN cancelled \cup {n} ELSE cancelled
    /\ interrupted' = IF stops[k].agent /\ pc[n] = "invoked" THEN interrupted \cup {n}
                      ELSE interrupted
    /\ stops' = [stops EXCEPT ![k].pc = "signalled"]
    /\ UNCHANGED <<session, disk, latest, streams, owners, runs, age, cancelFlags, agents,
                   wbOwner, pendingOld, pc, seen, reader, logs, reclaimed, restopped, bounds>>

\* Under the session lock: record the cancellation, if the turn still has the session.
StopSettles(k) ==
    LET n == stops[k].turn IN
    /\ stops[k].pc = "signalled"
    /\ IF ~stops[k].known
       THEN stops' = [stops EXCEPT ![k].pc = "settled"] /\ UNCHANGED <<session, disk>>
       ELSE /\ LockFree
            /\ IF StreamWritebackIsCurrent(n)
               THEN /\ Store(Settled(CancelledRows(session, n)))
                    /\ stops' = [stops EXCEPT ![k].pc = "settled"]
               ELSE /\ stops' = [stops EXCEPT ![k] = NoStop]
                    /\ UNCHANGED <<session, disk>>
    /\ UNCHANGED <<latest, registries, pendingOld, pc, seen, reader, logs, history, bounds>>

\* The cancel event goes to the channel captured at the claim, past the journal.
StopEmits(k) ==
    LET n == stops[k].turn IN
    /\ stops[k].pc = "settled"
    /\ channel' = IF stops[k].channel THEN [channel EXCEPT ![n] = @ \cup {"cancel"}] ELSE channel
    /\ stops' = [stops EXCEPT ![k] = NoStop]
    /\ UNCHANGED <<session, disk, latest, registries, pendingOld, pc, seen, reader,
                   turnLog, runLog, history, bounds>>
-----------------------------------------------------------------------------
(***************************************************************************)
(* Stale turns: time passes, _clear_stale_stream_state reads without the   *)
(* session lock and clears with it, and old cancelled rows are dropped.    *)
(***************************************************************************)
\* Threads that have nothing to wait for when turn n is pending, or stopped.
Stalls(n) ==
    \/ pc[n] \in Launching \cup {"spawned"}
    \/ \E k \in Stops :
          /\ stops[k].turn = n
          /\ stops[k].pc \in {"claimed", "settled"} \/ (stops[k].pc = "signalled" /\ LockFree)

PendingAges ==
    /\ ~pendingOld
    /\ session.pending # 0
    /\ Timely => ~Stalls(session.pending)
    /\ pendingOld' = TRUE
    /\ UNCHANGED <<session, disk, latest, registries, pc, seen, stops, reader, logs,
                   history, bounds>>

RowAges(n) ==
    /\ runs[n] # "none"
    /\ age[n] < MaxAge
    /\ Timely => ~Stalls(n)
    /\ age' = [age EXCEPT ![n] = @ + 1]
    /\ UNCHANGED <<session, disk, latest, streams, owners, runs, cancelFlags, cancelled, agents,
                   wbOwner, pendingOld, pc, seen, stops, reader, logs, history, bounds>>

CancelledRunIsStale(n) == runs[n] = "cancelling" /\ age[n] >= 1

ClearStaleChecks_NotPending ==
    LET n == session.active IN
    /\ reader = 0
    /\ n # 0
    /\ n \notin streams
    /\ runs[n] = "none" \/ CancelledRunIsStale(n)
    /\ session.pending = 0
    /\ reader' = n
    /\ UNCHANGED <<session, disk, latest, registries, pendingOld, pc, seen, stops, logs,
                   history, bounds>>

ClearStaleChecks ==
    LET n == session.active IN
    /\ reader = 0
    /\ n # 0
    /\ n \notin streams
    /\ runs[n] = "none" \/ CancelledRunIsStale(n)
    /\ session.pending # 0 => pendingOld
    /\ reader' = n
    /\ UNCHANGED <<session, disk, latest, registries, pendingOld, pc, seen, stops, logs,
                   history, bounds>>

\* A turn that is alive again is not repaired, and cleared all the same.
ClearStaleClears ==
    LET alive == reader \in streams \/ runs[reader] # "none" IN
    /\ reader # 0
    /\ LockFree
    /\ IF session.active = reader
       THEN Store(Settled(IF session.pending # 0 /\ ~alive
                          THEN RecoveredRows(session)
                          ELSE MaterializePendingUserTurn(session)))
       ELSE UNCHANGED <<session, disk>>
    /\ reader' = 0
    /\ UNCHANGED <<latest, registries, pendingOld, pc, seen, stops, logs, history, bounds>>

\* api/background_process.py's busy check drops rows cancelled long ago.
DropStaleCancelledRuns ==
    LET gone == {n \in Turns : runs[n] = "cancelling" /\ age[n] >= 2 /\ n \notin streams} IN
    /\ gone # {}
    /\ ReclaimRuns(gone)
    /\ UNCHANGED <<session, disk, latest, streams, age, cancelFlags, cancelled, agents,
                   wbOwner, pendingOld, pc, seen, stops, reader, logs, interrupted, restopped, bounds>>
-----------------------------------------------------------------------------
\* The server dies and starts again from the session's sidecar.
Crash ==
    /\ crashes < MaxCrashes
    /\ crashes' = crashes + 1
    /\ session' = disk
    /\ streams' = {} /\ owners' = {} /\ cancelFlags' = {} /\ cancelled' = {} /\ agents' = {}
    /\ runs' = [n \in Turns |-> "none"] /\ age' = [n \in Turns |-> 0]
    /\ wbOwner' = 0
    /\ pc' = [n \in Turns |-> IF pc[n] \in {"none", "unlaunched"} THEN pc[n] ELSE "dead"]
    /\ seen' = [n \in Turns |-> <<>>]
    /\ stops' = [k \in Stops |-> NoStop]
    /\ reader' = 0
    /\ UNCHANGED <<disk, latest, pendingOld, logs, history, stopCount>>
-----------------------------------------------------------------------------
LaunchStep(n) == OpenStream(n) \/ StartThread(n) \/ StartThreadFails(n) \/ CleanupLaunchFailure(n)

BeforeAgent(n) ==
    Admit(n) \/ MarkRunning(n) \/ RegisterAgentIfCurrent(n) \/ AgentCanInvoke(n)
    \/ FinalizeRejected(n)

WritebackStep(n) ==
    \/ CancelledOnReturn(n) \/ CancelledInWriteback(n) \/ PassesCancelCheck(n)
    \/ WritebackBegins(n) \/ MergeResult(n) \/ ReturnsError(n) \/ SaveResult(n)
    \/ CompleteTurn(n) \/ CommitWriteback(n) \/ PutDone(n) \/ FailTurn(n)

\* What the worker does of itself; the agent returns or raises when it likes.
WorkerStep(n) == BeforeAgent(n) \/ WritebackStep(n) \/ Unwind(n) \/ TearDown(n)

StopStep(k) == StopSignals(k) \/ StopSettles(k) \/ StopEmits(k)

Next ==
    \/ Start
    \/ \E n \in Turns : LaunchStep(n) \/ WorkerStep(n) \/ InvocationReturns(n) \/ Raises(n)
    \/ \E k \in Stops, n \in Turns : StopClaims(k, n)
    \/ \E k \in Stops : StopStep(k)
    \/ PendingAges \/ ClearStaleChecks \/ ClearStaleClears \/ DropStaleCancelledRuns
    \/ \E n \in Turns : RowAges(n)
    \/ Crash

Spec == Init /\ [][Next]_vars
=============================================================================
