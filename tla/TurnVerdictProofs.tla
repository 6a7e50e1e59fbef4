-------------------------- MODULE TurnVerdictProofs --------------------------
(***************************************************************************)
(* How a turn of TurnLifecycle ends for its client: for any number of      *)
(* turns, Stops and restarts, when no thread stalls (Timely), the channel  *)
(* of a turn carries one closing event, and the saved transcript says the  *)
(* same.                                                                   *)
(***************************************************************************)
EXTENDS TurnTranscriptProofs, FiniteSetTheorems

\* A worker that lost its turn was stopped, and the marker is on disk.
LosersAreCancelled ==
    \A n \in Turns : pc[n] \in Unsettled /\ session.active # n => Saved("cancel", n)

Writeback == {"merging", "merged", "saved", "settling", "committed"}

WritersOwnTheWriteback == \A n \in Turns : pc[n] \in HoldsSessionLock => wbOwner = n

DiskIsInMemory == \A row \in Rows : Has(disk.rows, row) => Has(session.rows, row)

SettlingIsCompleted ==
    \A n \in Turns : pc[n] \in {"settling", "committed"} => "completed" \in Events(n)

\* Until the worker has put its event, only a Stop that took the turn puts one.
ChannelsAreQuiet ==
    \A n \in Turns :
        /\ session.active = n \/ pc[n] \in {"none"} \cup Writeback => channel[n] = {}
        /\ pc[n] \in Unsettled => channel[n] \subseteq {"cancel"}

\* A Stop that has settled a turn has saved its marker, and the worker has no
\* other event to put.
StopsHaveSettled ==
    \A k \in Stops :
        stops[k].pc = "settled" =>
            /\ Saved("cancel", stops[k].turn)
            /\ channel[stops[k].turn] \subseteq {"cancel"}
            /\ pc[stops[k].turn] \notin Writeback

\* One closing event, which the saved transcript confirms.
VerdictsAreSaved ==
    \A n \in Turns :
        /\ \A e, f \in channel[n] : e = f
        /\ "done" \in channel[n] => Saved("answer", n)
        /\ "apperror" \in channel[n] => Saved("error", n)
        /\ "cancel" \in channel[n] => Saved("cancel", n) \/ "completed" \in Events(n)

\* The only Stop of a turn that still has the session detached its channel.
StopsHoldTheChannel ==
    \A k \in Stops :
        /\ stops[k].pc # "idle"
        /\ stops[k].turn \notin restopped
        /\ session.active = stops[k].turn \/ stops[k].pc = "settled"
        => stops[k].channel

\* A turn that was settled is closed, or a Stop is about to close it.
SettledTurnsClose ==
    \A n \in Turns \ restopped :
        pc[n] \in Unsettled \cup {"unwinding", "tearingDown", "finished"} /\ session.active # n =>
            \/ channel[n] # {}
            \/ \E k \in Stops : stops[k].pc = "settled" /\ stops[k].turn = n

VerdictInv ==
    /\ LosersAreCancelled
    /\ WritersOwnTheWriteback
    /\ DiskIsInMemory
    /\ SettlingIsCompleted
    /\ ChannelsAreQuiet
    /\ StopsHaveSettled
    /\ VerdictsAreSaved
    /\ StopsHoldTheChannel
    /\ SettledTurnsClose
-----------------------------------------------------------------------------
(***************************************************************************)
(* What a step does to the end of a turn.                                  *)
(***************************************************************************)
Still ==
    /\ UNCHANGED <<pc, channel, stops, restopped, wbOwner, latest>>
    /\ session'.active = session.active

\* The worker of m puts its closing event and goes on to its finally.
EndsWith(m, event) ==
    /\ pc[m] \in Unsettled \cup Writeback /\ pc'[m] = "unwinding"
    /\ \A n \in Turns \ {m} : pc'[n] = pc[n] /\ channel'[n] = channel[n]
    /\ channel'[m] = channel[m] \cup {event}
    /\ session'.active = IF session.active = m THEN 0 ELSE session.active
    /\ event = "cancel" => Saved("cancel", m)' \/ "completed" \in Events(m)'
    /\ event # "cancel" => session.active = m \/ pc[m] \in Writeback
    /\ event = "done" => Saved("answer", m)'
    /\ event = "apperror" => Saved("error", m)'
    /\ UNCHANGED <<stops, restopped, wbOwner, latest>>

\* The worker of m, or who launches it, goes on without an event.
Advances(m) ==
    \/ pc[m] = "prepared" /\ pc'[m] = "opened"
    \/ pc[m] \in Unsettled /\ pc'[m] \in Unsettled \ {"opened", "merging"}
    \/ pc[m] = "writing" /\ pc'[m] = "merging" /\ session.active = m
    \/ pc[m] \in {"writing", "failing"} /\ pc'[m] = "unwinding" /\ session.active # m
    \/ pc[m] = "merging" /\ pc'[m] = "merged"
    \/ pc[m] = "merged" /\ pc'[m] = "saved"
    \/ pc[m] = "saved" /\ pc'[m] = "settling" /\ "completed" \in Events(m)'
    \/ pc[m] = "settling" /\ pc'[m] = "committed"
    \/ pc[m] = "unwinding" /\ pc'[m] = "tearingDown"
    \/ pc[m] \in {"spawned", "tearingDown"} /\ pc'[m] = "finished"
    \/ pc[m] = "opened" /\ pc'[m] = "launchFailed"
    \/ pc[m] = "launchFailed" /\ pc'[m] = "unlaunched"

Passes(m) ==
    /\ Advances(m)
    /\ \A n \in Turns \ {m} : pc'[n] = pc[n]
    /\ session'.active = IF session.active = m /\ pc'[m] \in {"merged", "unlaunched"}
                         THEN 0 ELSE session.active
    /\ wbOwner' \in {0, wbOwner}
    /\ wbOwner' # wbOwner => wbOwner = m /\ pc'[m] \in {"launchFailed", "finished"}
    /\ UNCHANGED <<channel, stops, restopped, latest>>

\* A Stop takes the session from its turn n, or gives up.
StopTakes(k, n) ==
    /\ stops[k].turn = n
    /\ stops[k].pc = "signalled"
    /\ UNCHANGED <<pc, channel, restopped, wbOwner, latest>>
    /\ \/ /\ session.active = n /\ session'.active = 0 /\ Saved("cancel", n)'
          /\ pc[n] \notin HoldsSessionLock
          /\ stops' = [stops EXCEPT ![k].pc = "settled"]
       \/ /\ session.active # n /\ session'.active = session.active
          /\ stops' = [stops EXCEPT ![k] = NoStop]

\* The repair takes it from a dead one.
RepairTakes ==
    /\ session'.active = 0
    /\ \A n \in Turns : session.active = n => pc[n] = "dead"
    /\ UNCHANGED <<pc, channel, stops, restopped, wbOwner, latest>>

Turning ==
    \/ Start \/ Crash \/ Still \/ RepairTakes
    \/ \E m \in Turns : Passes(m) \/ \E event \in Closing : EndsWith(m, event)
    \/ \E k \in Stops :
          \/ StopSignals(k) \/ StopEmits(k)
          \/ \E n \in Turns : StopClaims(k, n) \/ StopTakes(k, n)
-----------------------------------------------------------------------------
\* On disk, nothing is ever taken away.
LEMMA DiskGrows ==
    ASSUME Timely, TypeOK, DiskIsInMemory, Kinds
    PROVE  /\ DiskIsInMemory'
           /\ \A row \in Rows : Has(disk.rows, row) => Has(disk'.rows, row)
<1>1. \A row \in Rows : Has(disk.rows, row) => Has(session.rows, row)
    BY DEF DiskIsInMemory
<1> SUFFICES ASSUME NEW row \in Rows
             PROVE  /\ Has(disk'.rows, row) => Has(session'.rows, row)
                    /\ Has(disk.rows, row) => Has(disk'.rows, row)
    BY DEF DiskIsInMemory
<1>2. CASE Quiet
    BY <1>1, <1>2 DEF Quiet
<1>3. CASE Start
    <2>1. session'.rows = session.rows /\ disk' = session'
        BY <1>3 DEF Start, Store, TypeOK, Session
    <2> QED BY <1>1, <2>1
<1>4. CASE Crash
    BY <1>4 DEF Crash
<1>5. ASSUME NEW n \in Turns, Abandons(n)
      PROVE  /\ Has(disk'.rows, row) => Has(session'.rows, row)
             /\ Has(disk.rows, row) => Has(disk'.rows, row)
    BY <1>1, <1>5 DEF Abandons, Settled
<1>6. ASSUME NEW n \in Turns, Writes(n)
      PROVE  /\ Has(disk'.rows, row) => Has(session'.rows, row)
             /\ Has(disk.rows, row) => Has(disk'.rows, row)
    BY <1>1, <1>6 DEF Writes
<1> QED BY <1>2, <1>3, <1>4, <1>5, <1>6 DEF Kinds

\* So what is saved stays saved, and what is completed stays completed.
SavedStays ==
    \A n \in Turns :
        /\ \A kind \in {"answer", "error", "cancel"} : Saved(kind, n) => Saved(kind, n)'
        /\ "completed" \in Events(n) => "completed" \in Events(n)'

\* No step takes an answer, or a verdict on a turn, back from the disk.
LEMMA StepsKeepSaved ==
    ASSUME Timely, TypeOK, DiskIsInMemory, Kinds, AnswersMove
    PROVE  SavedStays
<1> SUFFICES ASSUME NEW n \in Turns
             PROVE  /\ \A kind \in {"answer", "error", "cancel"} : Saved(kind, n) => Saved(kind, n)'
                    /\ "completed" \in Events(n) => "completed" \in Events(n)'
    BY DEF SavedStays
<1>1. ASSUME NEW kind \in {"answer", "error", "cancel"}, Saved(kind, n)
      PROVE  Saved(kind, n)'
    <2>1. Row(kind, n) \in Rows
        BY DEF Row, Rows
    <2>2. Has(disk.rows, Row(kind, n))
        BY <1>1 DEF Saved, Has
    <2> QED BY <2>1, <2>2, DiskGrows DEF Saved, Has
<1>2. ASSUME "completed" \in Events(n)
      PROVE  "completed" \in Events(n)'
    <2>1. PICK i \in 1..Len(turnLog[n]) : turnLog[n][i] = "completed"
        BY <1>2 DEF Events
    <2>2. turnLog[n] \in Seq({"completed", "interrupted"})
        BY DEF TypeOK
    <2>3. i \in 1..Len(turnLog'[n]) /\ turnLog'[n][i] = "completed"
        <3>1. CASE turnLog'[n] = turnLog[n]
            BY <2>1, <3>1
        <3>2. ASSUME NEW event \in {"completed", "interrupted"}, turnLog'[n] = Append(turnLog[n], event)
              PROVE  i \in 1..Len(turnLog'[n]) /\ turnLog'[n][i] = "completed"
            BY <2>1, <2>2, <3>2
        <3> QED BY <3>1, <3>2 DEF AnswersMove
    <2> QED BY <2>3 DEF Events
<1> QED BY <1>1, <1>2
-----------------------------------------------------------------------------
\* A worker that finds itself cancelled closes its turn with the marker saved.
LEMMA CancellingEnds ==
    ASSUME Timely, RegistryInv, TranscriptInv, VerdictInv, SavedStays, NEW m \in Turns,
           pc[m] \in {"rejected", "returned", "raised", "settling"} \cup HoldsSessionLock,
           FinalizeCancelledTurn(m), Put(m, "cancel"), Goto(m, "unwinding"),
           UNCHANGED <<stops, restopped, wbOwner, latest>>
    PROVE  EndsWith(m, "cancel")
<1>1. /\ TypeOK /\ TurnsBeginInOrder /\ SessionsHaveShape /\ OwnerIsLatest /\ ActiveIsUnsettled
      /\ ActiveOwnsWriteback /\ WritebackIsCurrent /\ TranscriptsAreKept /\ PromptsAreKept
    BY DEF RegistryInv, TranscriptInv
<1>2. LosersAreCancelled /\ WritersOwnTheWriteback /\ SettlingIsCompleted
    BY DEF VerdictInv
<1>3. pc[m] \in Working
    BY DEF Working, HoldsSessionLock
<1>4. /\ pc'[m] = "unwinding" /\ channel'[m] = channel[m] \cup {"cancel"}
      /\ \A n \in Turns \ {m} : pc'[n] = pc[n] /\ channel'[n] = channel[n]
    BY <1>1 DEF Goto, Put, TypeOK
<1>5. \/ Quiet /\ ~(wbOwner = m /\ session.active \in {0, m})
      \/ Writes(m) /\ Saved("cancel", m)'
    BY <1>1, <1>3, FinalizingWrites
<1>6. CASE wbOwner = m /\ session.active \in {0, m}
    <2>1. session'.active = 0
        BY <1>6 DEF FinalizeCancelledTurn, Store, Settled
    <2>2. Saved("cancel", m)'
        BY <1>5, <1>6
    <2>3. pc[m] \in Unsettled \cup Writeback
        BY DEF Unsettled, Writeback, HoldsSessionLock
    <2> QED BY <1>4, <1>6, <2>1, <2>2, <2>3 DEF EndsWith
<1>7. CASE ~(wbOwner = m /\ session.active \in {0, m})
    <2>1. session' = session
        BY <1>7 DEF FinalizeCancelledTurn
    <2>2. pc[m] \in Unsettled \/ pc[m] = "settling"
        <3>1. CASE pc[m] \in {"merged", "saved"}
            BY <1>1, <1>2, <1>7, <3>1
               DEF WritersOwnTheWriteback, WritebackIsCurrent, HoldsSessionLock
        <3> QED BY <3>1 DEF Unsettled, HoldsSessionLock
    <2>3. session.active # m
        BY <1>1, <1>7, <2>2 DEF ActiveOwnsWriteback, ActiveIsUnsettled, Unsettled, WithAgent
    <2>4. Saved("cancel", m) \/ "completed" \in Events(m)
        BY <1>2, <2>2, <2>3 DEF LosersAreCancelled, SettlingIsCompleted
    <2>5. Saved("cancel", m)' \/ "completed" \in Events(m)'
        BY <2>4 DEF SavedStays
    <2> QED BY <1>4, <2>1, <2>2, <2>3, <2>5 DEF EndsWith, Writeback
<1> QED BY <1>6, <1>7


\* Every step ends a turn, or takes one from its worker, in one of these ways.
LEMMA StepsTurn ==
    ASSUME Timely, RegistryInv, TimingInv, TranscriptInv, VerdictInv, SavedStays, [Next]_vars
    PROVE  Turning
<1>0. /\ TypeOK /\ TurnsBeginInOrder /\ SessionsHaveShape /\ ActiveIsUnsettled
      /\ StopsAreOfOpenTurns /\ WritebackIsCurrent /\ RepairIsOfTheDead
      /\ TranscriptsAreKept /\ SeenIsCurrent /\ OnlyTheEndedAnswer /\ RepairMarksTheDead
      /\ AnswersAreWritten /\ PromptsAreKept /\ RepairsAreRecognised
    BY DEF RegistryInv, TimingInv, TranscriptInv, RepairsAreRecognised
<1>1. ASSUME Start PROVE Turning
    BY <1>1 DEF Turning
<1>2. ASSUME NEW m \in Turns, OpenStream(m) PROVE Turning
    <2>1. /\ pc[m] = "prepared" /\ pc'[m] = "opened"
          /\ \A n \in Turns \ {m} : pc'[n] = pc[n]
        BY <1>2, <1>0 DEF OpenStream, Goto, TypeOK
    <2>2. session' = session /\ UNCHANGED <<channel, stops, restopped, wbOwner, latest>>
        BY <1>2 DEF OpenStream, registries, logs, history
    <2>3. Advances(m)
        BY <2>1 DEF Advances, Unsettled, WithAgent
    <2> QED BY <2>1, <2>2, <2>3 DEF Passes, Turning
<1>3. ASSUME NEW m \in Turns, StartThread(m) PROVE Turning
    <2>1. /\ pc[m] = "opened" /\ pc'[m] = "spawned"
          /\ \A n \in Turns \ {m} : pc'[n] = pc[n]
        BY <1>3, <1>0 DEF StartThread, Goto, TypeOK
    <2>2. session' = session /\ UNCHANGED <<channel, stops, restopped, wbOwner, latest>>
        BY <1>3 DEF StartThread, registries, logs, history
    <2>3. Advances(m)
        BY <2>1 DEF Advances, Unsettled, WithAgent
    <2> QED BY <2>1, <2>2, <2>3 DEF Passes, Turning
<1>4. ASSUME NEW m \in Turns, InvocationReturns(m) PROVE Turning
    <2>1. /\ pc[m] = "invoked" /\ pc'[m] = "returned"
          /\ \A n \in Turns \ {m} : pc'[n] = pc[n]
        BY <1>4, <1>0 DEF InvocationReturns, Goto, TypeOK
    <2>2. session' = session /\ UNCHANGED <<channel, stops, restopped, wbOwner, latest>>
        BY <1>4 DEF InvocationReturns, registries, logs, history
    <2>3. Advances(m)
        BY <2>1 DEF Advances, Unsettled, WithAgent
    <2> QED BY <2>1, <2>2, <2>3 DEF Passes, Turning
<1>5. ASSUME NEW m \in Turns, Raises(m) PROVE Turning
    <2>1. /\ pc[m] \in {"running", "registered", "invoked"} /\ pc'[m] = "raised"
          /\ \A n \in Turns \ {m} : pc'[n] = pc[n]
        BY <1>5, <1>0 DEF Raises, Goto, TypeOK
    <2>2. session' = session /\ UNCHANGED <<channel, stops, restopped, wbOwner, latest>>
        BY <1>5 DEF Raises, registries, logs, history
    <2>3. Advances(m)
        BY <2>1 DEF Advances, Unsettled, WithAgent
    <2> QED BY <2>1, <2>2, <2>3 DEF Passes, Turning
<1>6. ASSUME NEW m \in Turns, StartThreadFails(m) PROVE Turning
    <2>1. /\ pc[m] = "opened" /\ pc'[m] = "launchFailed"
          /\ \A n \in Turns \ {m} : pc'[n] = pc[n]
        BY <1>6, <1>0 DEF StartThreadFails, Goto, TypeOK
    <2>2. /\ session' = session /\ wbOwner' \in {0, wbOwner}
          /\ wbOwner' # wbOwner => wbOwner = m /\ pc'[m] = "launchFailed"
          /\ UNCHANGED <<channel, stops, restopped, latest>>
        BY <1>6, <1>0 DEF StartThreadFails, ClearWritebackOwnerIfOwned, Goto, TypeOK, logs, history
    <2>3. Advances(m)
        BY <2>1 DEF Advances, Unsettled, WithAgent
    <2> QED BY <2>1, <2>2, <2>3 DEF Passes, Turning
<1>7. ASSUME NEW m \in Turns, CleanupLaunchFailure(m) PROVE Turning
    <2>1. /\ pc[m] = "launchFailed" /\ pc'[m] = "unlaunched"
          /\ \A n \in Turns \ {m} : pc'[n] = pc[n]
        BY <1>7, <1>0 DEF CleanupLaunchFailure, Goto, TypeOK
    <2>2. /\ session'.active = IF session.active = m THEN 0 ELSE session.active
          /\ UNCHANGED <<channel, stops, restopped, wbOwner, latest>>
        BY <1>7 DEF CleanupLaunchFailure, Store, Settled, registries, logs, history
    <2>3. Advances(m)
        BY <2>1 DEF Advances, Unsettled, WithAgent
    <2> QED BY <2>1, <2>2, <2>3 DEF Passes, Turning
<1>8. ASSUME NEW m \in Turns, Admit(m) PROVE Turning
    <2>1. /\ pc[m] = "spawned" /\ pc'[m] \in {"starting", "finished"}
          /\ \A n \in Turns \ {m} : pc'[n] = pc[n]
        BY <1>8, <1>0 DEF Admit, Goto, TypeOK
    <2>2. /\ session' = session /\ wbOwner' \in {0, wbOwner}
          /\ wbOwner' # wbOwner => wbOwner = m /\ pc'[m] = "finished"
          /\ UNCHANGED <<channel, stops, restopped, latest>>
        BY <1>8, <1>0 DEF Admit, ClearWritebackOwnerIfOwned, Goto, TypeOK, logs, history
    <2>3. Advances(m)
        BY <2>1 DEF Advances, Unsettled, WithAgent
    <2> QED BY <2>1, <2>2, <2>3 DEF Passes, Turning
<1>9. ASSUME NEW m \in Turns, MarkRunning(m) PROVE Turning
    <2>1. /\ pc[m] = "starting" /\ pc'[m] = "running"
          /\ \A n \in Turns \ {m} : pc'[n] = pc[n]
        BY <1>9, <1>0 DEF MarkRunning, Goto, TypeOK
    <2>2. session' = session /\ UNCHANGED <<channel, stops, restopped, wbOwner, latest>>
        BY <1>9 DEF MarkRunning, registries, logs, history
    <2>3. Advances(m)
        BY <2>1 DEF Advances, Unsettled, WithAgent
    <2> QED BY <2>1, <2>2, <2>3 DEF Passes, Turning
<1>10. ASSUME NEW m \in Turns, RegisterAgentIfCurrent(m) PROVE Turning
    <2>1. /\ pc[m] = "running" /\ pc'[m] \in {"registered", "rejected"}
          /\ \A n \in Turns \ {m} : pc'[n] = pc[n]
        BY <1>10, <1>0 DEF RegisterAgentIfCurrent, Goto, TypeOK
    <2>2. session' = session /\ UNCHANGED <<channel, stops, restopped, wbOwner, latest>>
        BY <1>10 DEF RegisterAgentIfCurrent, registries, logs, history
    <2>3. Advances(m)
        BY <2>1 DEF Advances, Unsettled, WithAgent
    <2> QED BY <2>1, <2>2, <2>3 DEF Passes, Turning
<1>11. ASSUME NEW m \in Turns, AgentCanInvoke(m) PROVE Turning
    <2>1. /\ pc[m] = "registered" /\ pc'[m] \in {"invoked", "rejected"}
          /\ \A n \in Turns \ {m} : pc'[n] = pc[n]
        BY <1>11, <1>0 DEF AgentCanInvoke, Goto, TypeOK
    <2>2. session' = session /\ UNCHANGED <<channel, stops, restopped, wbOwner, latest>>
        BY <1>11 DEF AgentCanInvoke, registries, logs, history
    <2>3. Advances(m)
        BY <2>1 DEF Advances, Unsettled, WithAgent
    <2> QED BY <2>1, <2>2, <2>3 DEF Passes, Turning
<1>12. ASSUME NEW m \in Turns, PassesCancelCheck(m) PROVE Turning
    <2>1. /\ pc[m] \in {"returned", "raised"} /\ pc'[m] \in {"writing", "failing"}
          /\ \A n \in Turns \ {m} : pc'[n] = pc[n]
        BY <1>12, <1>0 DEF PassesCancelCheck, Goto, TypeOK
    <2>2. session' = session /\ UNCHANGED <<channel, stops, restopped, wbOwner, latest>>
        BY <1>12 DEF PassesCancelCheck, registries, logs, history
    <2>3. Advances(m)
        BY <2>1 DEF Advances, Unsettled, WithAgent
    <2> QED BY <2>1, <2>2, <2>3 DEF Passes, Turning
<1>13. ASSUME NEW m \in Turns, FinalizeRejected(m) PROVE Turning
    <2>1. /\ pc[m] = "rejected"
          /\ FinalizeCancelledTurn(m) /\ Put(m, "cancel") /\ Goto(m, "unwinding")
          /\ UNCHANGED <<stops, restopped, wbOwner, latest>>
        BY <1>13 DEF FinalizeRejected, registries, history
    <2> QED BY <2>1, CancellingEnds DEF Turning, Closing
<1>14. ASSUME NEW m \in Turns, CancelledOnReturn(m) PROVE Turning
    <2>1. /\ pc[m] \in {"returned", "raised", "settling"}
          /\ FinalizeCancelledTurn(m) /\ Put(m, "cancel") /\ Goto(m, "unwinding")
          /\ UNCHANGED <<stops, restopped, wbOwner, latest>>
        BY <1>14 DEF CancelledOnReturn, EndCancelled, registries, history
    <2> QED BY <2>1, CancellingEnds DEF Turning, Closing
<1>15. ASSUME NEW m \in Turns, CancelledInWriteback(m) PROVE Turning
    <2>1. /\ pc[m] \in HoldsSessionLock
          /\ FinalizeCancelledTurn(m) /\ Put(m, "cancel") /\ Goto(m, "unwinding")
          /\ UNCHANGED <<stops, restopped, wbOwner, latest>>
        BY <1>15 DEF CancelledInWriteback, EndCancelled, registries, history
    <2> QED BY <2>1, CancellingEnds DEF Turning, Closing
<1>16. ASSUME NEW m \in Turns, WritebackBegins(m) PROVE Turning
    <2>1. /\ pc[m] = "writing" /\ pc'[m] \in {"merging", "unwinding"}
          /\ \A n \in Turns \ {m} : pc'[n] = pc[n]
        BY <1>16, <1>0 DEF WritebackBegins, Goto, TypeOK
    <2>2. session' = session /\ UNCHANGED <<channel, stops, restopped, wbOwner, latest>>
        BY <1>16 DEF WritebackBegins, registries, logs, history
    <2>3. Advances(m)
        <3>1. CASE StreamWritebackIsCurrent(m) \/ StreamWritebackCanSupersedeRecoveryMarker(m)
            <4>1. session.active = m /\ pc'[m] = "merging"
                BY <1>16, <1>0, <2>1, <3>1, MergersAreLast DEF WritebackBegins, Goto, TypeOK, Working
            <4> QED BY <2>1, <4>1 DEF Advances
        <3>2. CASE ~(StreamWritebackIsCurrent(m) \/ StreamWritebackCanSupersedeRecoveryMarker(m))
            <4>1. session.active # m /\ pc'[m] = "unwinding"
                BY <1>16, <1>0, <2>1, <3>2 DEF WritebackBegins, StreamWritebackIsCurrent, Goto, TypeOK
            <4> QED BY <2>1, <4>1 DEF Advances
        <3> QED BY <3>1, <3>2
    <2> QED BY <2>1, <2>2, <2>3 DEF Passes, Turning
<1>17. ASSUME NEW m \in Turns, MergeResult(m) PROVE Turning
    <2>1. /\ pc[m] = "merging" /\ pc'[m] = "merged"
          /\ \A n \in Turns \ {m} : pc'[n] = pc[n]
        BY <1>17, <1>0 DEF MergeResult, Goto, TypeOK
    <2>2. session.active = m
        BY <2>1, <1>0, MergersAreLast DEF WritebackIsCurrent, Working, HoldsSessionLock
    <2>3. session'.active = 0 /\ UNCHANGED <<channel, stops, restopped, wbOwner, latest>>
        BY <1>17 DEF MergeResult, Settled, registries, logs, history
    <2>4. Advances(m)
        BY <2>1 DEF Advances, Unsettled, WithAgent
    <2> QED BY <2>1, <2>2, <2>3, <2>4 DEF Passes, Turning
<1>18. ASSUME NEW m \in Turns, ReturnsError(m) PROVE Turning
    <2>1. /\ pc[m] = "merging" /\ pc'[m] = "unwinding" /\ channel'[m] = channel[m] \cup {"apperror"}
          /\ \A n \in Turns \ {m} : pc'[n] = pc[n] /\ channel'[n] = channel[n]
          /\ UNCHANGED <<stops, restopped, wbOwner, latest>>
        BY <1>18, <1>0 DEF ReturnsError, Goto, Put, TypeOK, history
    <2>2. session.active = m
        BY <2>1, <1>0, MergersAreLast DEF WritebackIsCurrent, Working, HoldsSessionLock
    <2>3. session'.active = 0
        BY <1>18 DEF ReturnsError, Store, Settled
    <2>4. Saved("error", m)'
        BY <1>18, <1>0, ErringWrites
    <2>5. EndsWith(m, "apperror")
        BY <2>1, <2>2, <2>3, <2>4 DEF EndsWith, Writeback
    <2> QED BY <2>5 DEF Turning, Closing
<1>19. ASSUME NEW m \in Turns, SaveResult(m) PROVE Turning
    <2>1. /\ pc[m] = "merged" /\ pc'[m] = "saved"
          /\ \A n \in Turns \ {m} : pc'[n] = pc[n]
        BY <1>19, <1>0 DEF SaveResult, Goto, TypeOK
    <2>2. session' = session /\ UNCHANGED <<channel, stops, restopped, wbOwner, latest>>
        BY <1>19 DEF SaveResult, registries, logs, history
    <2>3. Advances(m)
        BY <2>1 DEF Advances, Unsettled, WithAgent
    <2> QED BY <2>1, <2>2, <2>3 DEF Passes, Turning
<1>20. ASSUME NEW m \in Turns, CompleteTurn(m) PROVE Turning
    <2>1. /\ pc[m] = "saved" /\ pc'[m] = "settling"
          /\ \A n \in Turns \ {m} : pc'[n] = pc[n]
        BY <1>20, <1>0 DEF CompleteTurn, Goto, TypeOK
    <2>2. session' = session /\ UNCHANGED <<channel, stops, restopped, wbOwner, latest>>
        BY <1>20 DEF CompleteTurn, registries, logs, history
    <2>3. Advances(m)
        <3>1. turnLog[m] \in Seq({"completed", "interrupted"})
            BY <1>0 DEF TypeOK
        <3>2. turnLog'[m] = Append(turnLog[m], "completed")
            BY <1>20, <1>0 DEF CompleteTurn, Log, TypeOK
        <3>3. Len(turnLog[m]) + 1 \in 1..Len(turnLog'[m]) /\ turnLog'[m][Len(turnLog[m]) + 1] = "completed"
            BY <3>1, <3>2
        <3> QED BY <2>1, <3>3 DEF Advances, Events
    <2> QED BY <2>1, <2>2, <2>3 DEF Passes, Turning
<1>21. ASSUME NEW m \in Turns, CommitWriteback(m) PROVE Turning
    <2>1. /\ pc[m] = "settling" /\ pc'[m] = "committed"
          /\ \A n \in Turns \ {m} : pc'[n] = pc[n]
        BY <1>21, <1>0 DEF CommitWriteback, Goto, TypeOK
    <2>2. session' = session /\ UNCHANGED <<channel, stops, restopped, wbOwner, latest>>
        BY <1>21 DEF CommitWriteback, registries, logs, history
    <2>3. Advances(m)
        BY <2>1 DEF Advances, Unsettled, WithAgent
    <2> QED BY <2>1, <2>2, <2>3 DEF Passes, Turning
<1>22. ASSUME NEW m \in Turns, PutDone(m) PROVE Turning
    <2>1. /\ pc[m] = "committed" /\ pc'[m] = "unwinding" /\ channel'[m] = channel[m] \cup {"done"}
          /\ \A n \in Turns \ {m} : pc'[n] = pc[n] /\ channel'[n] = channel[n]
          /\ UNCHANGED <<stops, restopped, wbOwner, latest>>
        BY <1>22, <1>0 DEF PutDone, Goto, Put, TypeOK, history
    <2>2. session' = session
        BY <1>22 DEF PutDone
    <2>3. session.active # m
        BY <2>1, <1>0 DEF ActiveIsUnsettled, Unsettled, WithAgent
    <2>4. Saved("answer", m)
        BY <2>1, <1>0 DEF AnswersAreWritten, Saved, Has
    <2>5. Saved("answer", m)'
        BY <2>4 DEF SavedStays
    <2>6. EndsWith(m, "done")
        BY <2>1, <2>2, <2>3, <2>5 DEF EndsWith, Writeback
    <2> QED BY <2>6 DEF Turning, Closing
<1>23. ASSUME NEW m \in Turns, FailTurn(m) PROVE Turning
    <2>1. CASE StreamWritebackIsCurrent(m)
        <3>1. /\ pc[m] = "failing" /\ pc'[m] = "unwinding" /\ channel'[m] = channel[m] \cup {"apperror"}
              /\ \A n \in Turns \ {m} : pc'[n] = pc[n] /\ channel'[n] = channel[n]
              /\ UNCHANGED <<stops, restopped, wbOwner, latest>>
            BY <1>23, <1>0, <2>1 DEF FailTurn, Goto, Put, TypeOK, history
        <3>2. session.active = m /\ session'.active = 0
            BY <1>23, <2>1 DEF FailTurn, Store, Settled, StreamWritebackIsCurrent
        <3>3. Saved("error", m)'
            BY <1>23, <1>0, <2>1, FailingWrites
        <3>4. EndsWith(m, "apperror")
            BY <3>1, <3>2, <3>3 DEF EndsWith, Unsettled
        <3> QED BY <3>4 DEF Turning, Closing
    <2>2. CASE ~StreamWritebackIsCurrent(m)
        <3>1. /\ pc[m] = "failing" /\ pc'[m] = "unwinding" /\ session' = session /\ session.active # m
              /\ \A n \in Turns \ {m} : pc'[n] = pc[n]
              /\ UNCHANGED <<channel, stops, restopped, wbOwner, latest>>
            BY <1>23, <1>0, <2>2 DEF FailTurn, Goto, TypeOK, StreamWritebackIsCurrent, logs, history
        <3> QED BY <3>1 DEF Passes, Advances, Turning
    <2> QED BY <2>1, <2>2
<1>24. ASSUME NEW m \in Turns, Unwind(m) PROVE Turning
    <2>1. /\ pc[m] = "unwinding" /\ pc'[m] = "tearingDown"
          /\ \A n \in Turns \ {m} : pc'[n] = pc[n]
        BY <1>24, <1>0 DEF Unwind, Goto, TypeOK
    <2>2. session.active # m
        BY <2>1, <1>0 DEF ActiveIsUnsettled, Unsettled, WithAgent
    <2>3. session' = session /\ UNCHANGED <<channel, stops, restopped, wbOwner, latest>>
        BY <1>24, <2>2 DEF Unwind, logs, history
    <2>4. Advances(m)
        BY <2>1 DEF Advances, Unsettled, WithAgent
    <2> QED BY <2>1, <2>3, <2>4 DEF Passes, Turning
<1>25. ASSUME NEW m \in Turns, TearDown(m) PROVE Turning
    <2>1. /\ pc[m] = "tearingDown" /\ pc'[m] = "finished"
          /\ \A n \in Turns \ {m} : pc'[n] = pc[n]
        BY <1>25, <1>0 DEF TearDown, Goto, TypeOK
    <2>2. /\ session' = session /\ wbOwner' \in {0, wbOwner}
          /\ wbOwner' # wbOwner => wbOwner = m /\ pc'[m] = "finished"
          /\ UNCHANGED <<channel, stops, restopped, latest>>
        BY <1>25, <1>0 DEF TearDown, ClearWritebackOwnerIfOwned, Goto, TypeOK, logs, history
    <2>3. Advances(m)
        BY <2>1 DEF Advances, Unsettled, WithAgent
    <2> QED BY <2>1, <2>2, <2>3 DEF Passes, Turning
<1>26. ASSUME NEW m \in Turns, RowAges(m) PROVE Turning
    BY <1>26 DEF RowAges, Still, Turning, registries, logs, history
<1>27. ASSUME NEW k \in Stops, NEW m \in Turns, StopClaims(k, m) PROVE Turning
    BY <1>27 DEF Turning
<1>28. ASSUME NEW k \in Stops, StopSignals(k) PROVE Turning
    BY <1>28 DEF Turning
<1>29. ASSUME NEW k \in Stops, StopSettles(k) PROVE Turning
    <2>1. PICK n \in Turns : n = stops[k].turn
        BY <1>29, <1>0 DEF StopSettles, TypeOK
    <2>2. /\ stops[k].pc = "signalled" /\ stops[k].known
          /\ UNCHANGED <<pc, channel, restopped, wbOwner, latest>>
        BY <1>29, <1>0 DEF StopSettles, StopsAreOfOpenTurns, registries, logs, history
    <2>3. CASE session.active = n
        <3>1. session'.active = 0 /\ stops' = [stops EXCEPT ![k].pc = "settled"]
            BY <1>29, <2>1, <2>2, <2>3 DEF StopSettles, StreamWritebackIsCurrent, Store, Settled
        <3>2. Saved("cancel", n)'
            BY <1>29, <1>0, <2>1, <2>2, <2>3, StoppingWrites DEF StreamWritebackIsCurrent
        <3>3. pc[n] \notin HoldsSessionLock
            BY <1>29, <2>1, <2>2 DEF StopSettles, LockFree
        <3>4. StopTakes(k, n)
            BY <2>1, <2>2, <2>3, <3>1, <3>2, <3>3 DEF StopTakes
        <3> QED BY <3>4 DEF Turning
    <2>4. CASE session.active # n
        <3>1. session' = session /\ stops' = [stops EXCEPT ![k] = NoStop]
            BY <1>29, <2>1, <2>2, <2>4 DEF StopSettles, StreamWritebackIsCurrent
        <3>2. StopTakes(k, n)
            BY <2>1, <2>2, <2>4, <3>1 DEF StopTakes
        <3> QED BY <3>2 DEF Turning
    <2> QED BY <2>3, <2>4
<1>30. ASSUME NEW k \in Stops, StopEmits(k) PROVE Turning
    BY <1>30 DEF Turning
<1>31. ASSUME PendingAges PROVE Turning
    BY <1>31 DEF PendingAges, Still, Turning, registries, logs, history
<1>32. ASSUME ClearStaleChecks PROVE Turning
    BY <1>32 DEF ClearStaleChecks, Still, Turning, registries, logs, history
<1>33. ASSUME ClearStaleClears PROVE Turning
    <2>1. UNCHANGED <<pc, channel, stops, restopped, wbOwner, latest>>
        BY <1>33 DEF ClearStaleClears, registries, logs, history
    <2>2. CASE session.active = reader
        <3>1. session'.active = 0
            BY <1>33, <2>2 DEF ClearStaleClears, Store, Settled
        <3>2. \A n \in Turns : session.active = n => pc[n] = "dead"
            BY <1>33, <1>0, <2>2
               DEF RepairIsOfTheDead, ClearStaleClears, LockFree, HoldsSessionLock
        <3> QED BY <2>1, <3>1, <3>2 DEF RepairTakes, Turning
    <2>3. CASE session.active # reader
        BY <1>33, <2>1, <2>3 DEF ClearStaleClears, Still, Turning
    <2> QED BY <2>2, <2>3
<1>34. ASSUME DropStaleCancelledRuns PROVE Turning
    BY <1>34 DEF DropStaleCancelledRuns, Still, Turning, registries, logs, history, ReclaimRuns
<1>35. ASSUME Crash PROVE Turning
    BY <1>35 DEF Turning
<1>36. CASE UNCHANGED vars
    BY <1>36 DEF vars, Still, Turning, registries, logs, history
<1> QED
    BY <1>1, <1>2, <1>3, <1>4, <1>5, <1>6, <1>7, <1>8, <1>9, <1>10, <1>11, <1>12, <1>13, <1>14,
       <1>15, <1>16, <1>17, <1>18, <1>19, <1>20, <1>21, <1>22, <1>23, <1>24, <1>25, <1>26,
       <1>27, <1>28, <1>29, <1>30, <1>31, <1>32, <1>33, <1>34, <1>35, <1>36
       DEF Next, LaunchStep, WorkerStep, BeforeAgent, WritebackStep, StopStep

\* A worker loses its turn to a Stop, which saves its marker first.
LEMMA NextLosersAreCancelled ==
    ASSUME Timely, RegistryInv, TimingInv, TranscriptInv, VerdictInv, SavedStays, Turning
    PROVE  LosersAreCancelled'
<1>0. TypeOK /\ OpenTurnsHaveTheSession /\ LosersAreCancelled
    BY DEF RegistryInv, TimingInv, VerdictInv
<1> SUFFICES ASSUME NEW n \in Turns, pc'[n] \in Unsettled, session'.active # n
             PROVE  Saved("cancel", n)'
    BY DEF LosersAreCancelled
<1>1. CASE Start
    <2> DEFINE t == latest + 1
    <2>1. /\ session.active = 0 /\ session'.active = t /\ pc' = [pc EXCEPT ![t] = "prepared"]
          /\ UNCHANGED <<channel, stops, restopped>> /\ t \in Turns
        BY <1>1, <1>0 DEF Start, Store, Goto, TypeOK, Session, logs
    <2>2. pc'[n] = IF n = t THEN "prepared" ELSE pc[n]
        BY <2>1, <1>0 DEF TypeOK
    <2>3. pc[n] \in Unsettled /\ session.active # n
        BY <2>1, <2>2 DEF Unsettled, WithAgent, Turns
    <2> QED BY <2>3, <1>0 DEF LosersAreCancelled, SavedStays
<1>2. CASE Crash
    BY <1>2, <1>0 DEF Crash, Unsettled, WithAgent, HoldsSessionLock, Writeback, NoStop
<1>3. CASE Still
    BY <1>3, <1>0 DEF Still, LosersAreCancelled, SavedStays
<1>4. CASE RepairTakes
    <2>1. session.active # n /\ pc[n] \in Unsettled
        BY <1>4 DEF RepairTakes, Unsettled, WithAgent
    <2> QED BY <2>1, <1>0 DEF LosersAreCancelled, SavedStays
<1>5. ASSUME NEW m \in Turns, Passes(m)
      PROVE  Saved("cancel", n)'
    <2>1. session.active # n /\ pc[n] \in Unsettled
        <3>1. CASE m = n
            <4>1. pc'[n] \notin {"merged", "unlaunched"}
                BY DEF Unsettled, WithAgent
            <4>2. session.active # n
                BY <1>5, <3>1, <4>1 DEF Passes
            <4>3. pc[n] # "prepared"
                BY <4>2, <1>0 DEF OpenTurnsHaveTheSession
            <4> QED BY <1>5, <3>1, <4>2, <4>3 DEF Passes, Advances, Unsettled, WithAgent
        <3>2. CASE m # n
            BY <1>5, <3>2 DEF Passes
        <3> QED BY <3>1, <3>2
    <2> QED BY <2>1, <1>0 DEF LosersAreCancelled, SavedStays
<1>6. ASSUME NEW m \in Turns, NEW event \in Closing, EndsWith(m, event)
      PROVE  Saved("cancel", n)'
    <2>1. m # n
        BY <1>6 DEF EndsWith, Unsettled, WithAgent
    <2>2. session.active # n /\ pc[n] \in Unsettled
        BY <1>6, <2>1 DEF EndsWith
    <2> QED BY <2>2, <1>0 DEF LosersAreCancelled, SavedStays
<1>7. ASSUME NEW k \in Stops, StopSignals(k)
      PROVE  Saved("cancel", n)'
    BY <1>7, <1>0 DEF StopSignals, LosersAreCancelled, SavedStays
<1>8. ASSUME NEW k \in Stops, StopEmits(k)
      PROVE  Saved("cancel", n)'
    BY <1>8, <1>0 DEF StopEmits, LosersAreCancelled, SavedStays
<1>9. ASSUME NEW k \in Stops, NEW t \in Turns, StopClaims(k, t)
      PROVE  Saved("cancel", n)'
    BY <1>9, <1>0 DEF StopClaims, LosersAreCancelled, SavedStays
<1>10. ASSUME NEW k \in Stops, NEW t \in Turns, StopTakes(k, t)
      PROVE  Saved("cancel", n)'
    <2>1. CASE session.active = n
        BY <1>10, <2>1 DEF StopTakes
    <2>2. CASE session.active # n
        BY <1>10, <2>2, <1>0 DEF StopTakes, LosersAreCancelled, SavedStays
    <2> QED BY <2>1, <2>2
<1> QED
    BY <1>1, <1>2, <1>3, <1>4, <1>5, <1>6, <1>7, <1>8, <1>9, <1>10 DEF Turning

\* Nobody takes the writeback from a worker that holds the lock.
LEMMA NextWritersOwnTheWriteback ==
    ASSUME Timely, RegistryInv, TimingInv, TranscriptInv, VerdictInv, SavedStays, Turning
    PROVE  WritersOwnTheWriteback'
<1>0. TypeOK /\ ActiveOwnsWriteback /\ WritersOwnTheWriteback
    BY DEF RegistryInv, TimingInv, VerdictInv
<1> SUFFICES ASSUME NEW n \in Turns, pc'[n] \in HoldsSessionLock
             PROVE  wbOwner' = n
    BY DEF WritersOwnTheWriteback
<1>1. CASE Start
    <2> DEFINE t == latest + 1
    <2>1. /\ session.active = 0 /\ session'.active = t /\ pc' = [pc EXCEPT ![t] = "prepared"]
          /\ UNCHANGED <<channel, stops, restopped>> /\ t \in Turns
        BY <1>1, <1>0 DEF Start, Store, Goto, TypeOK, Session, logs
    <2>2. pc'[n] = IF n = t THEN "prepared" ELSE pc[n]
        BY <2>1, <1>0 DEF TypeOK
    <2>3. pc[n] \in HoldsSessionLock
        BY <2>2 DEF HoldsSessionLock
    <2> QED BY <1>1, <2>3 DEF Start, LockFree
<1>2. CASE Crash
    BY <1>2, <1>0 DEF Crash, Unsettled, WithAgent, HoldsSessionLock, Writeback, NoStop
<1>3. CASE Still
    BY <1>3, <1>0 DEF Still, WritersOwnTheWriteback
<1>4. CASE RepairTakes
    BY <1>4, <1>0 DEF RepairTakes, WritersOwnTheWriteback
<1>5. ASSUME NEW m \in Turns, Passes(m)
      PROVE  wbOwner' = n
    <2>1. CASE m = n
        <3>1. pc[n] \in HoldsSessionLock \/ (pc[n] = "writing" /\ session.active = n)
            BY <1>5, <2>1 DEF Passes, Advances, HoldsSessionLock, Unsettled, WithAgent
        <3>2. wbOwner = n
            BY <3>1, <1>0 DEF WritersOwnTheWriteback, ActiveOwnsWriteback, Unsettled
        <3> QED BY <1>5, <2>1, <3>2 DEF Passes, HoldsSessionLock
    <2>2. CASE m # n
        BY <1>5, <2>2, <1>0 DEF Passes, WritersOwnTheWriteback
    <2> QED BY <2>1, <2>2
<1>6. ASSUME NEW m \in Turns, NEW event \in Closing, EndsWith(m, event)
      PROVE  wbOwner' = n
    <2>1. m # n
        BY <1>6 DEF EndsWith, HoldsSessionLock
    <2> QED BY <1>6, <2>1, <1>0 DEF EndsWith, WritersOwnTheWriteback
<1>7. ASSUME NEW k \in Stops, StopSignals(k)
      PROVE  wbOwner' = n
    BY <1>7, <1>0 DEF StopSignals, registries, WritersOwnTheWriteback
<1>8. ASSUME NEW k \in Stops, StopEmits(k)
      PROVE  wbOwner' = n
    BY <1>8, <1>0 DEF StopEmits, registries, WritersOwnTheWriteback
<1>9. ASSUME NEW k \in Stops, NEW t \in Turns, StopClaims(k, t)
      PROVE  wbOwner' = n
    BY <1>9, <1>0 DEF StopClaims, WritersOwnTheWriteback
<1>10. ASSUME NEW k \in Stops, NEW t \in Turns, StopTakes(k, t)
      PROVE  wbOwner' = n
    BY <1>10, <1>0 DEF StopTakes, WritersOwnTheWriteback
<1> QED
    BY <1>1, <1>2, <1>3, <1>4, <1>5, <1>6, <1>7, <1>8, <1>9, <1>10 DEF Turning

\* A worker that settles has logged that its turn is completed.
LEMMA NextSettlingIsCompleted ==
    ASSUME Timely, RegistryInv, TimingInv, TranscriptInv, VerdictInv, SavedStays, Turning
    PROVE  SettlingIsCompleted'
<1>0. TypeOK /\ SettlingIsCompleted
    BY DEF RegistryInv, TimingInv, VerdictInv
<1> SUFFICES ASSUME NEW n \in Turns, pc'[n] \in {"settling", "committed"}
             PROVE  "completed" \in Events(n)'
    BY DEF SettlingIsCompleted
<1>1. CASE Start
    <2> DEFINE t == latest + 1
    <2>1. /\ session.active = 0 /\ session'.active = t /\ pc' = [pc EXCEPT ![t] = "prepared"]
          /\ UNCHANGED <<channel, stops, restopped>> /\ t \in Turns
        BY <1>1, <1>0 DEF Start, Store, Goto, TypeOK, Session, logs
    <2>2. pc'[n] = IF n = t THEN "prepared" ELSE pc[n]
        BY <2>1, <1>0 DEF TypeOK
    <2> QED BY <2>2, <1>0 DEF SettlingIsCompleted, SavedStays
<1>2. CASE Crash
    BY <1>2, <1>0 DEF Crash, Unsettled, WithAgent, HoldsSessionLock, Writeback, NoStop
<1>3. CASE Still
    BY <1>3, <1>0 DEF Still, SettlingIsCompleted, SavedStays
<1>4. CASE RepairTakes
    BY <1>4, <1>0 DEF RepairTakes, SettlingIsCompleted, SavedStays
<1>5. ASSUME NEW m \in Turns, Passes(m)
      PROVE  "completed" \in Events(n)'
    <2>1. CASE m = n
        <3>1. pc[n] = "settling" \/ "completed" \in Events(n)'
            BY <1>5, <2>1 DEF Passes, Advances, Unsettled, WithAgent
        <3> QED BY <3>1, <1>0 DEF SettlingIsCompleted, SavedStays
    <2>2. CASE m # n
        BY <1>5, <2>2, <1>0 DEF Passes, SettlingIsCompleted, SavedStays
    <2> QED BY <2>1, <2>2
<1>6. ASSUME NEW m \in Turns, NEW event \in Closing, EndsWith(m, event)
      PROVE  "completed" \in Events(n)'
    <2>1. m # n
        BY <1>6 DEF EndsWith
    <2> QED BY <1>6, <2>1, <1>0 DEF EndsWith, SettlingIsCompleted, SavedStays
<1>7. ASSUME NEW k \in Stops, StopSignals(k)
      PROVE  "completed" \in Events(n)'
    BY <1>7, <1>0 DEF StopSignals, SettlingIsCompleted, SavedStays
<1>8. ASSUME NEW k \in Stops, StopEmits(k)
      PROVE  "completed" \in Events(n)'
    BY <1>8, <1>0 DEF StopEmits, SettlingIsCompleted, SavedStays
<1>9. ASSUME NEW k \in Stops, NEW t \in Turns, StopClaims(k, t)
      PROVE  "completed" \in Events(n)'
    BY <1>9, <1>0 DEF StopClaims, SettlingIsCompleted, SavedStays
<1>10. ASSUME NEW k \in Stops, NEW t \in Turns, StopTakes(k, t)
      PROVE  "completed" \in Events(n)'
    BY <1>10, <1>0 DEF StopTakes, SettlingIsCompleted, SavedStays
<1> QED
    BY <1>1, <1>2, <1>3, <1>4, <1>5, <1>6, <1>7, <1>8, <1>9, <1>10 DEF Turning

\* A turn that is open, or being written back, has no closing event yet.
LEMMA NextChannelsAreQuiet ==
    ASSUME Timely, RegistryInv, TimingInv, TranscriptInv, VerdictInv, SavedStays, Turning
    PROVE  ChannelsAreQuiet'
<1>0. /\ TypeOK
      /\ TurnsBeginInOrder
      /\ StopsAreOfOpenTurns
      /\ DiskFollows
      /\ OpenTurnsHaveTheSession
      /\ ChannelsAreQuiet
      /\ StopsHaveSettled
    BY DEF RegistryInv, TimingInv, VerdictInv
<1> DEFINE QuietAfter(n) ==
           /\ session'.active = n \/ pc'[n] \in {"none"} \cup Writeback => channel'[n] = {}
           /\ pc'[n] \in Unsettled => channel'[n] \subseteq {"cancel"}
<1> SUFFICES ASSUME NEW n \in Turns
             PROVE  QuietAfter(n)
    BY DEF ChannelsAreQuiet
<1>1. CASE Start
    <2> DEFINE t == latest + 1
    <2>1. /\ session.active = 0 /\ session'.active = t /\ pc' = [pc EXCEPT ![t] = "prepared"]
          /\ UNCHANGED <<channel, stops, restopped>> /\ t \in Turns
        BY <1>1, <1>0 DEF Start, Store, Goto, TypeOK, Session, logs
    <2>2. pc'[n] = IF n = t THEN "prepared" ELSE pc[n]
        BY <2>1, <1>0 DEF TypeOK
    <2>3. CASE n = t
        <3>1. pc[n] = "none"
            BY <2>3, <1>0 DEF TurnsBeginInOrder, TypeOK, Turn0
        <3> QED BY <2>1, <3>1, <1>0 DEF ChannelsAreQuiet
    <2>4. CASE n # t
        <3>1. session'.active # n /\ pc'[n] = pc[n] /\ channel'[n] = channel[n]
            BY <2>1, <2>2, <2>4
        <3> QED BY <3>1, <1>0 DEF ChannelsAreQuiet
    <2> QED BY <2>3, <2>4
<1>2. CASE Crash
    <2>1. /\ channel' = channel /\ session' = disk
          /\ pc'[n] \notin Unsettled \cup Writeback /\ (pc'[n] = "none" => pc[n] = "none")
        BY <1>2 DEF Crash, logs, Unsettled, WithAgent, Writeback
    <2>2. ASSUME disk.active = n PROVE session.active = n \/ pc[n] = "merged"
        BY <2>2, <1>0 DEF DiskFollows
    <2> QED BY <2>1, <2>2, <1>0 DEF ChannelsAreQuiet, Writeback
<1>3. CASE Still
    BY <1>3, <1>0 DEF Still, ChannelsAreQuiet
<1>4. CASE RepairTakes
    BY <1>4, <1>0 DEF RepairTakes, ChannelsAreQuiet, Turns
<1>5. ASSUME NEW m \in Turns, Passes(m)
      PROVE  QuietAfter(n)
    <2>1. channel' = channel /\ (session'.active = n => session.active = n)
        BY <1>5 DEF Passes, Turns
    <2>2. CASE m = n
        <3>1. session.active = n \/ pc[n] \in Unsettled \cup Writeback
                 \/ pc'[n] \notin {"none"} \cup Writeback \cup Unsettled
            BY <1>5, <2>2, <1>0 DEF Passes, Advances, OpenTurnsHaveTheSession, Unsettled, WithAgent,
               Writeback
        <3>2. CASE session.active = n
            BY <2>1, <3>2, <1>0 DEF ChannelsAreQuiet
        <3>3. CASE session.active # n /\ pc[n] \in Writeback
            BY <2>1, <3>3, <1>0 DEF ChannelsAreQuiet
        <3>4. CASE session.active # n /\ pc[n] \in Unsettled \ Writeback
            <4>1. pc'[n] \notin {"none"} \cup Writeback
                BY <1>5, <2>2, <3>4 DEF Passes, Advances, Unsettled, WithAgent, Writeback
            <4> QED BY <2>1, <3>4, <4>1, <1>0 DEF ChannelsAreQuiet
        <3> QED BY <2>1, <3>1, <3>2, <3>3, <3>4
    <2>3. CASE m # n
        <3>1. pc'[n] = pc[n]
            BY <1>5, <2>3 DEF Passes
        <3> QED BY <2>1, <3>1, <1>0 DEF ChannelsAreQuiet
    <2> QED BY <2>2, <2>3
<1>6. ASSUME NEW m \in Turns, NEW event \in Closing, EndsWith(m, event)
      PROVE  QuietAfter(n)
    <2>1. CASE m = n
        BY <1>6, <2>1 DEF EndsWith, Unsettled, WithAgent, Writeback, Turns
    <2>2. CASE m # n
        <3>1. /\ pc'[n] = pc[n] /\ channel'[n] = channel[n]
              /\ session'.active = n => session.active = n
            BY <1>6, <2>2 DEF EndsWith, Turns
        <3> QED BY <3>1, <1>0 DEF ChannelsAreQuiet
    <2> QED BY <2>1, <2>2
<1>7. ASSUME NEW k \in Stops, StopSignals(k)
      PROVE  QuietAfter(n)
    BY <1>7, <1>0 DEF StopSignals, logs, ChannelsAreQuiet
<1>8. ASSUME NEW k \in Stops, StopEmits(k)
      PROVE  QuietAfter(n)
    <2>1. session' = session /\ pc' = pc
        BY <1>8 DEF StopEmits
    <2>2. CASE n = stops[k].turn
        <3>1. session.active # n /\ pc[n] \notin {"none"} \cup Writeback
            BY <1>8, <2>2, <1>0 DEF StopEmits, StopsAreOfOpenTurns, StopsHaveSettled
        <3>2. channel'[n] \subseteq channel[n] \cup {"cancel"}
            BY <1>8, <2>2, <1>0 DEF StopEmits, TypeOK
        <3> QED BY <2>1, <3>1, <3>2, <1>0 DEF ChannelsAreQuiet
    <2>3. CASE n # stops[k].turn
        <3>1. channel'[n] = channel[n]
            BY <1>8, <2>3, <1>0 DEF StopEmits, TypeOK
        <3> QED BY <2>1, <3>1, <1>0 DEF ChannelsAreQuiet
    <2> QED BY <2>2, <2>3
<1>9. ASSUME NEW k \in Stops, NEW t \in Turns, StopClaims(k, t)
      PROVE  QuietAfter(n)
    BY <1>9, <1>0 DEF StopClaims, logs, ChannelsAreQuiet
<1>10. ASSUME NEW k \in Stops, NEW t \in Turns, StopTakes(k, t)
      PROVE  QuietAfter(n)
    <2>1. pc' = pc /\ channel' = channel /\ (session'.active = n => session.active = n)
        BY <1>10 DEF StopTakes, Turns
    <2> QED BY <2>1, <1>0 DEF ChannelsAreQuiet
<1> QED
    BY <1>1, <1>2, <1>3, <1>4, <1>5, <1>6, <1>7, <1>8, <1>9, <1>10 DEF Turning

\* What a Stop has settled stays settled, and its turn gets no other event.
LEMMA NextStopsHaveSettled ==
    ASSUME Timely, RegistryInv, TimingInv, TranscriptInv, VerdictInv, SavedStays, Turning,
           TypeOK'
    PROVE  StopsHaveSettled'
<1>0. /\ TypeOK
      /\ StopsAreOfOpenTurns
      /\ ActiveIsUnsettled
      /\ StopsHaveSettled
      /\ ChannelsAreQuiet
    BY DEF RegistryInv, TimingInv, VerdictInv
<1> DEFINE SettledAfter(n) ==
           Saved("cancel", n)' /\ channel'[n] \subseteq {"cancel"} /\ pc'[n] \notin Writeback
<1> SUFFICES ASSUME NEW k \in Stops, stops'[k].pc = "settled", NEW n \in Turns, n = stops'[k].turn
             PROVE  SettledAfter(n)
    BY DEF StopsHaveSettled, TypeOK
<1>1. CASE Start
    <2> DEFINE t == latest + 1
    <2>1. /\ session.active = 0 /\ session'.active = t /\ pc' = [pc EXCEPT ![t] = "prepared"]
          /\ UNCHANGED <<channel, stops, restopped>> /\ t \in Turns
        BY <1>1, <1>0 DEF Start, Store, Goto, TypeOK, Session, logs
    <2>2. pc'[n] = IF n = t THEN "prepared" ELSE pc[n]
        BY <2>1, <1>0 DEF TypeOK
    <2>3. /\ Saved("cancel", n) /\ channel[n] \subseteq {"cancel"} /\ pc[n] \notin Writeback
        BY <2>1, <1>0 DEF StopsHaveSettled
    <2> QED BY <2>1, <2>2, <2>3 DEF SavedStays, Writeback
<1>2. CASE Crash
    BY <1>2 DEF Crash, NoStop
<1>3. CASE Still
    BY <1>3, <1>0 DEF Still, StopsHaveSettled, SavedStays
<1>4. CASE RepairTakes
    BY <1>4, <1>0 DEF RepairTakes, StopsHaveSettled, SavedStays
<1>5. ASSUME NEW m \in Turns, Passes(m)
      PROVE  SettledAfter(n)
    <2>1. stops' = stops /\ channel' = channel
        BY <1>5 DEF Passes
    <2>2. /\ Saved("cancel", n) /\ channel[n] \subseteq {"cancel"} /\ pc[n] \notin Writeback
          /\ session.active # n
        BY <2>1, <1>0 DEF StopsHaveSettled, StopsAreOfOpenTurns
    <2>3. pc'[n] \notin Writeback
        BY <1>5, <2>2 DEF Passes, Advances, Unsettled, WithAgent, Writeback
    <2> QED BY <2>1, <2>2, <2>3 DEF SavedStays
<1>6. ASSUME NEW m \in Turns, NEW event \in Closing, EndsWith(m, event)
      PROVE  SettledAfter(n)
    <2>1. stops' = stops
        BY <1>6 DEF EndsWith
    <2>2. /\ Saved("cancel", n) /\ channel[n] \subseteq {"cancel"} /\ pc[n] \notin Writeback
          /\ session.active # n
        BY <2>1, <1>0 DEF StopsHaveSettled, StopsAreOfOpenTurns
    <2>3. channel'[n] \subseteq {"cancel"} /\ pc'[n] \notin Writeback
        BY <1>6, <2>2 DEF EndsWith, Writeback
    <2> QED BY <2>2, <2>3 DEF SavedStays
<1>7. ASSUME NEW j \in Stops, StopSignals(j)
      PROVE  SettledAfter(n)
    <2>1. stops'[k] = stops[k] /\ pc' = pc /\ channel' = channel
        BY <1>7, <1>0 DEF StopSignals, TypeOK, logs
    <2> QED BY <2>1, <1>0 DEF StopsHaveSettled, SavedStays
<1>8. ASSUME NEW j \in Stops, StopEmits(j)
      PROVE  SettledAfter(n)
    <2>1. stops'[k] = stops[k] /\ pc' = pc /\ channel'[n] \subseteq channel[n] \cup {"cancel"}
        BY <1>8, <1>0 DEF StopEmits, TypeOK, NoStop
    <2> QED BY <2>1, <1>0 DEF StopsHaveSettled, SavedStays
<1>9. ASSUME NEW j \in Stops, NEW t \in Turns, StopClaims(j, t)
      PROVE  SettledAfter(n)
    <2>1. stops'[k] = stops[k] /\ pc' = pc /\ channel' = channel
        BY <1>9, <1>0 DEF StopClaims, TypeOK, logs
    <2> QED BY <2>1, <1>0 DEF StopsHaveSettled, SavedStays
<1>10. ASSUME NEW j \in Stops, NEW t \in Turns, StopTakes(j, t)
      PROVE  SettledAfter(n)
    <2>1. pc' = pc /\ channel' = channel
        BY <1>10 DEF StopTakes
    <2>2. CASE k # j
        <3>1. stops'[k] = stops[k]
            BY <1>10, <2>2, <1>0 DEF StopTakes, TypeOK
        <3> QED BY <2>1, <3>1, <1>0 DEF StopsHaveSettled, SavedStays
    <2>3. CASE k = j
        <3>1. stops' = [stops EXCEPT ![j].pc = "settled"]
            BY <1>10, <2>3, <1>0 DEF StopTakes, TypeOK, NoStop
        <3>2. stops'[k].turn = stops[k].turn
            BY <2>3, <3>1, <1>0 DEF TypeOK, Stop
        <3>3. n = t
            BY <1>10, <2>3, <3>2 DEF StopTakes
        <3>4. session.active = n /\ Saved("cancel", n)' /\ pc[n] \notin HoldsSessionLock
            BY <1>10, <2>3, <3>3, <1>0 DEF StopTakes, TypeOK, NoStop
        <3>5. channel[n] = {}
            BY <3>4, <1>0 DEF ChannelsAreQuiet
        <3>6. pc[n] \notin Writeback
            BY <3>4, <1>0 DEF ActiveIsUnsettled, Unsettled, WithAgent, Writeback, HoldsSessionLock
        <3> QED BY <2>1, <3>4, <3>5, <3>6
    <2> QED BY <2>2, <2>3
<1> QED
    BY <1>1, <1>2, <1>3, <1>4, <1>5, <1>6, <1>7, <1>8, <1>9, <1>10 DEF Turning

\* An event is put on a channel that has none, and what it says is saved.
LEMMA NextVerdictsAreSaved ==
    ASSUME Timely, RegistryInv, TimingInv, TranscriptInv, VerdictInv, SavedStays, Turning
    PROVE  VerdictsAreSaved'
<1>0. TypeOK /\ VerdictsAreSaved /\ ChannelsAreQuiet /\ StopsHaveSettled
    BY DEF RegistryInv, TimingInv, VerdictInv
<1> DEFINE SavedAfter(n) ==
           /\ \A e, f \in channel'[n] : e = f
           /\ "done" \in channel'[n] => Saved("answer", n)'
           /\ "apperror" \in channel'[n] => Saved("error", n)'
           /\ "cancel" \in channel'[n] => Saved("cancel", n)' \/ "completed" \in Events(n)'
<1> SUFFICES ASSUME NEW n \in Turns
             PROVE  SavedAfter(n)
    BY DEF VerdictsAreSaved
<1>1. CASE Start
    <2>1. channel' = channel
        BY <1>1 DEF Start, logs
    <2> QED BY <2>1, <1>0 DEF VerdictsAreSaved, SavedStays
<1>2. CASE Crash
    <2>1. channel' = channel
        BY <1>2 DEF Crash, logs
    <2> QED BY <2>1, <1>0 DEF VerdictsAreSaved, SavedStays
<1>3. CASE Still
    <2>1. channel' = channel
        BY <1>3 DEF Still
    <2> QED BY <2>1, <1>0 DEF VerdictsAreSaved, SavedStays
<1>4. CASE RepairTakes
    <2>1. channel' = channel
        BY <1>4 DEF RepairTakes
    <2> QED BY <2>1, <1>0 DEF VerdictsAreSaved, SavedStays
<1>5. ASSUME NEW m \in Turns, Passes(m)
      PROVE  SavedAfter(n)
    <2>1. channel' = channel
        BY <1>5 DEF Passes
    <2> QED BY <2>1, <1>0 DEF VerdictsAreSaved, SavedStays
<1>6. ASSUME NEW m \in Turns, NEW event \in Closing, EndsWith(m, event)
      PROVE  SavedAfter(n)
    <2>1. CASE m = n
        <3>1. channel'[n] = channel[n] \cup {event}
            BY <1>6, <2>1 DEF EndsWith
        <3>2. channel[n] = {} \/ (channel[n] \subseteq {"cancel"} /\ event = "cancel")
            BY <1>6, <2>1, <1>0 DEF EndsWith, ChannelsAreQuiet
        <3>3. \A e \in channel'[n] : e = event
            BY <3>1, <3>2
        <3> QED BY <1>6, <2>1, <3>3 DEF EndsWith
    <2>2. CASE m # n
        <3>1. channel'[n] = channel[n]
            BY <1>6, <2>2 DEF EndsWith
        <3> QED BY <3>1, <1>0 DEF VerdictsAreSaved, SavedStays
    <2> QED BY <2>1, <2>2
<1>7. ASSUME NEW k \in Stops, StopSignals(k)
      PROVE  SavedAfter(n)
    <2>1. channel' = channel
        BY <1>7 DEF StopSignals, logs
    <2> QED BY <2>1, <1>0 DEF VerdictsAreSaved, SavedStays
<1>8. ASSUME NEW k \in Stops, StopEmits(k)
      PROVE  SavedAfter(n)
    <2>1. CASE n = stops[k].turn
        <3>1. channel'[n] \subseteq {"cancel"} /\ Saved("cancel", n)
            BY <1>8, <2>1, <1>0 DEF StopEmits, StopsHaveSettled, TypeOK
        <3> QED BY <3>1 DEF SavedStays
    <2>2. CASE n # stops[k].turn
        <3>1. channel'[n] = channel[n]
            BY <1>8, <2>2, <1>0 DEF StopEmits, TypeOK
        <3> QED BY <3>1, <1>0 DEF VerdictsAreSaved, SavedStays
    <2> QED BY <2>1, <2>2
<1>9. ASSUME NEW k \in Stops, NEW t \in Turns, StopClaims(k, t)
      PROVE  SavedAfter(n)
    <2>1. channel' = channel
        BY <1>9 DEF StopClaims, logs
    <2> QED BY <2>1, <1>0 DEF VerdictsAreSaved, SavedStays
<1>10. ASSUME NEW k \in Stops, NEW t \in Turns, StopTakes(k, t)
      PROVE  SavedAfter(n)
    <2>1. channel' = channel
        BY <1>10 DEF StopTakes
    <2> QED BY <2>1, <1>0 DEF VerdictsAreSaved, SavedStays
<1> QED
    BY <1>1, <1>2, <1>3, <1>4, <1>5, <1>6, <1>7, <1>8, <1>9, <1>10 DEF Turning

\* A second Stop of an open turn meets the first: otherwise, it detached the channel.
LEMMA NextStopsHoldTheChannel ==
    ASSUME Timely, RegistryInv, TimingInv, TranscriptInv, VerdictInv, SavedStays, Turning,
           TypeOK'
    PROVE  StopsHoldTheChannel'
<1>0. /\ TypeOK
      /\ TurnsBeginInOrder
      /\ StopsAreOfOpenTurns
      /\ RegistriesFollowWorkers
      /\ DetachedIsStopped
      /\ StopsHoldTheChannel
    BY DEF RegistryInv, TimingInv, VerdictInv
<1> SUFFICES ASSUME NEW k \in Stops, NEW n \in Turns, n = stops'[k].turn, stops'[k].pc # "idle",
                    n \notin restopped', session'.active = n \/ stops'[k].pc = "settled"
             PROVE  stops'[k].channel
    BY DEF StopsHoldTheChannel, TypeOK
<1>1. CASE Start
    <2> DEFINE t == latest + 1
    <2>1. /\ session.active = 0 /\ session'.active = t /\ pc' = [pc EXCEPT ![t] = "prepared"]
          /\ UNCHANGED <<channel, stops, restopped>> /\ t \in Turns
        BY <1>1, <1>0 DEF Start, Store, Goto, TypeOK, Session, logs
    <2>2. pc'[n] = IF n = t THEN "prepared" ELSE pc[n]
        BY <2>1, <1>0 DEF TypeOK
    <2>3. pc[t] = "none"
        BY <2>1, <1>0 DEF TurnsBeginInOrder, TypeOK, Turn0
    <2>4. n # t
        BY <2>1, <2>3, <1>0 DEF StopsAreOfOpenTurns
    <2> QED BY <2>1, <2>4, <1>0 DEF StopsHoldTheChannel
<1>2. CASE Crash
    BY <1>2 DEF Crash, NoStop
<1>3. CASE Still
    <2>1. stops'[k] = stops[k] /\ restopped' = restopped /\ (session'.active = n => session.active = n)
        BY <1>3, <1>0 DEF Still
    <2> QED BY <2>1, <1>0 DEF StopsHoldTheChannel
<1>4. CASE RepairTakes
    <2>1. stops'[k] = stops[k] /\ restopped' = restopped /\ (session'.active = n => session.active = n)
        BY <1>4, <1>0 DEF RepairTakes, Turns
    <2> QED BY <2>1, <1>0 DEF StopsHoldTheChannel
<1>5. ASSUME NEW m \in Turns, Passes(m)
      PROVE  stops'[k].channel
    <2>1. stops'[k] = stops[k] /\ restopped' = restopped /\ (session'.active = n => session.active = n)
        BY <1>5, <1>0 DEF Passes, Turns
    <2> QED BY <2>1, <1>0 DEF StopsHoldTheChannel
<1>6. ASSUME NEW m \in Turns, NEW event \in Closing, EndsWith(m, event)
      PROVE  stops'[k].channel
    <2>1. stops'[k] = stops[k] /\ restopped' = restopped /\ (session'.active = n => session.active = n)
        BY <1>6, <1>0 DEF EndsWith, Turns
    <2> QED BY <2>1, <1>0 DEF StopsHoldTheChannel
<1>7. ASSUME NEW j \in Stops, StopSignals(j)
      PROVE  stops'[k].channel
    <2>1. session' = session /\ restopped' = restopped
        BY <1>7 DEF StopSignals
    <2>2. CASE k = j
        <3>1. /\ stops'[k].turn = stops[k].turn /\ stops'[k].channel = stops[k].channel
              /\ stops'[k].pc = "signalled" /\ stops[k].pc = "claimed"
            BY <1>7, <2>2, <1>0 DEF StopSignals, TypeOK, Stop
        <3> QED BY <2>1, <3>1, <1>0 DEF StopsHoldTheChannel
    <2>3. CASE k # j
        <3>1. stops'[k] = stops[k]
            BY <1>7, <2>3, <1>0 DEF StopSignals, TypeOK
        <3> QED BY <2>1, <3>1, <1>0 DEF StopsHoldTheChannel
    <2> QED BY <2>2, <2>3
<1>8. ASSUME NEW j \in Stops, StopEmits(j)
      PROVE  stops'[k].channel
    <2>1. session' = session /\ restopped' = restopped /\ stops'[k] = stops[k]
        BY <1>8, <1>0 DEF StopEmits, TypeOK, NoStop, history
    <2> QED BY <2>1, <1>0 DEF StopsHoldTheChannel
<1>9. ASSUME NEW j \in Stops, NEW t \in Turns, StopClaims(j, t)
      PROVE  stops'[k].channel
    <2>1. session' = session /\ restopped \subseteq restopped'
        BY <1>9 DEF StopClaims
    <2>2. CASE k = j
        <3>1. /\ stops'[k].turn = t /\ stops'[k].channel = (t \in streams)
              /\ stops'[k].pc = "claimed"
            BY <1>9, <2>2, <1>0 DEF StopClaims, TypeOK
        <3>2. n = t /\ session.active = n
            BY <2>1, <3>1
        <3>3. ~StopInFlight(n)
            BY <1>9, <3>2 DEF StopClaims
        <3>4. n \in streams \/ pc[n] \in Working
            BY <1>9, <3>2, <1>0 DEF StopClaims, RegistriesFollowWorkers
        <3>5. n \in streams
            BY <3>2, <3>3, <3>4, <1>0 DEF DetachedIsStopped, Open
        <3> QED BY <3>1, <3>2, <3>5
    <2>3. CASE k # j
        <3>1. stops'[k] = stops[k]
            BY <1>9, <2>3, <1>0 DEF StopClaims, TypeOK
        <3> QED BY <2>1, <3>1, <1>0 DEF StopsHoldTheChannel
    <2> QED BY <2>2, <2>3
<1>10. ASSUME NEW j \in Stops, NEW t \in Turns, StopTakes(j, t)
      PROVE  stops'[k].channel
    <2>1. restopped' = restopped /\ (session'.active = n => session.active = n)
        BY <1>10 DEF StopTakes, Turns
    <2>2. CASE k = j
        <3>1. stops' = [stops EXCEPT ![j].pc = "settled"] /\ session.active = t
            BY <1>10, <2>2, <1>0 DEF StopTakes, TypeOK, NoStop
        <3>2. stops'[k].turn = stops[k].turn /\ stops'[k].channel = stops[k].channel
            BY <2>2, <3>1, <1>0 DEF TypeOK, Stop
        <3>3. stops[k].pc = "signalled" /\ stops[k].turn = t
            BY <1>10, <2>2 DEF StopTakes
        <3> QED BY <2>1, <3>1, <3>2, <3>3, <1>0 DEF StopsHoldTheChannel
    <2>3. CASE k # j
        <3>1. stops'[k] = stops[k]
            BY <1>10, <2>3, <1>0 DEF StopTakes, TypeOK
        <3> QED BY <2>1, <3>1, <1>0 DEF StopsHoldTheChannel
    <2> QED BY <2>2, <2>3
<1> QED
    BY <1>1, <1>2, <1>3, <1>4, <1>5, <1>6, <1>7, <1>8, <1>9, <1>10 DEF Turning

\* Who takes a turn from its worker closes its channel, or is about to.
LEMMA NextSettledTurnsClose ==
    ASSUME Timely, RegistryInv, TimingInv, TranscriptInv, VerdictInv, SavedStays, Turning
    PROVE  SettledTurnsClose'
<1>0. TypeOK /\ OpenTurnsHaveTheSession /\ StopsHoldTheChannel /\ SettledTurnsClose
    BY DEF RegistryInv, TimingInv, VerdictInv
<1> DEFINE Past == Unsettled \cup {"unwinding", "tearingDown", "finished"}
           ClosedAfter(n) == \/ channel'[n] # {}
                             \/ \E k \in Stops : stops'[k].pc = "settled" /\ stops'[k].turn = n
<1> SUFFICES ASSUME NEW n \in Turns, n \notin restopped', pc'[n] \in Past, session'.active # n
             PROVE  ClosedAfter(n)
    BY DEF SettledTurnsClose
<1>1. CASE Start
    <2> DEFINE t == latest + 1
    <2>1. /\ session.active = 0 /\ session'.active = t /\ pc' = [pc EXCEPT ![t] = "prepared"]
          /\ UNCHANGED <<channel, stops, restopped>> /\ t \in Turns
        BY <1>1, <1>0 DEF Start, Store, Goto, TypeOK, Session, logs
    <2>2. pc'[n] = IF n = t THEN "prepared" ELSE pc[n]
        BY <2>1, <1>0 DEF TypeOK
    <2>3. pc[n] \in Past /\ session.active # n
        BY <2>1, <2>2 DEF Unsettled, WithAgent, Turns
    <2> QED BY <2>1, <2>3, <1>0 DEF SettledTurnsClose
<1>2. CASE Crash
    BY <1>2, <1>0 DEF Crash, Unsettled, WithAgent, HoldsSessionLock, Writeback, NoStop
<1>3. CASE Still
    <2>1. /\ channel' = channel /\ stops' = stops /\ restopped' = restopped
          /\ session.active # n /\ pc[n] \in Past
        BY <1>3, <1>0 DEF Still
    <2> QED BY <2>1, <1>0 DEF SettledTurnsClose
<1>4. CASE RepairTakes
    <2>1. /\ channel' = channel /\ stops' = stops /\ restopped' = restopped
          /\ session.active # n /\ pc[n] \in Past
        BY <1>4, <1>0 DEF RepairTakes, Unsettled, WithAgent
    <2> QED BY <2>1, <1>0 DEF SettledTurnsClose
<1>5. ASSUME NEW m \in Turns, Passes(m)
      PROVE  ClosedAfter(n)
    <2>1. channel' = channel /\ stops' = stops /\ restopped' = restopped
        BY <1>5 DEF Passes
    <2>2. CASE m = n
        <3>1. session.active # n
            BY <1>5, <2>2 DEF Passes, Unsettled, WithAgent
        <3>2. pc[n] # "prepared"
            BY <3>1, <1>0 DEF OpenTurnsHaveTheSession
        <3>3. pc[n] \in Past
            BY <1>5, <2>2, <3>1, <3>2 DEF Passes, Advances, Unsettled, WithAgent
        <3> QED BY <2>1, <3>1, <3>3, <1>0 DEF SettledTurnsClose
    <2>3. CASE m # n
        <3>1. pc[n] \in Past /\ session.active # n
            BY <1>5, <2>3 DEF Passes
        <3> QED BY <2>1, <3>1, <1>0 DEF SettledTurnsClose
    <2> QED BY <2>2, <2>3
<1>6. ASSUME NEW m \in Turns, NEW event \in Closing, EndsWith(m, event)
      PROVE  ClosedAfter(n)
    <2>1. CASE m = n
        BY <1>6, <2>1 DEF EndsWith
    <2>2. CASE m # n
        <3>1. /\ channel'[n] = channel[n] /\ stops' = stops /\ restopped' = restopped
              /\ pc[n] \in Past /\ session.active # n
            BY <1>6, <2>2 DEF EndsWith
        <3> QED BY <3>1, <1>0 DEF SettledTurnsClose
    <2> QED BY <2>1, <2>2
<1>7. ASSUME NEW k \in Stops, StopSignals(k)
      PROVE  ClosedAfter(n)
    <2>1. /\ channel' = channel /\ restopped' = restopped /\ pc' = pc /\ session' = session
          /\ \A i \in Stops : stops[i].pc = "settled" => stops'[i] = stops[i]
        BY <1>7, <1>0 DEF StopSignals, TypeOK, logs
    <2> QED BY <2>1, <1>0 DEF SettledTurnsClose
<1>8. ASSUME NEW k \in Stops, StopEmits(k)
      PROVE  ClosedAfter(n)
    <2>1. /\ pc' = pc /\ session' = session /\ restopped' = restopped /\ channel[n] \subseteq channel'[n]
          /\ \A i \in Stops : i # k => stops'[i] = stops[i]
        BY <1>8, <1>0 DEF StopEmits, TypeOK, history
    <2>2. CASE stops[k].turn = n
        <3>1. stops[k].channel
            BY <1>8, <2>1, <2>2, <1>0 DEF StopEmits, StopsHoldTheChannel
        <3> QED BY <1>8, <2>2, <3>1, <1>0 DEF StopEmits, TypeOK
    <2>3. CASE stops[k].turn # n
        BY <2>1, <2>3, <1>0 DEF SettledTurnsClose
    <2> QED BY <2>2, <2>3
<1>9. ASSUME NEW k \in Stops, NEW t \in Turns, StopClaims(k, t)
      PROVE  ClosedAfter(n)
    <2>1. /\ channel' = channel /\ restopped \subseteq restopped' /\ pc' = pc /\ session' = session
          /\ \A i \in Stops : stops[i].pc = "settled" => stops'[i] = stops[i]
        BY <1>9, <1>0 DEF StopClaims, TypeOK, logs
    <2> QED BY <2>1, <1>0 DEF SettledTurnsClose
<1>10. ASSUME NEW k \in Stops, NEW t \in Turns, StopTakes(k, t)
      PROVE  ClosedAfter(n)
    <2>1. channel' = channel /\ restopped' = restopped /\ pc' = pc
        BY <1>10 DEF StopTakes
    <2>2. CASE session.active = n
        <3>1. stops' = [stops EXCEPT ![k].pc = "settled"] /\ stops[k].turn = n
            BY <1>10, <2>2 DEF StopTakes
        <3>2. stops'[k].pc = "settled" /\ stops'[k].turn = n
            BY <3>1, <1>0 DEF TypeOK, Stop
        <3> QED BY <3>2
    <2>3. CASE session.active # n
        <3>1. \A i \in Stops : stops[i].pc = "settled" => stops'[i] = stops[i]
            BY <1>10, <1>0 DEF StopTakes, TypeOK
        <3> QED BY <2>1, <2>3, <3>1, <1>0 DEF SettledTurnsClose
    <2> QED BY <2>2, <2>3
<1> QED
    BY <1>1, <1>2, <1>3, <1>4, <1>5, <1>6, <1>7, <1>8, <1>9, <1>10 DEF Turning

-----------------------------------------------------------------------------
\* To begin with, no turn has ended.
LEMMA InitVerdictInv == Init => VerdictInv
<1> SUFFICES ASSUME Init PROVE VerdictInv
    OBVIOUS
<1>1. /\ session = EmptySession /\ disk = EmptySession
      /\ \A n \in Turns : pc[n] = "none" /\ channel[n] = {}
      /\ \A k \in Stops : stops[k].pc = "idle"
    BY DEF Init, NoStop
<1>2. LosersAreCancelled /\ WritersOwnTheWriteback /\ SettlingIsCompleted /\ SettledTurnsClose
    BY <1>1 DEF LosersAreCancelled, WritersOwnTheWriteback, SettlingIsCompleted,
       SettledTurnsClose, Unsettled, WithAgent, HoldsSessionLock
<1>3. DiskIsInMemory
    BY <1>1 DEF DiskIsInMemory
<1>4. ChannelsAreQuiet /\ VerdictsAreSaved
    BY <1>1 DEF ChannelsAreQuiet, VerdictsAreSaved
<1>5. StopsHaveSettled /\ StopsHoldTheChannel
    BY <1>1 DEF StopsHaveSettled, StopsHoldTheChannel
<1> QED BY <1>2, <1>3, <1>4, <1>5 DEF VerdictInv

\* Every step keeps the invariant.
LEMMA NextVerdictInv ==
    Timely /\ RegistryInv /\ RegistryInv' /\ TimingInv /\ TranscriptInv /\ VerdictInv
        /\ [Next]_vars => VerdictInv'
<1> SUFFICES ASSUME Timely, RegistryInv, RegistryInv', TimingInv, TranscriptInv, VerdictInv,
                    [Next]_vars
             PROVE  VerdictInv'
    OBVIOUS
<1>1. TypeOK /\ TypeOK' /\ DiskIsInMemory /\ RepairsAreRecognised
    BY DEF RegistryInv, VerdictInv, RepairsAreRecognised
<1>2. Kinds /\ AnswersMove
    BY <1>1, StepsOfTranscripts
<1>3. DiskIsInMemory' /\ SavedStays
    BY <1>1, <1>2, DiskGrows, StepsKeepSaved
<1>4. Turning
    BY <1>3, StepsTurn
<1>5. LosersAreCancelled' /\ WritersOwnTheWriteback' /\ SettlingIsCompleted'
    BY <1>3, <1>4, NextLosersAreCancelled, NextWritersOwnTheWriteback, NextSettlingIsCompleted
<1>6. ChannelsAreQuiet' /\ StopsHaveSettled' /\ VerdictsAreSaved'
    BY <1>1, <1>3, <1>4, NextChannelsAreQuiet, NextStopsHaveSettled, NextVerdictsAreSaved
<1>7. StopsHoldTheChannel' /\ SettledTurnsClose'
    BY <1>1, <1>3, <1>4, NextStopsHoldTheChannel, NextSettledTurnsClose
<1> QED BY <1>3, <1>5, <1>6, <1>7 DEF VerdictInv

(***************************************************************************)
(* The invariant behind the two results below, for any number of turns,    *)
(* Stops and restarts, when no thread stalls.                              *)
(***************************************************************************)
THEOREM VerdictsHold == Timely => (Spec => []VerdictInv)
<1> SUFFICES ASSUME Timely PROVE Spec => []VerdictInv
    OBVIOUS
<1>1. RepairsAreRecognised
    BY DEF RepairsAreRecognised
<1>2. Spec => []TranscriptInv
    BY <1>1, TranscriptsHold
<1>3. RegistryInv /\ RegistryInv' /\ TimingInv /\ TranscriptInv /\ VerdictInv /\ [Next]_vars
          => VerdictInv'
    BY NextVerdictInv
<1> QED BY <1>2, <1>3, InitVerdictInv, RepairsComeAfterWorkers, PTL DEF Spec

(***************************************************************************)
(* VerdictIsSaved, for every instance: whichever of worker, Stops and      *)
(* repair ends a turn, its client hears of one end, and it is the end that *)
(* the saved transcript shows after a reload.                              *)
(***************************************************************************)
THEOREM TheVerdictIsSaved == Timely => (Spec => []VerdictIsSaved)
<1> SUFFICES ASSUME Timely PROVE Spec => []VerdictIsSaved
    OBVIOUS
<1>1. ASSUME VerdictInv, NEW n \in Turns
      PROVE  Cardinality(channel[n]) <= 1
    <2>1. \A e, f \in channel[n] : e = f
        BY <1>1 DEF VerdictInv, VerdictsAreSaved
    <2>2. CASE channel[n] = {}
        BY <2>2, FS_EmptySet
    <2>3. ASSUME NEW e \in channel[n]
          PROVE  Cardinality(channel[n]) <= 1
        <3>1. channel[n] = {e}
            BY <2>1
        <3>2. Cardinality({e}) = 1
            BY FS_Singleton
        <3> QED BY <3>1, <3>2
    <2> QED BY <2>2, <2>3
<1>2. VerdictInv => VerdictIsSaved
    BY <1>1 DEF VerdictInv, VerdictsAreSaved, VerdictIsSaved
<1> QED BY <1>2, VerdictsHold, PTL

(***************************************************************************)
(* StreamIsClosed, for every instance: no client waits for ever on a turn  *)
(* whose worker is gone.                                                   *)
(***************************************************************************)
THEOREM EveryStreamIsClosed == Timely => (Spec => []StreamIsClosed)
<1> SUFFICES ASSUME Timely PROVE Spec => []StreamIsClosed
    OBVIOUS
<1>1. ASSUME FinishedTurnIsForgotten, VerdictInv,
             NEW n \in Turns \ restopped, IsOver(n)
      PROVE  channel[n] # {}
    <2>1. pc[n] = "finished" /\ ~StopInFlight(n) /\ session.active # n
        BY <1>1 DEF IsOver, FinishedTurnIsForgotten
    <2>2. \A k \in Stops : ~(stops[k].pc = "settled" /\ stops[k].turn = n)
        BY <2>1 DEF StopInFlight
    <2> QED BY <1>1, <2>1, <2>2 DEF VerdictInv, SettledTurnsClose
<1>2. FinishedTurnIsForgotten /\ VerdictInv => StreamIsClosed
    BY <1>1 DEF StreamIsClosed
<1> QED BY <1>2, NothingIsLeftBehind, VerdictsHold, PTL
=============================================================================
