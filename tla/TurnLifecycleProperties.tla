----------------------- MODULE TurnLifecycleProperties -----------------------
(***************************************************************************)
(* What a user of the session, and the next turn, may rely on.             *)
(***************************************************************************)
EXTENDS TurnLifecycle

RunPhases == {"none", "starting", "running", "finalizing", "cancelling"}

Stop == [pc : {"idle", "claimed", "signalled", "settled"}, turn : Turn0, channel : BOOLEAN,
         flag : BOOLEAN, agent : BOOLEAN, known : BOOLEAN]

\* The type invariant.
TypeOK ==
    /\ session \in Session /\ disk \in Session
    /\ latest \in Turn0 /\ wbOwner \in Turn0 /\ reader \in Turn0
    /\ streams \subseteq Turns /\ owners \subseteq Turns /\ agents \subseteq Turns
    /\ cancelFlags \subseteq Turns /\ cancelled \subseteq Turns
    /\ runLog \subseteq Turns /\ interrupted \subseteq Turns /\ reclaimed \subseteq Turns
    /\ restopped \subseteq Turns
    /\ runs \in [Turns -> RunPhases]
    /\ age \in [Turns -> Nat]
    /\ pendingOld \in BOOLEAN
    /\ pc \in [Turns -> PCs]
    /\ seen \in [Turns -> Seq(Rows)]
    /\ stops \in [Stops -> Stop]
    /\ \A k \in Stops : stops[k].pc # "idle" => stops[k].turn \in Turns
    /\ turnLog \in [Turns -> Seq({"completed", "interrupted"})]
    /\ channel \in [Turns -> SUBSET Closing]
    /\ stopCount \in Nat /\ crashes \in Nat

(***************************************************************************)
(* The transcript shows the turns in the order they were admitted, in      *)
(* memory and on disk: a worker that comes back late, a Stop, a repair and *)
(* a restart never write behind a newer turn's rows.                       *)
(***************************************************************************)
InTurnOrder(rows) == \A i, j \in 1..Len(rows) : i < j => rows[i].turn <= rows[j].turn

RowsInTurnOrder == InTurnOrder(session.rows) /\ InTurnOrder(disk.rows)

(***************************************************************************)
(* What the user typed is never lost: the prompt of every turn whose       *)
(* launch did not fail is the pending one or a row of the transcript, in   *)
(* memory and on disk, through every stop, failure, repair and restart.    *)
(***************************************************************************)
Keeps(s, n) == s.pending = n \/ \E i \in 1..Len(s.rows) : s.rows[i] = Row("user", n)

PromptsAreKept ==
    \A n \in 1..latest : pc[n] # "unlaunched" => Keeps(session, n) /\ Keeps(disk, n)

(***************************************************************************)
(* Nothing is shown twice: however many of the worker, the Stops and the   *)
(* repair settle a turn, and in whatever order, the transcript has one row *)
(* of a kind for it.                                                       *)
(***************************************************************************)
NothingTwice ==
    \A i, j \in 1..Len(session.rows) : session.rows[i] = session.rows[j] => i = j

(***************************************************************************)
(* Two turns run their agents at the same time only when the older one's   *)
(* row was reclaimed, 180 s after it was cancelled or started.             *)
(***************************************************************************)
AgentsDoNotOverlap ==
    \A m, n \in Turns :
        m < n /\ pc[m] \in WithAgent /\ pc[n] \in Working => m \in reclaimed

(***************************************************************************)
(* Stop reaches the agent: once the channel of a turn whose agent runs is  *)
(* gone, that agent was interrupted, or the Stop that took the handle is   *)
(* about to.  (Either the Stop finds the handle that _register_agent_if_   *)
(* current published, or _agent_can_invoke finds the turn stopped.)        *)
(***************************************************************************)
StoppedAgentIsInterrupted ==
    \A n \in Turns :
        pc[n] = "invoked" /\ n \notin streams =>
            \/ n \in interrupted
            \/ \E k \in Stops : stops[k].pc = "claimed" /\ stops[k].turn = n /\ stops[k].agent

(***************************************************************************)
(* A turn ends for its client in one way: its channel carries at most one  *)
(* of done, cancel and apperror, and what it carries is what the saved     *)
(* transcript says of the turn.                                            *)
(***************************************************************************)
Events(n) == {turnLog[n][i] : i \in 1..Len(turnLog[n])}

Saved(kind, n) == \E i \in 1..Len(disk.rows) : disk.rows[i] = Row(kind, n)

VerdictIsSaved ==
    \A n \in Turns :
        /\ Cardinality(channel[n]) <= 1
        /\ "done" \in channel[n] => Saved("answer", n)
        /\ "apperror" \in channel[n] => Saved("error", n)
        /\ "cancel" \in channel[n] => Saved("cancel", n) \/ "completed" \in Events(n)

(***************************************************************************)
(* No client waits for ever: when the worker of a turn is gone, and no     *)
(* Stop is still at work on it, its channel has its closing event.  The    *)
(* exception is a turn that was stopped twice at the same time (see        *)
(* DuplicateStopIsSafe).                                                   *)
(***************************************************************************)
IsOver(n) == pc[n] = "finished" /\ ~StopInFlight(n)

StreamIsClosed == \A n \in Turns \ restopped : IsOver(n) => channel[n] # {}

(***************************************************************************)
(* A worker that is gone leaves nothing behind: no channel, flag, handle,  *)
(* row, owner or writeback claim, and the session is free again unless the *)
(* Stop that detached the stream has yet to settle it.                     *)
(***************************************************************************)
FinishedTurnIsForgotten ==
    \A n \in Turns :
        pc[n] = "finished" =>
            /\ n \notin streams \cup cancelFlags \cup agents \cup owners
            /\ runs[n] = "none"
            /\ wbOwner # n
            /\ session.active = n => StopInFlight(n)

(***************************************************************************)
(* Whoever stops a turn can find its session: a turn with a channel or a   *)
(* row has its owner recorded, whichever of launch, worker, Stop and       *)
(* reclaim touched the registries last.                                    *)
(***************************************************************************)
RunsHaveTheirOwner == \A n \in Turns : n \in streams \/ runs[n] # "none" => n \in owners

(***************************************************************************)
(* completed in the turn journal means that the answer is on disk, and no  *)
(* answer that is on disk is ever taken away: not by a repair, a Stop, a   *)
(* restart, or the late writeback of an older turn.                        *)
(***************************************************************************)
CompletedIsOnDisk ==
    \A n \in Turns : "completed" \in Events(n) => Saved("answer", n)

SavedRowsStay ==
    [][\A n \in Turns, kind \in {"user", "answer"} : Saved(kind, n) => Saved(kind, n)']_vars
-----------------------------------------------------------------------------
(***************************************************************************)
(* What the documents say and the code does not do.                        *)
(***************************************************************************)
\* "completed is terminal" in the turn journal (docs/rfcs/turn-journal.md):
\* nothing follows it.  A Stop after the completed event and before the
\* worker's last cancel check adds interrupted.
CompletedIsTerminal ==
    \A n \in Turns : \A i \in 1..Len(turnLog[n]) : turnLog[n][i] = "completed" => i = Len(turnLog[n])

\* "cancel_stream() keeps the row as phase=cancelling" (the run state contract,
\* and active_run_is_attachable): until the worker unregisters it.  The worker
\* marks its row running without looking at its phase.
CancellingStays ==
    [][\A n \in Turns : runs[n] = "cancelling" => runs'[n] \in {"cancelling", "none"}]_vars

\* "its run journal ends in a terminal event" (the same): once the worker of a
\* stopped turn is gone.  cancel_stream does not journal its cancel event, and
\* a worker that lost the session leaves without one.
StoppedRunJournalEnds ==
    \A n \in cancelled : pc[n] = "finished" => n \in runLog

\* "Repeating cancel for the same run should be safe: one terminal result is
\* recorded" (docs/rfcs/hermes-run-adapter-contract.md).  A second Stop, which
\* has no channel, may settle the session before the first one does: the first
\* then drops its cancel event, and a worker that is past its own cancel check
\* finds that it lost the session and leaves without one.
DuplicateStopIsSafe == \A n \in restopped : IsOver(n) => channel[n] # {}
-----------------------------------------------------------------------------
(***************************************************************************)
(* Threads keep running, time passes, and clients keep asking for the      *)
(* session, which looks for a stale turn; nothing says an agent returns.   *)
(***************************************************************************)
Fairness ==
    /\ \A n \in Turns : WF_vars(LaunchStep(n)) /\ WF_vars(WorkerStep(n)) /\ WF_vars(RowAges(n))
    /\ \A k \in Stops : WF_vars(StopStep(k))
    /\ WF_vars(PendingAges)
    /\ WF_vars(ClearStaleChecks) /\ WF_vars(ClearStaleClears)

FairSpec == Spec /\ Fairness

(***************************************************************************)
(* A Stop frees the session for the next turn even if the agent never      *)
(* comes back: the turn loses the session, and its row is unregistered or  *)
(* grows too old to block a successor (the 180 s unwind ceiling).          *)
(***************************************************************************)
StopFreesTheSession ==
    \A n \in Turns :
        StopInFlight(n) ~> session.active # n /\ (runs[n] = "none" \/ PastCeiling(n))

(***************************************************************************)
(* If agents return, no turn stays pending: its worker settles it, or a    *)
(* Stop does, or, when launch, worker or server are gone, the repair.      *)
(***************************************************************************)
AgentsReturn == \A n \in Turns : []<>(pc[n] \notin WithAgent)

TurnsAreSettled == AgentsReturn => \A n \in Turns : session.active = n ~> session.active # n
=============================================================================
