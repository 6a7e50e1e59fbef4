------------------------------- MODULE Wakeups -------------------------------
(***************************************************************************)
(* How the agent of one session learns that a background task has ended:   *)
(* api/background_process.py and api/process_event_utils.py, with the      *)
(* next-turn drain and the teardown hook of api/streaming.py and the       *)
(* admission of turns in api/routes.py.                                    *)
(*                                                                         *)
(* A task is a background process or an async delegation.  Its completion  *)
(* is an event in the registry's queue.  The drain thread takes it and     *)
(* starts a turn, or defers it while a turn is active; the worker of every *)
(* turn takes along what it finds in the queue; the hook at the end of a   *)
(* turn starts a turn for the first deferred completion.  A delegation is  *)
(* also a row of the agent's durable store, which its consumers claim.     *)
(* Events are well formed and younger than the age limit of the drains.    *)
(***************************************************************************)
EXTENDS Integers, Sequences, FiniteSets, Functions

CONSTANTS
    Processes,      \* background processes of the session
    Delegations,    \* async delegations of the session
    Turns,          \* places for turns that exist at the same time
    MaxDeliveries,  \* the durable store drops a row after so many attempts
    Budgets         \* bounds: what may happen in one behaviour

Tasks == Processes \cup Delegations

ASSUME WakeupsAssumption ==
    /\ IsFiniteSet(Tasks) /\ Processes \cap Delegations = {}
    /\ MaxDeliveries \in Nat \ {0}

\* What is still due: ends of processes and delegations, messages of users,
\* troubles and crashes.
Budget == [ends : [Processes -> 0..2], delegated : SUBSET Delegations,
           users : Nat, troubles : Nat, crashes : Nat]

ASSUME BudgetsAssumption == Budgets \subseteq Budget

VARIABLES
    queue,          \* process_registry.completion_queue
    consumed,       \* process_registry._completion_consumed
    seen,           \* BG_TASK_COMPLETE_EVENTS_SEEN
    pending,        \* PENDING_BG_TASK_COMPLETIONS holds the session
    drain,          \* the local variables of the drain thread
    deferred,       \* DEFERRED_PROCESS_WAKEUPS
    runner,         \* the thread that starts a turn for a task
    turn,           \* the turns of the session that are not over
    row,            \* the durable row of a delegation
    attempts,       \* ... and the attempts it has used
    local,          \* _LEGACY_ASYNC_DELIVERY_IDS: claimed in this process
    reserved,       \* _ASYNC_DELEGATION_WAKEUP_ADMISSION_INFLIGHT
    retry,          \* _ASYNC_DELIVERY_RETRY_TIMER is armed
    delivered,      \* history: turns that brought a completion to the agent
    twice,          \* history: taken by both drains at once, or cut off before the ACK
    lost,           \* history: what a turn, a thread or the process took with it
    excused,        \* history: deferred when no turn was to come
    abandoned,      \* history: claims that a turn left behind
    spent,          \* history: claims that were neither delivered nor refunded
    due             \* bound: what may still happen

threads == <<drain, runner, turn>>

marks == <<consumed, seen, pending>>

store == <<row, attempts, spent>>

lane == <<local, reserved, retry, abandoned>>

history == <<delivered, twice, lost, excused>>

vars == <<queue, marks, threads, deferred, store, lane, history, due>>

NoTask == "no task"

User == "user"

ASSUME NoTaskAssumption == NoTask \notin Tasks /\ User \notin Tasks

NoTurn == [pc |-> "free", wakeup |-> NoTask, task |-> NoTask, notes |-> {}, claims |-> {},
           skipped |-> <<>>, hand |-> <<>>]

Idle == [pc |-> "idle", task |-> NoTask]

Init ==
    /\ queue = <<>> /\ deferred = <<>>
    /\ consumed = {} /\ seen = {} /\ pending = FALSE
    /\ drain = Idle
    /\ runner = [x \in Tasks |-> "none"]
    /\ turn = [t \in Turns |-> NoTurn]
    /\ row = [d \in Delegations |-> "running"]
    /\ attempts = [d \in Delegations |-> 0]
    /\ spent = [d \in Delegations |-> 0]
    /\ local = {} /\ reserved = NoTask /\ retry = FALSE /\ abandoned = {}
    /\ delivered = [x \in Tasks |-> 0]
    /\ twice = {} /\ lost = {} /\ excused = {}
    /\ due \in Budgets

\* Something goes wrong that seldom does.
Trouble ==
    /\ due.troubles > 0
    /\ due' = [due EXCEPT !.troubles = @ - 1]
-----------------------------------------------------------------------------
(***************************************************************************)
(* Turns, as far as completions see them.                                  *)
(***************************************************************************)
Live == {"admitted", "draining", "calling", "accepted", "working"}

Busy_Unwinding == \E t \in Turns : turn[t].pc \in Live \cup {"closed"}

\* _session_has_active_turn: a stream that is published or a row of ACTIVE_RUNS.
Busy == \E t \in Turns : turn[t].pc \in Live

\* _start_chat_stream_for_session answers 409 from the moment a turn has saved
\* its stream id, which is before it publishes the stream.
Blocked == \E t \in Turns : turn[t].pc \in Live \cup {"admitting"}

\* The worker of turn t will still look for deferred wakeups.
WillLook(t) == turn[t].pc \in Live \cup {"admitting", "closed", "hook"}

HookToCome == \E t \in Turns : WillLook(t)

\* ... or some thread will start a turn, unless that is refused for good.
Awaited ==
    \/ HookToCome
    \/ \E t \in Turns : turn[t].pc = "redefer"
    \/ \E x \in Tasks : runner[x] = "starting"

FreeTurns == {t \in Turns : turn[t] = NoTurn}

Admit(w) ==
    /\ ~Blocked
    /\ FreeTurns # {}
    /\ LET t == CHOOSE u \in FreeTurns : TRUE
       IN  turn' = [turn EXCEPT ![t] = [NoTurn EXCEPT !.pc = "admitting", !.wakeup = w]]
    /\ pending' = FALSE

\* A user sends a message.
UserStarts ==
    /\ due.users > 0
    /\ due' = [due EXCEPT !.users = @ - 1]
    /\ Admit(User)
    /\ UNCHANGED <<queue, consumed, seen, drain, runner, deferred, store, lane, history>>

\* run_registry.open_stream, and the worker's thread starts.
OpenStream(t) ==
    /\ turn[t].pc = "admitting"
    /\ turn' = [turn EXCEPT ![t].pc = "admitted"]
    /\ UNCHANGED <<queue, marks, drain, runner, deferred, store, lane, history, due>>

Close(t) == turn' = [turn EXCEPT ![t] = [NoTurn EXCEPT !.pc = "closed"]]

\* The worker's finally: the stream and the row of ACTIVE_RUNS go.
Finish(t) ==
    /\ turn[t].pc \in {"working", "orphaned"}
    /\ Close(t)
    /\ UNCHANGED <<queue, marks, drain, runner, deferred, store, lane, history, due>>

\* A turn fails, or is stopped, before its agent is called: the completions it
\* has consumed go with it, and nobody releases its claims.
StopEarly(t) ==
    /\ turn[t].pc \in {"admitted", "calling", "accepted"}
    /\ Trouble
    /\ Close(t)
    /\ lost' = lost \cup turn[t].notes
    /\ abandoned' = abandoned \cup turn[t].claims
    /\ spent' = [d \in Delegations |-> IF d \in turn[t].claims THEN spent[d] + 1 ELSE spent[d]]
    /\ UNCHANGED <<queue, marks, drain, runner, deferred, row, attempts, local, reserved, retry,
                   delivered, twice, excused>>

\* A stopped turn whose worker does not come back: its row is dropped from
\* ACTIVE_RUNS when the unwind window is over.
Orphan(t) ==
    /\ turn[t].pc = "working"
    /\ Trouble
    /\ turn' = [turn EXCEPT ![t].pc = "orphaned"]
    /\ excused' = IF \E u \in Turns \ {t} : WillLook(u)
                  THEN excused ELSE excused \cup Range(deferred)
    /\ UNCHANGED <<queue, marks, drain, runner, deferred, store, lane, delivered, twice, lost>>
-----------------------------------------------------------------------------
(***************************************************************************)
(* Tasks end.  A kill and the reader thread may both report a process.     *)
(***************************************************************************)
\* requeue_async_delegation_event puts without looking.
Enqueue(d) == Append(queue, d)

ProcessEnds(x) ==
    /\ due.ends[x] > 0
    /\ due' = [due EXCEPT !.ends[x] = @ - 1]
    /\ queue' = Append(queue, x)
    /\ UNCHANGED <<marks, threads, deferred, store, lane, history>>

DelegationEnds(d) ==
    /\ d \in due.delegated
    /\ due' = [due EXCEPT !.delegated = @ \ {d}]
    /\ row' = [row EXCEPT ![d] = "pending"]
    /\ queue' = Enqueue(d)
    /\ UNCHANGED <<marks, threads, deferred, attempts, spent, lane, history>>
-----------------------------------------------------------------------------
(***************************************************************************)
(* Deferred wakeups.                                                       *)
(***************************************************************************)
Record(x) == IF x \in Range(deferred) THEN deferred ELSE Append(deferred, x)

Leftover_None(t) == <<>>

\* drain_deferred_wakeups_for_session: what it records again, one by one.
Leftover(t) == Tail(turn[t].hand)

\* The hook: is the session idle?
HookLooks(t) ==
    /\ turn[t].pc = "closed"
    /\ turn' = [turn EXCEPT ![t] = IF Busy THEN NoTurn ELSE [NoTurn EXCEPT !.pc = "hook"]]
    /\ UNCHANGED <<queue, marks, drain, runner, deferred, store, lane, history, due>>

\* claim_deferred_wakeups.
HookClaims(t) ==
    /\ turn[t].pc = "hook"
    /\ \/ /\ deferred = <<>>
          /\ turn' = [turn EXCEPT ![t] = NoTurn]
          /\ UNCHANGED <<deferred, pending, excused>>
       \/ /\ deferred # <<>>
          /\ turn' = [turn EXCEPT ![t] = [NoTurn EXCEPT !.pc = "redefer", !.hand = deferred]]
          /\ deferred' = <<>>
          /\ pending' = FALSE
          /\ excused' = excused \ Range(deferred)
    /\ UNCHANGED <<queue, consumed, seen, drain, runner, store, lane, delivered, twice, lost, due>>

HookDefersAgain(t) ==
    /\ turn[t].pc = "redefer"
    /\ Leftover(t) # <<>>
    /\ deferred' = Record(Head(Leftover(t)))
    /\ turn' = [turn EXCEPT ![t].hand = <<Head(turn[t].hand)>> \o Tail(Leftover(t))]
    /\ UNCHANGED <<queue, marks, drain, runner, store, lane, history, due>>

HookStarts(t) ==
    /\ turn[t].pc = "redefer"
    /\ Leftover(t) = <<>>
    /\ runner' = [runner EXCEPT ![Head(turn[t].hand)] = "starting"]
    /\ turn' = [turn EXCEPT ![t] = NoTurn]
    /\ UNCHANGED <<queue, marks, drain, deferred, store, lane, history, due>>
-----------------------------------------------------------------------------
(***************************************************************************)
(* Claims on delegations.                                                  *)
(***************************************************************************)
CanClaim_Local(d) == d \notin local /\ row[d] # "running"

\* claim_async_delegation_delivery: the claim in this process, then the row.
CanClaim(d) == d \notin local /\ row[d] = "pending"

Claim(d) ==
    /\ row' = [row EXCEPT ![d] = "claimed"]
    /\ attempts' = [attempts EXCEPT ![d] = @ + 1]
    /\ local' = local \cup {d}

\* schedule_async_delegation_claim_retry: only a pending row arms the timer.
ScheduleRetry(d) == retry' = (retry \/ row[d] = "pending")

\* _retry_unclaimed_async_delegation_event, for a target that is known.
RetryUnclaimed(d, state) ==
    \/ state = "pending" /\ retry' = TRUE /\ UNCHANGED queue
    \/ state # "pending" /\ queue' = Enqueue(d) /\ UNCHANGED retry

\* What the store makes of a claim that is released.
Released(d) == IF attempts[d] >= MaxDeliveries THEN "dropped" ELSE "pending"

\* The timer's sweep, restore_undelivered_completions: the pending rows, in some order.
PendingRows == {d \in Delegations : row[d] = "pending"} \ Range(queue)

Sweep ==
    /\ retry
    /\ retry' = FALSE
    /\ \E s \in [1..Cardinality(PendingRows) -> PendingRows] :
          Range(s) = PendingRows /\ queue' = queue \o s
    /\ UNCHANGED <<marks, threads, deferred, store, local, reserved, abandoned, history, due>>

\* The store's lease on a claim that nobody will release runs out.
LeaseExpires(d) ==
    /\ d \in abandoned
    /\ row[d] = "claimed"
    /\ row' = [row EXCEPT ![d] = Released(d)]
    /\ UNCHANGED <<queue, marks, threads, deferred, attempts, spent, lane, history, due>>
-----------------------------------------------------------------------------
(***************************************************************************)
(* The drain thread: _drain_loop and _process_one.                         *)
(***************************************************************************)
TakeEvent ==
    /\ drain.pc = "idle"
    /\ queue # <<>>
    /\ drain' = [pc |-> IF Head(queue) \in Processes THEN "check" ELSE "busy",
                 task |-> Head(queue)]
    /\ queue' = Tail(queue)
    /\ UNCHANGED <<marks, runner, turn, deferred, store, lane, history, due>>

AlreadySeen_Unconsumed(x) == x \in seen

AlreadySeen(x) == x \in consumed \/ x \in seen

\* is_completion_consumed, then this module's own check.  History: a next-turn
\* drain has checked x and not yet marked it.
CheckSeen(x) ==
    /\ drain = [pc |-> "check", task |-> x]
    /\ \/ AlreadySeen(x) /\ drain' = Idle /\ UNCHANGED <<seen, twice>>
       \/ /\ ~AlreadySeen(x) /\ drain' = [drain EXCEPT !.pc = "mark"]
          /\ seen' = seen \cup {x}
          /\ twice' = IF \E t \in Turns : turn[t].task = x THEN twice \cup {x} ELSE twice
    /\ UNCHANGED <<queue, consumed, pending, runner, turn, deferred, store, lane,
                   delivered, lost, excused, due>>

MarkConsumed(x) ==
    /\ drain = [pc |-> "mark", task |-> x]
    /\ drain' = [drain EXCEPT !.pc = "busy"]
    /\ pending' = TRUE
    /\ consumed' = consumed \cup {x}
    /\ UNCHANGED <<queue, seen, runner, turn, deferred, store, lane, history, due>>

\* A process: defer, or start a turn on another thread.
RouteProcess(x) ==
    /\ x \in Processes
    /\ drain = [pc |-> "busy", task |-> x]
    /\ \/ Busy /\ drain' = [drain EXCEPT !.pc = "record"] /\ UNCHANGED runner
       \/ ~Busy /\ drain' = Idle /\ runner' = [runner EXCEPT ![x] = "starting"]
    /\ UNCHANGED <<queue, marks, turn, deferred, store, lane, history, due>>

\* Excused: what is recorded when no turn's hook is to come stays where it is
\* until some later turn ends.
RecordLate(x) ==
    /\ deferred' = Record(x)
    /\ excused' = IF Awaited THEN excused ELSE excused \cup {x}

RecordDeferred(x) ==
    /\ drain = [pc |-> "record", task |-> x]
    /\ drain' = Idle
    /\ RecordLate(x)
    /\ UNCHANGED <<queue, marks, runner, turn, store, lane, delivered, twice, lost, due>>

\* _process_async_delegation_event: a busy session is no delivery attempt.
RouteDelegation(d) ==
    /\ d \in Delegations
    /\ drain = [pc |-> "busy", task |-> d]
    /\ \/ Busy /\ drain' = Idle /\ RetryUnclaimed(d, row[d])
       \/ ~Busy /\ drain' = [drain EXCEPT !.pc = "reserve"] /\ UNCHANGED <<queue, retry>>
    /\ UNCHANGED <<marks, runner, turn, deferred, store, local, reserved, abandoned, history, due>>

\* _try_reserve_async_delegation_wakeup_admission.
Reserve(d) ==
    /\ drain = [pc |-> "reserve", task |-> d]
    /\ \/ /\ reserved # NoTask /\ drain' = Idle
          /\ RetryUnclaimed(d, row[d])
          /\ UNCHANGED reserved
       \/ /\ reserved = NoTask /\ drain' = [drain EXCEPT !.pc = "claim"]
          /\ reserved' = d
          /\ UNCHANGED <<queue, retry>>
    /\ UNCHANGED <<marks, runner, turn, deferred, store, local, abandoned, history, due>>

\* The claim succeeds, there is nothing to claim, or the store raises.
ClaimInBackground(d) ==
    /\ drain = [pc |-> "claim", task |-> d]
    /\ drain' = Idle
    /\ \/ /\ CanClaim(d) /\ Claim(d)
          /\ runner' = [runner EXCEPT ![d] = "starting"]
          /\ UNCHANGED <<queue, reserved, retry, due>>
       \/ /\ ~CanClaim(d) /\ ScheduleRetry(d)
          /\ reserved' = NoTask
          /\ UNCHANGED <<queue, runner, row, attempts, local, due>>
       \/ /\ d \notin local /\ Trouble /\ queue' = Enqueue(d)
          /\ reserved' = NoTask
          /\ UNCHANGED <<runner, row, attempts, local, retry>>
    /\ UNCHANGED <<marks, turn, deferred, spent, abandoned, history>>
-----------------------------------------------------------------------------
(***************************************************************************)
(* The thread that starts a turn: start_session_turn.                      *)
(***************************************************************************)
\* The deferred completions lose the turn they were waiting for.
Excuse == excused' = IF HookToCome THEN excused ELSE excused \cup Range(deferred)

\* The turn is admitted: a process is done with, a delegation is acknowledged next.
StartTurn(x) ==
    /\ runner[x] = "starting"
    /\ Admit(x)
    /\ delivered' = [delivered EXCEPT ![x] = @ + 1]
    /\ runner' = [runner EXCEPT ![x] = IF x \in Processes THEN "none" ELSE "accepted"]
    /\ UNCHANGED <<queue, consumed, seen, drain, deferred, store, lane, twice, lost, excused, due>>

\* 409: the session is busy, or the agent runtime is being replaced.
RefusedForNow(x) ==
    /\ runner[x] = "starting"
    /\ \/ Blocked /\ UNCHANGED <<excused, due>>
       \/ Trouble /\ Excuse
    /\ runner' = [runner EXCEPT ![x] = "refused"]
    /\ UNCHANGED <<queue, marks, drain, turn, deferred, store, lane, delivered, twice, lost>>

\* 409 process_wakeup_paused: a process is suppressed, a delegation stays retryable.
RefusedWhilePaused(x) ==
    /\ runner[x] = "starting"
    /\ Trouble /\ Excuse
    /\ pending' = FALSE
    /\ runner' = [runner EXCEPT ![x] = IF x \in Processes THEN "none" ELSE "refused"]
    /\ lost' = IF x \in Processes THEN lost \cup {x} ELSE lost
    /\ UNCHANGED <<queue, consumed, seen, drain, turn, deferred, store, lane, delivered, twice>>

\* Any other answer, or an exception.
Failed(x) ==
    /\ runner[x] = "starting"
    /\ Trouble /\ Excuse
    /\ runner' = [runner EXCEPT ![x] = IF x \in Processes THEN "none" ELSE "failed"]
    /\ lost' = IF x \in Processes THEN lost \cup {x} ELSE lost
    /\ UNCHANGED <<queue, marks, drain, turn, deferred, store, lane, delivered, twice>>

\* A process that was refused is deferred again.
DeferAgain(x) ==
    /\ x \in Processes
    /\ runner[x] = "refused"
    /\ runner' = [runner EXCEPT ![x] = "none"]
    /\ RecordLate(x)
    /\ UNCHANGED <<queue, marks, drain, turn, store, lane, delivered, twice, lost, due>>

ReleaseSlot_Accepted(d) == reserved' = IF runner[d] = "accepted" THEN NoTask ELSE reserved

\* _release_async_delegation_wakeup_admission.
ReleaseSlot(d) == runner[d] # "none" /\ reserved' = NoTask

\* complete_async_delegation_delivery, and the reservation ends.
Acknowledge(d) ==
    /\ runner[d] = "accepted"
    /\ runner' = [runner EXCEPT ![d] = "none"]
    /\ row' = [row EXCEPT ![d] = "delivered"]
    /\ ReleaseSlot(d)
    /\ UNCHANGED <<queue, marks, drain, turn, deferred, attempts, spent, local, retry, abandoned,
                   history, due>>

\* ... or the ACK fails: the claim is released although the turn has started.
AcknowledgeFails(d) ==
    /\ runner[d] = "accepted"
    /\ Trouble
    /\ runner' = [runner EXCEPT ![d] = "failed"]
    /\ twice' = twice \cup {d}
    /\ UNCHANGED <<queue, marks, drain, turn, deferred, store, lane, delivered, lost, excused>>

\* _wakeup_refusal_is_transient.
Refunded(d) == runner[d] = "refused"

\* release_async_delegation_delivery, the retry, and the reservation ends.
Release(d) ==
    LET state == IF Refunded(d) THEN "pending" ELSE Released(d)
    IN  /\ d \in Delegations
        /\ runner[d] \in {"refused", "failed"}
        /\ runner' = [runner EXCEPT ![d] = "none"]
        /\ row' = [row EXCEPT ![d] = state]
        /\ attempts' = [attempts EXCEPT ![d] = IF Refunded(d) THEN @ - 1 ELSE @]
        /\ spent' = [spent EXCEPT ![d] = IF runner[d] = "failed" THEN @ + 1 ELSE @]
        /\ local' = local \ {d}
        /\ ReleaseSlot(d)
        /\ RetryUnclaimed(d, state)
        /\ UNCHANGED <<marks, drain, turn, deferred, abandoned, history, due>>
-----------------------------------------------------------------------------
(***************************************************************************)
(* The next-turn drain: _drain_webui_process_notifications, by the worker  *)
(* of a turn before it calls its agent.                                    *)
(***************************************************************************)
\* An event that was consumed is dropped; a process is formatted; a delegation
\* is claimed, or left to a retry, or put back at the end when the store raises.
TakeAlong(t) ==
    LET x == Head(queue)
    IN  /\ turn[t].pc \in {"admitted", "draining"}
        /\ turn[t].task = NoTask
        /\ queue # <<>>
        /\ queue' = Tail(queue)
        /\ \/ /\ x \in consumed
              /\ turn' = [turn EXCEPT ![t].pc = "draining"]
              /\ UNCHANGED <<store, local, retry, twice, due>>
           \/ /\ x \in Processes \ consumed
              /\ turn' = [turn EXCEPT ![t].pc = "draining", ![t].task = x]
              /\ twice' = IF drain = [pc |-> "mark", task |-> x] THEN twice \cup {x} ELSE twice
              /\ UNCHANGED <<store, local, retry, due>>
           \/ /\ x \in Delegations /\ CanClaim(x) /\ Claim(x)
              /\ turn' = [turn EXCEPT ![t].pc = "draining", ![t].claims = @ \cup {x}]
              /\ UNCHANGED <<spent, retry, twice, due>>
           \/ /\ x \in Delegations /\ ~CanClaim(x) /\ ScheduleRetry(x)
              /\ turn' = [turn EXCEPT ![t].pc = "draining"]
              /\ UNCHANGED <<store, local, twice, due>>
           \/ /\ x \in Delegations \ local /\ Trouble
              /\ turn' = [turn EXCEPT ![t].pc = "draining", ![t].skipped = Append(@, x)]
              /\ UNCHANGED <<store, local, retry, twice>>
        /\ UNCHANGED <<marks, drain, runner, deferred, reserved, abandoned,
                       delivered, lost, excused>>

\* The notification joins the message, and its process is consumed.
Notify(t) ==
    /\ turn[t].pc = "draining"
    /\ turn[t].task # NoTask
    /\ turn' = [turn EXCEPT ![t].task = NoTask, ![t].notes = @ \cup {turn[t].task}]
    /\ consumed' = consumed \cup {turn[t].task}
    /\ UNCHANGED <<queue, seen, pending, drain, runner, deferred, store, lane, history, due>>

\* The queue is empty: what was skipped goes back.
EndOfQueue(t) ==
    /\ turn[t].pc \in {"admitted", "draining"}
    /\ turn[t].task = NoTask
    /\ queue = <<>>
    /\ queue' = turn[t].skipped
    /\ turn' = [turn EXCEPT ![t].pc = "calling", ![t].skipped = <<>>]
    /\ UNCHANGED <<marks, drain, runner, deferred, store, lane, history, due>>

\* _accept_pending_async_delegations: a claim whose ACK fails is taken out again.
Accept(t) ==
    /\ turn[t].pc = "calling"
    /\ \E bad \in {{}} \cup {{d} : d \in turn[t].claims} :
          /\ IF bad = {} THEN UNCHANGED due ELSE Trouble
          /\ row' = [d \in Delegations |-> IF d \in bad THEN Released(d)
                                           ELSE IF d \in turn[t].claims THEN "delivered"
                                           ELSE row[d]]
          /\ spent' = [d \in Delegations |-> IF d \in bad THEN spent[d] + 1 ELSE spent[d]]
          /\ local' = local \ bad
          /\ \/ bad = {} /\ UNCHANGED queue
             \/ \E d \in bad : queue' = Enqueue(d)
          /\ turn' = [turn EXCEPT ![t].pc = "accepted", ![t].claims = {},
                                  ![t].notes = @ \cup (turn[t].claims \ bad)]
    /\ UNCHANGED <<marks, drain, runner, deferred, attempts, reserved, retry, abandoned, history>>

\* agent.run_conversation, with the wakeup and the notifications.
CallAgent(t) ==
    /\ turn[t].pc = "accepted"
    /\ turn' = [turn EXCEPT ![t].pc = "working", ![t].notes = {}]
    /\ delivered' = [x \in Tasks |-> IF x \in turn[t].notes THEN delivered[x] + 1 ELSE delivered[x]]
    /\ UNCHANGED <<queue, marks, drain, runner, deferred, store, lane, twice, lost, excused, due>>
-----------------------------------------------------------------------------
\* The reaper forgets what was seen of a session that has nothing pending.
ForgetSeen ==
    /\ ~pending
    /\ seen # {}
    /\ seen' = {}
    /\ UNCHANGED <<queue, consumed, pending, threads, deferred, store, lane, history, due>>

\* The server dies and comes back: everything but the store is gone, and
\* restore_durable_completions queues the rows that were not delivered.
Unclaimed(d) == IF row[d] = "claimed" THEN Released(d) ELSE row[d]

Undelivered == {d \in Delegations : Unclaimed(d) = "pending"}

\* The processes that were reported to this server.
Reported == consumed \cup ((Range(queue) \cup {drain.task} \cup {turn[t].task : t \in Turns})
                           \cap Processes)

Crash ==
    /\ due.crashes > 0
    /\ due' = [due EXCEPT !.crashes = @ - 1,
                          !.ends = [x \in Processes |-> IF x \in Reported THEN 0 ELSE due.ends[x]]]
    /\ consumed' = {} /\ seen' = {} /\ pending' = FALSE
    /\ drain' = Idle
    /\ runner' = [x \in Tasks |-> "none"]
    /\ turn' = [t \in Turns |-> NoTurn]
    /\ deferred' = <<>> /\ excused' = {}
    /\ row' = [d \in Delegations |-> Unclaimed(d)]
    /\ spent' = [d \in Delegations |-> IF row[d] = "claimed" /\ d \notin abandoned
                                       THEN spent[d] + 1 ELSE spent[d]]
    /\ local' = {} /\ reserved' = NoTask /\ retry' = FALSE /\ abandoned' = {}
    /\ lost' = lost \cup Reported \cup UNION {turn[t].notes : t \in Turns}
    /\ twice' = twice \cup {d \in Delegations : runner[d] = "accepted"}
    /\ \E s \in [1..Cardinality(Undelivered) -> Undelivered] :
          Range(s) = Undelivered /\ queue' = s
    /\ UNCHANGED <<attempts, delivered>>
-----------------------------------------------------------------------------
DrainThread ==
    \/ TakeEvent
    \/ \E x \in Processes : CheckSeen(x) \/ MarkConsumed(x) \/ RouteProcess(x) \/ RecordDeferred(x)
    \/ \E d \in Delegations : RouteDelegation(d) \/ Reserve(d) \/ ClaimInBackground(d)

Runner(x) ==
    \/ StartTurn(x) \/ RefusedForNow(x) \/ RefusedWhilePaused(x) \/ Failed(x)
    \/ DeferAgain(x) \/ Acknowledge(x) \/ AcknowledgeFails(x) \/ Release(x)

Hook(t) == HookLooks(t) \/ HookClaims(t) \/ HookDefersAgain(t) \/ HookStarts(t)

Worker(t) ==
    \/ OpenStream(t)
    \/ TakeAlong(t) \/ Notify(t) \/ EndOfQueue(t) \/ Accept(t) \/ CallAgent(t)
    \/ Finish(t) \/ StopEarly(t) \/ Orphan(t)

Next ==
    \/ UserStarts
    \/ \E x \in Processes : ProcessEnds(x)
    \/ \E d \in Delegations : DelegationEnds(d) \/ LeaseExpires(d)
    \/ DrainThread
    \/ \E x \in Tasks : Runner(x)
    \/ \E t \in Turns : Worker(t) \/ Hook(t)
    \/ Sweep
    \/ ForgetSeen
    \/ Crash

Spec == Init /\ [][Next]_vars
=============================================================================
