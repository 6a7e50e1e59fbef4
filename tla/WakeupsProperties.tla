-------------------------- MODULE WakeupsProperties --------------------------
(***************************************************************************)
(* What a task's completion may rely on.                                   *)
(***************************************************************************)
EXTENDS Wakeups

TurnPCs == Live \cup {"free", "admitting", "closed", "hook", "redefer", "orphaned"}

TurnType == [pc : TurnPCs, wakeup : Tasks \cup {NoTask, User}, task : Processes \cup {NoTask},
             notes : SUBSET Tasks, claims : SUBSET Delegations, skipped : Seq(Delegations),
             hand : Seq(Processes)]

DrainPCs == {"idle", "check", "mark", "busy", "record", "reserve", "claim"}

RowStates == {"running", "pending", "claimed", "delivered", "dropped"}

RunnerPCs == {"none", "starting", "refused", "accepted", "failed"}

QueuesTypeOK ==
    /\ queue \in Seq(Tasks) /\ deferred \in Seq(Processes)
    /\ consumed \subseteq Processes /\ seen \subseteq Processes /\ pending \in BOOLEAN
    /\ due \in Budget

ThreadsTypeOK ==
    /\ drain \in [pc : DrainPCs, task : Tasks \cup {NoTask}]
    /\ runner \in [Tasks -> RunnerPCs]
    /\ turn \in [Turns -> TurnType]

StoreTypeOK ==
    /\ row \in [Delegations -> RowStates]
    /\ attempts \in [Delegations -> 0..MaxDeliveries]
    /\ spent \in [Delegations -> 0..MaxDeliveries]
    /\ local \subseteq Delegations /\ abandoned \subseteq Delegations
    /\ reserved \in Delegations \cup {NoTask} /\ retry \in BOOLEAN

HistoryTypeOK ==
    /\ delivered \in [Tasks -> Nat]
    /\ twice \subseteq Tasks /\ lost \subseteq Tasks /\ excused \subseteq Processes

\* The type invariant.
TypeOK == QueuesTypeOK /\ ThreadsTypeOK /\ StoreTypeOK /\ HistoryTypeOK

(***************************************************************************)
(* No completion is brought to the agent twice, by whichever of the drain  *)
(* thread, the next-turn drains, the hooks and the retries gets hold of    *)
(* it.  The exceptions: two events of one process that the two drains work *)
(* on at once, and a delegation whose ACK fails or is cut off by a crash.  *)
(***************************************************************************)
DeliveredOnce == \A x \in Tasks : delivered[x] <= 1 \/ x \in twice

(***************************************************************************)
(* A completion that was consumed is in somebody's hands until an agent    *)
(* has it: no deferral, refusal or hook drops it.  A delegation is pending *)
(* with an event or a retry to come, or claimed by a thread that is there, *)
(* or left behind by a turn that ended early; and the store gives it up    *)
(* after so many claims that failed, refusals of a busy session not        *)
(* counted.                                                                *)
(***************************************************************************)
Held(x) ==
    \/ drain.task = x \/ runner[x] # "none" \/ x \in Range(deferred)
    \/ \E t \in Turns : x \in Range(turn[t].hand) \cup turn[t].notes

DelegationHeld(d) ==
    CASE row[d] = "pending" ->
             \/ d \in Range(queue) \/ retry \/ drain.task = d \/ d \in abandoned
             \/ \E t \in Turns : d \in Range(turn[t].skipped)
      [] row[d] = "claimed" ->
             \/ runner[d] # "none" \/ d \in abandoned
             \/ \E t \in Turns : d \in turn[t].claims
      [] row[d] = "dropped" -> spent[d] >= MaxDeliveries
      [] row[d] = "delivered" -> delivered[d] > 0 \/ Held(d) \/ d \in lost
      [] OTHER -> TRUE

NothingIsDropped ==
    /\ \A x \in consumed : Held(x) \/ delivered[x] > 0 \/ x \in lost
    /\ \A d \in Delegations : DelegationHeld(d)

(***************************************************************************)
(* A deferred wakeup waits for a turn that will look for it when it ends,  *)
(* or for a thread that is about to start one.  The exceptions: it was     *)
(* recorded when there was none any more, or the turn or thread it waited  *)
(* for was refused for another reason than a busy session, or never ends.  *)
(***************************************************************************)
WakeupsAreAwaited == Awaited \/ Range(deferred) \subseteq excused

-----------------------------------------------------------------------------
(***************************************************************************)
(* Fairness.  The drain thread, the threads that start turns, the retry    *)
(* timer and the workers run on, and agents return; a worker that was      *)
(* given up need not.  Nothing is assumed of users and tasks.              *)
(***************************************************************************)
Fairness ==
    /\ WF_vars(DrainThread)
    /\ WF_vars(Sweep)
    /\ \A x \in Tasks : WF_vars(Runner(x))
    /\ \A t \in Turns : WF_vars(Hook(t)) /\ WF_vars(turn[t].pc # "orphaned" /\ Worker(t))

FairSpec == Spec /\ Fairness

(***************************************************************************)
(* A completion that is queued, or pending in the store, comes to its end. *)
(***************************************************************************)
Settled(x) ==
    \/ delivered[x] > 0 \/ x \in lost
    \/ x \in Processes /\ x \in Range(deferred) \cap excused
    \/ x \in Delegations /\ (row[x] = "dropped" \/ x \in abandoned)

CompletionsSettle ==
    /\ \A x \in Processes : x \in Range(queue) ~> Settled(x)
    /\ \A d \in Delegations : row[d] = "pending" ~> Settled(d)
=============================================================================
