-------------------------- MODULE SessionLifecycle --------------------------
(***************************************************************************)
(* The memory-provider lifecycle of api/session_lifecycle.py: every turn   *)
(* that completes makes its session dirty, and a commit hands the turns to *)
(* the agent that produced them, which extracts memories from them.        *)
(*                                                                         *)
(* One action is one critical section of _condition (or of                 *)
(* _background_commit_threads_lock); the provider call of a commit runs    *)
(* outside the lock, between StartCall and CallSucceeds or CallFails.      *)
(* Turn workers, evictions, the commits a new chat starts in the           *)
(* background and the shutdown drain run on Threads.                       *)
(*                                                                         *)
(* A name with an underscore, F_Bug, is a mutated form of F: what a        *)
(* plausible mistake in the code would make of it.  No action uses it; it  *)
(* is put in F's place to see the property that guards F fail.             *)
(***************************************************************************)
EXTENDS Integers, Sequences, FiniteSets

CONSTANTS
    Sessions,      \* session ids
    Agents,        \* agent handles
    NoAgent,       \* the handle of a session no agent is registered for
    Threads,       \* threads that call into the module
    MarkAgents,    \* handles mark_turn_completed is called with
    MaxTurns,      \* bound: completed turns per session
    MaxFailures    \* bound: provider calls that raise

ASSUME NoAgentAssumption == NoAgent \notin Agents
ASSUME SessionsAssumption == Sessions # {}
ASSUME MarkAssumption == MarkAgents \subseteq Agents \cup {NoAgent}
ASSUME BoundAssumption == MaxTurns \in Nat /\ MaxFailures \in Nat

VARIABLES
    entries,     \* _sessions: the entry of a session, or Absent
    pc,          \* what each thread is doing
    call,        \* the local variables of each thread's commit
    background,  \* _background_commit_threads
    draining,    \* _draining
    drain,       \* drain_all_on_shutdown's local variables
    turns,       \* history: the owner of each completed turn of a session
    base,        \* history: turns completed before the session's entry was made
    extracted,   \* history: turns a successful provider call has covered
    failures     \* history: provider calls that raised

vars == <<entries, pc, call, background, draining, drain, turns, base,
          extracted, failures>>

history == <<turns, base, extracted, failures>>
shutdown == <<background, draining, drain>>
-----------------------------------------------------------------------------
Handles == Agents \cup {NoAgent}

Absent == [present |-> FALSE, generation |-> 0, committed |-> 0,
           agent |-> NoAgent, inFlight |-> FALSE, segments |-> <<>>]

NewEntry == [Absent EXCEPT !.present = TRUE]

Ensure_NoEntry(e) == e

\* entry = _sessions.setdefault(session_id, _new_entry())
Ensure(e) == IF e.present THEN e ELSE NewEntry

Dirty(e) == e.generation > e.committed

HasUncommittedWork(s) == Dirty(entries[s])

Segment == [start : Nat, end : Nat, agent : Handles]

Entry == [present : BOOLEAN, generation : Nat, committed : Nat,
          agent : Handles, inFlight : BOOLEAN, segments : Seq(Segment)]

(***************************************************************************)
(* The first segment that reaches beyond c, one past the last if none does.*)
(***************************************************************************)
FirstBeyond(segs, c) ==
    CHOOSE i \in 1..(Len(segs) + 1) :
        /\ \A j \in 1..(i - 1) : segs[j].end <= c
        /\ i <= Len(segs) => segs[i].end > c

HasUncommittedSegment(e) == FirstBeyond(e.segments, e.committed) <= Len(e.segments)

FirstUncommittedSegment(e) == e.segments[FirstBeyond(e.segments, e.committed)]

(***************************************************************************)
(* The segments a success leaves: those up to c are popped, and the start  *)
(* of the first one left is moved past c.                                  *)
(***************************************************************************)
TrimStart(seg, c) == IF seg.start <= c THEN [seg EXCEPT !.start = c + 1] ELSE seg

DropCommitted(segs, c) ==
    LET left == SubSeq(segs, FirstBeyond(segs, c), Len(segs))
    IN  [i \in 1..Len(left) |-> IF i = 1 THEN TrimStart(left[1], c) ELSE left[i]]

AddGeneration_InFlight(e, g, owner) ==
    LET n == Len(e.segments) IN
    IF n > 0 /\ e.segments[n].agent = owner
    THEN [e.segments EXCEPT ![n].end = g]
    ELSE Append(e.segments, [start |-> g, end |-> g, agent |-> owner])

AddGeneration_AnyOwner(e, g, owner) ==
    LET n == Len(e.segments) IN
    IF n > 0 /\ ~e.inFlight
    THEN [e.segments EXCEPT ![n].end = g]
    ELSE Append(e.segments, [start |-> g, end |-> g, agent |-> owner])

(***************************************************************************)
(* The segments after generation g completed with this owner: the last one *)
(* grows only while no commit is in flight and it has the same owner.      *)
(***************************************************************************)
AddGeneration(e, g, owner) ==
    LET n == Len(e.segments) IN
    IF n > 0 /\ ~e.inFlight /\ e.segments[n].agent = owner
    THEN [e.segments EXCEPT ![n].end = g]
    ELSE Append(e.segments, [start |-> g, end |-> g, agent |-> owner])

EffectiveAgent_Caller(e, a) ==
    IF a # NoAgent THEN a ELSE FirstUncommittedSegment(e).agent

\* The agent a commit of entry e calls: the segment's owner, or the handle
\* that adopts a segment without one.
EffectiveAgent(e, a) ==
    LET owner == FirstUncommittedSegment(e).agent IN
    CASE owner # NoAgent -> owner
      [] owner = NoAgent /\ a # NoAgent -> a
      [] OTHER -> e.agent

CanStartCall(e, a) ==
    /\ e.present
    /\ Dirty(e)
    /\ HasUncommittedSegment(e)
    /\ EffectiveAgent(e, a) # NoAgent
-----------------------------------------------------------------------------
Idle == "idle"
After == {Idle, "evictCheck", "bgDone", "drainReturned"}   \* where a commit returns to

NoCall == [sid |-> CHOOSE s \in Sessions : TRUE, arg |-> NoAgent, wait |-> FALSE,
           agent |-> NoAgent, captured |-> 0, seen |-> 0, ok |-> FALSE, then |-> Idle]

NoDrain == [pc |-> "off", joins |-> {}, todo |-> {}, progress |-> FALSE,
            expired |-> FALSE, goal |-> [s \in Sessions |-> 0], failed |-> 0]

Init ==
    /\ entries = [s \in Sessions |-> Absent]
    /\ pc = [t \in Threads |-> Idle]
    /\ call = [t \in Threads |-> NoCall]
    /\ background = {}
    /\ draining = FALSE
    /\ drain = NoDrain
    /\ turns = [s \in Sessions |-> <<>>]
    /\ base = [s \in Sessions |-> 0]
    /\ extracted = [s \in Sessions |-> {}]
    /\ failures = 0
-----------------------------------------------------------------------------
(***************************************************************************)
(* Operations of one critical section.                                     *)
(***************************************************************************)
RegisterAgent(s, a) ==
    /\ entries' = [entries EXCEPT ![s] = [Ensure(@) EXCEPT !.agent = a]]
    /\ base' = IF entries[s].present THEN base ELSE [base EXCEPT ![s] = Len(turns[s])]
    /\ UNCHANGED <<pc, call, shutdown, turns, extracted, failures>>

UnregisterAgent(s) ==
    /\ entries[s].present
    /\ entries' = [entries EXCEPT ![s].agent = NoAgent]
    /\ UNCHANGED <<pc, call, shutdown, history>>

MarkTurnCompleted(s, a) ==
    LET e == Ensure(entries[s])
        owner == IF a # NoAgent THEN a ELSE e.agent
        g == e.generation + 1
    IN  /\ Len(turns[s]) < MaxTurns
        /\ entries' = [entries EXCEPT ![s] =
                          [e EXCEPT !.agent = owner, !.generation = g,
                                    !.segments = AddGeneration(e, g, owner)]]
        /\ turns' = [turns EXCEPT ![s] = Append(@, owner)]
        /\ base' = IF entries[s].present THEN base ELSE [base EXCEPT ![s] = Len(turns[s])]
        /\ UNCHANGED <<pc, call, shutdown, extracted, failures>>
-----------------------------------------------------------------------------
(***************************************************************************)
(* commit_session_memory: its first critical section either takes the      *)
(* in-flight guard, waits for it, or returns False.                        *)
(***************************************************************************)
StartCall(t, s, a) ==
    LET e == entries[s]
        i == FirstBeyond(e.segments, e.committed)
        agent == EffectiveAgent(e, a)
    IN  /\ CanStartCall(e, a)
        /\ entries' = [entries EXCEPT ![s].segments[i].agent = agent,
                                      ![s].inFlight = TRUE]
        /\ pc' = [pc EXCEPT ![t] = "calling"]
        /\ call' = [call EXCEPT ![t].agent = agent, ![t].captured = e.segments[i].end,
                                ![t].seen = Len(turns[s]), ![t].sid = s, ![t].ok = FALSE]

\* The commit returns ok; of its locals only the session stays in use.
Returns(t, ok) ==
    /\ pc' = [pc EXCEPT ![t] = call[t].then]
    /\ call' = [call EXCEPT ![t] = [NoCall EXCEPT !.sid = call[t].sid, !.ok = ok]]

ReturnFalse(t) == Returns(t, FALSE) /\ UNCHANGED entries

\* A thread enters commit_session_memory with the arguments in call[t].
EnterCommit(t) ==
    LET s == call[t].sid
        e == entries[s]
    IN  /\ pc[t] = "entering"
        /\ \/ /\ e.inFlight /\ call[t].wait
              /\ pc' = [pc EXCEPT ![t] = "waiting"]
              /\ UNCHANGED <<entries, call>>
           \/ /\ e.inFlight /\ ~call[t].wait
              /\ ReturnFalse(t)
           \/ /\ ~e.inFlight /\ ~CanStartCall(e, call[t].arg)
              /\ ReturnFalse(t)
           \/ ~e.inFlight /\ StartCall(t, s, call[t].arg)
        /\ UNCHANGED <<shutdown, history>>

WakeUp_Once(t) ==
    LET s == call[t].sid
        e == entries[s]
    IN  /\ pc[t] = "waiting"
        /\ \/ ~CanStartCall(e, call[t].arg) /\ ReturnFalse(t)
           \/ StartCall(t, s, call[t].arg)
        /\ UNCHANGED <<shutdown, history>>

\* _condition.wait() returns and the entry is fetched again.
WakeUp(t) ==
    LET s == call[t].sid
        e == entries[s]
    IN  /\ pc[t] = "waiting"
        /\ ~e.inFlight
        /\ \/ ~CanStartCall(e, call[t].arg) /\ ReturnFalse(t)
           \/ StartCall(t, s, call[t].arg)
        /\ UNCHANGED <<shutdown, history>>

CallSucceeds(t) ==
    LET s == call[t].sid
        e == entries[s]
        committed == IF call[t].captured > e.committed THEN call[t].captured ELSE e.committed
    IN  /\ pc[t] = "calling"
        /\ extracted' = [extracted EXCEPT ![s] = @ \cup
                            {i \in 1..call[t].seen : turns[s][i] \in {call[t].agent, NoAgent}}]
        /\ entries' = IF ~e.present THEN entries ELSE
                [entries EXCEPT ![s] = [e EXCEPT !.inFlight = FALSE, !.committed = committed,
                                        !.segments = DropCommitted(e.segments, committed)]]
        /\ Returns(t, TRUE)
        /\ UNCHANGED <<shutdown, turns, base, failures>>

CallFails_InFlight(t) ==
    /\ pc[t] = "calling"
    /\ failures < MaxFailures
    /\ failures' = failures + 1
    /\ ReturnFalse(t)
    /\ UNCHANGED <<shutdown, turns, base, extracted>>

CallFails(t) ==
    LET s == call[t].sid IN
    /\ pc[t] = "calling"
    /\ failures < MaxFailures
    /\ failures' = failures + 1
    /\ entries' = IF ~entries[s].present THEN entries
                  ELSE [entries EXCEPT ![s].inFlight = FALSE]
    /\ Returns(t, FALSE)
    /\ UNCHANGED <<shutdown, turns, base, extracted>>

Finish(t) ==
    /\ pc' = [pc EXCEPT ![t] = Idle]
    /\ call' = [call EXCEPT ![t] = NoCall]

Arguments_NoWait(s, a, wait, then) == [NoCall EXCEPT !.sid = s, !.arg = a, !.then = then]

Arguments(s, a, wait, then) ==
    [NoCall EXCEPT !.sid = s, !.arg = a, !.wait = wait, !.then = then]
-----------------------------------------------------------------------------
(***************************************************************************)
(* Eviction of a cached agent (_evict_session_agent, and                   *)
(* _close_evicted_agent_at_session_boundary, which commits without the     *)
(* first test): commit, and drop the entry if that left nothing to retry.  *)
(***************************************************************************)
Evict(t, s, a) ==
    /\ pc[t] = Idle
    /\ IF HasUncommittedWork(s)
       THEN /\ call' = [call EXCEPT ![t] = Arguments(s, a, TRUE, "evictCheck")]
            /\ pc' = [pc EXCEPT ![t] = "entering"]
       ELSE /\ call' = [call EXCEPT ![t].sid = s]
            /\ pc' = [pc EXCEPT ![t] = "evictCheck"]
    /\ UNCHANGED <<entries, shutdown, history>>

EvictCheck(t) ==
    /\ pc[t] = "evictCheck"
    /\ IF HasUncommittedWork(call[t].sid)
       THEN Finish(t)
       ELSE /\ pc' = [pc EXCEPT ![t] = "evictUnregister"]
            /\ UNCHANGED call
    /\ UNCHANGED <<entries, shutdown, history>>

EvictUnregister(t) ==
    LET s == call[t].sid IN
    /\ pc[t] = "evictUnregister"
    /\ entries' = IF entries[s].present THEN [entries EXCEPT ![s].agent = NoAgent] ELSE entries
    /\ pc' = [pc EXCEPT ![t] = "evictDiscard"]
    /\ UNCHANGED <<call, shutdown, history>>

DiscardSession_Dirty(e) == IF e.present /\ ~e.inFlight THEN Absent ELSE e

DiscardSession(e) == IF e.present /\ ~e.inFlight /\ ~Dirty(e) THEN Absent ELSE e

EvictDiscard(t) ==
    LET s == call[t].sid IN
    /\ pc[t] = "evictDiscard"
    /\ entries' = [entries EXCEPT ![s] = DiscardSession(@)]
    /\ Finish(t)
    /\ UNCHANGED <<shutdown, history>>
-----------------------------------------------------------------------------
(***************************************************************************)
(* POST /api/session/new commits the previous session on a background      *)
(* thread, unless draining has begun.                                      *)
(***************************************************************************)
RegisterBackgroundCommitThread(t, s, a) ==
    /\ pc[t] = Idle
    /\ ~draining
    /\ background' = background \cup {t}
    /\ pc' = [pc EXCEPT ![t] = "entering"]
    /\ call' = [call EXCEPT ![t] = Arguments(s, a, FALSE, "bgDone")]
    /\ UNCHANGED <<entries, draining, drain, history>>

UnregisterBackgroundCommitThread(t) ==
    /\ pc[t] = "bgDone"
    /\ background' = background \ {t}
    /\ Finish(t)
    /\ UNCHANGED <<entries, draining, drain, history>>
-----------------------------------------------------------------------------
(***************************************************************************)
(* drain_all_on_shutdown.  drain.expired says that the budget is spent;    *)
(* drain.goal and drain.failed remember what was complete, and how many    *)
(* calls had raised, when the drain began.                                 *)
(***************************************************************************)
DrainBegins ==
    /\ drain.pc = "off"
    /\ draining' = TRUE
    /\ drain' = [NoDrain EXCEPT !.pc = "snapshot",
                                !.goal = [s \in Sessions |-> Len(turns[s])],
                                !.failed = failures]
    /\ UNCHANGED <<entries, pc, call, background, history>>

\* _drain_background_commit_threads takes the registry over ...
DrainSnapshotsThreads ==
    /\ drain.pc = "snapshot"
    /\ drain' = [drain EXCEPT !.pc = "join", !.joins = background]
    /\ background' = {}
    /\ UNCHANGED <<entries, pc, call, draining, history>>

\* ... and joins each thread that is alive, at most five seconds each: a join
\* ends because its thread did, or because its time is up.
DrainJoinsThread(t) ==
    /\ drain.pc = "join"
    /\ ~drain.expired
    /\ t \in drain.joins
    /\ drain' = [drain EXCEPT !.joins = @ \ {t}]
    /\ UNCHANGED <<entries, pc, call, background, draining, history>>

DrainJoined ==
    /\ drain.pc = "join"
    /\ drain.joins = {} \/ drain.expired
    /\ drain' = [drain EXCEPT !.pc = "pass"]
    /\ UNCHANGED <<entries, pc, call, background, draining, history>>

DirtySessions == {s \in Sessions : Dirty(entries[s])}

DrainStartsPass ==
    /\ drain.pc = "pass"
    /\ drain' = [drain EXCEPT !.pc = IF DirtySessions = {} \/ drain.expired THEN "done" ELSE "next",
                              !.todo = IF drain.expired THEN {} ELSE DirtySessions,
                              !.progress = FALSE]
    /\ UNCHANGED <<entries, pc, call, background, draining, history>>

\* One commit in a worker of its own ...
DrainSpawns(t, s) ==
    /\ drain.pc = "next"
    /\ ~drain.expired
    /\ s \in drain.todo
    /\ pc[t] = Idle
    /\ pc' = [pc EXCEPT ![t] = "entering"]
    /\ call' = [call EXCEPT ![t] = Arguments(s, NoAgent, TRUE, "drainReturned")]
    /\ drain' = [drain EXCEPT !.pc = "worker", !.todo = @ \ {s}]
    /\ UNCHANGED <<entries, background, draining, history>>

\* ... joined for what is left of the budget.
DrainJoinsWorker(t) ==
    /\ drain.pc = "worker"
    /\ pc[t] = "drainReturned"
    /\ Finish(t)
    /\ drain' = [drain EXCEPT !.pc = "next", !.progress = @ \/ call[t].ok]
    /\ UNCHANGED <<entries, background, draining, history>>

DrainEndsPass ==
    /\ drain.pc = "next"
    /\ drain.todo = {} \/ drain.expired
    /\ drain' = [drain EXCEPT !.pc = IF drain.progress /\ ~drain.expired THEN "pass" ELSE "done",
                              !.todo = {}]
    /\ UNCHANGED <<entries, pc, call, background, draining, history>>

DrainExpires_KeepsJoining ==
    /\ drain.pc \in {"join", "pass", "next", "worker"}
    /\ ~drain.expired
    /\ drain' = [drain EXCEPT !.expired = TRUE]
    /\ UNCHANGED <<entries, pc, call, background, draining, history>>

\* The clock passes the deadline; a worker that is still running is abandoned.
DrainExpires ==
    /\ drain.pc \in {"join", "pass", "next", "worker"}
    /\ ~drain.expired
    /\ drain' = [drain EXCEPT !.expired = TRUE,
                              !.pc = IF @ = "worker" THEN "next" ELSE @]
    /\ UNCHANGED <<entries, pc, call, background, draining, history>>
-----------------------------------------------------------------------------
ThreadStep(t) ==
    \/ EnterCommit(t) \/ WakeUp(t)
    \/ EvictCheck(t) \/ EvictUnregister(t) \/ EvictDiscard(t)
    \/ UnregisterBackgroundCommitThread(t)

DrainStep ==
    \/ DrainSnapshotsThreads \/ DrainJoined \/ DrainStartsPass \/ DrainEndsPass
    \/ \E t \in Threads : DrainJoinsThread(t) \/ DrainJoinsWorker(t)
    \/ \E t \in Threads, s \in Sessions : DrainSpawns(t, s)

\* Once the drain has returned the process exits.
Next ==
  /\ drain.pc # "done"
  /\ \/ \E s \in Sessions, a \in Agents : RegisterAgent(s, a)
     \/ \E s \in Sessions : UnregisterAgent(s)
     \/ \E s \in Sessions, a \in MarkAgents : MarkTurnCompleted(s, a)
     \/ \E t \in Threads : ThreadStep(t) \/ CallSucceeds(t) \/ CallFails(t)
     \/ \E t \in Threads, s \in Sessions, a \in Agents : Evict(t, s, a)
     \/ \E t \in Threads, s \in Sessions, a \in Handles : RegisterBackgroundCommitThread(t, s, a)
     \/ DrainBegins \/ DrainStep \/ DrainExpires

Spec == Init /\ [][Next]_vars
=============================================================================
