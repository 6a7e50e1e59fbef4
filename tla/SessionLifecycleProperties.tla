--------------------- MODULE SessionLifecycleProperties ---------------------
(***************************************************************************)
(* What api/session_lifecycle.py promises (the five points of its module   *)
(* docstring), and what its shutdown drain is for.                         *)
(***************************************************************************)
EXTENDS SessionLifecycle

CommitPCs == {"entering", "waiting", "calling"}

PCs == CommitPCs \cup After \cup {"evictUnregister", "evictDiscard"}

Call == [sid : Sessions, arg : Handles, wait : BOOLEAN, agent : Handles,
         captured : Nat, seen : Nat, ok : BOOLEAN, then : After]

Drain == [pc : {"off", "snapshot", "join", "pass", "next", "worker", "done"},
          joins : SUBSET Threads, todo : SUBSET Sessions, progress : BOOLEAN,
          expired : BOOLEAN, goal : [Sessions -> Nat], failed : Nat]

\* The type invariant.
TypeOK ==
    /\ entries \in [Sessions -> Entry]
    /\ \A s \in Sessions : ~entries[s].present => entries[s] = Absent
    /\ pc \in [Threads -> PCs]
    /\ call \in [Threads -> Call]
    /\ background \in SUBSET Threads
    /\ draining \in BOOLEAN
    /\ drain \in Drain
    /\ turns \in [Sessions -> Seq(Handles)]
    /\ base \in [Sessions -> Nat]
    /\ extracted \in [Sessions -> SUBSET Nat]
    /\ failures \in Nat

Calls(s) == {t \in Threads : pc[t] = "calling" /\ call[t].sid = s}

(***************************************************************************)
(* The segments of an entry cut the uncommitted generations into runs that *)
(* follow one another, and a call in flight is for the first of them: the  *)
(* generation it captured is where that segment still ends when it comes   *)
(* back, whatever completed meanwhile (mark_turn_completed never grows the *)
(* last segment while in_flight; the success path pops what it captured).  *)
(***************************************************************************)
IsCut(e) ==
    LET segs == e.segments
        n == Len(segs)
    IN  /\ e.committed <= e.generation
        /\ n = 0 <=> ~Dirty(e)
        /\ n > 0 => segs[1].start = e.committed + 1 /\ segs[n].end = e.generation
        /\ \A i \in 1..n : segs[i].start <= segs[i].end
        /\ \A i \in 1..(n - 1) : segs[i + 1].start = segs[i].end + 1

SegmentsCutTheUncommittedWork ==
    \A s \in Sessions :
        LET segs == entries[s].segments IN
        /\ IsCut(entries[s])
        /\ \A t \in Calls(s) : Len(segs) > 0 /\ segs[1].end = call[t].captured

(***************************************************************************)
(* Overlapping commits are serialised: in_flight is up exactly while one   *)
(* thread is inside the provider for that session (docstring point 5).     *)
(***************************************************************************)
CommitsAreSerialised ==
    \A s \in Sessions :
        /\ \A t, u \in Calls(s) : t = u
        /\ entries[s].inFlight <=> Calls(s) # {}

(***************************************************************************)
(* A generation counts as committed, and an entry may be forgotten, only   *)
(* after a successful provider call of the turn's own agent that began     *)
(* when the turn was complete (docstring points 2 and 4, and the promise   *)
(* of discard_session that no retryable work is dropped).                  *)
(***************************************************************************)
Settled(s) == IF entries[s].present THEN base[s] + entries[s].committed ELSE Len(turns[s])

CommittedTurnsWereExtracted ==
    \A s \in Sessions : 1..Settled(s) \subseteq extracted[s]

(***************************************************************************)
(* Every uncommitted turn stays in a segment of the agent that completed   *)
(* it, through failures, rebuilt agents and evictions (docstring points 3  *)
(* and 4); only a turn nobody owned is adopted.                            *)
(***************************************************************************)
DirtyTurnsKeepTheirOwner ==
    \A s \in Sessions :
        \A i \in 1..Len(entries[s].segments) :
            LET seg == entries[s].segments[i] IN
            \A g \in seg.start..seg.end : turns[s][base[s] + g] \in {seg.agent, NoAgent}

(***************************************************************************)
(* A drain that neither ran out of time nor met a provider failure leaves  *)
(* nothing behind: the turns complete when it began have been extracted,   *)
(* those a background commit or an eviction had in hand included.  Turns   *)
(* no agent owned are the exception drain_all_on_shutdown cannot help.     *)
(***************************************************************************)
DrainLeavesNothingBehind ==
    drain.pc = "done" /\ ~drain.expired /\ failures = drain.failed =>
        \A s \in Sessions :
            (\A i \in 1..Len(turns[s]) : turns[s][i] # NoAgent)
                => 1..drain.goal[s] \subseteq extracted[s]

(***************************************************************************)
(* The module implements MemoryExtraction: committed generations, entries  *)
(* that are made anew or forgotten, and segments that are cut, adopted and *)
(* popped come to a mark that moves over each session's turns in order.    *)
(* Only a successful call of the turns' own agent moves it, and to where   *)
(* the call began: an eviction, a rebuilt agent, a failure or a turn that  *)
(* completes meanwhile does not.                                           *)
(***************************************************************************)
CallOf(s) ==
    IF Calls(s) = {} THEN [agent |-> NoAgent, upTo |-> 0]
    ELSE LET t == CHOOSE t \in Calls(s) : TRUE
         IN  [agent |-> call[t].agent, upTo |-> base[s] + call[t].captured]

Extraction == INSTANCE MemoryExtraction WITH
    settled <- [s \in Sessions |-> Settled(s)],
    calls <- [s \in Sessions |-> CallOf(s)]

ImplementsExtraction == Extraction!Spec
-----------------------------------------------------------------------------
(***************************************************************************)
(* Threads keep running, and time passes; nothing says a provider call     *)
(* ever returns.                                                           *)
(***************************************************************************)
Fairness ==
    /\ \A t \in Threads : WF_vars(ThreadStep(t))
    /\ WF_vars(DrainStep)
    /\ WF_vars(DrainExpires)

FairSpec == Spec /\ Fairness

(***************************************************************************)
(* A thread that waits for the in-flight guard gets out, as long as the    *)
(* provider calls it may be waiting for return, well or badly: no path of  *)
(* commit_session_memory keeps the guard.                                  *)
(***************************************************************************)
ProviderReturns == \A t \in Threads : []<>(pc[t] # "calling")

WaitersGetOut ==
    ProviderReturns =>
        \A t \in Threads : pc[t] = "waiting" ~> pc[t] # "waiting" \/ drain.pc = "done"

(***************************************************************************)
(* The shutdown drain returns even when a provider call never does: each   *)
(* of its joins is clamped to one budget.                                  *)
(***************************************************************************)
DrainReturns == draining ~> drain.pc = "done"
=============================================================================
