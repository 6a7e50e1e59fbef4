-------------------------- MODULE MemoryExtraction --------------------------
(***************************************************************************)
(* What the memory-commit lifecycle promises, whatever threads complete    *)
(* turns, commit, evict and drain: the turns of a session are handed to    *)
(* their agents in order and in runs of one owner, by one call at a time.  *)
(* A call that succeeds settles what was complete when it began, neither   *)
(* more nor less; one that fails settles nothing; and nothing else does.   *)
(***************************************************************************)
EXTENDS Integers, Sequences

CONSTANTS
    Sessions,   \* session ids
    Handles,    \* agent handles
    NoAgent     \* the handle of nobody

VARIABLES
    turns,      \* the owner of each completed turn of a session
    settled,    \* how many of them, from the first on, have been extracted
    calls       \* the call a session's provider is in, or NoCall

vars == <<turns, settled, calls>>

NoCall == [agent |-> NoAgent, upTo |-> 0]

Init ==
    /\ turns = [s \in Sessions |-> <<>>]
    /\ settled = [s \in Sessions |-> 0]
    /\ calls = [s \in Sessions |-> NoCall]

Complete(s) ==
    /\ \E owner \in Handles : turns' = [turns EXCEPT ![s] = Append(@, owner)]
    /\ UNCHANGED <<settled, calls>>

\* The next turns go to an agent that owns them; turns nobody owns, to any.
Begin(s) ==
    /\ calls[s] = NoCall
    /\ \E agent \in Handles \ {NoAgent}, n \in settled[s] + 1 .. Len(turns[s]) :
          /\ \A i \in settled[s] + 1 .. n : turns[s][i] \in {agent, NoAgent}
          /\ calls' = [calls EXCEPT ![s] = [agent |-> agent, upTo |-> n]]
    /\ UNCHANGED <<turns, settled>>

Succeed(s) ==
    /\ calls[s] # NoCall
    /\ settled' = [settled EXCEPT ![s] = calls[s].upTo]
    /\ calls' = [calls EXCEPT ![s] = NoCall]
    /\ UNCHANGED turns

Fail(s) ==
    /\ calls[s] # NoCall
    /\ calls' = [calls EXCEPT ![s] = NoCall]
    /\ UNCHANGED <<turns, settled>>

Next == \E s \in Sessions : Complete(s) \/ Begin(s) \/ Succeed(s) \/ Fail(s)

Spec == Init /\ [][Next]_vars
=============================================================================
