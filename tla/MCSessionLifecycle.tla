------------------------- MODULE MCSessionLifecycle -------------------------
(***************************************************************************)
(* Instances of SessionLifecycle for TLC.                                  *)
(***************************************************************************)
EXTENDS SessionLifecycleProperties, TLC

CONSTANTS a1, a2, t1, t2, s1

MCSessions == {s1}
MCAgents == {a1, a2}
MCThreads == {t1, t2}
OneAgent == {a1}
OwnedTurns == MCAgents
AnyTurns == OneAgent \cup {NoAgent}   \* mark_turn_completed(sid) without an agent

Symmetry == Permutations(MCAgents) \cup Permutations(MCThreads)
=============================================================================
