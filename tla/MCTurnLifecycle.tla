-------------------------- MODULE MCTurnLifecycle --------------------------
(***************************************************************************)
(* Instances of TurnLifecycle for TLC.                                     *)
(***************************************************************************)
EXTENDS TurnLifecycleProperties, TLC

CONSTANTS k1, k2

OneStop == {k1}
TwoStops == {k1, k2}

SameText == [n \in Turns |-> "hello"]
OwnText == [n \in Turns |-> n]

Symmetry == Permutations(TwoStops)
=============================================================================
