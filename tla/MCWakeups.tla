------------------------------ MODULE MCWakeups ------------------------------
(***************************************************************************)
(* Instances of Wakeups for TLC.                                           *)
(***************************************************************************)
EXTENDS WakeupsProperties, TLC

CONSTANTS p1, p2, d1, d2, u1, u2, u3

Due(ends, ds, us, trs, crs) ==
    [ends |-> ends, delegated |-> ds, users |-> us, troubles |-> trs, crashes |-> crs]

None == [x \in Processes |-> 0]

\* Two processes, one that is reported twice, delegations, and both kinds.
Mixes ==
    {Due([x \in Processes |-> 1], {}, 1, 1, 0),
     Due(p1 :> 2 @@ None, {}, 1, 0, 1),
     Due(None, {d1, d2}, 1, 1, 0),
     Due(None, {d1}, 1, 2, 1),
     Due(p1 :> 1 @@ None, {d1}, 1, 1, 0)}
=============================================================================
