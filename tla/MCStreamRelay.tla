---------------------------- MODULE MCStreamRelay ----------------------------
(***************************************************************************)
(* Instances of StreamRelay for TLC.                                       *)
(***************************************************************************)
EXTENDS StreamRelayProperties, TLC

CONSTANTS t1, t2

Allow(es, n1, n2, fails, sts, dths) ==
    [events |-> es, visits |-> t1 :> n1 @@ t2 :> n2, failures |-> fails, stops |-> sts,
     deaths |-> dths]

\* Two tabs; one that comes back; a failed write; a Stop; a failed write and a death.
Visits ==
    {Allow(3, 1, 1, 0, 0, 0),
     Allow(4, 0, 2, 0, 0, 0),
     Allow(3, 2, 0, 1, 0, 0), Allow(4, 0, 1, 1, 0, 0),
     Allow(2, 0, 2, 0, 1, 0), Allow(3, 0, 1, 0, 1, 0), Allow(1, 1, 1, 0, 1, 0),
     Allow(3, 0, 2, 1, 0, 1)}
=============================================================================
