------------------------------ MODULE MCInflows ------------------------------
(***************************************************************************)
(* Inflows.tla for TLC: both payments are made by one member.  The other   *)
(* constants are in the .cfg of each run.  Pledges.tla has no behaviour:   *)
(* its facts are evaluated on small amounts.                               *)
(***************************************************************************)
EXTENDS Inflows, Pledges

MCGiverOf == [x \in Payments |-> "ada"]

SmallAmounts == 0 .. 60

ASSUME PledgesOnSmallAmounts ==
    \A a, x \in SmallAmounts :
        ClassifiedOnce(a, x) /\ FirstPaymentAgrees(a, x) /\ ProgressMatchesDeficit(a, x)

=============================================================================
