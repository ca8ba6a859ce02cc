------------------------------ MODULE MCPayouts ------------------------------
(***************************************************************************)
(* Payouts.tla for TLC.  The constants are in the .cfg of each run; amounts *)
(* are in units of the transfer fee.                                       *)
(***************************************************************************)
EXTENDS Payouts, TLC

\* Payouts, requests and the signatories that start alike are interchangeable.
Symmetry ==
    Permutations(PayoutIds) \cup Permutations(Requests)
        \cup Permutations(InitialPanel \ {Initiator})
        \cup Permutations(Signatories \ (InitialPanel \cup {Initiator}))

=============================================================================
