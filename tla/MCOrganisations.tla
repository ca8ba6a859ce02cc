--------------------------- MODULE MCOrganisations ---------------------------
(***************************************************************************)
(* Organisations.tla for TLC: two churches of one name and a third that is *)
(* called what the second of them is given for a slug.                     *)
(***************************************************************************)
EXTENDS Organisations, TLC

CONSTANTS grace, grace2, third, r1, r2, r3, r4

MCChurchOf == (r1 :> grace) @@ (r2 :> grace) @@ (r3 :> grace2) @@ (r4 :> third)
MCCandidates ==
    (grace :> <<"grace", "grace-2", "grace-3">>)
    @@ (grace2 :> <<"grace", "grace-2", "grace-3">>)
    @@ (third :> <<"grace-2", "grace-2-2", "grace-2-3">>)

=============================================================================
