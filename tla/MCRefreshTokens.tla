--------------------------- MODULE MCRefreshTokens ---------------------------
(***************************************************************************)
(* RefreshTokens.tla for TLC: a phone with two tabs open and a laptop with *)
(* one, of the same member or of two.                                      *)
(***************************************************************************)
EXTENDS RefreshTokens, TLC

CONSTANTS phone, laptop, p1, p2, l1

MCDeviceOf == (p1 :> phone) @@ (p2 :> phone) @@ (l1 :> laptop)

=============================================================================
