------------------------------ MODULE MCSignIn ------------------------------
(***************************************************************************)
(* SignIn.tla for TLC; the constants are in the .cfg of each run.          *)
(***************************************************************************)
EXTENDS SignIn

=============================================================================
