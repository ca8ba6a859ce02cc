-------------------------- MODULE MCVirtualAccounts --------------------------
(***************************************************************************)
(* VirtualAccounts.tla for TLC.  No symmetry: the runs check liveness.      *)
(***************************************************************************)
EXTENDS VirtualAccounts

=============================================================================
