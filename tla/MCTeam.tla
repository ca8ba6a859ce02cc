------------------------------- MODULE MCTeam -------------------------------
(***************************************************************************)
(* Team.tla for TLC.  No symmetry: the run checks liveness.                 *)
(***************************************************************************)
EXTENDS Team

=============================================================================
