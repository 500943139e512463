----------------------------- MODULE MCDashboard -----------------------------
(***************************************************************************)
(* Instances of Dashboard for TLC.  Liveness is among the properties, so   *)
(* there is no symmetry.                                                   *)
(***************************************************************************)
EXTENDS Dashboard
=============================================================================
