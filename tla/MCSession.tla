------------------------------- MODULE MCSession -------------------------------
(***************************************************************************)
(* EnergyKeySession for TLC.                                               *)
(***************************************************************************)
EXTENDS EnergyKeySession

=============================================================================
