------------------------------ MODULE MCHeartbeat ------------------------------
(***************************************************************************)
(* EnergyKeyHeartbeat for TLC: an interval of four ticks, a retry after    *)
(* two, and server waits below, between and above the two.                 *)
(***************************************************************************)
EXTENDS EnergyKeyHeartbeat

=============================================================================
