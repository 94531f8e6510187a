------------------------------ MODULE MCRequests ------------------------------
(***************************************************************************)
(* EnergyKeyRequests with one heartbeat loop, a water meter whose history  *)
(* is complete, and a heat meter with a volume view.  The views of the     *)
(* heat meter may together miss more months than there are slots.          *)
(***************************************************************************)
EXTENDS EnergyKeyRequests

CONSTANT heartbeat

Heartbeats == {heartbeat}
Meters == {1, 2}
Views == {<<1, "usage">>, <<2, "usage">>, <<2, "volume">>}
Chunks == {<<v, 1>> : v \in {w \in Views : w[1] = 2}}
Callers == Heartbeats \cup Views \X {0} \cup Chunks
================================================================================
