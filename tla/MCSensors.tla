------------------------------- MODULE MCSensors -------------------------------
(***************************************************************************)
(* EnergyKeySensors for TLC: one heat meter with usage and a temperature,  *)
(* and the window of MCHistory, over a change of month.                    *)
(***************************************************************************)
EXTENDS EnergyKeySensors

\* The portal has everything but today's point, or not yesterday's either.
LateReplies(days) ==
  {[d \in days |-> IF d + late > Max(days) THEN NoPoint ELSE v] : v \in Val, late \in {1, 2}}

OneMeter == {1}
HeatMeter == [m \in {1} |-> {"actual", "flow"}]
FixedPlan == {{1}}
================================================================================
