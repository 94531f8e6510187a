------------------------------ MODULE MCHistory ------------------------------
(***************************************************************************)
(* Instances of EnergyKeyHistory for TLC.  Months of two days, a window of *)
(* two months and a recent window of today and yesterday keep every        *)
(* relation of the real one: the recent window ends inside a month or at   *)
(* its border, a month falls out of the window while the system runs, and  *)
(* there is an older month to fetch as a chunk.                            *)
(***************************************************************************)
EXTENDS EnergyKeyHistory

\* Every combination of points.
AnyReplies(days) == [days -> Point]

\* The portal has everything but today's point, or nothing.
PlainReplies(days) ==
  {[d \in days |-> IF d = Max(days) THEN NoPoint ELSE v] : v \in Val \cup {NoPoint}}

\* The portal has everything but today's point.
FullReplies(days) == {[d \in days |-> IF d = Max(days) THEN NoPoint ELSE v] : v \in Val}

OneMeter == {1}
TwoMeters == {1, 2}

UsageOnly == [m \in {1} |-> {"actual"}]
TwoUsage == [m \in {1, 2} |-> {"actual"}]
WaterAndHeat == [m \in {1, 2} |-> IF m = 1 THEN {"actual"} ELSE {"actual", "volume"}]

FixedPlan == {{1}}
BothMeters == {{1, 2}}
AnyPlan == SUBSET {1, 2}
==============================================================================
