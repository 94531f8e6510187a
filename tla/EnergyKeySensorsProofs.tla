------------------------ MODULE EnergyKeySensorsProofs ------------------------
(***************************************************************************)
(* Theorems about what the sensors of EnergyKeySensors show.               *)
(***************************************************************************)
EXTENDS EnergyKeySensors, EnergyKeySumsProofs

-----------------------------------------------------------------------------
(* The coordinator beneath the sensors *)

\* A stored day of an imported stream is not in the offset as well.
StoredNotFolded ==
  \A s \in Imported, d \in Day : history[s][d] # NoPoint => offset[s][d] = 0

CoordinatorInv == RowInv /\ PlanInv /\ StoredNotFolded

\* The sensors watch the coordinator and do not disturb it.
LEMMA SensorsStep == [SensorsNext]_allVars => [Next]_vars
<1>1. SensorsNext => Next
  BY DEF SensorsNext, PrepareData, DropData, Publish, KeepData, Unseen, Next
<1>2. UNCHANGED allVars => UNCHANGED vars
  BY DEF allVars
<1> QED BY <1>1, <1>2

\* With sensors above it, the coordinator does what it does without them.
THEOREM SensorsImplementHistory == SensorsSpec => Spec
<1>1. SensorsInit => Init
  BY DEF SensorsInit
<1> QED BY <1>1, SensorsStep, PTL DEF SensorsSpec, Spec

\* So the store and the recorder are the book of accounts beneath the sensors too.
THEOREM SensorsLedger == SensorsSpec => ImplementsLedger
BY SensorsImplementHistory, LedgerRefinement, PTL

\* Its invariants hold beneath the sensors.
LEMMA CoordinatorStep == CoordinatorInv /\ [Next]_vars => CoordinatorInv'
<1> SUFFICES ASSUME CoordinatorInv, [Next]_vars PROVE CoordinatorInv'
  OBVIOUS
<1>1. RowInv'
  BY RowSave, RowImport, RowQuiet DEF CoordinatorInv
<1>2. PlanInv'
  BY PlanUpdate, PlanSave, PlanOther DEF CoordinatorInv
<1>3. StoredNotFolded'
  <2>1. CASE Save
    <3> SUFFICES ASSUME NEW s \in Imported, NEW d \in Day, history'[s][d] # NoPoint
                 PROVE  offset'[s][d] = 0
      BY DEF StoredNotFolded
    <3>1. ~Pruned(d)
      BY <2>1, SaveStep DEF CoordinatorInv, RowInv, Imported
    <3>2. ~Pruned(d)'
      BY <2>1, <3>1, SaveStep DEF CoordinatorInv, RowInv
    <3> QED BY <1>1, <3>2 DEF RowInv, IInv, OffsetPruned
  <2>2. CASE ~Save
    <3>1. UNCHANGED <<history, offset>>
      BY <2>2, QuietStep DEF CoordinatorInv, RowInv, Import
    <3> QED BY <3>1 DEF CoordinatorInv, StoredNotFolded
  <2> QED BY <2>1, <2>2
<1> QED BY <1>1, <1>2, <1>3 DEF CoordinatorInv

\* They hold initially.
LEMMA CoordinatorInit == Init => CoordinatorInv
<1>1. Init => PlanInv
  BY InitInv DEF Init, PlanInv, UpdatedHaveUsage, PlannedMetersStored, NoResults, Pending
<1>2. Init => StoredNotFolded
  BY DEF Init, StoredNotFolded, NoMetric, Imported
<1> QED BY <1>1, <1>2, RowInit DEF CoordinatorInv

-----------------------------------------------------------------------------
(* What the sensors have *)

\* While sensors are available the data is empty, or it is what is stored and imported.
DataStored ==
  /\ phase = "down" => ~success
  /\ phase # "saved" /\ success => data = NoData \/ (refreshed /\ data = history)

\* A day that was shown is still a candidate, or it has left the window.
ShownRetained ==
  \A s \in Stream \ forgotten, d \in Day :
    d \in shown[s] => d \in Candidates(s, history) \/ Pruned(d)

\* One day is shown at a time.
ShownOnce == \A s \in Stream : \A d, e \in shown[s] : d <= e

SensorsInv == CoordinatorInv /\ SensorsTypeOK /\ DataStored /\ ShownRetained /\ ShownOnce

\* The data without meters has no points.
LEMMA NoDataType ==
  /\ NoData \in [Stream -> [Day -> Point]]
  /\ \A s \in Stream : ~HasPoint(NoData[s])
BY DEF NoData, NoMetric, HasPoint, Point

\* The invariant of the sensors holds initially.
LEMMA SensorsInitInv == SensorsInit => SensorsInv
<1> SUFFICES ASSUME SensorsInit PROVE SensorsInv
  OBVIOUS
<1>1. CoordinatorInv
  BY CoordinatorInit DEF SensorsInit
<1>2. SensorsTypeOK
  BY <1>1, NoDataType DEF SensorsInit, SensorsTypeOK, CoordinatorInv, RowInv, IInv
<1>3. DataStored /\ ShownRetained /\ ShownOnce
  BY DEF SensorsInit, DataStored, ShownRetained, ShownOnce
<1> QED BY <1>1, <1>2, <1>3 DEF SensorsInv

\* Every step keeps the types.
LEMMA SensorsTypeStep ==
  ASSUME SensorsInv, [SensorsNext]_allVars
  PROVE  SensorsTypeOK'
<1>1. TypeOK'
  BY SensorsStep, CoordinatorStep DEF SensorsInv, CoordinatorInv, RowInv, IInv
<1>2. CASE PrepareData \/ DropData
  BY <1>1, <1>2, NoDataType DEF PrepareData, DropData, SensorsTypeOK, SensorsInv
<1>3. CASE Publish
  <2>1. data' = history /\ success' = TRUE
        /\ known' = known \cup {s \in Stream : HasPoint(data'[s])}
        /\ shown' = [s \in Stream |-> IF HasPoint(data'[s]) THEN Latest(s, data') ELSE shown[s]]
    BY <1>3 DEF Publish
  <2>2. history \in [Stream -> [Day -> Point]] /\ known \in SUBSET Stream
        /\ shown \in [Stream -> SUBSET Day]
    BY DEF SensorsInv, SensorsTypeOK, TypeOK
  <2>3. \A s \in Stream : Latest(s, data') \in SUBSET Day
    BY DEF Latest, Candidates
  <2> QED BY <1>1, <2>1, <2>2, <2>3 DEF SensorsTypeOK, HasPoint
<1>4. CASE KeepData
  BY <1>1, <1>4 DEF KeepData, SensorsTypeOK, SensorsInv, HasPoint
<1>5. CASE Unseen \/ UNCHANGED allVars
  BY <1>1, <1>5 DEF Unseen, SensorsTypeOK, SensorsInv, HasPoint, allVars, sensorVars
<1> QED BY <1>2, <1>3, <1>4, <1>5 DEF SensorsNext

\* Only a refresh that has imported what it stored replaces the data.
LEMMA DataStep ==
  ASSUME SensorsInv, [SensorsNext]_allVars
  PROVE  DataStored'
<1>1. CASE PrepareData
  BY <1>1 DEF PrepareData, Setup, DataStored, NoData
<1>2. CASE DropData
  BY <1>2 DEF DropData, Stop, DataStored
<1>3. CASE Publish
  BY <1>3 DEF Publish, Import, DataStored
<1>4. CASE KeepData
  BY <1>4 DEF KeepData, DataStored
<1>5. CASE Unseen
  <2>1. UNCHANGED sensorVars
    BY <1>5 DEF Unseen
  <2>2. CASE Save
    BY <2>1, <2>2 DEF Save, SensorsInv, DataStored, sensorVars
  <2>3. CASE ~Save
    <3>1. UNCHANGED <<phase, refreshed, history>> \/ (phase = "idle" /\ phase' = "fetching" /\
             UNCHANGED <<refreshed, history>>)
      BY <1>5, <2>3 DEF Unseen, Tick, StartRefresh, UpdateMeter
    <3> QED BY <2>1, <3>1 DEF SensorsInv, DataStored, sensorVars, NoData
  <2> QED BY <2>2, <2>3
<1>6. CASE UNCHANGED allVars
  BY <1>6 DEF SensorsInv, DataStored, allVars, vars, impl, sensorVars, NoData
<1> QED BY <1>1, <1>2, <1>3, <1>4, <1>5, <1>6 DEF SensorsNext

\* A save keeps the candidates of a kept stream that are inside the window: a meter that
\* stores a temperature stores its usage too.
LEMMA CandidateKept ==
  ASSUME CoordinatorInv, Save, NEW s \in Stream \ forgotten', NEW d \in Candidates(s, history),
         ~Pruned(d)
  PROVE  d \in Candidates(s, history')
<1> DEFINE u == <<s[1], "actual">>
<1>1. d \in Day /\ s \in Stream
  BY DEF Candidates
<1>2. [Next]_vars /\ IInv
  BY DEF CoordinatorInv, RowInv, Next
<1>3. /\ history[s][d] # NoPoint => history'[s][d] # NoPoint
      /\ history[s][d] \in Val => history'[s][d] \in Val
  BY <1>1, <1>2, StepKeepsPoints
<1>4. CASE ViewOf[s[2]] # "temperature"
  BY <1>3, <1>4 DEF Candidates
<1>5. CASE ViewOf[s[2]] = "temperature"
  <2>1. history[s][d] # NoPoint /\ history[u][d] \in Val
    BY <1>5 DEF Candidates
  <2>2. history'[s] = Snapshot(s).history
    BY DEF Save
  <2>3. s[1] \in With("ok")
    <3>1. CASE s[1] \notin With("ok")
      <4>1. history'[s][d] = NoPoint
        BY <1>1, <2>2, <3>1 DEF Snapshot, NoMetric
      <4> QED BY <1>3, <2>1, <4>1
    <3> QED BY <3>1
  <2>4. u \in Stream /\ u[1] = s[1] /\ u[2] = "actual" /\ s[1] \in Meter
    BY StreamParts, MeterAssumption DEF Stream, MetricKind
  <2>5. Snapshot(u) = result[s[1]].metrics["actual"]
    BY <2>3, <2>4 DEF Snapshot
  <2>6. HasPoint(Snapshot(u).history)
    BY <2>3, <2>4, <2>5 DEF With, CoordinatorInv, PlanInv, UpdatedHaveUsage
  <2>7. Snapshot(u) # NoMetric
    BY <2>6 DEF HasPoint, NoMetric
  <2>8. Snapshot(u).history[d] \in Val
    BY <1>1, <1>2, <2>1, <2>4, <2>7, SnapshotMerges DEF MergedFrom
  <2>9. history'[u][d] \in Val
    BY <2>4, <2>8 DEF Save
  <2> QED BY <1>1, <1>3, <1>5, <2>1, <2>9 DEF Candidates
<1> QED BY <1>4, <1>5

\* What a publication shows.
LEMMA PublishShows ==
  ASSUME Publish, NEW s \in Stream
  PROVE  \/ shown'[s] = Latest(s, history) /\ phase = "saved"
         \/ shown'[s] = shown[s]
BY DEF Publish, Import

\* Steps other than a publication leave what is shown alone.
LEMMA ShownStays ==
  ASSUME [SensorsNext]_allVars, ~Publish
  PROVE  UNCHANGED shown
BY DEF SensorsNext, PrepareData, DropData, KeepData, Unseen, sensorVars, allVars

\* A shown day stays a candidate until it leaves the window.
LEMMA ShownStep ==
  ASSUME SensorsInv, [SensorsNext]_allVars
  PROVE  ShownRetained' /\ ShownOnce'
<1>1. [Next]_vars /\ IInv
  BY SensorsStep DEF SensorsInv, CoordinatorInv, RowInv
<1>2. CASE Publish
  <2>1. UNCHANGED <<today, history, forgotten>>
    BY <1>2 DEF Publish, Import, ghosts
  <2>2. ShownRetained'
    <3> SUFFICES ASSUME NEW s \in Stream \ forgotten, NEW d \in Day, d \in shown'[s]
                 PROVE  d \in Candidates(s, history) \/ Pruned(d)
      BY <2>1 DEF ShownRetained, Pruned, HistoryStart, Month
    <3> QED BY <1>2, PublishShows DEF Latest, SensorsInv, ShownRetained
  <2>3. ShownOnce'
    BY <1>2, PublishShows DEF Latest, SensorsInv, ShownOnce
  <2> QED BY <2>2, <2>3
<1>3. CASE ~Publish
  <2>1. UNCHANGED shown
    BY <1>3, ShownStays
  <2>2. CASE Save
    <3> SUFFICES ASSUME NEW s \in Stream \ forgotten', NEW d \in Day, d \in shown[s]
                 PROVE  d \in Candidates(s, history') \/ Pruned(d)'
      BY <2>1 DEF ShownRetained, ShownOnce, SensorsInv
    <3>1. s \in Stream \ forgotten
      BY <1>1, <2>2, SaveStep
    <3>2. d \in Candidates(s, history) \/ Pruned(d)
      BY <3>1 DEF SensorsInv, ShownRetained
    <3> QED BY <1>1, <2>2, <3>2, SaveStep, CandidateKept DEF SensorsInv
  <2>3. CASE ~Save
    <3>1. ~Import
      <4>1. CASE Import
        <5>1. [SensorsNext]_allVars /\ phase = "saved" /\ phase' = "idle" /\ refreshed' = TRUE
          BY <4>1 DEF Import
        <5>2. CASE UNCHANGED allVars
          BY <5>1, <5>2 DEF allVars, vars, impl
        <5>3. CASE SensorsNext
          BY <1>3, <2>3, <5>1, <5>3 DEF SensorsNext, PrepareData, DropData, KeepData, Unseen, Setup,
             Stop, FailRefresh, FailEmpty, Answered, Tick, StartRefresh, UpdateMeter
        <5> QED BY <5>1, <5>2, <5>3
      <4> QED BY <4>1
    <3>2. UNCHANGED <<history, forgotten>> /\ \A d \in Day : Pruned(d) => Pruned(d)'
      BY <1>1, <2>3, <3>1, QuietStep
    <3> QED BY <2>1, <3>2 DEF SensorsInv, ShownRetained, ShownOnce, Candidates
  <2> QED BY <2>2, <2>3
<1> QED BY <1>2, <1>3

\* The invariant of the sensors.
THEOREM SensorsInvariance == SensorsSpec => []SensorsInv
<1>1. SensorsInv /\ [SensorsNext]_allVars => SensorsInv'
  BY SensorsStep, CoordinatorStep, SensorsTypeStep, DataStep, ShownStep DEF SensorsInv
<1> QED BY <1>1, SensorsInitInv, PTL DEF SensorsSpec

\* Every variable of coordinator and sensors keeps its type.
THEOREM SensorsTypeCorrect == SensorsSpec => []SensorsTypeOK
<1>1. SensorsInv => SensorsTypeOK
  BY DEF SensorsInv
<1> QED BY <1>1, SensorsInvariance, PTL

\* A complete day of a stored stream has its row once the refresh that stored it is over.
LEMMA RowOfCompleteDay ==
  ASSUME SensorsInv, phase \in {"idle", "fetching"}, refreshed, NEW s \in Imported \ forgotten,
         NEW d \in Day, history[s][d] \in Val
  PROVE  recorder[s][d] # NoPoint /\ recorder[s][d].state = history[s][d]
<1>1. s \in Stream
  BY DEF Imported
<1>2. recorder[s][d] = [state |-> accepted[s][d],
                        sum |-> [e \in Day |-> IF e <= d THEN accepted[s][e] ELSE 0]]
  BY DEF SensorsInv, CoordinatorInv, RowInv, SumsFollowAccepted
<1>3. accepted[s][d] = history[s][d]
  <2>1. offset[s][d] = 0
    BY <1>1, ValIsPoint DEF SensorsInv, CoordinatorInv, StoredNotFolded
  <2>2. offset[s][d] + Contribution(history[s][d]) = accepted[s][d]
    BY DEF SensorsInv, CoordinatorInv, RowInv, IInv, Conservation
  <2> QED BY <2>1, <2>2, ValIsPoint DEF Contribution
<1>4. recorder[s][d] # NoPoint
  <2>1. [e \in Day |-> IF e <= d THEN accepted[s][e] ELSE 0] \in [Day -> Nat]
    BY <1>1, DayTypes DEF SensorsInv, SensorsTypeOK
  <2>2. recorder[s][d] \in [state : Val, sum : [Day -> Nat]]
    BY <1>2, <1>3, <2>1
  <2> QED BY <2>2, PointAssumption
<1> QED BY <1>2, <1>3, <1>4

\* For every instance, an available sensor of an imported stream shows the period and the
\* value of the last row of its statistics.
THEOREM SensorShowsLastRowHolds == SensorsSpec => []SensorShowsLastRow
<1>1. SensorsInv => SensorShowsLastRow
  <2> SUFFICES ASSUME SensorsInv, phase \in {"idle", "fetching"}, NEW s \in Imported \ forgotten,
                      Available(s), NEW d \in Latest(s, data)
               PROVE  /\ recorder[s][d] # NoPoint /\ recorder[s][d].state = data[s][d]
                      /\ \A e \in Rows(s) : e <= d
    BY DEF SensorShowsLastRow
  <2>1. s \in Stream /\ ViewOf[s[2]] # "temperature"
    BY DEF Imported, ViewOf, MetricKind
  <2>2. refreshed /\ data = history
    BY <2>1, NoDataType DEF SensorsInv, DataStored, Available
  <2>3. d \in Day /\ history[s][d] \in Val /\ \A e \in Day : history[s][e] \in Val => e <= d
    BY <2>1, <2>2 DEF Latest, Candidates
  <2>4. recorder[s][d] # NoPoint /\ recorder[s][d].state = history[s][d]
    BY <2>2, <2>3, RowOfCompleteDay
  <2>5. ASSUME NEW e \in Rows(s)
        PROVE  e <= d
    <3>1. e \in Day /\ recorder[s][e] # NoPoint /\ d \in Nat /\ e \in Nat
      BY <2>3, WindowAssumption DEF Rows, Day
    <3>2. history[s][e] \in Val \/ e < d
      BY <2>3, <3>1, ValIsPoint DEF SensorsInv, CoordinatorInv, RowInv, RowsBehind
    <3> QED BY <2>3, <3>1, <3>2
  <2> QED BY <2>2, <2>4, <2>5
<1> QED BY <1>1, SensorsInvariance, PTL

\* For every instance, a temperature is never shown for a period without a usage row.
THEOREM TemperatureOfMeasuredPeriodHolds == SensorsSpec => []TemperatureOfMeasuredPeriod
<1>1. SensorsInv => TemperatureOfMeasuredPeriod
  <2> SUFFICES ASSUME SensorsInv, phase \in {"idle", "fetching"}, NEW s \in Stream,
                      ViewOf[s[2]] = "temperature", Available(s), <<s[1], "actual">> \notin forgotten,
                      NEW d \in Latest(s, data)
               PROVE  recorder[<<s[1], "actual">>][d] # NoPoint
    BY DEF TemperatureOfMeasuredPeriod
  <2>1. refreshed /\ data = history
    BY NoDataType DEF SensorsInv, DataStored, Available
  <2>2. d \in Day /\ history[<<s[1], "actual">>][d] \in Val
    BY <2>1 DEF Latest, Candidates
  <2>3. <<s[1], "actual">> \in Imported \ forgotten
    BY MeterAssumption DEF Imported, Stream, MetricKind
  <2> QED BY <2>1, <2>2, <2>3, RowOfCompleteDay
<1> QED BY <1>1, SensorsInvariance, PTL

\* A step shows the same day, or a later one.
LEMMA ShownAdvances ==
  ASSUME SensorsInv, [SensorsNext]_allVars, NEW s \in Stream \ forgotten', NEW d \in shown[s],
         NEW e \in shown'[s]
  PROVE  d <= e
<1>1. CASE Publish
  <2>1. UNCHANGED forgotten
    BY <1>1 DEF Publish, Import, ghosts
  <2>2. CASE shown'[s] = Latest(s, history) /\ phase = "saved"
    <3>1. e \in Day /\ d \in Day /\ history[s][e] # NoPoint
      BY <2>2, ValIsPoint DEF Latest, Candidates, SensorsInv, SensorsTypeOK
    <3>2. ~Pruned(e)
      BY <2>2, <3>1 DEF SensorsInv, CoordinatorInv, RowInv, HistoryPruned
    <3>3. CASE d \in Candidates(s, history)
      BY <2>2, <3>3 DEF Latest
    <3>4. CASE Pruned(d)
      <4>1. d \in Nat /\ e \in Nat /\ HistoryStart \in Int
        BY <3>1, WindowAssumption, WindowType DEF Day, SensorsInv, SensorsTypeOK, TypeOK
      <4> QED BY <3>2, <3>4, <4>1 DEF Pruned
    <3> QED BY <2>1, <3>1, <3>3, <3>4 DEF SensorsInv, ShownRetained
  <2>3. CASE shown'[s] = shown[s]
    BY <2>3 DEF SensorsInv, ShownOnce
  <2> QED BY <1>1, <2>2, <2>3, PublishShows
<1>2. CASE ~Publish
  BY <1>2, ShownStays DEF SensorsInv, ShownOnce
<1> QED BY <1>1, <1>2

\* For every instance, the period a sensor of a kept stream shows never goes back.
THEOREM ShownPeriodAdvancesHolds == SensorsSpec => ShownPeriodAdvances
<1>1. SensorsInv /\ [SensorsNext]_allVars =>
        [\A s \in Stream \ forgotten' : \A d \in shown[s], e \in shown'[s] : d <= e]_allVars
  BY ShownAdvances
<1> QED BY <1>1, SensorsInvariance, PTL DEF SensorsSpec, ShownPeriodAdvances

=============================================================================
