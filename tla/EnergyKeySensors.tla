---------------------------- MODULE EnergyKeySensors ----------------------------
(***************************************************************************)
(* The sensor entities over EnergyKeyHistory: coordinator.data, which a    *)
(* refresh replaces when it has imported its statistics and keeps when it  *)
(* fails, and the entities a listener adds once a metric has been seen.    *)
(* An entity shows the newest completed period of its metric; a            *)
(* temperature counts as completed when the usage of the same refresh is.  *)
(***************************************************************************)
EXTENDS EnergyKeyHistory

VARIABLES
  data,      \* data[s]: history of the metric in coordinator.data, without points if there is none
  success,   \* coordinator.last_update_success
  known,     \* known_entities: the streams that have an entity since the last setup
  shown      \* observation: shown[s]: the days whose value an entity of s has shown last

sensorVars == <<data, success, known, shown>>
allVars == <<vars, sensorVars>>

NoData == [s \in Stream |-> NoMetric.history]

\* Mutant: a temperature needs no completed usage period.
AnyCandidates(s, d) == {e \in Day : d[s][e] # NoPoint}

\* The periods that may give a sensor its state (require_complete, completed_periods).
Candidates(s, d) ==
  IF ViewOf[s[2]] = "temperature"
  THEN {e \in Day : d[s][e] # NoPoint /\ d[<<s[1], "actual">>][e] \in Val}
  ELSE {e \in Day : d[s][e] \in Val}

\* Mutant: the oldest period instead of the newest.
Oldest(s, d) == {e \in Candidates(s, d) : \A f \in Candidates(s, d) : e <= f}

\* The newest of them, if there is one.
Latest(s, d) == {e \in Candidates(s, d) : \A f \in Candidates(s, d) : f <= e}

SensorsInit ==
  /\ Init
  /\ data = NoData /\ success = FALSE /\ known = {} /\ shown = [s \in Stream |-> {}]

\* async_prepare sets empty data as a success; the platform starts without meter entities.
PrepareData ==
  /\ Setup
  /\ data' = NoData /\ success' = TRUE /\ known' = {}
  /\ UNCHANGED shown

\* Mutant: the data outlives the runtime.
KeepRuntimeData ==
  /\ Stop
  /\ success' = FALSE /\ known' = {}
  /\ UNCHANGED <<data, shown>>

\* The runtime is gone, the entities are unavailable or gone with it.
DropData ==
  /\ Stop
  /\ data' = NoData /\ success' = FALSE /\ known' = {}
  /\ UNCHANGED shown

\* The refresh returns its snapshots; listeners add the entities of new metrics and every
\* entity writes its state.
Publish ==
  /\ Import
  /\ data' = history /\ success' = TRUE
  /\ known' = known \cup {s \in Stream : HasPoint(data'[s])}
  /\ shown' = [s \in Stream |-> IF HasPoint(data'[s]) THEN Latest(s, data') ELSE shown[s]]

\* A refresh that fails keeps the data and marks the entities unavailable.
KeepData ==
  /\ FailRefresh \/ FailEmpty
  /\ success' = FALSE
  /\ UNCHANGED <<data, known, shown>>

Unseen ==
  /\ Tick \/ StartRefresh \/ Save \/ \E m \in Meter : UpdateMeter(m)
  /\ UNCHANGED sensorVars

SensorsNext == PrepareData \/ DropData \/ Publish \/ KeepData \/ Unseen

SensorsSpec == SensorsInit /\ [][SensorsNext]_allVars

-----------------------------------------------------------------------------
(* Properties *)

\* EnergyKeySensor.available
Available(s) == s \in known /\ success /\ HasPoint(data[s])

\* Every variable keeps its type, and only a known entity has data.
SensorsTypeOK ==
  /\ TypeOK
  /\ data \in [Stream -> [Day -> Point]]
  /\ success \in BOOLEAN
  /\ known \in SUBSET Stream
  /\ shown \in [Stream -> SUBSET Day]
  /\ \A s \in Stream : HasPoint(data[s]) => s \in known

\* What a sensor of an imported stream shows is the last row of the stream's statistics:
\* its period and its value, also after failed refreshes, lost imports and restarts.
SensorShowsLastRow ==
  phase \in {"idle", "fetching"} =>
    \A s \in Imported \ forgotten : Available(s) =>
      \A d \in Latest(s, data) :
        /\ recorder[s][d] # NoPoint /\ recorder[s][d].state = data[s][d]
        /\ \A e \in Rows(s) : e <= d

\* A temperature is shown only for a period whose usage has a row in the statistics of the
\* meter: a portal that has the temperatures of a day before its usage is not ahead of it.
TemperatureOfMeasuredPeriod ==
  phase \in {"idle", "fetching"} =>
    \A s \in Stream : ViewOf[s[2]] = "temperature" /\ Available(s) /\ <<s[1], "actual">> \notin forgotten =>
      \A d \in Latest(s, data) : recorder[<<s[1], "actual">>][d] # NoPoint

\* The period a sensor shows never goes back, not even over a restart, unless the store
\* has dropped the stream; at worst nothing is left to show.
ShownPeriodAdvances ==
  [][\A s \in Stream \ forgotten' : \A d \in shown[s], e \in shown'[s] : d <= e]_allVars

=============================================================================
