--------------------------- MODULE EnergyKeyHistory ---------------------------
(***************************************************************************)
(* The daily refresh of EnergyKeyCoordinator, the history and statistics   *)
(* offsets it keeps in EnergyKeyStore, and the rows it imports into Home   *)
(* Assistant's recorder.                                                   *)
(*                                                                         *)
(* A refresh fetches every planned view of every meter, merges what it     *)
(* fetched with the stored history, prunes what has left the rolling       *)
(* window and folds the pruned values into a cumulative offset; only when  *)
(* no meter failed does it replace the store and import running sums.      *)
(*                                                                         *)
(* A month has DaysPerMonth days; day d ends where day d + 1 starts.  The  *)
(* cumulative offset and the `sum` of a row are floats in the code; they   *)
(* are kept here as their addends, one entry per day, so that a value that *)
(* is counted twice or dropped shows at its day.  A refresh reads the      *)
(* clock once, when it starts, so midnight never falls inside one.         *)
(***************************************************************************)
EXTENDS Integers, Sequences, FiniteSets, FiniteSetsExt, Functions

CONSTANTS
  Meter,              \* meter keys, numbered in discovery order
  Exposed,            \* Exposed[m]: the metric kinds the portal has for meter m
  Plans,              \* the sets of meters a discovery may select
  Val,                \* consumption of a complete period
  Incomplete,         \* a point of a period that is not complete
  NoPoint,            \* no point, no row
  Replies(_),         \* Replies(days): what a series may hold when days are requested
  DaysPerMonth,
  HistoryMonths,      \* HISTORY_MONTHS
  RecentDays,         \* RECENT_HISTORY_DAYS
  FirstDay, MaxDay    \* the first day of operation, the bound on days

MetricKind == {"actual", "expected", "volume", "flow", "return"}
ViewName == {"consumption", "volume", "temperature"}
Day == 0 .. MaxDay
Point == Val \cup {Incomplete, NoPoint}

ASSUME MeterAssumption ==
  /\ Meter \subseteq Nat
  /\ Exposed \in [Meter -> SUBSET MetricKind]
  /\ \A m \in Meter : "actual" \in Exposed[m]
  /\ Plans \subseteq SUBSET Meter

ASSUME PointAssumption ==
  /\ Val \subseteq Nat
  /\ Incomplete \notin Val /\ NoPoint \notin Val /\ Incomplete # NoPoint
  /\ NoPoint \notin [state : Val, sum : [Day -> Nat]]
  /\ \A days \in SUBSET Day : Replies(days) \subseteq [days -> Point]

ASSUME WindowAssumption ==
  /\ DaysPerMonth \in Nat \ {0} /\ HistoryMonths \in Nat \ {0} /\ RecentDays \in Nat
  /\ FirstDay \in Nat /\ MaxDay \in Nat /\ FirstDay <= MaxDay
  /\ RecentDays <= FirstDay
  /\ HistoryMonths * DaysPerMonth <= FirstDay

VARIABLES
  today,       \* the local date
  phase,       \* "down", "idle", "fetching" or "saved": history replaced, not yet imported
  plan,        \* coordinator._supported: the meters a refresh asks for
  refreshed,   \* coordinator.last_successful_refresh is not None
  result,      \* result[m]: what _async_update_meter of this refresh returned or raised;
               \*   observation `turned`: the kinds whose view was of another kind
  history,     \* history[s]: the stored points of stream s, in memory and on disk
  offset,      \* offset[s]: the addends of its cumulative statistics offset
  recorder,    \* recorder[s][d]: the imported row that starts on day d
  accepted,    \* observation: the last complete value stored for each day
  forgotten    \* observation: streams the store has dropped with what they held

impl == <<today, phase, plan, refreshed, result, history, offset, recorder>>
ghosts == <<accepted, forgotten>>
vars == <<impl, ghosts>>

-----------------------------------------------------------------------------
(* Streams and views *)

Stream == {s \in Meter \X MetricKind : s[2] \in Exposed[s[1]]}

\* The streams whose complete points become external statistics.
Imported == {s \in Stream : s[2] \in {"actual", "volume"}}

ViewOf == [k \in MetricKind |->
             CASE k \in {"actual", "expected"} -> "consumption"
               [] k = "volume" -> "volume"
               [] OTHER -> "temperature"]

ViewKinds(m, view) == {k \in Exposed[m] : ViewOf[k] = view}

(* The rolling window *)

Month(d) == d \div DaysPerMonth
HistoryStart == (Month(today) - (HistoryMonths - 1)) * DaysPerMonth
RecentStart == today - RecentDays
Recent == RecentStart .. today

Contribution(p) == IF p \in Val THEN p ELSE 0
Stored(s) == {d \in Day : history[s][d] # NoPoint}

\* Months before the recent window in which some stream of streams has no point.
MissingMonths(streams) ==
  {mo \in Month(HistoryStart) .. Month(today) :
     /\ mo * DaysPerMonth < RecentStart
     /\ \E s \in streams : \A d \in Stored(s) : Month(d) # mo}

\* The chunk that asks for a missing month, never past tomorrow's midnight.
ChunkDays(months) == {d \in Day : Month(d) \in months /\ d <= today}

-----------------------------------------------------------------------------
(* What the portal answers.  It returns a point for any requested day, a   *)
(* complete one only for a past day, and never reopens a period it has     *)
(* reported complete: this is what the code relies on, not what it checks. *)

Whole(f) == [d \in Day |-> IF d \in DOMAIN f THEN f[d] ELSE NoPoint]

SeriesReplies(s, days) ==
  {f \in Replies(days) : \A d \in days :
     /\ f[d] \in Val => d < today
     /\ f[d] = Incomplete => history[s][d] \notin Val}

NoReply(status) == [status |-> status, points |-> <<>>, lost |-> {}]

\* The recent request returned the series in available, the chunks of the months in lost failed.
Reply(m, available, lost) ==
  LET missing == MissingMonths({<<m, k>> : k \in available})
      asked == (Recent \cap Day) \cup ChunkDays(missing \ lost)
      SeriesOf(k) == {Whole(f) : f \in SeriesReplies(<<m, k>>, asked)}
  IN  {[status |-> "ok", points |-> p, lost |-> ChunkDays(lost) \ asked] :
         p \in {q \in [available -> UNION {SeriesOf(k) : k \in available}] :
                  \A k \in available : q[k] \in SeriesOf(k)}}

\* _async_fetch_view_results: the recent request, then the chunks of missing months.
ViewReplies(m, view) ==
  IF ViewKinds(m, view) = {} THEN {NoReply("ok")} ELSE
  {NoReply("auth"), NoReply("connection"), NoReply("protocol")}
    \cup {NoReply(status) : status \in IF view = "volume" THEN {"mismatch"} ELSE {}}
    \cup UNION {UNION {Reply(m, available, lost) :
                  lost \in SUBSET MissingMonths({<<m, k>> : k \in available})} :
                available \in SUBSET ViewKinds(m, view)}

-----------------------------------------------------------------------------
(* _async_update_meter: merge, prune, and decide what is raised *)

Pruned(d) == d + 1 < HistoryStart

\* Mutant: a refresh replaces the history.
ReplacedHistory(s, points) == [d \in Day |-> IF Pruned(d) THEN NoPoint ELSE points[d]]

MergedHistory(s, points) ==
  [d \in Day |-> IF Pruned(d) THEN NoPoint
                 ELSE IF points[d] # NoPoint THEN points[d] ELSE history[s][d]]

\* Mutant: what has been pruned is taken off the offset.
NegatedOffset(s) ==
  [d \in Day |-> offset[s][d] - IF Pruned(d) THEN Contribution(history[s][d]) ELSE 0]

\* Mutant: the offset holds what this refresh prunes only.
ResetOffset(s) == [d \in Day |-> IF Pruned(d) THEN Contribution(history[s][d]) ELSE 0]

MergedOffset(s) ==
  [d \in Day |-> offset[s][d] + IF Pruned(d) THEN Contribution(history[s][d]) ELSE 0]

NoMetric == [history |-> [d \in Day |-> NoPoint], offset |-> [d \in Day |-> 0], lost |-> {}]

HasPoint(h) == \E d \in Day : h[d] # NoPoint

\* Mutant: a view that is optional before the first success stays optional after it.
ForgivingStatus(m, k, reply) ==
  LET s == <<m, k>>
  IN  CASE reply.status = "mismatch" -> "none"
        [] reply.status = "ok" /\ k \notin DOMAIN reply.points ->
             IF k = "actual" \/ Stored(s) # {} THEN "protocol" ELSE "none"
        [] reply.status = "ok" /\ k \in DOMAIN reply.points ->
             IF HasPoint(MergedHistory(s, reply.points[k])) THEN "ok"
             ELSE IF k = "actual" THEN "protocol" ELSE "none"
        [] reply.status \in {"connection", "protocol"} /\ ViewOf[k] # "consumption" -> "none"
        [] OTHER -> reply.status

\* _optional_results and _build_metric: "ok", None, or the error they raise.
MetricStatus(m, k, reply) ==
  LET s == <<m, k>>
  IN  CASE reply.status = "mismatch" -> "none"
        [] reply.status = "ok" /\ k \notin DOMAIN reply.points ->
             IF k = "actual" \/ Stored(s) # {} THEN "protocol" ELSE "none"
        [] reply.status = "ok" /\ k \in DOMAIN reply.points ->
             IF HasPoint(MergedHistory(s, reply.points[k])) THEN "ok"
             ELSE IF k = "actual" THEN "protocol" ELSE "none"
        [] reply.status \in {"connection", "protocol"} /\ ViewOf[k] # "consumption"
             /\ ~refreshed -> "none"
        [] OTHER -> reply.status

KindOrder == <<"actual", "expected", "volume", "flow", "return">>

MeterStatus(m, reply) ==
  LET status(i) == MetricStatus(m, KindOrder[i], reply[ViewOf[KindOrder[i]]])
      raising == {i \in 1 .. 5 : KindOrder[i] \in Exposed[m] /\ status(i) \notin {"ok", "none"}}
  IN  IF raising = {} THEN "ok" ELSE status(Min(raising))

Metric(m, k, reply) ==
  IF k \in Exposed[m] /\ reply.status = "ok" /\ MetricStatus(m, k, reply) = "ok"
  THEN [history |-> MergedHistory(<<m, k>>, reply.points[k]),
        offset |-> MergedOffset(<<m, k>>), lost |-> reply.lost]
  ELSE NoMetric

Pending == [status |-> "pending", metrics |-> [k \in MetricKind |-> NoMetric], turned |-> {}]

\* The kinds whose view now measures something else than what the code expects of it.
Turned(m, reply) == {k \in Exposed[m] : reply[ViewOf[k]].status = "mismatch"}

MeterResult(m, reply) ==
  LET status == MeterStatus(m, reply)
  IN  IF status = "ok"
      THEN [status |-> "ok", metrics |-> [k \in MetricKind |-> Metric(m, k, reply[ViewOf[k]])],
            turned |-> Turned(m, reply)]
      ELSE [Pending EXCEPT !.status = status]

\* What the answers to the requests of one meter may come to.
MeterAnswers(m) ==
  {MeterResult(m, [consumption |-> c, volume |-> v, temperature |-> t]) :
     c \in ViewReplies(m, "consumption"), v \in ViewReplies(m, "volume"),
     t \in ViewReplies(m, "temperature")}

-----------------------------------------------------------------------------
(* Actions *)

NoResults == [m \in Meter |-> Pending]

Init ==
  /\ today = FirstDay
  /\ phase = "down" /\ plan = {} /\ refreshed = FALSE
  /\ result = NoResults
  /\ history = [s \in Stream |-> NoMetric.history]
  /\ offset = [s \in Stream |-> NoMetric.offset]
  /\ recorder = [s \in Stream |-> NoMetric.history]
  /\ accepted = [s \in Stream |-> NoMetric.offset]
  /\ forgotten = {}

\* Midnight.  Any number of days may pass while Home Assistant is down.
Tick ==
  /\ phase \in {"down", "idle"} /\ today < MaxDay
  /\ today' = today + 1
  /\ UNCHANGED <<phase, plan, refreshed, result, history, offset, recorder, ghosts>>

\* async_setup_entry: load the store, discover the meters with a supported view.
Setup ==
  /\ phase = "down"
  /\ phase' = "idle"
  /\ \E meters \in Plans \ {{}} : plan' = meters
  /\ UNCHANGED <<today, refreshed, result, history, offset, recorder, ghosts>>

\* The process dies, or the entry is unloaded and its tasks are cancelled.
Stop ==
  /\ phase # "down"
  /\ phase' = "down" /\ plan' = {} /\ refreshed' = FALSE /\ result' = NoResults
  /\ UNCHANGED <<today, history, offset, recorder, ghosts>>

StartRefresh ==
  /\ phase = "idle"
  /\ phase' = "fetching"
  /\ UNCHANGED <<today, plan, refreshed, result, history, offset, recorder, ghosts>>

\* The requests of one meter have all been answered.
UpdateMeter(m) ==
  /\ phase = "fetching" /\ m \in plan /\ result[m].status = "pending"
  /\ \E r \in MeterAnswers(m) : result' = [result EXCEPT ![m] = r]
  /\ UNCHANGED <<today, phase, plan, refreshed, history, offset, recorder, ghosts>>

Answered == phase = "fetching" /\ \A m \in plan : result[m].status # "pending"
With(status) == {m \in plan : result[m].status = status}

\* Before the first success a meter without a usable answer is left out.
Unsupported == IF refreshed THEN {} ELSE With("protocol")
\* Mutant: an unusable answer never fails the refresh.
FailingWithoutProtocol == plan \ (With("ok") \cup With("protocol"))

Failing == plan \ (With("ok") \cup Unsupported)

\* ConfigEntryAuthFailed or UpdateFailed because of one meter.
FailRefresh ==
  /\ Answered /\ Failing # {}
  /\ phase' = "idle" /\ result' = NoResults
  /\ UNCHANGED <<today, plan, refreshed, history, offset, recorder, ghosts>>

\* UpdateFailed because no meter is left; the plan has been trimmed by then.
FailEmpty ==
  /\ Answered /\ Failing = {} /\ With("ok") = {}
  /\ plan' = plan \ Unsupported
  /\ phase' = "idle" /\ result' = NoResults
  /\ UNCHANGED <<today, refreshed, history, offset, recorder, ghosts>>

Snapshot(s) == IF s[1] \in With("ok") THEN result[s[1]].metrics[s[2]] ELSE NoMetric

Dropped(s) ==
  /\ HasPoint(history[s]) \/ \E d \in Day : offset[s][d] # 0
  /\ ~HasPoint(Snapshot(s).history)

\* The store is replaced by the snapshots, and by nothing else.
Save ==
  /\ Answered /\ Failing = {} /\ With("ok") # {}
  /\ phase' = "saved"
  /\ plan' = plan \ Unsupported
  /\ history' = [s \in Stream |-> Snapshot(s).history]
  /\ offset' = [s \in Stream |-> IF s \in Imported THEN Snapshot(s).offset ELSE NoMetric.offset]
  /\ result' = NoResults
  /\ accepted' = [s \in Stream |-> [d \in Day |->
                    IF Snapshot(s).history[d] \in Val THEN Snapshot(s).history[d]
                    ELSE accepted[s][d]]]
  /\ forgotten' = forgotten \cup {s \in Stream : Dropped(s)}
  /\ UNCHANGED <<today, refreshed, recorder>>

\* Mutants: the sum leaves out the offset, or the day itself.
RowWithoutOffset(s, d) ==
  [state |-> history[s][d],
   sum |-> [e \in Day |-> IF e <= d THEN Contribution(history[s][e]) ELSE 0]]

RowBeforeDay(s, d) ==
  [state |-> history[s][d],
   sum |-> [e \in Day |-> offset[s][e] + IF e < d THEN Contribution(history[s][e]) ELSE 0]]

\* _statistics_for_metric: the row of a complete day, its sum running from the offset.
Row(s, d) ==
  [state |-> history[s][d],
   sum |-> [e \in Day |-> offset[s][e] + IF e <= d THEN Contribution(history[s][e]) ELSE 0]]

Import ==
  /\ phase = "saved"
  /\ phase' = "idle" /\ refreshed' = TRUE
  /\ recorder' = [s \in Stream |-> [d \in Day |->
                    IF s \in Imported /\ history[s][d] \in Val THEN Row(s, d)
                    ELSE recorder[s][d]]]
  /\ UNCHANGED <<today, plan, result, history, offset, ghosts>>

Next ==
  \/ Tick \/ Setup \/ Stop \/ StartRefresh
  \/ \E m \in Meter : UpdateMeter(m)
  \/ FailRefresh \/ FailEmpty \/ Save \/ Import

Spec == Init /\ [][Next]_vars

-----------------------------------------------------------------------------
(* Properties *)

Amounts == [Day -> Nat]
Metrics == [history : [Day -> Point], offset : Amounts, lost : SUBSET Day]
Statuses == {"pending", "ok", "auth", "connection", "protocol"}
MeterResults ==
  [status : Statuses, metrics : [MetricKind -> Metrics], turned : SUBSET MetricKind]
RecorderRows == [state : Val, sum : Amounts] \cup {NoPoint}

\* Every variable stays in the set of values the code gives it.
TypeOK ==
  /\ today \in Day
  /\ phase \in {"down", "idle", "fetching", "saved"}
  /\ plan \in SUBSET Meter /\ refreshed \in BOOLEAN
  /\ result \in [Meter -> MeterResults]
  /\ history \in [Stream -> [Day -> Point]]
  /\ offset \in [Stream -> Amounts]
  /\ recorder \in [Stream -> [Day -> RecorderRows]]
  /\ accepted \in [Stream -> Amounts]
  /\ forgotten \in SUBSET Stream

\* Conservation: until a stream is dropped, the offset and the retained history
\* together count each day exactly once, at the last value the portal gave for it,
\* however often refreshes fail, are cut short, or come late.
Conservation ==
  \A s \in Imported \ forgotten : \A d \in Day :
    offset[s][d] + Contribution(history[s][d]) = accepted[s][d]

\* What a finished import leaves in the recorder for a retained complete day is the
\* running sum of everything accepted up to that day, pruned days included.
SumsFollowAccepted ==
  refreshed /\ phase # "saved" =>
    \A s \in Imported \ forgotten, d \in Day :
      history[s][d] \in Val =>
        recorder[s][d] = [state |-> accepted[s][d],
                          sum |-> [e \in Day |-> IF e <= d THEN accepted[s][e] ELSE 0]]

Rows(s) == {d \in Day : recorder[s][d] # NoPoint}
Counted(s, d) == {e \in Day : recorder[s][d].sum[e] # 0}

\* The sums of a stream continue: what an earlier row counts, a later row counts too, unless
\* the portal has since revised it to nothing.
SumsContinue(s) ==
  \A c, d \in Rows(s) : c < d => \A e \in Counted(s, c) \ Counted(s, d) : accepted[s][e] = 0

\* Across restarts, lost imports, late chunks and pruning the sums of a stream continue
\* as long as the store has not dropped the stream.
KeptSumsContinue == \A s \in Imported \ forgotten : SumsContinue(s)

\* README: the offset "preserves a continuous `sum` for existing statistics".
ContinuousSum == \A s \in Imported : SumsContinue(s)

\* After a refresh has stored something, some meter is planned and every planned meter has a
\* usage history: a refresh never commits some of its meters and loses another, and once one
\* has succeeded no run of failures trims the plan.  (Before that, a refresh in which every
\* meter has an unusable answer leaves nothing planned.)
PlannedMetersStored ==
  refreshed \/ phase = "saved" => plan # {} /\ \A m \in plan : Stored(<<m, "actual">>) # {}

\* README: "Failed older chunks are retried on later refreshes": once a refresh is stored, the
\* month of a chunk that failed in it is still missing, so that the next refresh asks for it.
FailedChunksRetried ==
  [][Save => \A s \in Stream : \A d \in Snapshot(s).lost : Month(d) \in MissingMonths({s})']_vars

\* A stored point leaves the history only by age, and a complete one never turns
\* incomplete, unless the whole stream is dropped.
PointsLeaveByAge ==
  [][\A s \in Stream \ forgotten', d \in Day :
       /\ history[s][d] # NoPoint /\ history'[s][d] = NoPoint => Pruned(d)
       /\ history[s][d] \in Val /\ history'[s][d] \notin Val => Pruned(d)]_vars

\* Once a refresh has succeeded, failures of the portal no longer drop a stream, of the
\* usage or of an optional view: only the answer of this refresh in which the view has turned
\* into something else does, or a stream with nothing but points past the window.
DropsEndWithSuccess ==
  [][\A s \in forgotten' \ forgotten :
       refreshed => s[2] \in result[s[1]].turned \/ \A d \in Stored(s) : Pruned(d)]_vars

-----------------------------------------------------------------------------
(* The store and the recorder keep the promise of EnergyKeyLedger. *)

Ledger == INSTANCE EnergyKeyLedger
            WITH Account <- Imported, NoRow <- NoPoint,
                 horizon <- HistoryStart - 1, lost <- forgotten,
                 balance <- [s \in Imported |-> [d \in Day |->
                               offset[s][d] + Contribution(history[s][d])]],
                 rows <- [s \in Imported |-> [d \in Day |->
                            IF recorder[s][d] = NoPoint THEN NoPoint
                            ELSE recorder[s][d].sum]]

\* Seen as accounts, the history, its offset and the rows in the recorder are one book:
\* merging, pruning, failed refreshes, lost imports and restarts do not show in it.
ImplementsLedger == Ledger!Spec

=============================================================================
