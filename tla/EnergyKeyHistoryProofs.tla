------------------------ MODULE EnergyKeyHistoryProofs ------------------------
(***************************************************************************)
(* Theorems about EnergyKeyHistory, for every set of meters and streams,   *)
(* every window and every number of days.                                  *)
(***************************************************************************)
EXTENDS EnergyKeyHistory, TLAPS

-----------------------------------------------------------------------------
(* The rolling window *)

\* The window is made of integers.
LEMMA WindowType ==
  ASSUME today \in Day
  PROVE  /\ Month(today) \in Int /\ HistoryStart \in Int /\ RecentStart \in Int
         /\ \A d \in Day : Pruned(d) \in BOOLEAN
BY WindowAssumption DEF Day, Month, HistoryStart, RecentStart, Pruned

\* The start of the window only moves forward.
LEMMA StartForward ==
  ASSUME today \in Day, today' = today + 1
  PROVE  HistoryStart \in Int /\ HistoryStart' \in Int /\ HistoryStart <= HistoryStart'
<1> DEFINE L == DaysPerMonth
           h == HistoryMonths - 1
<1>1. L \in Nat \ {0} /\ h \in Int /\ today \in Nat
  BY WindowAssumption DEF Day
<1> DEFINE a == today \div L
           b == (today + 1) \div L
<1>2. a \in Int /\ b \in Int /\ a <= b
  BY <1>1
<1>3. (a - h) * L \in Int /\ (b - h) * L \in Int
  BY <1>1, <1>2
<1>4. (a - h) * L <= (b - h) * L
  <2> HIDE DEF L, h, a, b
  <2>1. PICK i \in Nat : b = a + i
    <3>1. b - a \in Nat /\ b = a + (b - a)
      BY <1>2
    <3> QED BY <3>1
  <2>2. (b - h) * L = (a - h) * L + i * L
    BY <1>1, <1>2, <2>1
  <2>3. i * L \in Nat /\ (a - h) * L \in Int
    BY <1>1, <1>2, <2>1
  <2> QED BY <2>2, <2>3
<1> QED BY <1>3, <1>4 DEF HistoryStart, Month

\* What is past the window stays so.
LEMMA WindowForward ==
  ASSUME today \in Day, today' = today + 1, NEW d \in Day, Pruned(d)
  PROVE  Pruned(d)'
<1>1. d \in Nat
  BY WindowAssumption DEF Day
<1> QED BY <1>1, StartForward DEF Pruned

-----------------------------------------------------------------------------
(* What a view may answer *)

ReplyOK(m, view, r) ==
  /\ r.status \in {"ok", "auth", "connection", "protocol", "mismatch"}
  /\ r.lost \in SUBSET Day
  /\ r.status = "ok" =>
       \A k \in DOMAIN r.points, d \in Day :
         /\ r.points[k] \in [Day -> Point]
         /\ r.points[k][d] = Incomplete => history[<<m, k>>][d] \notin Val

\* A series the portal may send is a series of points that reopens no complete one.
LEMMA SeriesType ==
  ASSUME NEW s, NEW days \in SUBSET Day, NEW f \in SeriesReplies(s, days)
  PROVE  /\ Whole(f) \in [Day -> Point]
         /\ \A d \in Day : Whole(f)[d] = Incomplete => history[s][d] \notin Val
<1>1. f \in [days -> Point] /\ DOMAIN f = days
  BY PointAssumption DEF SeriesReplies
<1>2. ASSUME NEW d \in Day
      PROVE  /\ Whole(f)[d] \in Point
             /\ Whole(f)[d] = Incomplete => history[s][d] \notin Val
  <2>1. CASE d \in days
    BY <1>1, <2>1 DEF Whole, SeriesReplies
  <2>2. CASE d \notin days
    BY <1>1, <2>2, PointAssumption DEF Whole, Point
  <2> QED BY <2>1, <2>2
<1> QED BY <1>2 DEF Whole

\* So is every series of one reply.
LEMMA OneReplyType ==
  ASSUME NEW m \in Meter, NEW available \in SUBSET MetricKind, NEW lost,
         NEW r \in Reply(m, available, lost), NEW view
  PROVE  ReplyOK(m, view, r)
<1> DEFINE missing == MissingMonths({<<m, k>> : k \in available})
           asked == (Recent \cap Day) \cup ChunkDays(missing \ lost)
           SeriesOf(k) == {Whole(f) : f \in SeriesReplies(<<m, k>>, asked)}
<1>1. asked \in SUBSET Day /\ ChunkDays(lost) \ asked \in SUBSET Day
  BY DEF ChunkDays
<1>2. PICK p \in [available -> UNION {SeriesOf(k) : k \in available}] :
        /\ \A k \in available : p[k] \in SeriesOf(k)
        /\ r = [status |-> "ok", points |-> p, lost |-> ChunkDays(lost) \ asked]
  BY DEF Reply
<1>3. ASSUME NEW k \in available, NEW d \in Day
      PROVE  /\ p[k] \in [Day -> Point]
             /\ p[k][d] = Incomplete => history[<<m, k>>][d] \notin Val
  <2>1. PICK f \in SeriesReplies(<<m, k>>, asked) : p[k] = Whole(f)
    BY <1>2
  <2> HIDE DEF asked
  <2> QED BY <1>1, <2>1, SeriesType
<1> QED BY <1>1, <1>2, <1>3 DEF ReplyOK

\* And of every reply to the requests for one view.
LEMMA ReplyType ==
  ASSUME MeterAssumption, NEW m \in Meter, NEW view \in ViewName, NEW r \in ViewReplies(m, view),
         ViewKinds(m, view) # {}
  PROVE  ReplyOK(m, view, r)
<1>1. ViewKinds(m, view) \subseteq MetricKind
  BY DEF MeterAssumption, ViewKinds
<1>2. ASSUME NEW st \in {"auth", "connection", "protocol", "mismatch"}, r = NoReply(st)
      PROVE  ReplyOK(m, view, r)
  BY <1>2 DEF ReplyOK, NoReply
<1>3. ASSUME NEW available \in SUBSET ViewKinds(m, view), NEW lost, r \in Reply(m, available, lost)
      PROVE  ReplyOK(m, view, r)
  BY <1>1, <1>3, OneReplyType
<1> QED BY <1>2, <1>3 DEF ViewReplies

-----------------------------------------------------------------------------
(* What the update of a meter may return *)

\* A metric of a result is absent, or the stored stream merged, pruned and folded.
MergedFrom(s, n) ==
  n = NoMetric \/
  \A d \in Day :
    /\ n.offset[d] = offset[s][d] + IF Pruned(d) THEN Contribution(history[s][d]) ELSE 0
    /\ Pruned(d) => n.history[d] = NoPoint
    /\ ~Pruned(d) /\ history[s][d] # NoPoint => n.history[d] # NoPoint
    /\ ~Pruned(d) /\ history[s][d] \in Val => n.history[d] \in Val

\* What a point adds to a sum is a natural number.
LEMMA ContributionType ==
  ASSUME NEW p \in Point
  PROVE  Contribution(p) \in Nat
BY PointAssumption DEF Contribution, Point

\* The empty metric is a metric.
LEMMA NoMetricType == NoMetric \in Metrics
BY DEF NoMetric, Metrics, Amounts, Point

\* A metric of a refresh is merged from what is stored.
LEMMA MetricMerges ==
  ASSUME TypeOK, NEW m \in Meter, NEW k \in MetricKind, NEW r,
         k \in Exposed[m] => ReplyOK(m, ViewOf[k], r)
  PROVE  /\ Metric(m, k, r) \in Metrics
         /\ k \in Exposed[m] => MergedFrom(<<m, k>>, Metric(m, k, r))
<1> DEFINE s == <<m, k>>
           made == k \in Exposed[m] /\ r.status = "ok" /\ MetricStatus(m, k, r) = "ok"
<1>1. CASE ~made
  BY <1>1, NoMetricType DEF Metric, MergedFrom
<1>2. CASE made
  <2>1. s \in Stream /\ history[s] \in [Day -> Point] /\ offset[s] \in Amounts
    BY <1>2 DEF Stream, TypeOK
  <2>2. k \in DOMAIN r.points
    BY <1>2 DEF MetricStatus
  <2>3. r.points[k] \in [Day -> Point] /\ r.lost \in SUBSET Day
    <3>1. 0 \in Day
      BY WindowAssumption DEF Day
    <3> QED BY <1>2, <2>2, <3>1 DEF ReplyOK
  <2>4. \A d \in Day : r.points[k][d] = Incomplete => history[s][d] \notin Val
    BY <1>2, <2>2 DEF ReplyOK
  <2>5. Metric(m, k, r) = [history |-> MergedHistory(s, r.points[k]), offset |-> MergedOffset(s),
                           lost |-> r.lost]
    BY <1>2 DEF Metric
  <2>6. MergedHistory(s, r.points[k]) \in [Day -> Point]
    BY <2>1, <2>3 DEF MergedHistory, Point
  <2>7. MergedOffset(s) \in Amounts
    BY <2>1, ContributionType DEF MergedOffset, Amounts
  <2>8. ASSUME NEW d \in Day
        PROVE  LET h == MergedHistory(s, r.points[k]) IN
               /\ Pruned(d) => h[d] = NoPoint
               /\ ~Pruned(d) /\ history[s][d] # NoPoint => h[d] # NoPoint
               /\ ~Pruned(d) /\ history[s][d] \in Val => h[d] \in Val
    BY <2>1, <2>3, <2>4 DEF MergedHistory, Point
  <2>9. MergedFrom(s, Metric(m, k, r))
    BY <2>5, <2>8 DEF MergedFrom, MergedOffset
  <2> QED BY <2>3, <2>5, <2>6, <2>7, <2>9 DEF Metrics
<1> QED BY <1>1, <1>2

ReplySet(m, reply) ==
  \A view \in ViewName : ViewKinds(m, view) # {} => ReplyOK(m, view, reply[view])

\* The view of a kind the portal has for a meter has kinds.
LEMMA ExposedView ==
  ASSUME NEW m \in Meter, NEW k \in Exposed[m], k \in MetricKind
  PROVE  ViewOf[k] \in ViewName /\ ViewKinds(m, ViewOf[k]) # {}
<1>1. k \in ViewKinds(m, ViewOf[k])
  BY DEF ViewKinds
<1>2. ViewOf[k] \in ViewName
  BY DEF ViewOf, ViewName, MetricKind
<1> QED BY <1>1, <1>2

\* A meter ends with a status the coordinator knows.
LEMMA MeterStatusType ==
  ASSUME NEW m \in Meter, NEW reply, ReplySet(m, reply)
  PROVE  MeterStatus(m, reply) \in Statuses
<1> DEFINE status(i) == MetricStatus(m, KindOrder[i], reply[ViewOf[KindOrder[i]]])
           raising == {i \in 1 .. 5 : KindOrder[i] \in Exposed[m] /\ status(i) \notin {"ok", "none"}}
<1>1. ASSUME NEW i \in raising
      PROVE  status(i) \in Statuses
  <2> DEFINE k == KindOrder[i]
  <2>1. k \in MetricKind /\ k \in Exposed[m]
    BY DEF KindOrder, MetricKind
  <2>2. ReplyOK(m, ViewOf[k], reply[ViewOf[k]])
    BY <2>1, ExposedView DEF ReplySet
  <2>3. status(i) \in {"ok", "none", "protocol", "auth", "connection"}
    BY <2>2 DEF MetricStatus, ReplyOK
  <2> QED BY <2>3 DEF Statuses
<1>2. ASSUME raising # {}
      PROVE  Min(raising) \in raising
  <2> HIDE DEF status
  <2>1. \E x \in raising : \A y \in raising : x <= y
    <3>1. CASE 1 \in raising
      BY <3>1
    <3>2. CASE 1 \notin raising /\ 2 \in raising
      BY <3>2
    <3>3. CASE 1 \notin raising /\ 2 \notin raising /\ 3 \in raising
      BY <3>3
    <3>4. CASE 1 \notin raising /\ 2 \notin raising /\ 3 \notin raising
      BY <1>2, <3>4
    <3> QED BY <3>1, <3>2, <3>3, <3>4
  <2> HIDE DEF raising
  <2> QED BY <2>1 DEF Min
<1>3. MeterStatus(m, reply) = IF raising = {} THEN "ok" ELSE status(Min(raising))
  BY DEF MeterStatus
<1>4. CASE raising = {}
  BY <1>3, <1>4 DEF Statuses
<1>5. CASE raising # {}
  <2>1. status(Min(raising)) \in Statuses
    <3> HIDE DEF raising, status
    <3> QED BY <1>1, <1>2, <1>5
  <2> QED BY <1>3, <1>5, <2>1
<1> QED BY <1>4, <1>5

Merges(m, res) ==
  /\ res \in MeterResults
  /\ \A k \in Exposed[m] : MergedFrom(<<m, k>>, res.metrics[k])

\* A result that is still pending claims nothing about the store.
LEMMA PendingType ==
  ASSUME NEW m \in Meter, NEW status \in Statuses
  PROVE  Merges(m, [Pending EXCEPT !.status = status])
<1>1. [Pending EXCEPT !.status = status] =
        [status |-> status, metrics |-> [k \in MetricKind |-> NoMetric], turned |-> {}]
  BY DEF Pending
<1>2. Exposed[m] \subseteq MetricKind
  BY MeterAssumption
<1> QED BY <1>1, <1>2, NoMetricType DEF Merges, MergedFrom, MeterResults

\* What _async_update_meter returns is merged from what is stored.
LEMMA ResultMerges ==
  ASSUME TypeOK, NEW m \in Meter, NEW reply, ReplySet(m, reply)
  PROVE  Merges(m, MeterResult(m, reply))
<1>1. CASE MeterStatus(m, reply) = "ok"
  <2>1. \A k \in MetricKind : k \in Exposed[m] => ReplyOK(m, ViewOf[k], reply[ViewOf[k]])
    BY ExposedView DEF ReplySet
  <2> DEFINE n(k) == Metric(m, k, reply[ViewOf[k]])
             fn == [k \in MetricKind |-> n(k)]
  <2>2. \A k \in MetricKind : /\ n(k) \in Metrics
                              /\ k \in Exposed[m] => MergedFrom(<<m, k>>, n(k))
    BY <2>1, MetricMerges
  <2>3. MeterResult(m, reply) = [status |-> "ok", metrics |-> fn, turned |-> Turned(m, reply)]
    BY <1>1 DEF MeterResult
  <2>4. Exposed[m] \subseteq MetricKind /\ Turned(m, reply) \subseteq MetricKind
    BY MeterAssumption DEF Turned
  <2>5. /\ fn \in [MetricKind -> Metrics]
        /\ \A k \in Exposed[m] : MergedFrom(<<m, k>>, fn[k])
    <3> HIDE DEF n
    <3> QED BY <2>2, <2>4
  <2> HIDE DEF fn
  <2> QED BY <2>3, <2>4, <2>5 DEF Merges, Statuses, MeterResults
<1>2. CASE MeterStatus(m, reply) # "ok"
  <2>1. MeterResult(m, reply) = [Pending EXCEPT !.status = MeterStatus(m, reply)]
    BY <1>2 DEF MeterResult
  <2> QED BY <2>1, MeterStatusType, PendingType
<1> QED BY <1>1, <1>2

-----------------------------------------------------------------------------
(* The inductive invariant *)

\* An addend enters the offset when its day leaves the window, never before.
OffsetPruned == \A s \in Imported, d \in Day : offset[s][d] # 0 => Pruned(d)

ResultsMerge ==
  \A m \in Meter : \A k \in Exposed[m] : MergedFrom(<<m, k>>, result[m].metrics[k])

IInv ==
  /\ TypeOK
  /\ phase # "fetching" => result = NoResults
  /\ ResultsMerge
  /\ OffsetPruned
  /\ Conservation

\* Before a refresh starts no result claims anything.
LEMMA NoResultsMerge ==
  /\ NoResults \in [Meter -> MeterResults]
  /\ \A m \in Meter : \A k \in Exposed[m] : MergedFrom(<<m, k>>, NoResults[m].metrics[k])
<1>1. Pending \in MeterResults
  BY NoMetricType DEF Pending, Statuses, MeterResults
<1>2. \A k \in MetricKind : Pending.metrics[k] = NoMetric
  BY DEF Pending
<1>3. \A m \in Meter : Exposed[m] \subseteq MetricKind
  BY MeterAssumption
<1> QED BY <1>1, <1>2, <1>3 DEF NoResults, MergedFrom

\* A stream is a meter and a kind the portal has for it.
LEMMA StreamParts ==
  ASSUME NEW s \in Stream
  PROVE  /\ s[1] \in Meter /\ s[2] \in MetricKind /\ s[2] \in Exposed[s[1]]
         /\ s = <<s[1], s[2]>>
BY DEF Stream

\* The invariant holds of an empty store.
LEMMA InitInv == Init => IInv
<1> SUFFICES ASSUME Init PROVE IInv
  OBVIOUS
<1>1. TypeOK
  <2>1. today \in Day
    BY WindowAssumption DEF Init, Day
  <2>2. NoMetric.history \in [Day -> Point] /\ NoMetric.history \in [Day -> RecorderRows]
        /\ NoMetric.offset \in Amounts
    BY DEF NoMetric, Point, RecorderRows, Amounts
  <2> QED BY <2>1, <2>2, NoResultsMerge DEF Init, TypeOK
<1>2. OffsetPruned
  BY DEF Init, OffsetPruned, NoMetric, Imported
<1>3. Conservation
  BY PointAssumption DEF Init, Conservation, NoMetric, Imported, Contribution
<1>4. ResultsMerge
  BY NoResultsMerge DEF Init, ResultsMerge
<1> QED BY <1>1, <1>2, <1>3, <1>4 DEF Init, IInv

\* No result is left to relate once the refresh is over.
LEMMA ResetMerges ==
  ASSUME result' = NoResults
  PROVE  ResultsMerge'
<1>1. ASSUME NEW m \in Meter, NEW k \in Exposed[m]
      PROVE  MergedFrom(<<m, k>>, result[m].metrics[k])'
  <2>1. k \in MetricKind
    BY MeterAssumption
  <2>2. (result[m].metrics[k] = NoMetric)'
    BY <2>1 DEF NoResults, Pending, NoMetric
  <2> QED BY <2>2 DEF MergedFrom
<1> QED BY <1>1 DEF ResultsMerge

\* Midnight keeps the invariant: what was pruned stays past the window.
LEMMA TickInv ==
  ASSUME IInv, Tick
  PROVE  IInv'
<1>1. TypeOK'
  <2>1. today' \in Day
    BY WindowAssumption DEF IInv, Tick, TypeOK, Day
  <2> QED BY <2>1 DEF IInv, Tick, TypeOK, ghosts
<1>2. result = NoResults /\ UNCHANGED <<phase, result, history, offset, accepted, forgotten>>
  BY DEF IInv, Tick, ghosts
<1>3. ResultsMerge'
  BY <1>2, ResetMerges
<1>4. OffsetPruned'
  BY <1>2, WindowForward DEF IInv, OffsetPruned, Tick, TypeOK, Imported
<1>5. Conservation'
  BY <1>2 DEF IInv, Conservation
<1> QED BY <1>1, <1>2, <1>3, <1>4, <1>5 DEF IInv

\* Actions that leave the store and the date alone.
LEMMA FrameInv ==
  ASSUME IInv, TypeOK', ResultsMerge', phase' # "fetching" => result' = NoResults,
         UNCHANGED <<today, history, offset, accepted, forgotten>>
  PROVE  IInv'
<1>1. OffsetPruned'
  BY DEF IInv, OffsetPruned, Pruned, HistoryStart, Month
<1>2. Conservation'
  BY DEF IInv, Conservation
<1> QED BY <1>1, <1>2 DEF IInv

\* Forgetting the results of a refresh keeps the invariant.
LEMMA ResetInv ==
  ASSUME IInv, result' = NoResults, phase' \in {"down", "idle", "saved"},
         plan' \in SUBSET Meter, refreshed' \in BOOLEAN,
         UNCHANGED <<today, history, offset, recorder, ghosts>>
  PROVE  IInv'
<1>1. TypeOK'
  BY NoResultsMerge DEF IInv, TypeOK, ghosts
<1>2. ResultsMerge'
  BY ResetMerges
<1> QED BY <1>1, <1>2, FrameInv DEF ghosts

\* A meter that has been fetched keeps the invariant.
LEMMA UpdateMeterInv ==
  ASSUME IInv, NEW m \in Meter, UpdateMeter(m)
  PROVE  IInv'
<1>1. PICK r \in MeterAnswers(m) : result' = [result EXCEPT ![m] = r]
  BY DEF UpdateMeter
<1>11. PICK c \in ViewReplies(m, "consumption"), v \in ViewReplies(m, "volume"),
            t \in ViewReplies(m, "temperature") :
        r = MeterResult(m, [consumption |-> c, volume |-> v, temperature |-> t])
  BY <1>1 DEF MeterAnswers
<1> DEFINE reply == [consumption |-> c, volume |-> v, temperature |-> t]
<1>2. ReplySet(m, reply)
  <2>1. ViewKinds(m, "consumption") # {} => ReplyOK(m, "consumption", c)
    BY ReplyType, MeterAssumption DEF ViewName
  <2>2. ViewKinds(m, "volume") # {} => ReplyOK(m, "volume", v)
    BY ReplyType, MeterAssumption DEF ViewName
  <2>3. ViewKinds(m, "temperature") # {} => ReplyOK(m, "temperature", t)
    BY ReplyType, MeterAssumption DEF ViewName
  <2> QED BY <2>1, <2>2, <2>3 DEF ReplySet, ViewName
<1>3. Merges(m, MeterResult(m, reply))
  BY <1>2, ResultMerges DEF IInv
<1>4. phase' = phase /\ UNCHANGED <<today, plan, refreshed, history, offset, recorder, ghosts>>
  BY DEF UpdateMeter
<1> DEFINE res == MeterResult(m, reply)
<1>5. result' = [result EXCEPT ![m] = res] /\ Merges(m, res)
  BY <1>1, <1>11, <1>3
<1> HIDE DEF res, reply
<1>6. TypeOK'
  BY <1>4, <1>5 DEF IInv, TypeOK, Merges, ghosts
<1>7. ResultsMerge'
  <2>1. ASSUME NEW n \in Meter, NEW k \in Exposed[n]
        PROVE  MergedFrom(<<n, k>>, result'[n].metrics[k])
    <3>1. CASE n = m
      BY <1>5, <3>1 DEF Merges, IInv, TypeOK
    <3>2. CASE n # m
      BY <1>5, <3>2 DEF IInv, ResultsMerge, TypeOK
    <3> QED BY <3>1, <3>2
  <2>2. ASSUME NEW n \in Meter, NEW k \in Exposed[n]
        PROVE  MergedFrom(<<n, k>>, result[n].metrics[k])'
    BY <1>4, <2>1 DEF MergedFrom, NoMetric, Pruned, HistoryStart, Month, Contribution
  <2> QED BY <2>2 DEF ResultsMerge
<1> QED
  BY <1>4, <1>6, <1>7, FrameInv DEF UpdateMeter, ghosts

\* A snapshot of the refresh: well typed, and merged from what is stored.
LEMMA SnapshotMerges ==
  ASSUME IInv, NEW s \in Stream
  PROVE  Snapshot(s) \in Metrics /\ MergedFrom(s, Snapshot(s))
<1>1. s[1] \in Meter /\ s[2] \in Exposed[s[1]] /\ s[2] \in MetricKind /\ s = <<s[1], s[2]>>
  BY StreamParts
<1>2. result[s[1]].metrics[s[2]] \in Metrics
  BY <1>1 DEF IInv, TypeOK, MeterResults
<1>3. MergedFrom(s, result[s[1]].metrics[s[2]])
  BY <1>1 DEF IInv, ResultsMerge
<1> QED BY <1>2, <1>3, NoMetricType DEF Snapshot, MergedFrom

\* Replacing the store keeps the invariant: what leaves the history enters the offset.
LEMMA SaveInv ==
  ASSUME IInv, Save
  PROVE  IInv'
<1>1. ASSUME NEW s \in Stream
      PROVE  /\ history'[s] = Snapshot(s).history
             /\ offset'[s] = IF s \in Imported THEN Snapshot(s).offset ELSE NoMetric.offset
             /\ accepted'[s] = [d \in Day |-> IF Snapshot(s).history[d] \in Val
                                              THEN Snapshot(s).history[d] ELSE accepted[s][d]]
             /\ Snapshot(s).history \in [Day -> Point] /\ Snapshot(s).offset \in Amounts
  BY SnapshotMerges DEF Save, Metrics
<1>2. NoMetric.offset \in Amounts /\ \A d \in Day : NoMetric.offset[d] = 0 /\ NoMetric.history[d] = NoPoint
  BY DEF NoMetric, Amounts
<1>3. TypeOK'
  <2>1. /\ history' \in [Stream -> [Day -> Point]]
        /\ offset' \in [Stream -> Amounts]
    BY <1>1, <1>2 DEF Save
  <2>2. accepted' \in [Stream -> Amounts]
    <3>1. ASSUME NEW s \in Stream
          PROVE  accepted'[s] \in Amounts
      <4>1. accepted[s] \in [Day -> Nat]
        BY DEF IInv, TypeOK, Amounts
      <4> DEFINE h == Snapshot(s).history
      <4>2. accepted'[s] = [d \in Day |-> IF h[d] \in Val THEN h[d] ELSE accepted[s][d]]
        BY <1>1
      <4> HIDE DEF h
      <4>3. \A d \in Day : (IF h[d] \in Val THEN h[d] ELSE accepted[s][d]) \in Nat
        BY <4>1, PointAssumption
      <4> QED BY <4>2, <4>3 DEF Amounts
    <3> QED BY <3>1 DEF Save
  <2>3. /\ plan' \in SUBSET Meter /\ phase' = "saved" /\ result' = NoResults
        /\ forgotten' \in SUBSET Stream /\ UNCHANGED <<today, refreshed, recorder>>
    BY DEF Save, IInv, TypeOK
  <2> QED BY <2>1, <2>2, <2>3, NoResultsMerge DEF TypeOK, IInv
<1>4. ResultsMerge'
  BY ResetMerges DEF Save
<1>5. UNCHANGED today
  BY DEF Save
<1>6. ASSUME NEW s \in Imported, NEW d \in Day
      PROVE  /\ offset'[s][d] # 0 => Pruned(d)
             /\ s \notin forgotten' =>
                  offset'[s][d] + Contribution(history'[s][d]) = accepted'[s][d]
  <2> DEFINE n == Snapshot(s)
  <2>1. s \in Stream
    BY DEF Imported
  <2>2. history'[s] = n.history /\ offset'[s] = n.offset
        /\ accepted'[s][d] = IF n.history[d] \in Val THEN n.history[d] ELSE accepted[s][d]
    BY <1>1, <2>1
  <2>3. n.history[d] \in Point /\ n.offset[d] \in Nat /\ history[s][d] \in Point
        /\ offset[s][d] \in Nat /\ accepted[s][d] \in Nat
    <3>1. history[s] \in [Day -> Point] /\ offset[s] \in [Day -> Nat] /\ accepted[s] \in [Day -> Nat]
      BY <2>1 DEF IInv, TypeOK, Amounts
    <3>2. n.history \in [Day -> Point] /\ n.offset \in [Day -> Nat]
      BY <1>1, <2>1 DEF Amounts
    <3> QED BY <3>1, <3>2
  <2>4. offset[s][d] # 0 => Pruned(d)
    BY DEF IInv, OffsetPruned
  <2>5. s \notin forgotten' =>
          offset[s][d] + Contribution(history[s][d]) = accepted[s][d]
    BY DEF IInv, Conservation, Save
  <2>6. CASE n = NoMetric
    <3>1. n.offset[d] = 0 /\ n.history[d] = NoPoint /\ ~HasPoint(n.history)
      BY <1>2, <2>6 DEF HasPoint
    <3>2. s \notin forgotten' => history[s][d] = NoPoint /\ offset[s][d] = 0
      BY <2>1, <3>1 DEF Save, Dropped, HasPoint
    <3> QED BY <2>2, <2>3, <2>5, <3>1, <3>2, PointAssumption DEF Contribution
  <2>7. CASE n # NoMetric
    <3>1. /\ n.offset[d] = offset[s][d] + IF Pruned(d) THEN Contribution(history[s][d]) ELSE 0
          /\ Pruned(d) => n.history[d] = NoPoint
          /\ ~Pruned(d) /\ history[s][d] \in Val => n.history[d] \in Val
      BY <2>1, <2>7, SnapshotMerges DEF MergedFrom
    <3>2. CASE Pruned(d)
      BY <2>2, <2>3, <2>5, <3>1, <3>2, ContributionType, PointAssumption DEF Contribution
    <3>3. CASE ~Pruned(d)
      <4>1. offset[s][d] = 0 /\ n.offset[d] = 0
        BY <2>3, <2>4, <3>1, <3>3
      <4>2. CASE n.history[d] \in Val
        <5>1. offset'[s][d] = 0 /\ history'[s][d] = n.history[d] /\ accepted'[s][d] = n.history[d]
          BY <2>2, <4>1, <4>2
        <5>2. n.history[d] \in Nat /\ Contribution(history'[s][d]) = n.history[d]
          BY <4>2, <5>1, PointAssumption DEF Contribution
        <5> HIDE DEF n
        <5> QED BY <4>1, <5>1, <5>2
      <4>3. CASE n.history[d] \notin Val
        BY <2>2, <2>5, <3>1, <3>3, <4>1, <4>3 DEF Contribution
      <4> QED BY <4>2, <4>3
    <3> QED BY <3>2, <3>3
  <2> QED BY <2>6, <2>7
<1>7. OffsetPruned'
  BY <1>5, <1>6 DEF OffsetPruned, Pruned, HistoryStart, Month
<1>8. Conservation'
  BY <1>6 DEF Conservation, Contribution
<1> QED BY <1>3, <1>4, <1>7, <1>8 DEF IInv, Save

\* The import touches nothing the invariant speaks of.
LEMMA ImportInv ==
  ASSUME IInv, Import
  PROVE  IInv'
<1>1. ASSUME NEW s \in Stream, NEW d \in Day, history[s][d] \in Val
      PROVE  Row(s, d) \in RecorderRows
  <2>1. [e \in Day |-> offset[s][e] + IF e <= d THEN Contribution(history[s][e]) ELSE 0] \in Amounts
    BY ContributionType DEF IInv, TypeOK, Amounts
  <2> QED BY <1>1, <2>1 DEF Row, RecorderRows
<1>2. TypeOK'
  <2>1. recorder' \in [Stream -> [Day -> RecorderRows]]
    BY <1>1 DEF Import, IInv, TypeOK
  <2> QED BY <2>1 DEF Import, IInv, TypeOK, ghosts
<1>3. result = NoResults /\ UNCHANGED <<today, result, history, offset, accepted, forgotten>>
  BY DEF IInv, Import, ghosts
<1>4. ResultsMerge'
  BY <1>3, ResetMerges
<1> QED BY <1>2, <1>3, <1>4, FrameInv

-----------------------------------------------------------------------------
(* Theorems *)

\* Every step, and every stutter, keeps the invariant.
LEMMA NextInv == IInv /\ [Next]_vars => IInv'
<1> SUFFICES ASSUME IInv, [Next]_vars PROVE IInv'
  OBVIOUS
<1>1. CASE Tick
  BY <1>1, TickInv
<1>2. CASE Setup
  <2>1. plan' \in SUBSET Meter
    BY <1>2, MeterAssumption DEF Setup
  <2>2. result' = NoResults
    BY <1>2 DEF Setup, IInv
  <2> QED BY <1>2, <2>1, <2>2, ResetInv DEF Setup, IInv, TypeOK
<1>3. CASE Stop
  BY <1>3, ResetInv DEF Stop
<1>4. CASE StartRefresh
  <2>1. result' = NoResults
    BY <1>4 DEF StartRefresh, IInv
  <2>2. TypeOK'
    BY <1>4 DEF StartRefresh, IInv, TypeOK, ghosts
  <2> QED BY <1>4, <2>1, <2>2, ResetMerges, FrameInv DEF StartRefresh, ghosts
<1>5. ASSUME NEW m \in Meter, UpdateMeter(m)
      PROVE  IInv'
  BY <1>5, UpdateMeterInv
<1>6. CASE FailRefresh
  BY <1>6, ResetInv DEF FailRefresh, IInv, TypeOK
<1>7. CASE FailEmpty
  BY <1>7, ResetInv DEF FailEmpty, IInv, TypeOK
<1>8. CASE Save
  BY <1>8, SaveInv
<1>9. CASE Import
  BY <1>9, ImportInv
<1>10. CASE UNCHANGED vars
  <2>1. UNCHANGED <<today, phase, plan, refreshed, result, history, offset, recorder,
                    accepted, forgotten>>
    BY <1>10 DEF vars, impl, ghosts
  <2>2. TypeOK'
    BY <2>1 DEF IInv, TypeOK
  <2>3. ResultsMerge'
    <3>1. ASSUME NEW m \in Meter, NEW k \in Exposed[m]
          PROVE  MergedFrom(<<m, k>>, result[m].metrics[k])'
      <4>1. MergedFrom(<<m, k>>, result'[m].metrics[k])
        BY <2>1 DEF IInv, ResultsMerge
      <4> QED
        BY <2>1, <4>1 DEF MergedFrom, NoMetric, Pruned, HistoryStart, Month, Contribution
    <3> QED BY <3>1 DEF ResultsMerge
  <2> QED BY <2>1, <2>2, <2>3, FrameInv DEF IInv
<1> QED
  BY <1>1, <1>2, <1>3, <1>4, <1>5, <1>6, <1>7, <1>8, <1>9, <1>10 DEF Next

\* The inductive invariant: types, results merged from the store, offsets that hold
\* only days past the window, and Conservation.
THEOREM Invariance == Spec => []IInv
BY InitInv, NextInv, PTL DEF Spec

\* Every variable keeps the type the code gives it.
THEOREM TypeCorrect == Spec => []TypeOK
<1>1. IInv => TypeOK
  BY DEF IInv
<1> QED BY <1>1, Invariance, PTL

\* The offset and the retained history of a stream the store has never dropped count
\* every day exactly once, at the last value accepted for it, whatever failed in between.
THEOREM ConservationHolds == Spec => []Conservation
<1>1. IInv => Conservation
  BY DEF IInv
<1> QED BY <1>1, Invariance, PTL

\* One step keeps the points of the streams it does not drop, unless their day is pruned.
LEMMA StepKeepsPoints ==
  ASSUME IInv, [Next]_vars, NEW s \in Stream \ forgotten', NEW d \in Day, ~Pruned(d)
  PROVE  /\ history[s][d] # NoPoint => history'[s][d] # NoPoint
         /\ history[s][d] \in Val => history'[s][d] \in Val
<1>1. CASE Save
  <2> DEFINE n == Snapshot(s)
  <2>1. history'[s] = n.history
    BY <1>1 DEF Save
  <2>2. CASE n = NoMetric
    <3>1. ~HasPoint(n.history)
      BY <2>2 DEF NoMetric, HasPoint
    <3>2. history[s][d] = NoPoint
      BY <1>1, <3>1 DEF Save, Dropped, HasPoint
    <3> QED BY <3>2, PointAssumption
  <2>3. CASE n # NoMetric
    <3>1. /\ history[s][d] # NoPoint => n.history[d] # NoPoint
          /\ history[s][d] \in Val => n.history[d] \in Val
      BY <2>3, SnapshotMerges DEF MergedFrom
    <3> QED BY <2>1, <3>1
  <2> QED BY <2>2, <2>3
<1>2. CASE ~Save
  <2>1. UNCHANGED history
    BY <1>2 DEF Next, Tick, Setup, Stop, StartRefresh, UpdateMeter, FailRefresh, FailEmpty,
                Import, vars, impl
  <2> QED BY <2>1
<1> QED BY <1>1, <1>2

\* A point of a stream the store keeps leaves its history only once its day is past the
\* window, and a complete point stays complete until then.
THEOREM PointsLeaveByAgeHolds == Spec => PointsLeaveByAge
<1>1. IInv /\ [Next]_vars =>
        [\A s \in Stream \ forgotten', d \in Day :
           /\ history[s][d] # NoPoint /\ history'[s][d] = NoPoint => Pruned(d)
           /\ history[s][d] \in Val /\ history'[s][d] \notin Val => Pruned(d)]_vars
  BY StepKeepsPoints
<1> QED BY <1>1, Invariance, PTL DEF Spec, PointsLeaveByAge

-----------------------------------------------------------------------------
(* Planned meters *)

\* A meter that was updated has a usage point.
UpdatedHaveUsage ==
  \A m \in Meter : result[m].status = "ok" => HasPoint(result[m].metrics["actual"].history)

PlanInv ==
  /\ IInv /\ UpdatedHaveUsage /\ PlannedMetersStored
  /\ phase = "down" => ~refreshed

\* A meter that was updated raised nothing: every kind it has came out present or absent.
LEMMA UpdatedMeterMetrics ==
  ASSUME NEW m \in Meter, NEW r \in MeterAnswers(m), r.status = "ok"
  PROVE  \E reply :
           /\ ReplySet(m, reply)
           /\ r.metrics = [k \in MetricKind |-> Metric(m, k, reply[ViewOf[k]])]
           /\ \A k \in Exposed[m] : MetricStatus(m, k, reply[ViewOf[k]]) \in {"ok", "none"}
           /\ \A view \in ViewName : reply[view] \in ViewReplies(m, view)
           /\ r.turned = Turned(m, reply)
<1>1. PICK c \in ViewReplies(m, "consumption"), v \in ViewReplies(m, "volume"),
           t \in ViewReplies(m, "temperature") :
        r = MeterResult(m, [consumption |-> c, volume |-> v, temperature |-> t])
  BY DEF MeterAnswers
<1> DEFINE reply == [consumption |-> c, volume |-> v, temperature |-> t]
           status(i) == MetricStatus(m, KindOrder[i], reply[ViewOf[KindOrder[i]]])
           raising == {i \in 1 .. 5 : KindOrder[i] \in Exposed[m] /\ status(i) \notin {"ok", "none"}}
<1>2. \A view \in ViewName : reply[view] \in ViewReplies(m, view)
  BY DEF ViewName
<1>3. ReplySet(m, reply)
  BY <1>2, ReplyType, MeterAssumption DEF ReplySet
<1>4. MeterStatus(m, reply) = IF raising = {} THEN "ok" ELSE status(Min(raising))
  BY DEF MeterStatus
<1>5. MeterStatus(m, reply) = "ok"
  <2>1. CASE MeterStatus(m, reply) # "ok"
    <3>1. r = [Pending EXCEPT !.status = MeterStatus(m, reply)]
      BY <1>1, <2>1 DEF MeterResult
    <3>2. r.status = MeterStatus(m, reply)
      BY <3>1 DEF Pending
    <3> QED BY <2>1, <3>2
  <2> QED BY <2>1
<1>6. raising = {}
  <2>1. ASSUME raising # {}
        PROVE  Min(raising) \in raising
    <3> HIDE DEF status
    <3>1. \E x \in raising : \A y \in raising : x <= y
      <4>1. CASE 1 \in raising
        BY <4>1
      <4>2. CASE 1 \notin raising /\ 2 \in raising
        BY <4>2
      <4>3. CASE 1 \notin raising /\ 2 \notin raising /\ 3 \in raising
        BY <4>3
      <4>4. CASE 1 \notin raising /\ 2 \notin raising /\ 3 \notin raising
        BY <2>1, <4>4
      <4> QED BY <4>1, <4>2, <4>3, <4>4
    <3> HIDE DEF raising
    <3> QED BY <3>1 DEF Min
  <2>2. CASE raising # {}
    <3>1. status(Min(raising)) \notin {"ok", "none"}
      BY <2>1, <2>2
    <3> HIDE DEF raising, status
    <3> QED BY <1>4, <1>5, <2>2, <3>1
  <2> QED BY <2>2
<1>7. ASSUME NEW k \in Exposed[m]
      PROVE  MetricStatus(m, k, reply[ViewOf[k]]) \in {"ok", "none"}
  <2>1. k \in MetricKind
    BY MeterAssumption
  <2>2. PICK i \in 1 .. 5 : KindOrder[i] = k
    <3>1. /\ 1 \in 1 .. 5 /\ KindOrder[1] = "actual" /\ 2 \in 1 .. 5 /\ KindOrder[2] = "expected"
          /\ 3 \in 1 .. 5 /\ KindOrder[3] = "volume" /\ 4 \in 1 .. 5 /\ KindOrder[4] = "flow"
          /\ 5 \in 1 .. 5 /\ KindOrder[5] = "return"
      BY DEF KindOrder
    <3> QED BY <2>1, <3>1 DEF MetricKind
  <2>3. status(i) \in {"ok", "none"}
    <3> HIDE DEF status
    <3> QED BY <1>6, <2>2
  <2> QED BY <2>2, <2>3
<1>8. /\ r.metrics = [k \in MetricKind |-> Metric(m, k, reply[ViewOf[k]])]
      /\ r.turned = Turned(m, reply)
  BY <1>1, <1>5 DEF MeterResult
<1> HIDE DEF reply
<1> QED BY <1>2, <1>3, <1>7, <1>8

\* A view that is not the volume of water is never refused as something else.
LEMMA OnlyVolumeMismatches ==
  ASSUME NEW m \in Meter, NEW view \in ViewName, NEW r \in ViewReplies(m, view),
         ViewKinds(m, view) # {}, view # "volume"
  PROVE  r.status \in {"ok", "auth", "connection", "protocol"}
<1>1. ASSUME NEW available \in SUBSET ViewKinds(m, view), NEW lost, r \in Reply(m, available, lost)
      PROVE  r.status = "ok"
  BY <1>1 DEF Reply
<1>2. ASSUME NEW st \in {"auth", "connection", "protocol"}, r = NoReply(st)
      PROVE  r.status = st
  BY <1>2 DEF NoReply
<1>3. \/ \E st \in {"auth", "connection", "protocol"} : r = NoReply(st)
      \/ \E available \in SUBSET ViewKinds(m, view) :
           \E lost \in SUBSET MissingMonths({<<m, k>> : k \in available}) :
             r \in Reply(m, available, lost)
  BY DEF ViewReplies
<1> QED BY <1>1, <1>2, <1>3

\* Usage is the one metric that is never optional.
LEMMA UpdatedMeterHasUsage ==
  ASSUME NEW m \in Meter, NEW r \in MeterAnswers(m), r.status = "ok"
  PROVE  HasPoint(r.metrics["actual"].history)
<1>1. PICK reply :
        /\ r.metrics = [k \in MetricKind |-> Metric(m, k, reply[ViewOf[k]])]
        /\ \A k \in Exposed[m] : MetricStatus(m, k, reply[ViewOf[k]]) \in {"ok", "none"}
        /\ \A view \in ViewName : reply[view] \in ViewReplies(m, view)
  BY UpdatedMeterMetrics
<1> DEFINE c == reply["consumption"]
<1>2. "actual" \in Exposed[m] /\ "actual" \in MetricKind /\ ViewOf["actual"] = "consumption"
  BY MeterAssumption DEF MetricKind, ViewOf
<1>3. c.status \in {"ok", "auth", "connection", "protocol"}
  <2>1. ViewKinds(m, "consumption") # {}
    BY <1>2 DEF ViewKinds
  <2> QED BY <1>1, <2>1, OnlyVolumeMismatches DEF ViewName
<1>4. MetricStatus(m, "actual", c) \in {"ok", "none"}
  BY <1>1, <1>2
<1>5. /\ c.status = "ok" /\ "actual" \in DOMAIN c.points
      /\ HasPoint(MergedHistory(<<m, "actual">>, c.points["actual"]))
      /\ MetricStatus(m, "actual", c) = "ok"
  BY <1>2, <1>3, <1>4 DEF MetricStatus
<1>6. Metric(m, "actual", c).history = MergedHistory(<<m, "actual">>, c.points["actual"])
  BY <1>2, <1>5 DEF Metric
<1>7. r.metrics["actual"] = Metric(m, "actual", c)
  BY <1>1, <1>2
<1> QED BY <1>5, <1>6, <1>7

\* The update of a meter keeps it.
LEMMA PlanUpdate ==
  ASSUME PlanInv, NEW m \in Meter, UpdateMeter(m)
  PROVE  PlanInv'
<1>1. IInv'
  BY UpdateMeterInv DEF PlanInv
<1>2. PICK r \in MeterAnswers(m) : result' = [result EXCEPT ![m] = r]
  BY DEF UpdateMeter
<1>3. result \in [Meter -> MeterResults]
  BY DEF PlanInv, IInv, TypeOK
<1>4. UpdatedHaveUsage'
  <2> SUFFICES ASSUME NEW n \in Meter, result'[n].status = "ok"
               PROVE  HasPoint(result'[n].metrics["actual"].history)
    BY DEF UpdatedHaveUsage, HasPoint
  <2>1. CASE n = m
    BY <1>2, <1>3, <2>1, UpdatedMeterHasUsage
  <2>2. CASE n # m
    BY <1>2, <1>3, <2>2 DEF PlanInv, UpdatedHaveUsage
  <2> QED BY <2>1, <2>2
<1>5. UNCHANGED <<phase, plan, refreshed, history>>
  BY DEF UpdateMeter
<1> QED BY <1>1, <1>4, <1>5 DEF PlanInv, PlannedMetersStored, Stored

\* A save leaves in the plan the meters whose snapshots it stores.
LEMMA PlanSave ==
  ASSUME PlanInv, Save
  PROVE  PlanInv'
<1>1. IInv'
  BY SaveInv DEF PlanInv
<1>2. ASSUME NEW m \in Meter, m \in plan'
      PROVE  Stored(<<m, "actual">>)' # {}
  <2> DEFINE s == <<m, "actual">>
  <2>1. m \in plan /\ m \in With("ok")
    BY <1>2 DEF Save, Failing
  <2>2. s \in Stream
    BY MeterAssumption DEF Stream, MetricKind
  <2>3. HasPoint(result[m].metrics["actual"].history)
    BY <2>1 DEF With, PlanInv, UpdatedHaveUsage
  <2>4. history'[s] = result[m].metrics["actual"].history
    BY <2>1, <2>2 DEF Save, Snapshot
  <2> QED BY <2>3, <2>4 DEF HasPoint, Stored
<1>3. plan' \subseteq Meter
  BY <1>1 DEF IInv, TypeOK
<1>4. plan' # {}
  BY DEF Save, With, Unsupported
<1>5. PlannedMetersStored'
  BY <1>2, <1>3, <1>4 DEF PlannedMetersStored
<1>6. UpdatedHaveUsage' /\ phase' = "saved"
  BY DEF Save, UpdatedHaveUsage, NoResults, Pending
<1> QED BY <1>1, <1>5, <1>6 DEF PlanInv

\* The other steps keep it: only a first refresh trims the plan without storing.
LEMMA PlanOther ==
  ASSUME PlanInv, [Next]_vars, ~Save, \A m \in Meter : ~UpdateMeter(m)
  PROVE  PlanInv'
<1>1. IInv'
  BY NextInv DEF PlanInv
<1>2. UNCHANGED history /\ (UNCHANGED result \/ result' = NoResults)
  BY DEF Next, Tick, Setup, Stop, StartRefresh, FailRefresh, FailEmpty, Import, vars, impl
<1>3. UpdatedHaveUsage'
  BY <1>2 DEF PlanInv, UpdatedHaveUsage, HasPoint, NoResults, Pending
<1>4. phase' = "down" => ~refreshed'
  BY DEF PlanInv, Next, Tick, Setup, Stop, StartRefresh, FailRefresh, FailEmpty, Import, Answered,
         vars, impl
<1>5. ASSUME refreshed' \/ phase' = "saved"
      PROVE  UNCHANGED plan /\ (refreshed \/ phase = "saved")
  <2>1. CASE FailEmpty
    <3>1. refreshed /\ plan # {}
      BY <1>5, <2>1 DEF FailEmpty, Answered, PlanInv, PlannedMetersStored
    <3> QED BY <2>1, <3>1 DEF FailEmpty, Failing, Unsupported
  <2>2. CASE ~FailEmpty
    BY <1>5, <2>2 DEF PlanInv, Next, Tick, Setup, Stop, StartRefresh, FailRefresh, Import,
                      Answered, vars, impl
  <2> QED BY <2>1, <2>2
<1>6. PlannedMetersStored'
  BY <1>2, <1>5 DEF PlanInv, PlannedMetersStored, Stored
<1> QED BY <1>1, <1>3, <1>4, <1>6 DEF PlanInv

\* For every instance, a meter that is still planned once something was stored has a usage
\* history: no refresh commits some of its meters and loses another.
THEOREM PlannedMetersStoredHolds == Spec => []PlannedMetersStored
<1>1. Init => PlanInv
  BY InitInv DEF Init, PlanInv, UpdatedHaveUsage, PlannedMetersStored, NoResults, Pending
<1>2. PlanInv /\ [Next]_vars => PlanInv'
  BY PlanUpdate, PlanSave, PlanOther
<1>3. PlanInv => PlannedMetersStored
  BY DEF PlanInv
<1> QED BY <1>1, <1>2, <1>3, PTL DEF Spec

-----------------------------------------------------------------------------
(* Streams that are dropped *)

\* What an updated meter leaves out after a success had nothing inside the window, or its
\* view has turned.
Settled(m, res) ==
  res.status = "ok" =>
    \A k \in Exposed[m] \ res.turned :
      HasPoint(res.metrics[k].history) \/ \A d \in Stored(<<m, k>>) : Pruned(d)

\* Once something was stored, the store holds nothing of a meter that is not planned.
OnlyPlannedStored ==
  refreshed \/ phase = "saved" =>
    \A s \in Stream : s[1] \notin plan =>
      ~HasPoint(history[s]) /\ \A d \in Day : offset[s][d] = 0

DropInv ==
  /\ PlanInv
  /\ refreshed => \A m \in Meter : Settled(m, result[m])
  /\ OnlyPlannedStored

\* After a success a metric is left out for want of points only, or because its view has
\* turned: a failure of the portal, or a series it no longer sends although the store has
\* some of it, fails the meter.
LEMMA UpdatedMeterSettled ==
  ASSUME refreshed, NEW m \in Meter, NEW r \in MeterAnswers(m)
  PROVE  Settled(m, r)
<1> SUFFICES ASSUME r.status = "ok", NEW k \in Exposed[m] \ r.turned, ~HasPoint(r.metrics[k].history),
                    NEW d \in Stored(<<m, k>>)
             PROVE  Pruned(d)
  BY DEF Settled
<1>1. PICK reply :
        /\ ReplySet(m, reply)
        /\ r.metrics = [j \in MetricKind |-> Metric(m, j, reply[ViewOf[j]])]
        /\ \A j \in Exposed[m] : MetricStatus(m, j, reply[ViewOf[j]]) \in {"ok", "none"}
        /\ r.turned = Turned(m, reply)
  BY UpdatedMeterMetrics
<1> DEFINE a == reply[ViewOf[k]]
           s == <<m, k>>
<1>2. k \in MetricKind /\ k \in Exposed[m]
  BY MeterAssumption
<1>3. ReplyOK(m, ViewOf[k], a)
  BY <1>1, <1>2, ExposedView DEF ReplySet
<1>4. a.status \in {"ok", "auth", "connection", "protocol"}
  BY <1>1, <1>2, <1>3 DEF Turned, ReplyOK
<1>5. MetricStatus(m, k, a) \in {"ok", "none"}
  BY <1>1, <1>2
<1>6. Metric(m, k, a) = r.metrics[k]
  BY <1>1, <1>2
<1> HIDE DEF a
<1>7. a.status = "ok"
  BY <1>4, <1>5 DEF MetricStatus
<1>8. k \in DOMAIN a.points
  BY <1>5, <1>7 DEF MetricStatus
<1>9. ~HasPoint(MergedHistory(s, a.points[k]))
  <2>1. CASE HasPoint(MergedHistory(s, a.points[k]))
    <3>1. MetricStatus(m, k, a) = "ok"
      BY <1>7, <1>8, <2>1 DEF MetricStatus
    <3>2. Metric(m, k, a).history = MergedHistory(s, a.points[k])
      BY <1>2, <1>7, <3>1 DEF Metric
    <3> QED BY <1>6, <2>1, <3>2
  <2> QED BY <2>1
<1>10. d \in Day /\ history[s][d] # NoPoint
  BY DEF Stored
<1> QED BY <1>9, <1>10 DEF HasPoint, MergedHistory

\* The update of a meter keeps it.
LEMMA DropUpdate ==
  ASSUME DropInv, NEW m \in Meter, UpdateMeter(m)
  PROVE  DropInv'
<1>1. PlanInv'
  BY PlanUpdate DEF DropInv
<1>2. PICK r \in MeterAnswers(m) : result' = [result EXCEPT ![m] = r]
  BY DEF UpdateMeter
<1>3. result \in [Meter -> MeterResults]
  BY DEF DropInv, PlanInv, IInv, TypeOK
<1>4. UNCHANGED <<today, phase, plan, refreshed, history, offset>>
  BY DEF UpdateMeter
<1>5. ASSUME refreshed', NEW n \in Meter
      PROVE  Settled(n, result[n])'
  <2>1. Settled(n, result'[n])
    <3>1. CASE n = m
      BY <1>2, <1>3, <1>4, <1>5, <3>1, UpdatedMeterSettled
    <3>2. CASE n # m
      BY <1>2, <1>3, <1>4, <1>5, <3>2 DEF DropInv
    <3> QED BY <3>1, <3>2
  <2> QED BY <1>4, <2>1 DEF Settled, HasPoint, Stored, Pruned, HistoryStart, Month
<1>6. OnlyPlannedStored'
  BY <1>4 DEF DropInv, OnlyPlannedStored, HasPoint
<1> QED BY <1>1, <1>5, <1>6 DEF DropInv

\* No result is left to settle once the refresh is over.
LEMMA ResetSettled ==
  ASSUME result' = NoResults
  PROVE  \A m \in Meter : Settled(m, result[m])'
BY DEF Settled, NoResults, Pending

\* A save stores the meters it leaves planned, and nothing of the others.
LEMMA DropSave ==
  ASSUME DropInv, Save
  PROVE  DropInv'
<1>1. PlanInv'
  BY PlanSave DEF DropInv
<1>2. ASSUME NEW s \in Stream, s[1] \notin plan'
      PROVE  /\ ~HasPoint(history'[s])
             /\ \A d \in Day : offset'[s][d] = 0
  <2>1. s[1] \notin With("ok")
    BY <1>2 DEF Save, With, Unsupported
  <2>2. Snapshot(s) = NoMetric
    BY <2>1 DEF Snapshot
  <2>3. history'[s] = NoMetric.history /\ offset'[s] = NoMetric.offset
    BY <2>2 DEF Save
  <2> QED BY <2>3 DEF NoMetric, HasPoint
<1>3. OnlyPlannedStored'
  BY <1>2 DEF OnlyPlannedStored, HasPoint
<1>4. \A m \in Meter : Settled(m, result[m])'
  BY ResetSettled DEF Save
<1> QED BY <1>1, <1>3, <1>4 DEF DropInv

\* The other steps keep it: results are only there while a refresh runs, and no day
\* begins during one.
LEMMA DropOther ==
  ASSUME DropInv, [Next]_vars, ~Save, \A m \in Meter : ~UpdateMeter(m)
  PROVE  DropInv'
<1>1. PlanInv'
  BY PlanOther DEF DropInv
<1>2. UNCHANGED <<history, offset>>
  BY DEF Next, Tick, Setup, Stop, StartRefresh, FailRefresh, FailEmpty, Import, vars, impl
<1>3. result' = NoResults \/ UNCHANGED vars
  BY DEF DropInv, PlanInv, IInv, Next, Tick, Setup, Stop, StartRefresh, FailRefresh, FailEmpty, Import
<1>4. ASSUME refreshed'
      PROVE  \A m \in Meter : Settled(m, result[m])'
  <2>1. CASE result' = NoResults
    BY <2>1, ResetSettled
  <2>2. CASE UNCHANGED vars
    BY <1>4, <2>2 DEF DropInv, vars, impl, Settled, HasPoint, Stored, Pruned, HistoryStart, Month
  <2> QED BY <1>3, <2>1, <2>2
<1>5. ASSUME refreshed' \/ phase' = "saved"
      PROVE  UNCHANGED plan /\ (refreshed \/ phase = "saved")
  <2>1. CASE FailEmpty
    <3>1. refreshed /\ plan # {}
      BY <1>5, <2>1 DEF FailEmpty, Answered, DropInv, PlanInv, PlannedMetersStored
    <3> QED BY <2>1, <3>1 DEF FailEmpty, Failing, Unsupported
  <2>2. CASE ~FailEmpty
    BY <1>5, <2>2 DEF DropInv, PlanInv, Next, Tick, Setup, Stop, StartRefresh, FailRefresh, Import,
                      Answered, vars, impl
  <2> QED BY <2>1, <2>2
<1>6. OnlyPlannedStored'
  BY <1>2, <1>5 DEF DropInv, OnlyPlannedStored, HasPoint
<1> QED BY <1>1, <1>4, <1>6 DEF DropInv

\* A stream is dropped only by a save, and after a success only when its meter was
\* updated without it.
LEMMA DropReason ==
  ASSUME DropInv, [Next]_vars, refreshed, NEW s \in forgotten' \ forgotten
  PROVE  s[2] \in result[s[1]].turned \/ \A d \in Stored(s) : Pruned(d)
<1>1. Save
  BY DEF Next, Tick, Setup, Stop, StartRefresh, UpdateMeter, FailRefresh, FailEmpty, Import,
         vars, ghosts
<1>2. s \in Stream /\ Dropped(s)
  BY <1>1 DEF Save
<1>3. s[1] \in plan
  BY <1>2 DEF DropInv, OnlyPlannedStored, Dropped
<1>4. s[1] \in With("ok")
  BY <1>1, <1>3 DEF Save, Failing, Unsupported
<1>5. ~HasPoint(result[s[1]].metrics[s[2]].history)
  BY <1>2, <1>4 DEF Dropped, Snapshot
<1>6. s[1] \in Meter /\ s[2] \in Exposed[s[1]] /\ s = <<s[1], s[2]>>
  BY <1>2, StreamParts
<1>7. Settled(s[1], result[s[1]]) /\ result[s[1]].status = "ok"
  BY <1>4, <1>6 DEF DropInv, With
<1> QED BY <1>5, <1>6, <1>7 DEF Settled

\* For every instance: once a refresh has succeeded, the store drops a stream only when this
\* refresh found that its view has turned into something else, or when all it has of the
\* stream is past the window; no failure of the portal drops one.
THEOREM DropsEndWithSuccessHolds == Spec => DropsEndWithSuccess
<1>1. Init => DropInv
  BY InitInv DEF Init, DropInv, PlanInv, UpdatedHaveUsage, PlannedMetersStored, OnlyPlannedStored,
                 NoResults, Pending
<1>2. DropInv /\ [Next]_vars => DropInv'
  BY DropUpdate, DropSave, DropOther
<1>3. DropInv /\ [Next]_vars =>
        [\A s \in forgotten' \ forgotten :
           refreshed => s[2] \in result[s[1]].turned \/ \A d \in Stored(s) : Pruned(d)]_vars
  BY DropReason
<1> QED BY <1>1, <1>2, <1>3, PTL DEF Spec, DropsEndWithSuccess

=============================================================================
