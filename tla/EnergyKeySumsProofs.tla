------------------------- MODULE EnergyKeySumsProofs -------------------------
(***************************************************************************)
(* Theorems about the rows EnergyKeyHistory imports: their sums follow     *)
(* what was accepted and continue across restarts, and the history module  *)
(* implements the book of accounts of EnergyKeyLedger.                     *)
(***************************************************************************)
EXTENDS EnergyKeyHistoryProofs

-----------------------------------------------------------------------------
(* What ties the rows to the store *)

\* A store that has just been replaced holds nothing past the window.
HistoryPruned ==
  phase = "saved" => \A s \in Stream, d \in Day : Pruned(d) => history[s][d] = NoPoint

\* The day of a row is still stored as complete, or it has left the window.
RowsRetained ==
  \A s \in Imported \ forgotten, d \in Day :
    recorder[s][d] # NoPoint => history[s][d] \in Val \/ Pruned(d)

\* The rows of days that are not stored any more come before every stored day.
RowsBehind ==
  \A s \in Imported \ forgotten, d, e \in Day :
    recorder[s][d] # NoPoint /\ history[s][d] \notin Val /\ history[s][e] # NoPoint => d < e

RowInv == IInv /\ HistoryPruned /\ RowsRetained /\ RowsBehind /\ SumsFollowAccepted

\* A complete value is a point, and neither an incomplete one nor none.
LEMMA ValIsPoint == ASSUME NEW v \in Val PROVE v \in Nat /\ v # NoPoint /\ v # Incomplete
BY PointAssumption

\* The types of one stream and day.
LEMMA DayTypes ==
  ASSUME TypeOK, NEW s \in Stream, NEW d \in Day
  PROVE  /\ history[s] \in [Day -> Point] /\ history[s][d] \in Point
         /\ offset[s] \in [Day -> Nat] /\ offset[s][d] \in Nat
         /\ accepted[s] \in [Day -> Nat] /\ accepted[s][d] \in Nat
         /\ recorder[s][d] \in RecorderRows
         /\ d \in Nat
<1>1. history[s] \in [Day -> Point] /\ offset[s] \in [Day -> Nat] /\ accepted[s] \in [Day -> Nat]
      /\ recorder[s] \in [Day -> RecorderRows]
  BY DEF TypeOK, Amounts
<1>2. d \in Nat
  BY WindowAssumption DEF Day
<1> QED BY <1>1, <1>2

\* A row is not the absence of one.
LEMMA RowIsNoPoint ==
  ASSUME IInv, NEW s \in Imported, NEW d \in Day, history[s][d] \in Val
  PROVE  Row(s, d) # NoPoint
<1>1. [e \in Day |-> offset[s][e] + IF e <= d THEN Contribution(history[s][e]) ELSE 0] \in [Day -> Nat]
  BY ContributionType DEF IInv, TypeOK, Amounts, Imported
<1>2. Row(s, d) \in [state : Val, sum : [Day -> Nat]]
  BY <1>1 DEF Row
<1> QED BY <1>2, PointAssumption

\* The row an import writes: its sum runs over everything accepted up to its day.
LEMMA RowIsSum ==
  ASSUME IInv, HistoryPruned, phase = "saved", NEW s \in Imported \ forgotten, NEW d \in Day,
         history[s][d] \in Val
  PROVE  Row(s, d) = [state |-> accepted[s][d],
                      sum |-> [e \in Day |-> IF e <= d THEN accepted[s][e] ELSE 0]]
<1>1. s \in Stream
  BY DEF Imported
<1>2. ~Pruned(d)
  BY <1>1, ValIsPoint DEF HistoryPruned
<1>3. offset[s][d] = 0 /\ accepted[s][d] = history[s][d]
  <2>1. offset[s][d] = 0
    BY <1>2 DEF IInv, OffsetPruned
  <2>2. offset[s][d] + Contribution(history[s][d]) = accepted[s][d]
    BY DEF IInv, Conservation
  <2> QED BY <2>1, <2>2, ValIsPoint DEF Contribution
<1>4. ASSUME NEW e \in Day
      PROVE  offset[s][e] + (IF e <= d THEN Contribution(history[s][e]) ELSE 0)
               = IF e <= d THEN accepted[s][e] ELSE 0
  <2>1. CASE e <= d
    BY <2>1 DEF IInv, Conservation
  <2>2. CASE ~(e <= d)
    <3>1. ~Pruned(e)
      <4>1. d \in Nat /\ e \in Nat /\ HistoryStart \in Int
        BY WindowType DEF Day, IInv, TypeOK
      <4> QED BY <1>2, <2>2, <4>1 DEF Pruned
    <3>2. offset[s][e] = 0
      BY <3>1 DEF IInv, OffsetPruned
    <3> QED BY <2>2, <3>2
  <2> QED BY <2>1, <2>2
<1> QED BY <1>3, <1>4 DEF Row

\* An import changes the rows of the stored complete days, and no other.
LEMMA ImportRows ==
  ASSUME IInv, Import, NEW s \in Imported, NEW d \in Day
  PROVE  recorder'[s][d] = IF history[s][d] \in Val THEN Row(s, d) ELSE recorder[s][d]
BY DEF Import, Imported

\* A step other than a save and an import leaves the store and the rows alone, and the
\* window does not go back.
LEMMA QuietStep ==
  ASSUME IInv, [Next]_vars, ~Save, ~Import
  PROVE  /\ UNCHANGED <<history, offset, recorder, accepted, forgotten>>
         /\ \A d \in Day : Pruned(d) => Pruned(d)'
         /\ phase' = "saved" => phase = "saved" /\ UNCHANGED today
         /\ refreshed' /\ phase' # "saved" => refreshed /\ phase # "saved"
<1>1. UNCHANGED <<history, offset, recorder, accepted, forgotten>>
  BY DEF Next, Tick, Setup, Stop, StartRefresh, UpdateMeter, FailRefresh, FailEmpty, vars, impl,
         ghosts
<1>2. CASE Tick
  <2>1. \A d \in Day : Pruned(d) => Pruned(d)'
    BY <1>2, WindowForward DEF Tick, IInv, TypeOK
  <2> QED BY <1>1, <1>2, <2>1 DEF Tick
<1>3. CASE ~Tick
  <2>1. UNCHANGED today
    BY <1>3 DEF Next, Setup, Stop, StartRefresh, UpdateMeter, FailRefresh, FailEmpty, vars, impl
  <2>2. \A d \in Day : Pruned(d) => Pruned(d)'
    BY <2>1 DEF Pruned, HistoryStart, Month
  <2>3. phase' = "saved" => phase = "saved"
    BY <1>3 DEF Next, Setup, Stop, StartRefresh, UpdateMeter, FailRefresh, FailEmpty, vars, impl
  <2>4. refreshed' /\ phase' # "saved" => refreshed /\ phase # "saved"
    BY <1>3 DEF Next, Setup, Stop, StartRefresh, UpdateMeter, FailRefresh, FailEmpty, Answered,
                vars, impl
  <2> QED BY <1>1, <2>1, <2>2, <2>3, <2>4
<1> QED BY <1>2, <1>3

\* Replacing the store keeps the points and the complete days of kept streams in the window.
LEMMA SaveStep ==
  ASSUME IInv, Save
  PROVE  /\ UNCHANGED <<today, recorder>> /\ phase' = "saved"
         /\ \A d \in Day : Pruned(d)' <=> Pruned(d)
         /\ \A s \in Stream, d \in Day : Pruned(d) => history'[s][d] = NoPoint
         /\ \A s \in Stream \ forgotten', d \in Day :
              ~Pruned(d) /\ history[s][d] \in Val => history'[s][d] \in Val
         /\ forgotten \subseteq forgotten'
<1>1. UNCHANGED <<today, recorder>> /\ phase' = "saved" /\ forgotten \subseteq forgotten'
  BY DEF Save
<1>2. \A d \in Day : Pruned(d)' <=> Pruned(d)
  BY <1>1 DEF Pruned, HistoryStart, Month
<1>3. ASSUME NEW s \in Stream, NEW d \in Day, Pruned(d)
      PROVE  history'[s][d] = NoPoint
  <2>1. history'[s] = Snapshot(s).history
    BY DEF Save
  <2>2. Snapshot(s) = NoMetric \/ Snapshot(s).history[d] = NoPoint
    BY <1>3, SnapshotMerges DEF MergedFrom
  <2> QED BY <2>1, <2>2 DEF NoMetric
<1>4. \A s \in Stream \ forgotten', d \in Day :
        ~Pruned(d) /\ history[s][d] \in Val => history'[s][d] \in Val
  BY StepKeepsPoints DEF Next
<1> QED BY <1>1, <1>2, <1>3, <1>4

\* The invariant of the rows holds of an empty recorder.
LEMMA RowInit == Init => RowInv
<1> SUFFICES ASSUME Init PROVE RowInv
  OBVIOUS
<1>1. /\ \A s \in Stream, d \in Day : recorder[s][d] = NoPoint
      /\ phase = "down" /\ refreshed = FALSE /\ Imported \subseteq Stream
  BY DEF Init, NoMetric, Imported
<1> QED
  BY <1>1, InitInv DEF RowInv, HistoryPruned, RowsRetained, RowsBehind, SumsFollowAccepted

\* A save keeps it: the rows it leaves behind are those of days it prunes.
LEMMA RowSave ==
  ASSUME RowInv, Save
  PROVE  RowInv'
<1>1. IInv'
  BY SaveInv DEF RowInv
<1>2. HistoryPruned' /\ SumsFollowAccepted'
  BY SaveStep DEF RowInv, HistoryPruned, SumsFollowAccepted
<1>3. \A s \in Imported \ forgotten' : s \in Imported \ forgotten /\ s \in Stream \ forgotten'
  BY SaveStep DEF RowInv, Imported
<1>4. RowsRetained'
  BY <1>3, SaveStep DEF RowInv, RowsRetained
<1>5. RowsBehind'
  <2> SUFFICES ASSUME NEW s \in Imported \ forgotten', NEW d \in Day, NEW e \in Day,
                      recorder'[s][d] # NoPoint, history'[s][d] \notin Val,
                      history'[s][e] # NoPoint
               PROVE  d < e
    BY DEF RowsBehind
  <2>1. Pruned(d) /\ ~Pruned(e)
    BY <1>3, SaveStep DEF RowInv, RowsRetained
  <2>2. d \in Nat /\ e \in Nat /\ HistoryStart \in Int
    BY WindowAssumption, WindowType DEF Day, RowInv, IInv, TypeOK
  <2> QED BY <2>1, <2>2 DEF Pruned
<1> QED BY <1>1, <1>2, <1>4, <1>5 DEF RowInv

\* An import keeps it and makes the sums follow what was accepted.
LEMMA RowImport ==
  ASSUME RowInv, Import
  PROVE  RowInv'
<1>1. IInv'
  BY ImportInv DEF RowInv
<1>2. UNCHANGED <<today, history, offset, accepted, forgotten>> /\ phase = "saved" /\ phase' = "idle"
  BY DEF Import, ghosts
<1>3. ASSUME NEW s \in Imported \ forgotten, NEW d \in Day
      PROVE  recorder'[s][d] = IF history[s][d] \in Val THEN Row(s, d) ELSE recorder[s][d]
  BY ImportRows DEF RowInv
<1>4. SumsFollowAccepted'
  <2> SUFFICES ASSUME NEW s \in Imported \ forgotten, NEW d \in Day, history[s][d] \in Val
               PROVE  recorder'[s][d] =
                        [state |-> accepted[s][d],
                         sum |-> [e \in Day |-> IF e <= d THEN accepted[s][e] ELSE 0]]
    BY <1>2 DEF SumsFollowAccepted
  <2> QED BY <1>2, <1>3, RowIsSum DEF RowInv
<1>5. RowsRetained'
  <2> SUFFICES ASSUME NEW s \in Imported \ forgotten, NEW d \in Day, recorder'[s][d] # NoPoint
               PROVE  history[s][d] \in Val \/ Pruned(d)
    BY <1>2 DEF RowsRetained, Pruned, HistoryStart, Month
  <2> QED BY <1>3 DEF RowInv, RowsRetained
<1>6. RowsBehind'
  <2> SUFFICES ASSUME NEW s \in Imported \ forgotten, NEW d \in Day, NEW e \in Day,
                      recorder'[s][d] # NoPoint, history[s][d] \notin Val,
                      history[s][e] # NoPoint
               PROVE  d < e
    BY <1>2 DEF RowsBehind
  <2> QED BY <1>3 DEF RowInv, RowsBehind
<1> QED BY <1>1, <1>2, <1>4, <1>5, <1>6 DEF RowInv, HistoryPruned

\* Every other step keeps it: store and rows stay, and the window does not go back.
LEMMA RowQuiet ==
  ASSUME RowInv, [Next]_vars, ~Save, ~Import
  PROVE  RowInv'
<1>1. IInv'
  BY NextInv DEF RowInv
<1>2. HistoryPruned'
  BY QuietStep DEF RowInv, HistoryPruned, Pruned, HistoryStart, Month
<1>3. RowsRetained' /\ RowsBehind'
  BY QuietStep DEF RowInv, RowsRetained, RowsBehind
<1>4. SumsFollowAccepted'
  BY QuietStep DEF RowInv, SumsFollowAccepted
<1> QED BY <1>1, <1>2, <1>3, <1>4 DEF RowInv

\* The invariant of the rows, which SumsFollowAccepted needs beside the one of the store.
THEOREM RowInvariance == Spec => []RowInv
<1>1. RowInv /\ [Next]_vars => RowInv'
  BY RowSave, RowImport, RowQuiet
<1> QED BY <1>1, RowInit, PTL DEF Spec

\* For every instance, what an import leaves for a stored complete day of a kept stream is
\* the running sum of everything accepted up to that day.
THEOREM SumsFollowAcceptedHolds == Spec => []SumsFollowAccepted
<1>1. RowInv => SumsFollowAccepted
  BY DEF RowInv
<1> QED BY <1>1, RowInvariance, PTL

-----------------------------------------------------------------------------
(* The sums continue *)

\* A row counts its own day and what came before.
CountedBefore ==
  \A s \in Imported \ forgotten, d, e \in Day :
    recorder[s][d] # NoPoint /\ recorder[s][d].sum[e] # 0 => e <= d

\* Of a day inside the window, whose value may still be revised, all rows count the same.
RowsAgree ==
  \A s \in Imported \ forgotten, c, d, e \in Day :
    recorder[s][c] # NoPoint /\ recorder[s][d] # NoPoint /\ e <= c /\ c < d /\ ~Pruned(e)
      => recorder[s][c].sum[e] = recorder[s][d].sum[e]

SumsInv == RowInv /\ CountedBefore /\ RowsAgree /\ KeptSumsContinue

\* What an import leaves of a row: a new one with the sum of what was accepted, or the old one.
LEMMA ImportedSum ==
  ASSUME RowInv, Import, NEW s \in Imported \ forgotten, NEW d \in Day, recorder'[s][d] # NoPoint
  PROVE  \/ /\ history[s][d] \in Val
            /\ \A e \in Day : recorder'[s][d].sum[e] = IF e <= d THEN accepted[s][e] ELSE 0
         \/ history[s][d] \notin Val /\ recorder'[s][d] = recorder[s][d]
<1>1. CASE history[s][d] \in Val
  <2>1. recorder'[s][d] = [state |-> accepted[s][d],
                           sum |-> [e \in Day |-> IF e <= d THEN accepted[s][e] ELSE 0]]
    BY <1>1, ImportRows, RowIsSum DEF RowInv, Import
  <2> QED BY <1>1, <2>1
<1>2. CASE history[s][d] \notin Val
  BY <1>2, ImportRows DEF RowInv
<1> QED BY <1>1, <1>2

\* An import keeps what the rows count in step.
LEMMA SumsImport ==
  ASSUME SumsInv, Import
  PROVE  SumsInv'
<1>1. RowInv'
  BY RowImport DEF SumsInv
<1>2. UNCHANGED <<today, history, accepted, forgotten>>
  BY DEF Import, ghosts
<1>3. CountedBefore'
  <2> SUFFICES ASSUME NEW s \in Imported \ forgotten, NEW d \in Day, NEW e \in Day,
                      recorder'[s][d] # NoPoint, recorder'[s][d].sum[e] # 0
               PROVE  e <= d
    BY <1>2 DEF CountedBefore
  <2> QED BY ImportedSum DEF SumsInv, CountedBefore
<1>4. RowsAgree'
  <2> SUFFICES ASSUME NEW s \in Imported \ forgotten, NEW c \in Day, NEW d \in Day, NEW e \in Day,
                      recorder'[s][c] # NoPoint, recorder'[s][d] # NoPoint, e <= c, c < d,
                      ~Pruned(e)
               PROVE  recorder'[s][c].sum[e] = recorder'[s][d].sum[e]
    BY <1>2 DEF RowsAgree, Pruned, HistoryStart, Month
  <2>1. c \in Nat /\ d \in Nat /\ e \in Nat /\ HistoryStart \in Int
    BY WindowAssumption, WindowType DEF Day, SumsInv, RowInv, IInv, TypeOK
  <2>2. ~Pruned(c) /\ ~Pruned(d) /\ e <= d
    BY <2>1 DEF Pruned
  <2>3. history[s][c] \in Val /\ history[s][d] \in Val
    BY <2>2, ImportedSum DEF SumsInv, RowInv, RowsRetained
  <2> QED BY <2>2, <2>3, ImportedSum DEF SumsInv
<1>5. KeptSumsContinue'
  <2> SUFFICES ASSUME NEW s \in Imported \ forgotten, NEW c \in Day, NEW d \in Day, c < d,
                      NEW e \in Day, recorder'[s][c] # NoPoint, recorder'[s][d] # NoPoint,
                      recorder'[s][c].sum[e] # 0, recorder'[s][d].sum[e] = 0
               PROVE  accepted[s][e] = 0
    BY <1>2 DEF KeptSumsContinue, SumsContinue, Rows, Counted
  <2>1. c \in Nat /\ d \in Nat /\ e \in Nat
    BY WindowAssumption DEF Day
  <2>2. e <= d
    <3>1. e <= c
      BY <1>3, <1>2 DEF CountedBefore
    <3> QED BY <2>1, <3>1
  <2>3. CASE history[s][d] \in Val
    BY <2>2, <2>3, ImportedSum DEF SumsInv
  <2>4. CASE history[s][d] \notin Val
    <3>1. recorder'[s][d] = recorder[s][d]
      BY <2>4, ImportedSum DEF SumsInv
    <3>2. history[s][c] \notin Val
      <4>1. history[s][c] # NoPoint => d < c
        BY <2>4, <3>1 DEF SumsInv, RowInv, RowsBehind
      <4> QED BY <2>1, <4>1, ValIsPoint
    <3>3. recorder'[s][c] = recorder[s][c]
      BY <3>2, ImportedSum DEF SumsInv
    <3> QED BY <3>1, <3>3 DEF SumsInv, KeptSumsContinue, SumsContinue, Rows, Counted
  <2> QED BY <2>3, <2>4
<1> QED BY <1>1, <1>3, <1>4, <1>5 DEF SumsInv

\* A step other than an import changes the accepted value of a day in the window only.
LEMMA AcceptedInWindow ==
  ASSUME IInv, [Next]_vars, ~Import, NEW s \in Imported, NEW e \in Day,
         accepted'[s][e] # accepted[s][e]
  PROVE  ~Pruned(e)
<1>1. Save
  BY QuietStep
<1>2. Snapshot(s).history[e] \in Val
  BY <1>1 DEF Save, Imported
<1>3. history'[s][e] = Snapshot(s).history[e]
  BY <1>1 DEF Save, Imported
<1> QED BY <1>1, <1>2, <1>3, SaveStep, ValIsPoint DEF Imported

\* Every other step keeps it too: a value that is revised is one the rows agree on.
LEMMA SumsOther ==
  ASSUME SumsInv, [Next]_vars, ~Import
  PROVE  SumsInv'
<1>1. RowInv'
  BY RowSave, RowQuiet DEF SumsInv
<1>2. UNCHANGED recorder /\ forgotten \subseteq forgotten' /\ \A d \in Day : Pruned(d) => Pruned(d)'
  BY QuietStep, SaveStep DEF SumsInv, RowInv
<1>3. CountedBefore'
  BY <1>2 DEF SumsInv, CountedBefore
<1>4. RowsAgree'
  BY <1>2 DEF SumsInv, RowsAgree
<1>5. KeptSumsContinue'
  <2> SUFFICES ASSUME NEW s \in Imported \ forgotten, NEW c \in Day, NEW d \in Day, c < d,
                      NEW e \in Day, recorder[s][c] # NoPoint, recorder[s][d] # NoPoint,
                      recorder[s][c].sum[e] # 0, recorder[s][d].sum[e] = 0
               PROVE  accepted'[s][e] = 0
    BY <1>2 DEF KeptSumsContinue, SumsContinue, Rows, Counted
  <2>1. accepted[s][e] = 0
    BY DEF SumsInv, KeptSumsContinue, SumsContinue, Rows, Counted
  <2>2. e <= c
    BY DEF SumsInv, CountedBefore
  <2>3. Pruned(e)
    BY <2>2 DEF SumsInv, RowsAgree
  <2> QED BY <2>1, <2>3, AcceptedInWindow DEF SumsInv, RowInv
<1> QED BY <1>1, <1>3, <1>4, <1>5 DEF SumsInv

\* For every instance the sums of a kept stream continue: what an earlier row counts, a later
\* row counts too, unless the portal has since revised it to nothing.
THEOREM KeptSumsContinueHolds == Spec => []KeptSumsContinue
<1>1. Init => SumsInv
  <2>1. Init => \A s \in Imported, d \in Day : recorder[s][d] = NoPoint
    BY DEF Init, NoMetric, Imported
  <2> QED
    BY <2>1, RowInit DEF SumsInv, CountedBefore, RowsAgree, KeptSumsContinue, SumsContinue, Rows
<1>2. SumsInv /\ [Next]_vars => SumsInv'
  BY SumsImport, SumsOther
<1>3. SumsInv => KeptSumsContinue
  BY DEF SumsInv
<1> QED BY <1>1, <1>2, <1>3, PTL DEF Spec

-----------------------------------------------------------------------------
(* The book of accounts *)

\* An empty store is an empty book.
LEMMA LedgerInit == Init => Ledger!Init
<1> SUFFICES ASSUME Init PROVE Ledger!Init
  OBVIOUS
<1>1. \A s \in Imported, d \in Day : offset[s][d] + Contribution(history[s][d]) = 0
  BY PointAssumption DEF Init, NoMetric, Imported, Contribution
<1>2. \A s \in Imported, d \in Day : recorder[s][d] = NoPoint
  BY DEF Init, NoMetric, Imported
<1>3. HistoryStart - 1 \in Int
  BY InitInv, WindowType DEF IInv, TypeOK
<1>4. forgotten = {}
  BY DEF Init
<1> QED BY <1>1, <1>2, <1>3, <1>4 DEF Ledger!Init

\* Midnight closes days.
LEMMA LedgerTick ==
  ASSUME RowInv, Tick
  PROVE  Ledger!Close
<1>1. UNCHANGED <<history, offset, recorder, forgotten>>
  BY DEF Tick, ghosts
<1>2. HistoryStart \in Int /\ HistoryStart' \in Int /\ HistoryStart <= HistoryStart'
  BY StartForward DEF Tick, RowInv, IInv, TypeOK
<1>3. ASSUME NEW a \in Int, NEW b \in Int, a <= b
      PROVE  b - 1 >= a - 1
  BY <1>3
<1>4. HistoryStart' - 1 >= HistoryStart - 1
  BY <1>2, <1>3
<1> QED BY <1>1, <1>4 DEF Ledger!Close, Contribution

\* A save books what it accepts, on open days only.
LEMMA LedgerSave ==
  ASSUME RowInv, Save
  PROVE  Ledger!Book
<1>1. UNCHANGED <<today, recorder>> /\ forgotten \subseteq forgotten'
  BY DEF Save
<1>2. ASSUME NEW s \in Imported \ forgotten', NEW d \in Day
      PROVE  LET b == offset[s][d] + Contribution(history[s][d])
                 c == offset'[s][d] + Contribution(history'[s][d])
             IN  c = b \/ (d >= HistoryStart - 1 /\ c \in Val)
  <2>1. s \in Imported /\ s \in Stream /\ s \notin forgotten
    BY <1>1 DEF Imported
  <2>2. offset[s][d] + Contribution(history[s][d]) = accepted[s][d]
    BY <2>1 DEF RowInv, IInv, Conservation
  <2>3. offset'[s][d] + Contribution(history'[s][d]) = accepted'[s][d]
    BY <2>1, SaveInv DEF RowInv, IInv, Conservation, Contribution
  <2>4. history'[s] = Snapshot(s).history
    BY <2>1 DEF Save
  <2>5. accepted'[s][d] = IF history'[s][d] \in Val THEN history'[s][d] ELSE accepted[s][d]
    BY <2>1, <2>4 DEF Save
  <2>6. history'[s][d] \in Val => d >= HistoryStart - 1
    <3>1. history'[s][d] \in Val => ~Pruned(d)
      BY <2>1, SaveStep, ValIsPoint DEF RowInv
    <3>2. d \in Nat /\ HistoryStart \in Int
      BY WindowAssumption, WindowType DEF Day, RowInv, IInv, TypeOK
    <3> QED BY <3>1, <3>2 DEF Pruned
  <2> QED BY <2>2, <2>3, <2>5, <2>6
<1>3. HistoryStart' = HistoryStart
  BY <1>1 DEF HistoryStart, Month
<1>4. \A s \in (Imported \ forgotten) \ forgotten' : s \in Imported \ forgotten' /\ s \in Imported
  OBVIOUS
<1> QED BY <1>1, <1>2, <1>3, <1>4 DEF Ledger!Book, Ledger!Kept, Contribution

\* An import publishes the sum of every open day that has an amount.
LEMMA LedgerImport ==
  ASSUME RowInv, Import
  PROVE  Ledger!Publish
<1>1. UNCHANGED <<today, history, offset, accepted, forgotten>> /\ phase = "saved"
  BY DEF Import, ghosts
<1>2. HistoryStart' = HistoryStart
  BY <1>1 DEF HistoryStart, Month
<1>3. ASSUME NEW s \in Imported \ forgotten, NEW d \in Day, history[s][d] \in Val
      PROVE  /\ recorder'[s][d] # NoPoint
             /\ recorder'[s][d].sum =
                  [e \in Day |-> IF e <= d THEN offset[s][e] + Contribution(history[s][e]) ELSE 0]
  <2>1. recorder'[s][d] = Row(s, d)
    BY <1>3, ImportRows DEF RowInv
  <2>2. Row(s, d) = [state |-> accepted[s][d],
                     sum |-> [e \in Day |-> IF e <= d THEN accepted[s][e] ELSE 0]]
    BY <1>1, <1>3, RowIsSum DEF RowInv
  <2>3. \A e \in Day : offset[s][e] + Contribution(history[s][e]) = accepted[s][e]
    BY DEF RowInv, IInv, Conservation
  <2>4. recorder'[s][d] # NoPoint
    BY <1>3, <2>1, RowIsNoPoint DEF RowInv
  <2> QED BY <2>1, <2>2, <2>3, <2>4
<1>4. ASSUME NEW s \in Imported \ forgotten, NEW d \in Day, history[s][d] \notin Val
      PROVE  /\ recorder'[s][d] = recorder[s][d]
             /\ d < HistoryStart - 1 \/ offset[s][d] + Contribution(history[s][d]) = 0
  <2>1. recorder'[s][d] = recorder[s][d]
    BY <1>4, ImportRows DEF RowInv
  <2>2. Pruned(d) => d < HistoryStart - 1
    <3>1. d \in Nat /\ HistoryStart \in Int
      BY WindowAssumption, WindowType DEF Day, RowInv, IInv, TypeOK
    <3> QED BY <3>1 DEF Pruned
  <2>3. ~Pruned(d) => offset[s][d] + Contribution(history[s][d]) = 0
    BY <1>4 DEF RowInv, IInv, OffsetPruned, Contribution
  <2> QED BY <2>1, <2>2, <2>3
<1> QED BY <1>1, <1>2, <1>3, <1>4 DEF Ledger!Publish, Ledger!Kept, Ledger!SumUpTo, Contribution

\* Every step of the history module is a step of the book, or does not show in it.
LEMMA LedgerStep == RowInv /\ [Next]_vars => [Ledger!Next]_(Ledger!vars)
<1> SUFFICES ASSUME RowInv, [Next]_vars PROVE [Ledger!Next]_(Ledger!vars)
  OBVIOUS
<1>1. CASE Tick
  BY <1>1, LedgerTick DEF Ledger!Next
<1>2. CASE Save
  BY <1>2, LedgerSave DEF Ledger!Next
<1>3. CASE Import
  BY <1>3, LedgerImport DEF Ledger!Next
<1>4. CASE ~Tick /\ ~Save /\ ~Import
  <2>1. UNCHANGED <<today, history, offset, recorder, forgotten>>
    BY <1>4 DEF Next, Setup, Stop, StartRefresh, UpdateMeter, FailRefresh, FailEmpty, vars, impl,
                ghosts
  <2> QED BY <2>1 DEF Ledger!vars, HistoryStart, Month, Contribution
<1> QED BY <1>1, <1>2, <1>3, <1>4

\* For every instance, the store and its rows implement the book of accounts.
THEOREM LedgerRefinement == Spec => ImplementsLedger
BY LedgerInit, LedgerStep, RowInvariance, PTL DEF Spec, ImplementsLedger, Ledger!Spec

=============================================================================
