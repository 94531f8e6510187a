--------------------------- MODULE EnergyKeyRequests ---------------------------
(***************************************************************************)
(* Who makes requests through EnergyKeyClient: the heartbeat loop, and a   *)
(* refresh of the coordinator, which asks for the recent days of every     *)
(* view of every meter at once and then for each view's missing months in  *)
(* chunks, HistoryLimit of them at a time over all views.                  *)
(*                                                                         *)
(* What an answer holds is left to EnergyKeyHistory: here it counts        *)
(* whether there is a usable one, and whether a rejection is handed on.    *)
(***************************************************************************)
EXTENDS EnergyKeyClient, FiniteSets

CONSTANTS
  Meter,         \* the discovered meters, numbered in discovery order
  View,          \* their views: <<m, "usage">>, and optional ones of heat meters
  Chunk,         \* the chunks it may need: <<v, i>> for the i-th month view v may miss
  HistoryLimit   \* MAX_HISTORY_REQUESTS

Recent == View \X {0}
ChunksOf(v) == {r \in Chunk : r[1] = v}

\* _async_update_meter looks at the results of its views in this order.
Position == [usage |-> 1, volume |-> 2, temperature |-> 3]

ASSUME ViewAssumption ==
  /\ Meter \subseteq Nat
  /\ View \subseteq Meter \X DOMAIN Position
  /\ \A m \in Meter : <<m, "usage">> \in View

ASSUME RequestAssumption ==
  /\ Chunk \subseteq View \X (Nat \ {0}) /\ HistoryLimit \in Nat \ {0}
  /\ Caller = Heartbeat \cup Recent \cup Chunk
  /\ Heartbeat \cap (Recent \cup Chunk) = {}
  /\ IsFiniteSet(View) /\ IsFiniteSet(Heartbeat)

VARIABLES
  beating,    \* the heartbeat loops that run
  refresh,    \* "none", "running", or how the last one ended: "stored", "failed",
              \* "auth", "cancelled"
  plan,       \* coordinator._supported: the meters a refresh asks for
  refreshed,  \* coordinator.last_successful_refresh is not None
  stage,      \* stage[v]: "none", "due", "recent", "chunks" or "ended"
  fetched,    \* fetched[v]: what the fetch of the view comes to: "ok", or it raises "auth",
              \* "protocol" or another "error"
  queued,     \* the chunks that wait for the semaphore
  slots,      \* the value of _history_semaphore
  stopping,   \* async_unload_entry has begun
  met         \* observation: the requests of the running refresh that met a rejection

planVars == <<plan, refreshed>>
refreshVars == <<refresh, planVars, stage, fetched, queued, slots, met>>
requestVars == <<beating, refreshVars, stopping>>
allVars == <<vars, requestVars>>

RequestsInit ==
  /\ Init
  /\ beating = Heartbeat
  /\ refresh = "none"
  /\ plan = Meter /\ refreshed = FALSE
  /\ stage = [v \in View |-> "none"] /\ fetched = [v \in View |-> "ok"]
  /\ queued = {} /\ slots = HistoryLimit
  /\ stopping = FALSE
  /\ met = {}

\* The client serves a request that has been made; a cancelled refresh sends no more.
Serve(c) ==
  /\ c \in Heartbeat \/ refresh = "running"
  /\ \/ Refuse(c) \/ Send(c) \/ Reject(c) \/ HeartbeatRefused(c)
     \/ Answer(c) \/ Fail(c) \/ Timeout(c)
  /\ UNCHANGED requestVars

-----------------------------------------------------------------------------
(* The heartbeat loop *)

Beat(h) ==
  /\ h \in beating /\ Call(h)
  /\ UNCHANGED requestVars

\* A rejection ends the loop; so does an exception it does not expect.
BeatReturns(h) ==
  /\ h \in Heartbeat /\ Return(h)
  /\ beating' = IF outcome[h] \in {"auth", "unexpected", "cancelled"} THEN beating \ {h} ELSE beating
  /\ UNCHANGED <<refreshVars, stopping>>

-----------------------------------------------------------------------------
(* A refresh *)

\* The scheduled refresh, or the first one; a rejected refresh schedules no other.
StartRefresh ==
  /\ refresh \in {"none", "stored", "failed"} /\ ~stopping
  /\ refresh' = "running"
  /\ stage' = [v \in View |-> IF v[1] \in plan THEN "due" ELSE "none"]
  /\ UNCHANGED <<vars, beating, planVars, fetched, queued, slots, stopping, met>>

AskRecent(v) ==
  /\ refresh = "running" /\ stage[v] = "due"
  /\ Call(<<v, 0>>)
  /\ stage' = [stage EXCEPT ![v] = "recent"]
  /\ UNCHANGED <<beating, refresh, planVars, fetched, queued, slots, stopping, met>>

\* A task of the refresh takes what its request has come to.
TakeResult(r) ==
  /\ refresh = "running" /\ Return(r)
  /\ met' = IF outcome[r] = "auth" THEN met \cup {r} ELSE met

\* How the fetch of a view ends when its request for recent days has failed.
RecentError(result) ==
  CASE result = "auth" -> "auth"
    [] result \in {"ok", "protocol"} -> "protocol"
    [] OTHER -> "error"

\* The recent result is there: missing months, if any, queue for the semaphore.  Or there is
\* none, be it that the answer is JSON no result can be made of.
RecentReturns(v) ==
  /\ TakeResult(<<v, 0>>)
  /\ \/ /\ outcome[<<v, 0>>] = "ok"
        /\ \E missing \in SUBSET ChunksOf(v) : queued' = queued \cup missing
        /\ stage' = [stage EXCEPT ![v] = "chunks"]
        /\ UNCHANGED fetched
     \/ /\ fetched' = [fetched EXCEPT ![v] = RecentError(outcome[<<v, 0>>])]
        /\ stage' = [stage EXCEPT ![v] = "ended"]
        /\ UNCHANGED queued
  /\ UNCHANGED <<beating, refresh, planVars, slots, stopping>>

\* Mutant: chunks do not wait for the semaphore.
AskUnlimited(r) ==
  /\ refresh = "running" /\ r \in queued
  /\ Call(r)
  /\ queued' = queued \ {r}
  /\ UNCHANGED <<beating, refresh, planVars, stage, fetched, slots, stopping, met>>

AskChunk(r) ==
  /\ refresh = "running" /\ r \in queued /\ slots > 0
  /\ Call(r)
  /\ queued' = queued \ {r} /\ slots' = slots - 1
  /\ UNCHANGED <<beating, refresh, planVars, stage, fetched, stopping, met>>

\* Mutant: a rejected chunk is a failed chunk.
ChunkForgiven(r) ==
  /\ r \in Chunk /\ TakeResult(r)
  /\ slots' = slots + 1
  /\ UNCHANGED <<beating, refresh, planVars, stage, fetched, queued, stopping>>

\* Mutant: a chunk that failed keeps its slot.
ChunkKeepsSlot(r) ==
  /\ r \in Chunk /\ TakeResult(r)
  /\ slots' = IF outcome[r] = "ok" THEN slots + 1 ELSE slots
  /\ fetched' = [fetched EXCEPT ![r[1]] = IF outcome[r] = "auth" THEN "auth" ELSE @]
  /\ UNCHANGED <<beating, refresh, planVars, stage, queued, stopping>>

\* A chunk gives its slot back; its rejection is raised, another failure only counted.
ChunkReturns(r) ==
  /\ r \in Chunk /\ TakeResult(r)
  /\ slots' = slots + 1
  /\ fetched' = [fetched EXCEPT ![r[1]] = IF outcome[r] = "auth" THEN "auth" ELSE @]
  /\ UNCHANGED <<beating, refresh, planVars, stage, queued, stopping>>

\* gather returns when no chunk of the view is queued or asking.
EndView(v) ==
  /\ refresh = "running" /\ stage[v] = "chunks"
  /\ \A r \in ChunksOf(v) : r \notin queued /\ pc[r] = "idle"
  /\ stage' = [stage EXCEPT ![v] = "ended"]
  /\ UNCHANGED <<vars, beating, refresh, planVars, fetched, queued, slots, stopping, met>>

\* What the result of a view may do to the update of its meter: a rejection is always raised,
\* another error of an optional view only after the first success; an answer may turn out
\* unusable when the metrics are built from it.
ViewEnds(v) ==
  CASE fetched[v] = "auth" -> {"auth"}
    [] fetched[v] = "ok" -> {"ok", "protocol"}
    [] fetched[v] \in {"protocol", "error"} ->
         IF v[2] = "usage" \/ refreshed THEN {fetched[v]} ELSE {"ok"}

ViewsBefore(v) == {w \in View : w[1] = v[1] /\ Position[w[2]] < Position[v[2]]}

\* What _async_update_meter may come to: it raises the first error in the order of its views,
\* which may hide the rejection of a later one.
MeterEnds(m) ==
  {end \in {"ok", "auth", "protocol", "error"} :
     IF end = "ok" THEN \A v \in View : v[1] = m => "ok" \in ViewEnds(v)
     ELSE \E v \in View : /\ v[1] = m /\ end \in ViewEnds(v)
                          /\ \A w \in ViewsBefore(v) : "ok" \in ViewEnds(w)}

\* Before the first success a meter without a usable answer is left out.
Skipped(end) == IF refreshed THEN {} ELSE {m \in plan : end[m] = "protocol"}
Failing(end) == {m \in plan \ Skipped(end) : end[m] # "ok"}

\* What the fetches came to is gone with the refresh.
Forget == fetched' = [v \in View |-> "ok"] /\ met' = {}

\* All views have ended.  The first failing meter in the order of the plan is reported, so a
\* meter that failed otherwise may hide one that was rejected.
EndRefresh ==
  /\ refresh = "running" /\ \A v \in View : stage[v] \in {"none", "ended"}
  /\ \E end \in [plan -> {"ok", "auth", "protocol", "error"}] :
       /\ \A m \in plan : end[m] \in MeterEnds(m)
       /\ \/ /\ Failing(end) # {}
             /\ refresh' = IF end[Min(Failing(end))] = "auth" THEN "auth" ELSE "failed"
             /\ UNCHANGED planVars
          \/ /\ Failing(end) = {}
             /\ plan' = plan \ Skipped(end)
             /\ refresh' = IF plan' = {} THEN "failed" ELSE "stored"
             /\ refreshed' = (refreshed \/ plan' # {})
  /\ stage' = [v \in View |-> "none"] /\ Forget
  /\ UNCHANGED <<vars, beating, queued, slots, stopping>>

-----------------------------------------------------------------------------
(* Unload *)

Stop ==
  /\ ~stopping /\ stopping' = TRUE
  /\ UNCHANGED <<vars, beating, refreshVars>>

\* The heartbeat task is cancelled while it sleeps, ...
CancelSleeping(h) ==
  /\ stopping /\ h \in beating /\ pc[h] = "idle"
  /\ beating' = beating \ {h}
  /\ UNCHANGED <<vars, refreshVars, stopping>>

\* ... or in the middle of its request.
CancelBeat(h) ==
  /\ stopping /\ h \in beating
  /\ CancelWaiting(h) \/ CancelSent(h)
  /\ UNCHANGED requestVars

\* The refresh is cancelled, the first one by async_unload_entry before the heartbeat, a
\* scheduled one by Home Assistant after it: the order is left open ...
CancelRefresh ==
  /\ stopping /\ refresh = "running"
  /\ refresh' = "cancelled" /\ Forget
  /\ UNCHANGED <<vars, beating, planVars, stage, queued, slots, stopping>>

\* ... and with it, one by one, the requests it has made.
CancelRequest(r) ==
  /\ refresh = "cancelled" /\ r \in Recent \cup Chunk
  /\ CancelWaiting(r) \/ CancelSent(r)
  /\ UNCHANGED requestVars

-----------------------------------------------------------------------------
RequestsNext ==
  \/ \E c \in Caller : Serve(c)
  \/ \E h \in Heartbeat : Beat(h) \/ BeatReturns(h) \/ CancelSleeping(h) \/ CancelBeat(h)
  \/ StartRefresh \/ EndRefresh \/ Stop \/ CancelRefresh
  \/ \E r \in Recent \cup Chunk : CancelRequest(r)
  \/ \E v \in View : AskRecent(v) \/ RecentReturns(v) \/ EndView(v)
  \/ \E r \in Chunk : AskChunk(r) \/ ChunkReturns(r)

\* The tasks of a refresh: one that fetches each view, one for each chunk of a view.
ViewTask(v) == AskRecent(v) \/ RecentReturns(v) \/ EndView(v) \/ CancelRequest(<<v, 0>>)
ChunkTask(r) == AskChunk(r) \/ ChunkReturns(r) \/ CancelRequest(r)

\* The event loop runs every task that can run or is cancelled, the lock goes to its first
\* waiter, and the timeout of a request fires.  Whether the loop beats again and a refresh
\* starts is up to the clock.
RequestsFairness ==
  /\ WF_allVars(\E c \in Caller : Serve(c) /\ (Refuse(c) \/ Send(c)))
  /\ WF_allVars(\E c \in Caller : Serve(c) /\ Timeout(c))
  /\ \A h \in Heartbeat : WF_allVars(BeatReturns(h))
  /\ \A v \in View : WF_allVars(ViewTask(v))
  /\ \A r \in Chunk : WF_allVars(ChunkTask(r))
  /\ WF_allVars(EndRefresh)

RequestsSpec == RequestsInit /\ [][RequestsNext]_allVars /\ RequestsFairness

-----------------------------------------------------------------------------
(* Properties *)

\* Every variable keeps its type.
RequestsTypeOK ==
  /\ TypeOK
  /\ beating \subseteq Heartbeat
  /\ refresh \in {"none", "running", "stored", "failed", "auth", "cancelled"}
  /\ stage \in [View -> {"none", "due", "recent", "chunks", "ended"}]
  /\ plan \subseteq Meter /\ refreshed \in BOOLEAN
  /\ fetched \in [View -> {"ok", "auth", "protocol", "error"}]
  /\ queued \subseteq Chunk /\ slots \in 0 .. HistoryLimit
  /\ stopping \in BOOLEAN
  /\ met \subseteq Recent \cup Chunk

\* However many months are missing, a heartbeat waits for at most one request of each view
\* that still fetches its recent days and for HistoryLimit chunks: the timeout of each bounds
\* how long the session goes without a heartbeat while the history is filled.
HeartbeatWaitBounded ==
  \A i \in 1 .. Len(waiters) : waiters[i] \in Heartbeat =>
    i - 1 + (IF lock = Nobody THEN 0 ELSE 1)
      <= Cardinality(Heartbeat) - 1 + Cardinality({v \in View : stage[v] = "recent"}) + HistoryLimit

\* Once a refresh has succeeded, one that meets a rejection anywhere, in a late chunk as in a
\* first request, stores nothing, whatever its other requests brought.  The first refresh
\* stores nothing of a rejected meter either: it may store other meters, when the rejection
\* was that of an optional view and the usage of its meter was unusable before.
RejectedRefreshNotStored ==
  [][refresh = "running" /\ refresh' = "stored" =>
       \A r \in met : ~refreshed /\ r[1][1] \notin plan' /\ r[1][2] # "usage"]_allVars

\* The heartbeat gets the lock in the end, however many requests of a refresh come and go.
HeartbeatReturns == \A h \in Heartbeat : pc[h] = "waiting" ~> pc[h] = "done"

\* Every refresh ends: no slot of the semaphore is lost, and no view waits for a chunk that
\* will never be asked.
RefreshEnds == refresh = "running" ~> refresh # "running"

=============================================================================
