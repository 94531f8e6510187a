# A TLA+ model of the EnergyKey integration

This directory specifies `custom_components/energykey`, the Home Assistant
integration that reads a utility portal through a cookie session, keeps thirteen
months of daily values in a private store, imports running sums into the recorder
and shows the latest values as sensors. The modules are written from the code; TLC
checks them on small instances and TLAPS proves the properties that matter most for
every instance. `PROJECT.json` lists runs, mutants, the source lines behind each
definition, hazards and findings.

Run a check with `tlc -workers 2 -config history_usage.cfg MCHistory`, and a
proof with `tlapm EnergyKeyHistoryProofs.tla`.

## The system

| Component | State | Operations | Talks to |
|---|---|---|---|
| `EnergyKeyCoordinator` (`coordinator.py`) | the plan of supported meters, counters, last success, data for the sensors | discovery, daily refresh: fetch, merge, prune, save, import | client, store, recorder, sensors |
| `EnergyKeyStore` (`storage.py`) | cookies, history and offset of every stream, in memory and in one file | load, set cookies, set histories and offsets, remove | the file; several instances exist at once |
| statistics (`statistics.py`) | none; writes recorder rows | import running sums, clear | recorder |
| `EnergyKeyClient` (`api.py`) | cookie jar, request lock, rejection latch, last activity | heartbeat, discovery, consumption requests | portal |
| entry lifecycle (`__init__.py`) | the entry's data, runtime data, two tasks | migrate, set up, unload, remove | all of the above |
| heartbeat task (`__init__.py`) | attempts, failures, reauthentication started | wait for idle time, send, store rotated cookies, retry | client, store, Home Assistant |
| config flow (`config_flow.py`) | the flow's step | new entry, reauthentication | a client and a store of its own, the entry |
| sensors (`sensor.py`) | known entities | add entities after a refresh, availability, state | coordinator |
| diagnostics (`diagnostics.py`) | none | redacted dump | runtime data |

What is hard here:

- *Partial failure.* A refresh is dozens of requests for several meters, views and
  months. Some failures abort it, some drop a chunk, some drop a stream, some drop a
  meter, and which one depends on whether a refresh has succeeded since the start.
- *Accumulation.* The offset takes in every value once, when it leaves the window,
  across late, incomplete and revised values, crashes between the save and the
  import, and long downtime. An error is never corrected later.
- *Shared session.* The heartbeat, the refresh and discovery share a lock, a jar and
  a latch; any of them may meet the rejection, be cancelled or queue behind the others.
- *Many copies of the cookies.* They live in the entry's data in memory and on disk,
  in the store's file, in the memory of each store instance, in the jar and in a
  flow; the portal rotates them at any request.
- *Lifetimes.* Flows, refreshes and heartbeats run beside unload and removal, and each
  of them may be the last to write the file.
- *The calendar.* Chunks are whole months, the recent window is 45 days, and the two
  must meet whatever the lengths of the months and however long the system was off.

What makes each component correct, in the terms of the modules:

- Refresh and statistics: offset and history count every accepted value once
  (`Conservation`); rows are the running sums of all that was accepted
  (`SumsFollowAccepted`, `KeptSumsContinue`) and, with the store, a book of accounts
  (`ImplementsLedger`); points leave only by age (`PointsLeaveByAge`); all planned meters
  are committed or none (`PlannedMetersStored`); the window has no hole and no
  excess (`WindowFilled`, `WindowOnly`).
- Sensors: what is shown agrees with the statistics and never goes back
  (`SensorShowsLastRow`, `TemperatureOfMeasuredPeriod`, `ShownPeriodAdvances`).
- Client and its callers: one request at a time and none after a rejection
  (`ImplementsGate`, `RejectionIsFinal`); a refresh that met a rejection stores nothing,
    and the first one at least nothing of the rejected meter (`RejectedRefreshNotStored`);
  nobody waits for ever (`HeartbeatWaitBounded`,
  `HeartbeatReturns`, `RefreshEnds`).
- Heartbeat: the session is never idle for long (`IdleBounded`), a server's waiting time
  is respected (`EmbargoKept`), a rejection is reported (`RejectionReported`).
- Session: accepted cookies and stored data survive every interleaving of the writers
  (`NewestSessionKept`, `StoredDataKept`, `StoredLoginKept`, `LoginOnDisk`), and an expired
  session ends in a question to the user (`ExpiredSessionAsksForLogin`).
- Entries: one per account, nothing of another account in it, nothing left after removal
  (`OneEntryPerAccount`, `StoreHoldsOwnAccount`, `RemovalDeletesFile`, `NoOrphanRows`).

## Modules

| Module | Models | Built on |
|---|---|---|
| `EnergyKeyHistory` | the coordinator's refresh, the store's streams, the recorder's rows | implements `EnergyKeyLedger` |
| `EnergyKeyLedger` | the abstract book of accounts | |
| `EnergyKeySensors` | the entities over the coordinator's data | extends `EnergyKeyHistory` |
| `EnergyKeyCalendar` | the requests of one view over real months, and which series is which | |
| `EnergyKeyClient` | `_request_json` among its concurrent callers | implements `EnergyKeyGate` |
| `EnergyKeyGate` | what the portal is promised | |
| `EnergyKeyRequests` | heartbeat and refresh as callers, the semaphore, unload | extends `EnergyKeyClient` |
| `EnergyKeyHeartbeat` | the heartbeat loop on a clock | |
| `EnergyKeySession` | every copy of one entry's cookies | |
| `EnergyKeyEntry` | entries from user flow to removal | |
| `MC...` | instances for TLC | the module of that name |
| `...Proofs` | theorems and their proofs | the module of that name; `EnergyKeyRequestsProofs` also has those of `EnergyKeyClient`, `EnergyKeySumsProofs` more of `EnergyKeyHistory` |

**`EnergyKeyHistory`**

- A *stream* is a meter and a metric kind (`_history_key`). Its `history` maps days to
  points: a complete value, an incomplete point, or none.
- `Setup` is discovery: any non-empty set of `Plans`. `StartRefresh` begins a refresh.
  `UpdateMeter(m)` is `_async_update_meter`: for each view the portal answers the recent
  request and any subset of the chunks of missing months, or fails (`MeterAnswers`);
  `MetricStatus` and `MeterStatus` decide as `_optional_results` and `_build_metric` do, in
  their order. Meters finish in any order.
- `FailRefresh`, `FailEmpty` and `Save` are the three ends of `_async_update_data`, the
  trimming of the plan included; `Import` is the call of `async_import_statistics` and
  the success that follows. `Save` and `Import` are two steps because the save is
  awaited: `Stop`, a crash or a cancellation, can come between them, as it can
  anywhere else.
- The float offset and the float sums are kept as their addends, one per day, so that a
  value counted twice or lost is seen at its day. `accepted`, `forgotten` and `turned`, the
  kinds an answer shows to be no longer what they were, only observe.
- The portal (`SeriesReplies`) completes only past days and does not reopen a complete
  period. The clock moves forward, and not during a refresh.

**`EnergyKeyLedger`** has an account per imported stream: open days may be booked and
corrected, time closes them, publishing states the sum up to every open day, and an
account may be lost. The refinement in `EnergyKeyHistory` maps the balance to history and
offset together, so a value that moves from the one to the other is no step of the ledger.

**`EnergyKeySensors`** adds what the rest of Home Assistant sees: `data` replaced after the
import (`Publish`), kept by a failed refresh (`KeepData`), emptied by a new runtime
(`PrepareData`, `DropData`); `known` are the entities the listener has added. `Latest` is
`_latest_period` with the extra condition on temperatures. Everything else of
`EnergyKeyHistory` happens unseen (`Unseen`).

**`EnergyKeyCalendar`** has the constants of the code and the lengths of real months.
`Windows` is `_missing_month_windows_many`, `RecentWindow` the recent request, `Merge` is
`_merge_history`, and `UsageSeries`/`BudgetSeries` choose the series of an answer, from
which the portal leaves out a series without points. Every request is answered: what
failures do is in `EnergyKeyHistory`, where the calendar is not.

**`EnergyKeyClient`** has a first-come lock, the latch read under the lock, the timeout that
runs only while the lock is held, the classification of answers, cancellation in the queue
and on the wire. `HeartbeatRefused` is one step although the latch is set after the lock is
left, because no suspension lies between. **`EnergyKeyGate`** sees only the wire and the
session: the client implements it with queue, timeouts and cancellations hidden.

**`EnergyKeyRequests`** says who calls the client and when. A refresh (`StartRefresh`) asks
for the recent days of every view at once (`AskRecent`), then for each view's missing months
under the history semaphore (`AskChunk`, `ChunkReturns`), and ends when every view has
(`EndView`, `EndRefresh`). A failed chunk is only counted, a rejected one is raised. What a
refresh comes to is decided in the code's two orders: `MeterEnds` looks at the views of a meter
in the order of `_async_update_meter` and keeps the first error, `EndRefresh` at the meters in
the order of the plan. So the error of a usage view hides the rejection of the same meter's
volume view, and before the first success a meter whose error is a protocol error is left out
(`Skipped`) and the others are stored. Unload
(`Stop`) cancels the heartbeat asleep (`CancelSleeping`) or in its request (`CancelBeat`)
and the refresh with its requests (`CancelRefresh`, `CancelRequest`). What an answer
contains is `EnergyKeyHistory`'s: here it may turn out usable or not (`ViewEnds`).

**`EnergyKeyHeartbeat`** is the loop with a clock. `idle` is the client's time since its
last answered request, `timer` the rest of a sleep or the time a request has taken. `Send`
ends the sleep; `Answered`, `Refused`, `Unreachable`, `RateLimited` and `Die` are the ends
of a request, `Resume` the end of a back-off, after which the loop computes its wait anew
(`Wait`). `Activity` and `RejectedElsewhere` are what other requests of the client do
meanwhile. The loop reads the idle time before it sleeps, so a heartbeat may follow
another request closely; that it is never late is what `IdleBounded` says. `MaxRequest`
stands for the queue of the client and the timeout; `HeartbeatWaitBounded` in
`EnergyKeyRequests` is why there is such a bound.

**`EnergyKeySession`** follows the cookies of one entry. Cookies are a pair of a login and
the number of rotations since. `Migrate`, `SetupLoad`, `SetupSave`, `Prepare`, `Retry` are
migration and setup cut at their awaits; `HeartbeatRequest`/`HeartbeatSave` and
`RefreshRequest`/`RefreshSave` the two tasks; `FlowSubmit`, `FlowLoad`, `FlowSave` the
reauthentication flow with its own store; `Unload`/`UnloadSave`/`Detach` the unload; `Flush` and
`Restart` Home Assistant's delayed write of the entries and its stop. `Accepted`, `Refused`
and `Unanswered` are the answers of the portal, shared by every request; a refusal may
delete the cookies of the jar, which `cleared` remembers. The requests of `Prepare` and of a
refresh are one step each: it may rotate the cookies or not, and be accepted in part (a
discovery that fails after a rotation). `Prepare` ends loaded, to be retried, in a
reauthentication, or in a setup error when an exception comes that `async_setup_entry` does
not expect, which nobody retries. A refresh stores the number of its version in
place of histories. It is the task of the setup until its first end (`initial`,
`saving first`), which `Unload` cancels, and scheduled by the coordinator from then on
(`retrying`, `waiting`, `saving`): the unload takes the listeners away, so that no other one
is scheduled, but one that runs goes on (`RefreshRuns`) while the unload saves the
cookies, until `Detach`. A refresh whose rejection was hidden behind an error fails like any
other, and the first one may even store (`RefreshRequest`).

**`EnergyKeyEntry`** has several entries, user flows and reauthentications. Cookies are
known by their account, statistics by their stream. `SubmitForm` validates, `CreateEntry`
or `AbortForm` follow; `SetupLoad`, `SetupSave`, `Prepare` set the entry up; `RefreshSave`
and `RefreshImport` are cut where the code awaits the save; `Unload`, `UnloadSave` and
`UnloadFails` are the ends of an unload, the last of which leaves tasks behind; `RemoveLoad`,
`Clear`, `Remove` are `async_remove_entry` cut at its awaits. `forgotten` and `outlived`
observe the ways in which the documented clean-up does not hold: a refresh that has dropped a
stream from the store, and a task or flow that writes after the removal.

*How the modules fit together.* `EnergyKeyHistory` says what the answers of a refresh do to
store and recorder, `EnergyKeyRequests` in which order the answers come and which of them
ends the refresh: a rejection is a status of a meter in the one, an outcome of a request in
the other. `EnergyKeySession` has the client as a jar and a latch, whose discipline is
`EnergyKeyClient`'s, and the store as one version number, whose content is
`EnergyKeyHistory`'s. `EnergyKeyEntry` forgets both but has several entries.

## Runs

| Run | Instance | Distinct states | Shows |
|---|---|---|---|
| `history_usage` | 1 usage stream, four days over the end of a month, values 0 and 3, every combination of points | 278,000 | nothing lost or counted twice; points leave by age; rows are the running sums, also after lost imports; the ledger |
| `history_meters` | 2 meters, one with a volume view, any plan at every setup | 357,000 | no planned meter is committed without the other; which failures may drop a stream |
| `sensors` | 1 heat meter with usage and flow temperature, values up to a day late | 310,000 | what is shown against the statistics |
| `requests` | 1 heartbeat, a water meter with its history complete, a heat meter with a volume view, each of its views with up to 1 missing month, semaphore of 1, unload at any point | 236,000 | the gate; what a rejected refresh may store; no starvation, every refresh ends |
| `heartbeat` | interval 4, retry 2, server waits 0, 1, 3 and 9, 3 failures in a row | 1,400 | how long the session is idle, what a failure forbids, every rejection handed on |
| `session` | 3 logins, 1 rotation each, 2 stored versions | 268,000 | stored data, newest cookies, a login on disk; an expired session asks for a login |
| `entry` | 2 entries, 2 forms, one account added and one only logged in to | 1,980,000 | one entry per account, its own data, removal |
| `calendar` | 13 months and 45 days, around the turn to 2024 and its leap day | 5,700 | no day of the window is left out, none older is kept |
| `history_sum_restarts`, `history_lost_chunk`, `session_reauth`, `calendar_budget` | | | violations, see *Findings* |

*Bounds.* In the history runs months have two days and the recent window is today and
yesterday. This keeps what the code distinguishes: the recent window starts inside a month
or at its border, there is an older month to request as a chunk (in `history_usage`,
`sensors`), and months leave the window while the system runs. Two values, one of them zero, tell a
revision from the original. Two meters are enough for one to succeed and one to fail;
streams interact in no other way, so `history_meters` needs a window of one month only.
What the short months hide is the subject of `calendar`, which has the real ones: it starts
from 27 December to 4 January and from 15 January to 4 March, so that every position of the
window's ends in a month occurs, with pauses of exactly the recent window, a day more and
much more. In `requests` the months missing together (two) exceed the slots (one), with
a heartbeat among them. Two views of one meter are enough for one to hide the rejection of
the other, and a second meter, first in the plan, for something to be stored all the same; it
needs no chunks for that. Three logins let a reauthentication follow another. The
heartbeat's interval is longer than its retry, and the server waits lie below, between and
above the two; three failures in a row make the idle time pass the interval. Two entries let
an account be removed and added again while the removal is under way, and two forms let it be
added twice. `DaysPerMonth`, `MaxDay`, `Chunk`, `MaxLogin`, `MaxTurn`, `MaxData`,
`MaxRequest`, `MaxFailures` and `LastDay` are the bounds; the proofs need none of their
values. `entry` uses the symmetry of entries, forms and the streams of an account; it checks
no liveness.

*Deadlock* checking is on except in `requests`, where after an unload nothing is left to do,
and in `calendar`, whose days are bounded. Where it is on it says little, since a stop, a
restart or a cancellation is nearly always possible; that work goes on is left to the
liveness properties.

*Fairness.* `requests`: the event loop runs a caller at the head of a free lock's queue and
every task whose result is there or that is cancelled (one condition for each task: the
heartbeat, each view, each chunk), and the timeout of a request fires
(`asyncio.timeout` around the request and its body); no answer of the portal is assumed, and
neither that the heartbeat beats nor that a refresh starts. Weak fairness suffices for the
lock, because it is first come, first served. `session`: the coroutines of setup, unload and
saves run to their end; a task that waits sends its request in the end; the portal does not
leave *every* request unanswered (weak fairness of the refused requests, strong for
discovery, which starts anew with every retry); Home Assistant does not restart for ever
before it has saved the entry or the setup has stored the cookies. Nothing is assumed of the
user, or of the portal's willingness to accept a session. A failed unload, which lasts until
a restart, a setup error and deleted cookies are exceptions the property names. `heartbeat`:
time passes, a
sleep that is over ends, and a request with a rejected client fails when it has the lock; no
answer is assumed.

Each property has a mutant, an operator beside the one it alters, that the property
catches under the run's own configuration.

## Findings

1. **Sums restart** (`history_sum_restarts`). Before the first success after a start, a
   meter with an unusable response is skipped, and the store is replaced by the
   snapshots of the others alone. The skipped meter's history and offset are gone; when it
   answers again its sums start from zero, where the README promises "a continuous `sum`".
2. **A chunk that is never retried** (`history_lost_chunk`). A month is taken as stored as
   soon as it has a point. The month in which the recent window starts gets points from
   the recent request, so its failed chunk is not requested again.
3. **Reauthentication undone** (`session_reauth`). The reload unloads the old client, which
   stores its rejected cookies over the new ones; setup prefers the store and deletes
   the entry's copy. (No test covers a loaded entry: the flow's test mocks the reload.)
4. **A budget taken as measured** (`calendar_budget`). The only series of an answer is taken
   for usage whatever its name, and a series without points is not in the answer: for a month
   that has expected values and no usage yet, the expected values are stored and imported as
   consumption, where the README says they "are not treated as measured consumption".

Met on the way, and written into the properties as exceptions or listed as hazards:

- When every meter's first response is unusable, the plan is trimmed to nothing before the
  refresh fails (coordinator.py:244); later refreshes make no request until a reload.
- On the first refresh after a start an unusable usage answer hides the rejection of the same
  meter's volume or temperature view (coordinator.py:386-403): the meter is left out, the
  others are stored, and nobody is asked for a login until the heartbeat is rejected
  (the second half of `RejectedRefreshNotStored`).
- An unload reads the cookies while a scheduled refresh may still rotate them
  (`__init__.py:165`; `broken` in `NewestSessionKept`).
- A setup that meets an exception which is no `EnergyKeyError` (a `Location` that is no URL,
  api.py:336) ends in a setup error: nobody retries it or is asked for a login (`setup error`
  in `ExpiredSessionAsksForLogin`).
- If a rejecting answer deletes the cookies, and these are stored, the next setup is "not
  ready" for ever and asks for no login (`__init__.py:99`; `cleared` in
  `ExpiredSessionAsksForLogin` and `LoginOnDisk`).
- An outage longer than the recent window leaves days out of the month it began in, for the
  reason of finding 2 (`missed` in `WindowFilled`).
- A flow or a failed unload may write the file of a removed entry anew (`outlived` in
  `RemovalDeletesFile`), and a stream the store has dropped keeps its rows (`forgotten` in
  `NoOrphanRows`).
- With 45 recent days the cap of a month window at tomorrow never takes effect.

## Proofs

| Module | Theorems | Hold for |
|---|---|---|
| `EnergyKeyHistoryProofs` | `TypeCorrect`, `ConservationHolds`, `PointsLeaveByAgeHolds`, `PlannedMetersStoredHolds`, `DropsEndWithSuccessHolds` | any meters, streams, plans, values, replies, month length and window |
| `EnergyKeySumsProofs` | `SumsFollowAcceptedHolds`, `KeptSumsContinueHolds`, `LedgerRefinement` | the same |
| `EnergyKeySensorsProofs` | `SensorsImplementHistory`, `SensorsLedger`, `SensorsTypeCorrect`, `SensorShowsLastRowHolds`, `TemperatureOfMeasuredPeriodHolds`, `ShownPeriodAdvancesHolds` | the same |
| `EnergyKeyCalendarProofs` | `CalendarTypeCorrect`, `WindowFilledHolds`, `WindowOnlyHolds` | any window, recent days, base year, pauses and beginnings of the series, over the real calendar |
| `EnergyKeyRequestsProofs`: client | `LockDiscipline`, `Refinement` and the step lemmas | any set of callers, calling at any time |
| `EnergyKeyRequestsProofs`: its callers | `RequestsImplementClient`, `RequestsTypeCorrect`, `RequestsLockDiscipline`, `RequestsQuiet`, `RequestsRejectionIsFinal`, `RequestsRefinement`, `RejectedRefreshNotStoredHolds`, `HeartbeatWaitBoundedHolds` | any finite sets of heartbeats and views, any missing months and semaphore |
| `EnergyKeyHeartbeatProofs` | `TypeCorrect`, `IdleBoundedHolds`, `EmbargoKeptHolds` | any intervals, server waits and number of failures |
| `EnergyKeySessionProofs` | `TypeCorrect`, `StoredDataKeptHolds`, `LoginOnDiskHolds`, `NewestSessionKeptHolds`, `StoredLoginKeptHolds` | any number of logins, rotations and refreshes |
| `EnergyKeyEntryProofs` | `TypeCorrect`, `OneEntryPerAccountHolds`, `StoreHoldsOwnAccountHolds`, `RemovalDeletesFileHolds`, `NoOrphanRowsHolds` | any entries, forms, accounts and streams |

The assumptions are those on the constants, named in the modules, and what the modules say
of the portal and of Home Assistant.

*History.* `Conservation` is not inductive: a result in flight was merged from the store
and must still agree with it when it is saved, and a day that has entered the offset
must never be back in the history. `IInv` adds `ResultsMerge` (each metric of a result is
absent or the stored stream merged, pruned and folded) and `OffsetPruned` (the offset of a
day is zero until the day is past the window). `WindowForward` shows that what is past the
window stays past it. `DropsEndWithSuccess` speaks of a single step, but why that step drops
no more depends on the answers taken before it: `DropInv` says that an updated meter leaves
out, after a success, only a kind whose view the answer shows to be another one (`turned`) or
that had nothing inside the window (`Settled`, from the statuses of `MetricStatus`), and
that the store holds nothing of a meter that is no longer planned
(`OnlyPlannedStored`).

*Calendar.* The months are put in a row, `Nth(i)` for the month `i` after the first.
`MonthsFollow` computes from the tables of `First` and `Length`, for every year, that each
month begins where the one before it ends; a least counterexample (`LeastOf`, from the
well-foundedness of the naturals) then gives the bounds of `i` months (`MonthsBounds`), their
order, that every day lies in exactly one (`DayInMonth`, `DayInOneMonth`), and that `MonthOf`,
which tries only a few, finds it. On top of that the window is an interval of places in the row
(`InWindowStart`), and a day before the recent window is asked for when its month has no point
(`WindowsCover`). `WindowFilled` needs to know what is *not* asked for:
`StoredMonthsComplete` says that before a refresh every month with a point has all its days
before the recent window, except those left behind. A pause keeps it because a day it adds
lies in the month it began in, and is `missed`, or in a month without points.

*Sums.* A row was written from a store that has moved on since. `RowInv` adds that the day of
a row is still stored as complete or has left the window (`RowsRetained`), that rows of days no
longer stored lie before every stored day (`RowsBehind`), and that a store just saved holds
nothing past the window (`HistoryPruned`). It rests on the invariant of the history proofs,
taken by name. `KeptSumsContinue` allows a later row to count less when the portal has revised
a day to nothing, and a value that came back after that would break it. `RowsAgree` says why it
cannot: of a day inside the window, the only ones that are still revised (`AcceptedInWindow`),
all rows count the same, and a day that has left the window keeps its value.

*Sensors.* Every step of the sensors is a step of the history module or a stutter
(`SensorsStep`), so its invariants carry over. `DataStored` says that the data of available
sensors is what is stored and imported; `ShownRetained`, that a day once shown is still a
candidate or has left the window, from which it follows that no older day can be shown
next. `SensorsImplementHistory` puts the steps together: the coordinator beneath the sensors
is the one of the history module, so that its ledger holds there as well (`SensorsLedger`).

*Client and requests.* The lock and its queue describe each other only while no caller is
queued twice (`WaitersDistinct`): cancelling one place of a caller would otherwise leave
another. `QuietAfterRejection` then follows because the latch is set by the holder in the step
that frees the lock. The refinement maps the wire to the set of senders, a singleton by
`LockHeldBySender`. The client's invariant is proved once over its steps (`StepInv`); each
step of `EnergyKeyRequests` is a step or a stutter of the client (`ClientSteps`), so the
module implements the client (`RequestsImplementClient`) and the theorems are lifted to its
callers without another induction. `RefreshInv` is the invariant of
the refresh: a rejection met is remembered at its view (`MetRemembered`), and is not
overwritten because every request is made and taken in the order of the view's stages
(`AskedInOrder`). `RejectedMeterFails` then draws the conclusion from the code's two orders: a
meter one of whose views was rejected does not end well, and ends in anything but a rejection
only if a view before it failed, so it is either reported or, before the first success, left
out. `HeartbeatWaitBounded` counts a queue: `CountInv` keeps the chunks under way
and the free slots in balance, and places the recent requests at views in that stage; the
callers before a heartbeat are then distinct members of three finite sets whose sizes are
known. For this the views and heartbeats are assumed to be finite sets, as they are: the views
are those of the meters in one answer of the portal, and an entry has one heartbeat task.

*Heartbeat.* `IdleBounded` speaks of the idle time, but whether it holds tomorrow depends on
how long the loop still sleeps: `Within` bounds the sum of both by a budget that grows with
each failure, and says that the rest of a sleep covers what the last failure forbids.
`BackOffTime` and `WaitValue` are the arithmetic of the waits. The assumption is that the
minimal wait, the retry interval and the interval are in this order.

*Session.* `StoredDataKept` needs `DataOrder`: while a store instance is live it is never
behind the file, and the file never behind a flow that is about to write. `LoginOnDisk`
needs `LoginHeld`: the entry in memory and on disk, the file, the jar and the store that
writes next each have a login whenever they may become the only one. For `NewestSessionKept`,
`NewestHeld` follows the accepted cookies through every phase (`HeldHere`: whether entry, file,
read or client has them, that an unload has stored them before it lets go of the client, and
that the client is not yet rejected), and keeps a flow to later
logins. Its exceptions are those of the property: restarts, setups that failed after they
contacted the portal, and rotations by a scheduled refresh behind an unload's back. For
`StoredLoginKept`, `LoginOrder` has the next writer never behind the file: no copy
holds a later login than the user's last, which is the one a flow has validated; an entry is of
version 1 only before the first flow; a setup saves what it has read from the file, if there
was anything.

*Entry.* The properties are about what is left at the end; the invariant is about who may
still write. `Owned` says that every copy (entry, file, memory, flow) holds only what belongs
to the entry's account, `Outliving` that a removed entry whose tasks run is outlived and that a
removal has read every stream of the file, `HasCookies` and `Begun` that a live phase has what
it needs, and `RowsOwned` that every row is known to an entry (`RowOf`).

*Model-checked only.* Liveness (`RejectionReported`, `ExpiredSessionAsksForLogin`,
`HeartbeatReturns`, `RefreshEnds`) is out of the prover's reach, and so are the findings, which
are counterexamples. Every other invariant and action property of a passing run is a theorem,
without hypotheses beyond the assumptions on the constants.

## Not modelled

- Formatting, wording, logging, device names, redaction, translations, tooling.
- Conversions without state: the wire format of dates, numbers, meters and views; which view
  and unit of an item is chosen; cookie rules. (`parse_cookie_header` accepts an optional
  cookie with an empty value that `_valid_cookies` refuses, api.py:140, so a login that the
  parser takes can still be turned down: a matter of two pure functions.)
- Units: a chunk in another unit is a lost chunk of `EnergyKeyHistory`; what a stream holds
  after its unit has changed is not followed.
- Floats (addends stand for sums) and the rows' hour boundary.
- Validation of a loaded file and failed writes of Home Assistant's storage; a recorder that
  is absent; a clock that goes back; periods that the portal reopens.
- Statistic ids are made of the item alone, so two entries that see the same item share its
  rows; in `EnergyKeyEntry` the streams of accounts are disjoint.
- The heartbeat sensor, the clean-up of registries and the history attribute of sensors.

## Plan

Done, in this order: history, client, gate, heartbeat, session and their first proofs; then
ledger, sensors, requests, entries and calendar, with the proofs of sums, sensors, requests
and entries; then the proofs of what was left model-checked: calendar, newest session and
stored login, the wait of the heartbeat, the reasons for dropping a stream. Left:

1. The part of the liveness arguments that is safety: that a caller in the queue only moves
   forward, that a refresh's open requests only shrink.
2. Pure algorithms against reference definitions: view selection and its ties, the cookie
   rules, `Retry-After`.
3. Storage: version and validation of what is loaded, a write that fails.
