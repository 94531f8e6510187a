--------------------------- MODULE EnergyKeySession ---------------------------
(***************************************************************************)
(* Where the session cookies of one config entry are: in the entry's data, *)
(* in the store file, in the memory of a store, in the client's jar and in *)
(* a reauthentication flow; and how setup, heartbeat, refresh, unload,     *)
(* reload, reauthentication and a restart move them.                       *)
(*                                                                         *)
(* Cookies are a pair <<login, turn>>: a login made by the user and the    *)
(* number of times the portal has rotated it since.  A rotation ends the   *)
(* cookies it replaces.  What a refresh stores besides cookies is a        *)
(* version number.  A flow writes the file through a store of its own.     *)
(* Home Assistant writes entry data to disk with a delay, a store file at  *)
(* once; a stop of Home Assistant does not unload the entry.               *)
(***************************************************************************)
EXTENDS Naturals

CONSTANTS
  None,           \* no cookies, or cookies _valid_cookies refuses
  MaxLogin,       \* bound on the logins the user makes
  MaxTurn,        \* bound on the rotations of a login
  MaxData         \* bound on the refreshes that store data

ASSUME BoundAssumption ==
  MaxLogin \in Nat \ {0} /\ MaxTurn \in Nat /\ MaxData \in Nat

Cookies == (1 .. MaxLogin) \X (0 .. MaxTurn)

ASSUME NoneAssumption == None \notin Cookies

VARIABLES
  entry,       \* the config entry: its version and CONF_COOKIES
  entrySaved,  \* the entry as Home Assistant has it on disk
  disk,        \* the store file: cookies and data
  memory,      \* the same in the runtime's EnergyKeyStore
  phase,       \* state of the entry and, while it is set up or unloaded, the next step
  jar,         \* the cookies of the runtime's client
  rejected,    \* its authentication latch
  heartbeat,   \* the heartbeat task: "off", "waiting", "saving" its cookies, "returned", "died"
  refresh,     \* the refresh: "off"; "initial", "saving first" its cookies after its data: the
               \*   task of the setup; "retrying", "waiting", "saving": scheduled by the
               \*   coordinator, before and after its first success
  flow,        \* the reauthentication flow: its step, cookies and the data it has loaded
  reload,      \* a reload of the entry is scheduled
  valid,       \* the cookies the portal accepts
  logins,      \* the logins made so far
  cleared,     \* observation: a rejecting answer has deleted the cookies of a client
  latest,      \* observation: the last version a refresh has stored
  restored,    \* observation: the login of the last completed reauthentication
  broken       \* observation: a restart, a setup that failed after it contacted the portal, or
               \*   cookies rotated by a scheduled refresh once an unload had read them

entryVars == <<entry, entrySaved>>
clientVars == <<jar, rejected, heartbeat, refresh>>
portalVars == <<valid, logins, cleared>>
seen == <<latest, restored, broken>>
vars == <<entryVars, disk, memory, phase, clientVars, flow, reload, portalVars, seen>>

NoFlow == [step |-> "none", cookies |-> None, data |-> 0]
NoFile == [cookies |-> None, data |-> 0]

\* The entry a user flow has just created, or one of version 1.
Init ==
  /\ \E v \in {1, 2} : entry = [version |-> v, cookies |-> <<1, 0>>]
  /\ entrySaved = entry
  /\ disk = NoFile /\ memory = NoFile
  /\ phase = "not loaded"
  /\ jar = None /\ rejected = FALSE /\ heartbeat = "off" /\ refresh = "off"
  /\ flow = NoFlow /\ reload = FALSE
  /\ valid = {<<1, 0>>} /\ logins = 1 /\ cleared = FALSE
  /\ latest = 0 /\ restored = 1 /\ broken = FALSE

-----------------------------------------------------------------------------
(* The portal *)

\* An expiry, a logout, a changed password.
Expire ==
  /\ valid # {}
  /\ valid' = {}
  /\ UNCHANGED <<entryVars, disk, memory, phase, clientVars, flow, reload, logins, cleared, seen>>

\* The answer to a request with accepted cookies, which it may rotate.
Accepted ==
  /\ ~rejected /\ jar \in valid
  /\ UNCHANGED <<rejected, logins, cleared>>
  /\ \/ UNCHANGED <<jar, valid>>
     \/ /\ jar[2] < MaxTurn
        /\ jar' = <<jar[1], jar[2] + 1>>
        /\ valid' = (valid \ {jar}) \cup {jar'}

\* The answer to a request with other cookies, which may delete them from the jar, or the
\* local refusal after one.
Refused ==
  /\ rejected \/ jar \notin valid
  /\ rejected' = TRUE
  /\ \/ UNCHANGED <<jar, cleared>>
     \/ ~rejected /\ jar # None /\ jar' = None /\ cleared' = TRUE
  /\ UNCHANGED <<valid, logins>>

\* No answer, or one that says nothing about the session.
Unanswered == ~rejected /\ UNCHANGED <<jar, rejected, portalVars>>

-----------------------------------------------------------------------------
(* Setup *)

\* Mutant: the store is not loaded before it is written.
MigrateUnloaded ==
  /\ phase = "not loaded" /\ entry.version = 1
  /\ disk' = [cookies |-> entry.cookies, data |-> 0]
  /\ entry' = [version |-> 2, cookies |-> None]
  /\ UNCHANGED <<entrySaved, memory, phase, clientVars, flow, reload, portalVars, seen>>

\* Mutant: an entry of version 2 is migrated again.
MigrateAgain ==
  /\ phase = "not loaded" /\ entry.cookies # None
  /\ disk' = [disk EXCEPT !.cookies = entry.cookies]
  /\ entry' = [version |-> entry.version + 1, cookies |-> None]
  /\ UNCHANGED <<entrySaved, memory, phase, clientVars, flow, reload, portalVars, seen>>

\* async_migrate_entry: store the cookies of a version 1 entry and drop them there.
Migrate ==
  /\ phase = "not loaded" /\ entry.version = 1
  /\ disk' = [disk EXCEPT !.cookies = entry.cookies]
  /\ entry' = [version |-> 2, cookies |-> None]
  /\ UNCHANGED <<entrySaved, memory, phase, clientVars, flow, reload, portalVars, seen>>

Preferred == IF disk.cookies # None THEN disk.cookies ELSE entry.cookies

\* async_setup_entry: the store's cookies win over the entry's.
SetupLoad ==
  /\ phase = "not loaded" /\ entry.version = 2
  /\ memory' = disk
  /\ reload' = FALSE
  /\ jar' = Preferred
  /\ phase' = IF jar' = None THEN "retry"
              ELSE IF entry.cookies # None THEN "saving" ELSE "preparing"
  /\ UNCHANGED <<entryVars, disk, rejected, heartbeat, refresh, flow, portalVars, seen>>

\* Mutant: they leave the entry without being stored.
SetupUnsaved ==
  /\ phase = "saving"
  /\ entry' = [entry EXCEPT !.cookies = None]
  /\ phase' = "preparing"
  /\ UNCHANGED <<entrySaved, disk, memory, clientVars, flow, reload, portalVars, seen>>

\* They are stored and leave the entry.
SetupSave ==
  /\ phase = "saving"
  /\ memory' = [memory EXCEPT !.cookies = jar] /\ disk' = memory'
  /\ entry' = [entry EXCEPT !.cookies = None]
  /\ phase' = "preparing"
  /\ UNCHANGED <<entrySaved, clientVars, flow, reload, portalVars, seen>>

\* Mutant: a rejection starts no reauthentication.
AskNobody == flow' = flow

\* entry.async_start_reauth: Home Assistant opens one flow for an entry.
AskForLogin == flow' = IF flow.step = "none" THEN [flow EXCEPT !.step = "open"] ELSE flow

\* async_prepare: discovery sends several requests, any of which may fail.  An error of the
\* client becomes a retry, any other exception (a ValueError of yarl, the RuntimeError of a
\* view without a unit) a setup error that nobody retries.
Prepare ==
  /\ phase = "preparing"
  /\ \/ /\ Accepted
        /\ phase' = "loaded" /\ heartbeat' = "waiting" /\ refresh' = "initial"
        /\ UNCHANGED <<flow, broken>>
     \/ /\ Accepted \/ Unanswered
        /\ phase' \in {"retry", "setup error"} /\ broken' = TRUE
        /\ UNCHANGED <<flow, heartbeat, refresh>>
     \/ /\ Refused
        /\ phase' = "auth failed" /\ AskForLogin
        /\ UNCHANGED <<heartbeat, refresh, broken>>
  /\ UNCHANGED <<entryVars, disk, memory, reload, latest, restored>>

\* A new setup starts with a new client.
NoClient == jar' = None /\ rejected' = FALSE /\ heartbeat' = "off" /\ refresh' = "off"

\* Mutant: a setup that failed stores the cookies of its client as an unload does.
RetryStores ==
  /\ phase = "retry" \/ (phase \in {"auth failed", "setup error"} /\ reload)
  /\ disk' = [disk EXCEPT !.cookies = jar]
  /\ phase' = "not loaded" /\ NoClient
  /\ UNCHANGED <<entryVars, memory, flow, reload, portalVars, seen>>

\* Home Assistant retries a setup that was not ready, and reloads one that was rejected or
\* failed otherwise.
Retry ==
  /\ phase = "retry" \/ (phase \in {"auth failed", "setup error"} /\ reload)
  /\ phase' = "not loaded" /\ NoClient
  /\ UNCHANGED <<entryVars, disk, memory, flow, reload, portalVars, seen>>

-----------------------------------------------------------------------------
(* The tasks of a loaded entry *)

HeartbeatRequest ==
  /\ phase = "loaded" /\ heartbeat = "waiting"
  /\ \/ Accepted /\ heartbeat' = "saving" /\ UNCHANGED flow
     \/ Unanswered /\ heartbeat' \in {"waiting", "died"} /\ UNCHANGED flow
     \/ Refused /\ heartbeat' = "returned" /\ AskForLogin
  /\ UNCHANGED <<entryVars, disk, memory, phase, refresh, reload, seen>>

HeartbeatSave ==
  /\ phase = "loaded" /\ heartbeat = "saving"
  /\ memory' = [memory EXCEPT !.cookies = jar] /\ disk' = memory'
  /\ heartbeat' = "waiting"
  /\ UNCHANGED <<entryVars, phase, jar, rejected, refresh, flow, reload, portalVars, seen>>

\* A refresh runs on while its entry is unloaded, unless it is the task of the setup.
RefreshRuns == phase \in {"loaded", "unloading", "detaching", "failed unload"}

\* What a refresh that has failed waits for: a coordinator without listeners schedules none.
AfterFailure ==
  CASE phase # "loaded" -> "off"
    [] refresh = "initial" -> "retrying"
    [] OTHER -> refresh

\* The requests of a refresh.  An error of one meter hides the rejection that another one
\* met, and a first refresh may leave out the rejected meter and store another one; a refresh
\* that reports a rejection is not scheduled again.
RefreshRequest ==
  /\ RefreshRuns /\ refresh \in {"initial", "retrying", "waiting"}
  /\ \/ /\ Accepted \/ (refresh # "waiting" /\ ~rejected /\ Refused)
        /\ latest < MaxData /\ latest' = latest + 1
        /\ memory' = [memory EXCEPT !.data = latest'] /\ disk' = memory'
        /\ refresh' = IF refresh = "initial" THEN "saving first" ELSE "saving"
        /\ UNCHANGED flow
     \/ /\ Accepted \/ Unanswered \/ (~rejected /\ Refused)
        /\ refresh' \in {refresh, AfterFailure}
        /\ UNCHANGED <<memory, disk, latest, flow>>
     \/ /\ Refused /\ refresh' = "off" /\ AskForLogin
        /\ UNCHANGED <<memory, disk, latest>>
  /\ broken' = (broken \/ (phase = "detaching" /\ jar' # jar))
  /\ UNCHANGED <<entryVars, phase, heartbeat, reload, restored>>

RefreshSave ==
  /\ RefreshRuns /\ refresh \in {"saving first", "saving"}
  /\ memory' = [memory EXCEPT !.cookies = jar] /\ disk' = memory'
  /\ refresh' = IF phase = "loaded" THEN "waiting" ELSE "off"
  /\ UNCHANGED <<entryVars, phase, jar, rejected, heartbeat, flow, reload, portalVars, seen>>

-----------------------------------------------------------------------------
(* Reauthentication: the user logs in and pastes the cookies *)

\* async_validate_input accepts them.  Home Assistant has saved the entry by then.
FlowSubmit ==
  /\ flow.step = "open" /\ logins < MaxLogin /\ entrySaved = entry
  /\ logins' = logins + 1
  /\ valid' = valid \cup {<<logins', 0>>}
  /\ flow' = [step |-> "validated", cookies |-> <<logins', 0>>, data |-> 0]
  /\ UNCHANGED <<entryVars, disk, memory, phase, clientVars, reload, cleared, seen>>

FlowLoad ==
  /\ flow.step = "validated"
  /\ flow' = [flow EXCEPT !.step = "saving", !.data = disk.data]
  /\ UNCHANGED <<entryVars, disk, memory, phase, clientVars, reload, portalVars, seen>>

\* async_set_cookies and async_update_reload_and_abort
FlowSave ==
  /\ flow.step = "saving"
  /\ disk' = [cookies |-> flow.cookies, data |-> flow.data]
  /\ entry' = [entry EXCEPT !.cookies = flow.cookies]
  /\ restored' = flow.cookies[1]
  /\ reload' = TRUE
  /\ flow' = NoFlow
  /\ UNCHANGED <<entrySaved, memory, phase, clientVars, portalVars, latest, broken>>

-----------------------------------------------------------------------------
(* Reload, unload, restart *)

UserReload ==
  /\ phase \in {"loaded", "retry", "auth failed", "setup error"} /\ ~reload
  /\ reload' = TRUE
  /\ UNCHANGED <<entryVars, disk, memory, phase, clientVars, flow, portalVars, seen>>

\* async_unload_entry removes the listeners of the coordinator, which schedules no refresh any
\* more but finishes one that runs, and cancels and awaits the tasks of the setup: a heartbeat
\* that has died re-raises its exception, and a failed unload lasts until a restart.
Unload ==
  /\ phase = "loaded" /\ reload
  /\ phase' = IF heartbeat = "died" THEN "failed unload" ELSE "unloading"
  /\ heartbeat' = "off"
  /\ refresh' \in CASE refresh \in {"initial", "saving first"} -> {"off"}
                    [] refresh = "saving" -> {"saving"}
                    [] OTHER -> {"off", refresh}
  /\ UNCHANGED <<entryVars, disk, memory, jar, rejected, flow, reload, portalVars, seen>>

\* Mutant: an unload stores nothing.
UnloadUnsaved ==
  /\ phase = "unloading"
  /\ phase' = "detaching"
  /\ UNCHANGED <<entryVars, disk, memory, clientVars, flow, reload, portalVars, seen>>

\* It stores the cookies its client has at this moment.
UnloadSave ==
  /\ phase = "unloading"
  /\ memory' = [memory EXCEPT !.cookies = jar] /\ disk' = memory'
  /\ phase' = "detaching"
  /\ UNCHANGED <<entryVars, clientVars, flow, reload, portalVars, seen>>

\* It lets go of the client, and Home Assistant cancels a refresh that still runs.
Detach ==
  /\ phase = "detaching"
  /\ phase' = "not loaded" /\ NoClient
  /\ UNCHANGED <<entryVars, disk, memory, flow, reload, portalVars, seen>>

\* Home Assistant saves the entry.
Flush ==
  /\ entrySaved # entry /\ entrySaved' = entry
  /\ UNCHANGED <<entry, disk, memory, phase, clientVars, flow, reload, portalVars, seen>>

\* Home Assistant stops or crashes, and starts again.
Restart ==
  /\ phase' = "not loaded" /\ NoClient
  /\ memory' = NoFile /\ entry' = entrySaved
  /\ flow' = NoFlow /\ reload' = FALSE
  /\ broken' = TRUE
  /\ UNCHANGED <<entrySaved, disk, portalVars, latest, restored>>

-----------------------------------------------------------------------------
Next ==
  \/ Expire
  \/ Migrate \/ SetupLoad \/ SetupSave \/ Prepare \/ Retry
  \/ HeartbeatRequest \/ HeartbeatSave \/ RefreshRequest \/ RefreshSave
  \/ FlowSubmit \/ FlowLoad \/ FlowSave
  \/ UserReload \/ Unload \/ UnloadSave \/ Detach \/ Flush \/ Restart

\* Setup, retries, unload and saves run to their end, a task that waits sends its request in
\* the end, the portal does not leave every request unanswered, and Home Assistant does not
\* restart for ever before it has saved the entry or the setup has.
Fairness ==
  /\ WF_vars(Migrate) /\ WF_vars(SetupLoad) /\ SF_vars(SetupSave) /\ SF_vars(Flush)
  /\ WF_vars(Retry) /\ WF_vars(Unload) /\ WF_vars(UnloadSave) /\ WF_vars(Detach)
  /\ WF_vars(HeartbeatSave) /\ WF_vars(RefreshSave)
  /\ WF_vars(HeartbeatRequest /\ Refused) /\ WF_vars(RefreshRequest /\ Refused)
  /\ SF_vars(Prepare /\ Refused)

Spec == Init /\ [][Next]_vars
FairSpec == Spec /\ Fairness

-----------------------------------------------------------------------------
(* Properties *)

Entry == [version : {1, 2}, cookies : Cookies \cup {None}]
File == [cookies : Cookies \cup {None}, data : 0 .. MaxData]
Flow == [step : {"none", "open", "validated", "saving"},
         cookies : Cookies \cup {None}, data : 0 .. MaxData]
Phase == {"not loaded", "saving", "preparing", "retry", "auth failed", "setup error",
          "loaded", "unloading", "detaching", "failed unload"}
RefreshState == {"off", "initial", "saving first", "retrying", "waiting", "saving"}

\* Every variable keeps its type.
TypeOK ==
  /\ entry \in Entry /\ entrySaved \in Entry
  /\ disk \in File /\ memory \in File
  /\ phase \in Phase
  /\ jar \in Cookies \cup {None}
  /\ rejected \in BOOLEAN
  /\ heartbeat \in {"off", "waiting", "saving", "returned", "died"}
  /\ refresh \in RefreshState
  /\ flow \in Flow
  /\ reload \in BOOLEAN
  /\ valid \subseteq Cookies
  /\ cleared \in BOOLEAN
  /\ logins \in 1 .. MaxLogin /\ latest \in 0 .. MaxData /\ restored \in 1 .. MaxLogin
  /\ broken \in BOOLEAN

\* Wherever Home Assistant stops, what is on disk lets the entry set up again: a login is in
\* the store file or in the saved entry.  Migration and setup move it from the entry to the
\* file, and reauthentication writes both.  Only a portal that deletes the cookies of a session
\* it rejects can have them stored as none.
LoginOnDisk == cleared \/ entrySaved.cookies # None \/ disk.cookies # None

\* Of the first login, before any reauthentication, no interleaving of heartbeat, refresh,
\* unload and reload loses the cookies the portal accepts: a client holds them, or the file,
\* or the entry.  Three things may lose them: a restart, a setup that fails after the portal
\* has rotated them, and an unload that has read them before a scheduled refresh has them
\* rotated, and ends it.
NewestSessionKept ==
  \A c \in valid : c[1] = 1 /\ restored = 1 /\ ~broken =>
    IF jar # None THEN c = jar ELSE c \in {disk.cookies, entry.cookies}

\* What a refresh has stored stays in the file, whichever of migration, setup, heartbeat and
\* unload writes the cookies next: each writes the whole file from a store it has loaded.
\* Only a reauthentication flow, whose store is another one, can put an older copy back.
StoredDataKept ==
  [][disk'.data >= disk.data \/ (flow.step = "saving" /\ disk'.data = flow.data)]_vars

\* While no client of the entry lives, no step puts an older login over a stored one: neither
\* migration, nor setup from an entry that still has cookies, nor a flow.  (A flow that writes
\* the file between the read and the write of a setup is left out: the setup overwrites it.)
StoredLoginKept ==
  [][/\ phase \notin {"loaded", "unloading", "detaching"} /\ refresh = "off"
     /\ disk.cookies # None
     /\ phase = "saving" => disk = memory
     => disk'.cookies # None /\ disk'.cookies[1] >= disk.cookies[1]]_vars

\* Once the portal accepts no cookies any more, the user is asked to log in: the README has "an
\* expired session creates a reauthentication repair".  Three ways out are left: an unload that
\* fails; a setup that fails with an exception which is no error of the client, and is not
\* retried; and cookies that the portal has deleted, which the next setup takes for a store
\* that is not ready and not for a login that is needed.
ExpiredSessionAsksForLogin ==
  valid = {} ~> \/ flow.step # "none" \/ valid # {}
                \/ phase \in {"failed unload", "setup error"} \/ cleared

\* A setup uses the login of the last completed reauthentication, or a later one.
ReauthReplacesSession == phase = "preparing" /\ ~reload => jar[1] >= restored

=============================================================================
