---------------------------- MODULE EnergyKeyEntry ----------------------------
(***************************************************************************)
(* The life of config entries: a user flow creates one, setup, refreshes   *)
(* and unloads follow, a reauthentication flow may be open beside them,    *)
(* and removal deletes what the entry has left in its store file and in    *)
(* the recorder.                                                           *)
(*                                                                         *)
(* Cookies are known by their account only, statistics by their stream.    *)
(* Which streams a refresh keeps is decided in EnergyKeyHistory: here it   *)
(* keeps some of those the account can see.  Every await between two       *)
(* writes is a step of its own.                                            *)
(***************************************************************************)
EXTENDS Naturals

CONSTANTS
  Entry,       \* the entries that may be created, each once
  Account,     \* the portal's accounts
  Added,       \* those that are added to Home Assistant
  Streams,     \* Streams[a]: the streams of statistics of the account
  Form,        \* user flows that may be open at once
  None         \* no account

ASSUME AccountAssumption ==
  DOMAIN Streams = Account /\ Added \subseteq Account /\ None \notin Account

VARIABLES
  owner,      \* owner[e]: the unique id of the entry, None before it is created
  phase,      \* phase[e]: "none", "not_loaded", "saving", "preparing", "loaded", "unloading",
              \* "failed_unload", "removing", "clearing", "removed"
  data,       \* data[e]: CONF_COOKIES of the entry
  file,       \* file[e]: the store file
  memory,     \* memory[e]: the store of the runtime
  refresh,    \* refresh[e]: "off", or "saved" when it has saved the history and not yet the rows
  tasks,      \* the entries whose background tasks run
  keys,       \* keys[e]: the streams async_remove_entry has read
  form,       \* form[f]: the account a user flow has validated
  reauth,     \* reauth[e]: the reauthentication flow: step, account, streams it has loaded
  rows,       \* the streams with rows in the recorder
  forgotten,  \* observation: streams that have left a store file other than by removal
  outlived    \* observation: entries whose removal a running task or flow may have outlived

runtime == <<memory, refresh, tasks>>
flows == <<form, reauth>>
vars == <<owner, phase, data, file, runtime, keys, flows, rows, forgotten, outlived>>

Stream == UNION {Streams[a] : a \in Account}
NoFile == [account |-> None, streams |-> {}]
NoFlow == [step |-> "none", account |-> None, streams |-> {}]

Exists(e) == phase[e] \notin {"none", "removed"}

Init ==
  /\ owner = [e \in Entry |-> None] /\ phase = [e \in Entry |-> "none"]
  /\ data = [e \in Entry |-> None]
  /\ file = [e \in Entry |-> NoFile] /\ memory = [e \in Entry |-> NoFile]
  /\ refresh = [e \in Entry |-> "off"] /\ tasks = {}
  /\ keys = [e \in Entry |-> {}]
  /\ form = [f \in Form |-> None] /\ reauth = [e \in Entry |-> NoFlow]
  /\ rows = {} /\ forgotten = {} /\ outlived = {}

\* A store writes its whole content to the file of its entry.
Write(e, content) ==
  /\ file' = [file EXCEPT ![e] = content]
  /\ forgotten' = (forgotten \cup file[e].streams) \ content.streams

-----------------------------------------------------------------------------
(* The user flow *)

\* async_validate_input has accepted the cookies of an account.
SubmitForm(f) ==
  /\ form[f] = None
  /\ \E a \in Added : form' = [form EXCEPT ![f] = a]
  /\ UNCHANGED <<owner, phase, data, file, runtime, keys, reauth, rows, forgotten, outlived>>

Create(f) ==
  /\ form' = [form EXCEPT ![f] = None]
  /\ \E e \in Entry :
       /\ phase[e] = "none"
       /\ owner' = [owner EXCEPT ![e] = form[f]]
       /\ data' = [data EXCEPT ![e] = form[f]]
       /\ phase' = [phase EXCEPT ![e] = "not_loaded"]
  /\ UNCHANGED <<file, runtime, keys, reauth, rows, forgotten, outlived>>

\* Mutant: whether the account is configured is asked before the validation only.
CreateUnchecked(f) == form[f] # None /\ Create(f)

\* _abort_if_unique_id_configured and async_create_entry, without an await in between.
CreateEntry(f) ==
  /\ form[f] # None /\ \A e \in Entry : Exists(e) => owner[e] # form[f]
  /\ Create(f)

AbortForm(f) ==
  /\ form[f] # None /\ \E e \in Entry : Exists(e) /\ owner[e] = form[f]
  /\ form' = [form EXCEPT ![f] = None]
  /\ UNCHANGED <<owner, phase, data, file, runtime, keys, reauth, rows, forgotten, outlived>>

-----------------------------------------------------------------------------
(* Setup *)

\* The store is loaded; without cookies in it or in the entry the setup is retried.
SetupLoad(e) ==
  /\ phase[e] = "not_loaded"
  /\ LET preferred == IF file[e].account # None THEN file[e].account ELSE data[e]
     IN  /\ preferred # None
         /\ memory' = [memory EXCEPT ![e] = [account |-> preferred, streams |-> file[e].streams]]
  /\ phase' = [phase EXCEPT ![e] = IF data[e] # None THEN "saving" ELSE "preparing"]
  /\ UNCHANGED <<owner, data, file, refresh, tasks, keys, flows, rows, forgotten, outlived>>

SetupSave(e) ==
  /\ phase[e] = "saving"
  /\ Write(e, memory[e])
  /\ data' = [data EXCEPT ![e] = None]
  /\ phase' = [phase EXCEPT ![e] = "preparing"]
  /\ UNCHANGED <<owner, runtime, keys, flows, rows, outlived>>

\* Discovery and the platforms; a failure is retried, or waits for a login.
Prepare(e) ==
  /\ phase[e] = "preparing"
  /\ \/ /\ phase' = [phase EXCEPT ![e] = "loaded"]
        /\ tasks' = tasks \cup {e} /\ UNCHANGED memory
     \/ /\ phase' = [phase EXCEPT ![e] = "not_loaded"]
        /\ memory' = [memory EXCEPT ![e] = NoFile]
        /\ UNCHANGED tasks
  /\ UNCHANGED <<owner, data, file, refresh, keys, flows, rows, forgotten, outlived>>

-----------------------------------------------------------------------------
(* The tasks of a loaded entry *)

\* Mutant: the rows are imported before the history is saved.
RefreshSaveLate(e) ==
  /\ e \in tasks /\ refresh[e] = "off"
  /\ \E kept \in SUBSET Streams[memory[e].account] \ {{}} :
       /\ memory' = [memory EXCEPT ![e].streams = kept]
       /\ rows' = rows \cup kept
  /\ refresh' = [refresh EXCEPT ![e] = "saved"]
  /\ UNCHANGED <<owner, phase, data, file, tasks, keys, flows, forgotten, outlived>>

\* A refresh has succeeded: the streams of its snapshots replace those of the store.
RefreshSave(e) ==
  /\ e \in tasks /\ refresh[e] = "off"
  /\ \E kept \in SUBSET Streams[memory[e].account] \ {{}} :
       memory' = [memory EXCEPT ![e].streams = kept]
  /\ Write(e, memory'[e])
  /\ refresh' = [refresh EXCEPT ![e] = "saved"]
  /\ UNCHANGED <<owner, phase, data, tasks, keys, flows, rows, outlived>>

\* Their rows follow, and the cookies of the client.
RefreshImport(e) ==
  /\ refresh[e] = "saved"
  /\ rows' = rows \cup memory[e].streams
  /\ Write(e, memory[e])
  /\ refresh' = [refresh EXCEPT ![e] = "off"]
  /\ UNCHANGED <<owner, phase, data, memory, tasks, keys, flows, outlived>>

\* The heartbeat stores its cookies.
HeartbeatSave(e) ==
  /\ e \in tasks /\ phase[e] # "unloading"
  /\ Write(e, memory[e])
  /\ UNCHANGED <<owner, phase, data, runtime, keys, flows, rows, outlived>>

-----------------------------------------------------------------------------
(* Unload and removal *)

\* The heartbeat is over; a scheduled refresh runs on while the cookies are stored.
Unload(e) ==
  /\ phase[e] = "loaded"
  /\ phase' = [phase EXCEPT ![e] = "unloading"]
  /\ UNCHANGED <<owner, data, file, runtime, keys, flows, rows, forgotten, outlived>>

\* Mutant: the tasks run on.
UnloadLeavesTasks(e) ==
  /\ phase[e] = "unloading"
  /\ Write(e, memory[e])
  /\ phase' = [phase EXCEPT ![e] = "not_loaded"]
  /\ UNCHANGED <<owner, data, runtime, keys, flows, rows, outlived>>

\* Home Assistant cancels the other tasks when async_unload_entry has returned.
UnloadSave(e) ==
  /\ phase[e] = "unloading"
  /\ Write(e, memory[e])
  /\ phase' = [phase EXCEPT ![e] = "not_loaded"]
  /\ memory' = [memory EXCEPT ![e] = NoFile]
  /\ refresh' = [refresh EXCEPT ![e] = "off"] /\ tasks' = tasks \ {e}
  /\ UNCHANGED <<owner, data, keys, flows, rows, outlived>>

\* A platform stays, or the exception of a dead heartbeat is raised again: tasks run on.
UnloadFails(e) ==
  /\ phase[e] = "loaded"
  /\ phase' = [phase EXCEPT ![e] = "failed_unload"]
  /\ UNCHANGED <<owner, data, file, runtime, keys, flows, rows, forgotten, outlived>>

\* async_remove_entry loads the store; Home Assistant has tried to unload the entry.
RemoveLoad(e) ==
  /\ phase[e] \in {"not_loaded", "failed_unload"}
  /\ keys' = [keys EXCEPT ![e] = file[e].streams]
  /\ phase' = [phase EXCEPT ![e] = "removing"]
  /\ outlived' = IF e \in tasks THEN outlived \cup {e} ELSE outlived
  /\ UNCHANGED <<owner, data, file, runtime, flows, rows, forgotten>>

\* async_clear_statistics_for_history_keys
Clear(e) ==
  /\ phase[e] = "removing"
  /\ rows' = rows \ keys[e]
  /\ phase' = [phase EXCEPT ![e] = "clearing"]
  /\ UNCHANGED <<owner, data, file, runtime, keys, flows, forgotten, outlived>>

\* Mutant: the file stays.
RemoveEntryOnly(e) ==
  /\ phase[e] = "clearing"
  /\ phase' = [phase EXCEPT ![e] = "removed"] /\ data' = [data EXCEPT ![e] = None]
  /\ keys' = [keys EXCEPT ![e] = {}]
  /\ UNCHANGED <<owner, file, runtime, flows, rows, forgotten, outlived>>

\* The file is deleted, then Home Assistant drops the entry and closes its open flow.
Remove(e) ==
  /\ phase[e] = "clearing"
  /\ file' = [file EXCEPT ![e] = NoFile]
  /\ phase' = [phase EXCEPT ![e] = "removed"] /\ data' = [data EXCEPT ![e] = None]
  /\ keys' = [keys EXCEPT ![e] = {}]
  /\ UNCHANGED <<owner, runtime, flows, rows, forgotten, outlived>>

\* Home Assistant stops or crashes, and starts again; an entry it was removing is still there.
Restart ==
  /\ phase' = [e \in Entry |-> IF Exists(e) THEN "not_loaded" ELSE phase[e]]
  /\ memory' = [e \in Entry |-> NoFile] /\ refresh' = [e \in Entry |-> "off"] /\ tasks' = {}
  /\ keys' = [e \in Entry |-> {}]
  /\ form' = [f \in Form |-> None] /\ reauth' = [e \in Entry |-> NoFlow]
  /\ outlived' = {e \in outlived : phase[e] = "removed"}
  /\ UNCHANGED <<owner, data, file, rows, forgotten>>

-----------------------------------------------------------------------------
(* The reauthentication flow: a step that runs is not ended by the removal of its entry *)

Validate(e, a) ==
  /\ Exists(e) /\ reauth[e].step = "none"
  /\ reauth' = [reauth EXCEPT ![e] = [step |-> "validated", account |-> a, streams |-> {}]]
  /\ UNCHANGED <<owner, phase, data, file, runtime, keys, form, rows, forgotten, outlived>>

\* Mutant: cookies of any account are taken.
ReauthAnyAccount(e) == \E a \in Account : Validate(e, a)

\* Cookies of another account only bring the form back.
ReauthSubmit(e) == \E a \in Account : a = owner[e] /\ Validate(e, a)

ReauthLoad(e) ==
  /\ reauth[e].step = "validated"
  /\ reauth' = [reauth EXCEPT ![e] = [step |-> "saving", account |-> reauth[e].account,
                                      streams |-> file[e].streams]]
  /\ UNCHANGED <<owner, phase, data, file, runtime, keys, form, rows, forgotten, outlived>>

\* The cookies go to the file and, while the entry exists, to the entry.
ReauthSave(e) ==
  /\ reauth[e].step = "saving"
  /\ Write(e, [account |-> reauth[e].account, streams |-> reauth[e].streams])
  /\ data' = IF Exists(e) THEN [data EXCEPT ![e] = reauth[e].account] ELSE data
  /\ outlived' = IF phase[e] \in {"removing", "clearing", "removed"} THEN outlived \cup {e} ELSE outlived
  /\ reauth' = [reauth EXCEPT ![e] = NoFlow]
  /\ UNCHANGED <<owner, phase, runtime, keys, form, rows>>

-----------------------------------------------------------------------------
Next ==
  \/ \E f \in Form : SubmitForm(f) \/ CreateEntry(f) \/ AbortForm(f)
  \/ \E e \in Entry :
       \/ SetupLoad(e) \/ SetupSave(e) \/ Prepare(e)
       \/ RefreshSave(e) \/ RefreshImport(e)
       \/ HeartbeatSave(e)
       \/ Unload(e) \/ UnloadSave(e) \/ UnloadFails(e)
       \/ RemoveLoad(e) \/ Clear(e) \/ Remove(e)
       \/ ReauthSubmit(e) \/ ReauthLoad(e) \/ ReauthSave(e)
  \/ Restart

Spec == Init /\ [][Next]_vars

-----------------------------------------------------------------------------
(* Properties *)

File == [account : Account \cup {None}, streams : SUBSET Stream]

\* Every variable keeps its type, and tasks run only in an entry that has been set up.
TypeOK ==
  /\ owner \in [Entry -> Account \cup {None}] /\ data \in [Entry -> Account \cup {None}]
  /\ phase \in [Entry -> {"none", "not_loaded", "saving", "preparing", "loaded", "unloading",
                          "failed_unload", "removing", "clearing", "removed"}]
  /\ file \in [Entry -> File] /\ memory \in [Entry -> File]
  /\ refresh \in [Entry -> {"off", "saved"}] /\ tasks \subseteq Entry
  /\ \A e \in tasks : phase[e] \notin {"none", "not_loaded", "saving", "preparing"}
  /\ keys \in [Entry -> SUBSET Stream]
  /\ form \in [Form -> Account \cup {None}]
  /\ reauth \in [Entry -> [step : {"none", "validated", "saving"},
                           account : Account \cup {None}, streams : SUBSET Stream]]
  /\ rows \subseteq Stream /\ forgotten \subseteq Stream /\ outlived \subseteq Entry

\* However many user flows validate cookies at once, an account has one entry.
OneEntryPerAccount ==
  \A d, e \in Entry : Exists(d) /\ Exists(e) /\ owner[d] = owner[e] => d = e

\* Whatever reauthentications, reloads and restarts an entry goes through, it only ever keeps
\* statistics of the account it was created for.
StoreHoldsOwnAccount ==
  \A e \in Entry : file[e].account \in {None, owner[e]}
                   /\ (owner[e] # None => file[e].streams \subseteq Streams[owner[e]])

\* docs/removal.md: removal "deletes its stored cookies and normalized history".  It does, unless
\* a task of an entry that could not be unloaded or a flow that had validated cookies before
\* the removal writes the file anew.
RemovalDeletesFile ==
  \A e \in Entry : phase[e] = "removed" /\ file[e] # NoFile => e \in outlived

\* docs/entities-and-data.md: "Removing the config entry removes statistics owned by that entry".
\* Rows are never without an entry whose store knows them, at whatever moment Home Assistant
\* stops, unless a refresh or a flow has dropped the stream from the file, or the entry was
\* outlived.
NoOrphanRows ==
  \A s \in rows \ forgotten :
    \E e \in Entry : \/ Exists(e) /\ phase[e] # "clearing" /\ s \in file[e].streams
                     \/ e \in outlived /\ s \in Streams[owner[e]]

=============================================================================
