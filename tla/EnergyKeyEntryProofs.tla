------------------------- MODULE EnergyKeyEntryProofs -------------------------
(***************************************************************************)
(* Theorems about EnergyKeyEntry, for any entries, accounts, streams and   *)
(* user flows.                                                             *)
(***************************************************************************)
EXTENDS EnergyKeyEntry, TLAPS

-----------------------------------------------------------------------------
(* The inductive invariant *)

Reauth == [step : {"none", "validated", "saving"},
           account : Account \cup {None}, streams : SUBSET Stream]

\* Where a client lives, the store of the runtime has cookies.
HasCookies ==
  /\ \A e \in Entry : phase[e] \in {"saving", "preparing", "loaded", "unloading"} =>
                        memory[e].account # None
  /\ \A e \in tasks : memory[e].account # None

\* Flows and tasks belong to an entry that has been created.
Begun ==
  /\ \A e \in Entry : refresh[e] = "saved" => e \in tasks
  /\ \A e \in Entry : reauth[e].step # "none" => phase[e] # "none" /\ reauth[e].account # None
  /\ \A e \in Entry : phase[e] # "none" <=> owner[e] # None

\* Every place that keeps something of an entry keeps it of the entry's account.
OfOwner(e, c, empty) ==
  c = empty \/ (owner[e] # None /\ c.account = owner[e] /\ c.streams \subseteq Streams[owner[e]])

Owned ==
  \A e \in Entry : /\ OfOwner(e, file[e], NoFile) /\ OfOwner(e, memory[e], NoFile)
                   /\ OfOwner(e, reauth[e], NoFlow)
                   /\ data[e] \in {None, owner[e]}

\* Nothing is written to the file of an entry that is removed, or being removed, unless the
\* removal was outlived; the removal has read every stream of the file.
Outliving ==
  /\ \A e \in Entry : phase[e] \in {"removing", "clearing", "removed"} /\ e \in tasks =>
                        e \in outlived
  /\ \A e \in Entry : phase[e] = "removing" =>
                        file[e].streams \subseteq keys[e] \/ e \in outlived
  /\ RemovalDeletesFile

\* A row belongs to the file of an entry, which its removal will only clear when it is outlived.
RowOf(e, s) ==
  \/ Exists(e) /\ s \in file[e].streams /\ (phase[e] = "clearing" => e \in outlived)
  \/ phase[e] = "removed" /\ e \in outlived /\ s \in Streams[owner[e]]

RowsOwned == \A s \in rows \ forgotten : \E e \in Entry : RowOf(e, s)

IInv == TypeOK /\ HasCookies /\ Begun /\ Owned /\ OneEntryPerAccount /\ Outliving /\ RowsOwned

-----------------------------------------------------------------------------
(* Types *)

\* Records that a step writes.
LEMMA ValueTypes ==
  /\ NoFile \in File /\ NoFlow \in Reauth
  /\ \A a \in Account : Streams[a] \subseteq Stream
  /\ \A c \in File : c.account \in Account \cup {None} /\ c.streams \in SUBSET Stream
  /\ \A r \in Reauth : r.account \in Account \cup {None} /\ r.streams \in SUBSET Stream
<1>1. \A a \in Account : Streams[a] \subseteq Stream
  BY DEF Stream
<1> QED BY <1>1 DEF NoFile, NoFlow, File, Reauth

\* A store's content with other streams.
LEMMA StreamsReplaced ==
  ASSUME NEW c \in File, NEW k \in SUBSET Stream
  PROVE  /\ [c EXCEPT !.streams = k] \in File
         /\ [c EXCEPT !.streams = k].account = c.account
         /\ [c EXCEPT !.streams = k].streams = k
BY DEF File

\* What a task writes is the content of its store, of the entry's account.
LEMMA KeptIsTyped ==
  ASSUME IInv, NEW e \in Entry, e \in tasks,
         NEW kept \in SUBSET Streams[memory[e].account],
         memory' = [memory EXCEPT ![e].streams = kept]
  PROVE  /\ memory' \in [Entry -> File]
         /\ memory'[e].account = memory[e].account /\ memory'[e].streams = kept
         /\ \A d \in Entry \ {e} : memory'[d] = memory[d]
         /\ owner[e] # None /\ kept \subseteq Streams[owner[e]]
<1>1. memory[e] \in File /\ memory[e].account # None
  BY DEF IInv, TypeOK, HasCookies
<1>2. memory[e].account \in Account
  BY <1>1, ValueTypes
<1>3. kept \in SUBSET Stream
  BY <1>2, ValueTypes
<1>4. memory' = [memory EXCEPT ![e] = [memory[e] EXCEPT !.streams = kept]]
  OBVIOUS
<1>5. memory \in [Entry -> File]
  BY DEF IInv, TypeOK
<1>6. memory'[e] = [memory[e] EXCEPT !.streams = kept]
  BY <1>4, <1>5
<1>7. memory[e].account = owner[e]
  BY <1>1 DEF IInv, Owned, OfOwner, NoFile
<1> QED BY <1>1, <1>3, <1>4, <1>5, <1>6, <1>7, StreamsReplaced

\* A write to the file of one entry: what leaves the file is forgotten.
LEMMA WriteTypes ==
  ASSUME TypeOK, NEW e \in Entry, NEW c \in File, Write(e, c)
  PROVE  /\ file' \in [Entry -> File] /\ forgotten' \subseteq Stream
         /\ file'[e] = c /\ \A d \in Entry \ {e} : file'[d] = file[d]
         /\ \A s : s \notin forgotten' => s \in c.streams \/ (s \notin forgotten /\ s \notin file[e].streams)
BY ValueTypes DEF TypeOK, Write

\* The first state has every variable's type.
LEMMA InitTypes == Init => TypeOK
BY ValueTypes DEF Init, TypeOK, Reauth

\* Every step keeps the types.
LEMMA TypesStep == IInv /\ [Next]_vars => TypeOK'
<1> SUFFICES ASSUME IInv, [Next]_vars PROVE TypeOK'
  OBVIOUS
<1> USE ValueTypes
<1>t. TypeOK
  BY DEF IInv
<1>1. ASSUME NEW f \in Form, SubmitForm(f) \/ CreateEntry(f) \/ AbortForm(f) PROVE TypeOK'
  <2>1. CASE SubmitForm(f)
    BY <1>t, <2>1, AccountAssumption DEF TypeOK, SubmitForm, runtime
  <2>2. CASE CreateEntry(f)
    <3>1. PICK e \in Entry : /\ phase[e] = "none" /\ owner' = [owner EXCEPT ![e] = form[f]]
                             /\ data' = [data EXCEPT ![e] = form[f]]
                             /\ phase' = [phase EXCEPT ![e] = "not_loaded"]
      BY <2>2 DEF CreateEntry, Create
    <3>2. e \notin tasks
      BY <1>t, <3>1 DEF TypeOK
    <3> QED BY <1>t, <2>2, <3>1, <3>2 DEF TypeOK, CreateEntry, Create, runtime
  <2>3. CASE AbortForm(f)
    BY <1>t, <2>3 DEF TypeOK, AbortForm, runtime
  <2> QED BY <1>1, <2>1, <2>2, <2>3
<1>2. ASSUME NEW e \in Entry, SetupLoad(e) PROVE TypeOK'
  <2> DEFINE preferred == IF file[e].account # None THEN file[e].account ELSE data[e]
  <2>1. [account |-> preferred, streams |-> file[e].streams] \in File
    BY <1>t DEF TypeOK, File
  <2>2. e \notin tasks
    BY <1>t, <1>2 DEF TypeOK, SetupLoad
  <2> QED BY <1>t, <1>2, <2>1, <2>2 DEF TypeOK, SetupLoad, flows
<1>3. ASSUME NEW e \in Entry, SetupSave(e) PROVE TypeOK'
  <2>1. memory[e] \in File
    BY <1>t DEF TypeOK
  <2>2. file' \in [Entry -> File] /\ forgotten' \subseteq Stream
    BY <1>t, <1>3, <2>1, WriteTypes DEF SetupSave
  <2>3. e \notin tasks
    BY <1>t, <1>3 DEF TypeOK, SetupSave
  <2> QED BY <1>t, <1>3, <2>2, <2>3 DEF TypeOK, SetupSave, runtime, flows
<1>4. ASSUME NEW e \in Entry, Prepare(e) PROVE TypeOK'
  <2>1. e \notin tasks
    BY <1>t, <1>4 DEF TypeOK, Prepare
  <2>2. CASE /\ phase' = [phase EXCEPT ![e] = "not_loaded"] /\ tasks' = tasks
             /\ memory' = [memory EXCEPT ![e] = NoFile]
    BY <1>t, <1>4, <2>1, <2>2 DEF TypeOK, Prepare, flows
  <2>3. CASE phase' = [phase EXCEPT ![e] = "loaded"] /\ tasks' = tasks \cup {e} /\ memory' = memory
    BY <1>t, <1>4, <2>3 DEF TypeOK, Prepare, flows
  <2> QED BY <1>4, <2>2, <2>3 DEF Prepare
<1>5. ASSUME NEW e \in Entry, RefreshSave(e) PROVE TypeOK'
  <2>1. PICK kept \in SUBSET Streams[memory[e].account] \ {{}} :
          memory' = [memory EXCEPT ![e].streams = kept]
    BY <1>5 DEF RefreshSave
  <2>2. memory' \in [Entry -> File]
    BY <1>5, <2>1, KeptIsTyped DEF RefreshSave
  <2>3. file' \in [Entry -> File] /\ forgotten' \subseteq Stream
    BY <1>t, <1>5, <2>2, WriteTypes DEF RefreshSave
  <2> QED BY <1>t, <1>5, <2>2, <2>3 DEF TypeOK, RefreshSave, flows
<1>6. ASSUME NEW e \in Entry, RefreshImport(e) \/ HeartbeatSave(e) PROVE TypeOK'
  <2>1. memory[e] \in File /\ Write(e, memory[e])
    BY <1>t, <1>6 DEF TypeOK, RefreshImport, HeartbeatSave
  <2>2. file' \in [Entry -> File] /\ forgotten' \subseteq Stream
    BY <1>t, <2>1, WriteTypes
  <2>3. rows' \subseteq Stream
    BY <1>t, <1>6, <2>1 DEF TypeOK, RefreshImport, HeartbeatSave
  <2> QED BY <1>t, <1>6, <2>2, <2>3 DEF TypeOK, RefreshImport, HeartbeatSave, flows, runtime
<1>7. ASSUME NEW e \in Entry, Unload(e) \/ UnloadFails(e) PROVE TypeOK'
  BY <1>t, <1>7 DEF TypeOK, Unload, UnloadFails, runtime, flows
<1>8. ASSUME NEW e \in Entry, UnloadSave(e) PROVE TypeOK'
  <2>1. memory[e] \in File /\ Write(e, memory[e])
    BY <1>t, <1>8 DEF TypeOK, UnloadSave
  <2>2. file' \in [Entry -> File] /\ forgotten' \subseteq Stream
    BY <1>t, <2>1, WriteTypes
  <2> QED BY <1>t, <1>8, <2>2 DEF TypeOK, UnloadSave, flows
<1>9. ASSUME NEW e \in Entry, RemoveLoad(e) \/ Clear(e) \/ Remove(e) PROVE TypeOK'
  <2>1. file[e].streams \in SUBSET Stream
    BY <1>t DEF TypeOK
  <2>2. CASE RemoveLoad(e)
    BY <1>t, <2>1, <2>2 DEF TypeOK, RemoveLoad, runtime, flows
  <2>3. CASE Clear(e)
    BY <1>t, <2>3 DEF TypeOK, Clear, runtime, flows
  <2>4. CASE Remove(e)
    BY <1>t, <2>4 DEF TypeOK, Remove, runtime, flows
  <2> QED BY <1>9, <2>2, <2>3, <2>4
<1>10. ASSUME NEW e \in Entry, ReauthSubmit(e) \/ ReauthLoad(e) \/ ReauthSave(e) PROVE TypeOK'
  <2>r. reauth \in [Entry -> Reauth]
    BY <1>t DEF TypeOK, Reauth
  <2>1. CASE ReauthSubmit(e)
    <3>1. PICK a \in Account : Validate(e, a)
      BY <2>1 DEF ReauthSubmit
    <3>2. [step |-> "validated", account |-> a, streams |-> {}] \in Reauth
      BY DEF Reauth
    <3>3. reauth' \in [Entry -> Reauth]
      BY <2>r, <3>1, <3>2 DEF Validate
    <3> QED BY <1>t, <3>1, <3>3 DEF TypeOK, Validate, runtime, Reauth
  <2>2. CASE ReauthLoad(e)
    <3>1. reauth[e].account \in Account \cup {None} /\ file[e].streams \in SUBSET Stream
      BY <1>t, <2>r DEF TypeOK
    <3>2. [step |-> "saving", account |-> reauth[e].account, streams |-> file[e].streams] \in Reauth
      BY <3>1 DEF Reauth
    <3>3. reauth' \in [Entry -> Reauth]
      BY <2>r, <2>2, <3>2 DEF ReauthLoad
    <3> QED BY <1>t, <2>2, <3>3 DEF TypeOK, ReauthLoad, runtime, Reauth
  <2>3. CASE ReauthSave(e)
    <3> DEFINE content == [account |-> reauth[e].account, streams |-> reauth[e].streams]
    <3>1. content \in File /\ reauth[e].account \in Account \cup {None}
      BY <2>r DEF File
    <3>2. file' \in [Entry -> File] /\ forgotten' \subseteq Stream
      BY <1>t, <2>3, <3>1, WriteTypes DEF ReauthSave
    <3>3. reauth' \in [Entry -> Reauth]
      BY <2>r, <2>3 DEF ReauthSave
    <3>4. data' \in [Entry -> Account \cup {None}]
      BY <1>t, <2>3, <3>1 DEF TypeOK, ReauthSave
    <3>5. outlived' \subseteq Entry
      BY <1>t, <2>3 DEF TypeOK, ReauthSave
    <3> QED BY <1>t, <2>3, <3>2, <3>3, <3>4, <3>5 DEF TypeOK, ReauthSave, runtime, Reauth
  <2> QED BY <1>10, <2>1, <2>2, <2>3
<1>11. ASSUME Restart PROVE TypeOK'
  <2>1. reauth' \in [Entry -> Reauth] /\ memory' \in [Entry -> File]
    BY <1>11 DEF Restart
  <2> QED BY <1>t, <1>11, <2>1 DEF TypeOK, Restart, Reauth, Exists
<1>12. ASSUME UNCHANGED vars PROVE TypeOK'
  BY <1>t, <1>12 DEF TypeOK, vars, runtime, flows
<1> QED
  BY <1>1, <1>2, <1>3, <1>4, <1>5, <1>6, <1>7, <1>8, <1>9, <1>10, <1>11, <1>12 DEF Next

-----------------------------------------------------------------------------
(* Cookies, tasks and flows *)

\* The store of a living client never loses its cookies.
LEMMA CookiesStep == IInv /\ [Next]_vars => HasCookies'
<1> SUFFICES ASSUME IInv, [Next]_vars PROVE HasCookies'
  OBVIOUS
<1>t. TypeOK /\ HasCookies
  BY DEF IInv
<1>1. ASSUME NEW f \in Form, CreateEntry(f) PROVE HasCookies'
  BY <1>t, <1>1 DEF TypeOK, HasCookies, CreateEntry, Create, runtime
<1>2. ASSUME NEW e \in Entry, SetupLoad(e) PROVE HasCookies'
  <2>1. e \notin tasks
    BY <1>t, <1>2 DEF TypeOK, SetupLoad
  <2>2. memory'[e].account # None /\ \A d \in Entry \ {e} : memory'[d] = memory[d] /\ phase'[d] = phase[d]
    BY <1>t, <1>2 DEF TypeOK, SetupLoad
  <2> QED BY <1>t, <1>2, <2>1, <2>2 DEF TypeOK, HasCookies, SetupLoad
<1>3. ASSUME NEW e \in Entry, Prepare(e) PROVE HasCookies'
  <2>1. e \notin tasks
    BY <1>t, <1>3 DEF TypeOK, Prepare
  <2> QED BY <1>t, <1>3, <2>1 DEF TypeOK, HasCookies, Prepare
<1>4. ASSUME NEW e \in Entry, RefreshSave(e) PROVE HasCookies'
  <2>1. PICK kept \in SUBSET Streams[memory[e].account] \ {{}} :
          memory' = [memory EXCEPT ![e].streams = kept]
    BY <1>4 DEF RefreshSave
  <2>2. memory'[e].account = memory[e].account /\ \A d \in Entry \ {e} : memory'[d] = memory[d]
    BY <1>4, <2>1, KeptIsTyped DEF RefreshSave
  <2> QED BY <1>t, <1>4, <2>2 DEF TypeOK, HasCookies, RefreshSave
<1>5. ASSUME NEW e \in Entry, UnloadSave(e) PROVE HasCookies'
  BY <1>t, <1>5 DEF TypeOK, HasCookies, UnloadSave
<1>6. ASSUME Restart PROVE HasCookies'
  BY <1>t, <1>6 DEF TypeOK, HasCookies, Restart, Exists
<1>7. ASSUME NEW e \in Entry, SetupSave(e) \/ Unload(e) \/ UnloadFails(e) \/ RemoveLoad(e) \/ Clear(e) \/ Remove(e)
      PROVE  HasCookies'
  BY <1>t, <1>7 DEF TypeOK, HasCookies, SetupSave, Unload, UnloadFails, RemoveLoad, Clear, Remove, runtime
<1>8. ASSUME UNCHANGED <<phase, memory, tasks>> PROVE HasCookies'
  BY <1>t, <1>8 DEF HasCookies
<1>9. ASSUME NEW f \in Form, SubmitForm(f) \/ AbortForm(f) PROVE HasCookies'
  BY <1>8, <1>9 DEF SubmitForm, AbortForm, runtime
<1>10. ASSUME NEW e \in Entry,
              RefreshImport(e) \/ HeartbeatSave(e) \/ ReauthSubmit(e) \/ ReauthLoad(e) \/ ReauthSave(e)
       PROVE  HasCookies'
  BY <1>8, <1>10
  DEF RefreshImport, HeartbeatSave, ReauthSubmit, Validate, ReauthLoad, ReauthSave, runtime
<1>11. ASSUME UNCHANGED vars PROVE HasCookies'
  BY <1>8, <1>11 DEF vars, runtime
<1> QED
  BY <1>1, <1>2, <1>3, <1>4, <1>5, <1>6, <1>7, <1>9, <1>10, <1>11 DEF Next

\* No step gives a flow or a task to an entry that is not there.
LEMMA BegunStep == IInv /\ [Next]_vars => Begun'
<1> SUFFICES ASSUME IInv, [Next]_vars PROVE Begun'
  OBVIOUS
<1>t. TypeOK /\ Begun
  BY DEF IInv
<1>1. ASSUME NEW f \in Form, CreateEntry(f) PROVE Begun'
  BY <1>t, <1>1 DEF TypeOK, Begun, CreateEntry, Create, runtime
<1>2. ASSUME NEW e \in Entry,
             \/ SetupLoad(e) \/ SetupSave(e) \/ Prepare(e) \/ Unload(e) \/ UnloadFails(e)
             \/ RemoveLoad(e) \/ Clear(e) \/ Remove(e)
      PROVE  Begun'
  <2>1. /\ phase[e] # "none" /\ phase'[e] # "none" /\ \A d \in Entry \ {e} : phase'[d] = phase[d]
        /\ tasks \subseteq tasks' /\ UNCHANGED <<owner, refresh, reauth>>
    BY <1>t, <1>2
    DEF TypeOK, SetupLoad, SetupSave, Prepare, Unload, UnloadFails, RemoveLoad, Clear, Remove, runtime, flows
  <2> QED BY <1>t, <2>1 DEF TypeOK, Begun
<1>3. ASSUME NEW e \in Entry, RefreshSave(e) \/ RefreshImport(e) \/ UnloadSave(e) PROVE Begun'
  BY <1>t, <1>3 DEF TypeOK, Begun, RefreshSave, RefreshImport, UnloadSave, flows
<1>4. ASSUME NEW e \in Entry, ReauthSubmit(e) PROVE Begun'
  BY <1>t, <1>4, AccountAssumption DEF TypeOK, Begun, ReauthSubmit, Validate, Exists, runtime
<1>5. ASSUME NEW e \in Entry, ReauthLoad(e) \/ ReauthSave(e) PROVE Begun'
  BY <1>t, <1>5 DEF TypeOK, Begun, ReauthLoad, ReauthSave, runtime, NoFlow
<1>6. ASSUME Restart PROVE Begun'
  BY <1>t, <1>6 DEF TypeOK, Begun, Restart, Exists, NoFlow
<1>7. ASSUME UNCHANGED <<phase, owner, refresh, tasks, reauth>> PROVE Begun'
  BY <1>t, <1>7 DEF Begun
<1>8. ASSUME NEW f \in Form, SubmitForm(f) \/ AbortForm(f) PROVE Begun'
  BY <1>7, <1>8 DEF SubmitForm, AbortForm, runtime
<1>9. ASSUME NEW e \in Entry, HeartbeatSave(e) PROVE Begun'
  BY <1>7, <1>9 DEF HeartbeatSave, runtime, flows
<1>10. ASSUME UNCHANGED vars PROVE Begun'
  BY <1>7, <1>10 DEF vars, runtime, flows
<1> QED
  BY <1>1, <1>2, <1>3, <1>4, <1>5, <1>6, <1>8, <1>9, <1>10 DEF Next

-----------------------------------------------------------------------------
(* Accounts *)

\* Without a new entry, each place keeps its content, loses it, or gets the owner's.
LEMMA OwnedKept ==
  ASSUME Owned, owner' = owner,
         \A e \in Entry : /\ file'[e] = file[e] \/ OfOwner(e, file'[e], NoFile)
                          /\ memory'[e] = memory[e] \/ OfOwner(e, memory'[e], NoFile)
                          /\ reauth'[e] = reauth[e] \/ OfOwner(e, reauth'[e], NoFlow)
                          /\ data'[e] \in {data[e], owner[e], None}
  PROVE  Owned'
BY DEF Owned, OfOwner

\* A write that leaves the stores in memory and the flows alone.
LEMMA OwnedWritten ==
  ASSUME IInv, NEW e \in Entry, NEW c \in File, OfOwner(e, c, NoFile), Write(e, c),
         UNCHANGED <<owner, memory, reauth>>, \A d \in Entry : data'[d] \in {data[d], None}
  PROVE  Owned'
<1>1. file'[e] = c /\ \A d \in Entry \ {e} : file'[d] = file[d]
  BY WriteTypes DEF IInv
<1> QED BY <1>1, OwnedKept DEF IInv

\* No step brings anything of another account to an entry.
LEMMA OwnedStep == IInv /\ [Next]_vars => Owned'
<1> SUFFICES ASSUME IInv, [Next]_vars PROVE Owned'
  OBVIOUS
<1>t. TypeOK /\ HasCookies /\ Begun /\ Owned
  BY DEF IInv
<1>n. \A e \in Entry : OfOwner(e, NoFile, NoFile) /\ OfOwner(e, NoFlow, NoFlow)
  BY DEF OfOwner
<1>1. ASSUME NEW f \in Form, CreateEntry(f) PROVE Owned'
  <2>1. PICK e \in Entry : /\ phase[e] = "none" /\ owner' = [owner EXCEPT ![e] = form[f]]
                           /\ data' = [data EXCEPT ![e] = form[f]]
    BY <1>1 DEF CreateEntry, Create
  <2>2. file[e] = NoFile /\ memory[e] = NoFile /\ reauth[e] = NoFlow
    BY <1>t, <2>1 DEF Begun, Owned, OfOwner
  <2>3. owner'[e] = form[f] /\ data'[e] = form[f]
    BY <1>t, <1>1, <2>1 DEF TypeOK
  <2>4. UNCHANGED <<file, memory, reauth>>
    BY <1>1 DEF CreateEntry, Create, runtime
  <2>5. \A d \in Entry \ {e} : owner'[d] = owner[d] /\ data'[d] = data[d]
    BY <1>t, <2>1 DEF TypeOK
  <2> QED BY <1>t, <2>2, <2>3, <2>4, <2>5 DEF Owned, OfOwner
<1>2. ASSUME NEW e \in Entry, SetupLoad(e) PROVE Owned'
  <2> DEFINE preferred == IF file[e].account # None THEN file[e].account ELSE data[e]
  <2>1. owner[e] # None /\ preferred # None
    BY <1>t, <1>2 DEF Begun, SetupLoad
  <2>2. memory'[e] = [account |-> preferred, streams |-> file[e].streams]
    BY <1>t, <1>2 DEF TypeOK, SetupLoad
  <2>3. preferred = owner[e] /\ file[e].streams \subseteq Streams[owner[e]]
    BY <1>t, <2>1 DEF Owned, OfOwner, NoFile
  <2>4. OfOwner(e, memory'[e], NoFile)
    BY <2>1, <2>2, <2>3 DEF OfOwner
  <2>5. \A d \in Entry \ {e} : memory'[d] = memory[d]
    BY <1>t, <1>2 DEF TypeOK, SetupLoad
  <2> QED BY <1>t, <1>2, <2>4, <2>5, OwnedKept DEF SetupLoad, flows
<1>3. ASSUME NEW e \in Entry, SetupSave(e) PROVE Owned'
  <2>1. memory[e] \in File /\ OfOwner(e, memory[e], NoFile)
    BY <1>t DEF Owned, TypeOK
  <2>2. \A d \in Entry : data'[d] \in {data[d], None}
    BY <1>t, <1>3 DEF TypeOK, SetupSave
  <2> QED BY <1>3, <2>1, <2>2, OwnedWritten DEF SetupSave, runtime, flows
<1>4. ASSUME NEW e \in Entry, Prepare(e) PROVE Owned'
  <2>1. \A d \in Entry : memory'[d] = memory[d] \/ memory'[d] = NoFile
    BY <1>t, <1>4 DEF TypeOK, Prepare
  <2> QED BY <1>t, <1>4, <1>n, <2>1, OwnedKept DEF Prepare, flows
<1>5. ASSUME NEW e \in Entry, RefreshImport(e) \/ HeartbeatSave(e) PROVE Owned'
  <2>1. memory[e] \in File /\ OfOwner(e, memory[e], NoFile)
    BY <1>t DEF Owned, TypeOK
  <2> QED BY <1>5, <2>1, OwnedWritten DEF RefreshImport, HeartbeatSave, runtime, flows
<1>6. ASSUME NEW e \in Entry, RefreshSave(e) PROVE Owned'
  <2>1. PICK kept \in SUBSET Streams[memory[e].account] \ {{}} :
          memory' = [memory EXCEPT ![e].streams = kept]
    BY <1>6 DEF RefreshSave
  <2>2. /\ memory' \in [Entry -> File]
        /\ memory'[e].account = memory[e].account /\ memory'[e].streams = kept
        /\ \A d \in Entry \ {e} : memory'[d] = memory[d]
        /\ owner[e] # None /\ kept \subseteq Streams[owner[e]]
    BY <1>6, <2>1, KeptIsTyped DEF RefreshSave
  <2>3. memory[e].account # None
    BY <1>t, <1>6 DEF HasCookies, RefreshSave
  <2>4. memory[e].account = owner[e]
    BY <1>t, <2>3 DEF Owned, OfOwner, NoFile
  <2>5. OfOwner(e, memory'[e], NoFile)
    BY <2>2, <2>4 DEF OfOwner
  <2>6. file'[e] = memory'[e] /\ \A d \in Entry \ {e} : file'[d] = file[d]
    BY <1>t, <1>6, <2>2, WriteTypes DEF RefreshSave
  <2> QED BY <1>t, <1>6, <2>2, <2>5, <2>6, OwnedKept DEF RefreshSave, flows
<1>7. ASSUME NEW e \in Entry, UnloadSave(e) PROVE Owned'
  <2>1. memory[e] \in File /\ OfOwner(e, memory[e], NoFile)
    BY <1>t DEF Owned, TypeOK
  <2>2. file'[e] = memory[e] /\ \A d \in Entry \ {e} : file'[d] = file[d]
    BY <1>t, <1>7, <2>1, WriteTypes DEF UnloadSave
  <2>3. \A d \in Entry : memory'[d] = memory[d] \/ memory'[d] = NoFile
    BY <1>t, <1>7 DEF TypeOK, UnloadSave
  <2> QED BY <1>t, <1>7, <1>n, <2>1, <2>2, <2>3, OwnedKept DEF UnloadSave, flows
<1>8. ASSUME NEW e \in Entry, Remove(e) PROVE Owned'
  <2>1. \A d \in Entry : /\ file'[d] = file[d] \/ file'[d] = NoFile
                         /\ data'[d] \in {data[d], None}
    BY <1>t, <1>8 DEF TypeOK, Remove
  <2> QED BY <1>t, <1>8, <1>n, <2>1, OwnedKept DEF Remove, flows, runtime
<1>9. ASSUME NEW e \in Entry, ReauthSubmit(e) PROVE Owned'
  <2>1. reauth'[e] = [step |-> "validated", account |-> owner[e], streams |-> {}] /\ owner[e] # None
    BY <1>t, <1>9 DEF TypeOK, Begun, ReauthSubmit, Validate, Exists
  <2>2. OfOwner(e, reauth'[e], NoFlow)
    BY <2>1 DEF OfOwner
  <2>3. \A d \in Entry \ {e} : reauth'[d] = reauth[d]
    BY <1>t, <1>9 DEF TypeOK, ReauthSubmit, Validate
  <2> QED BY <1>t, <1>9, <2>2, <2>3, OwnedKept DEF ReauthSubmit, Validate, runtime
<1>10. ASSUME NEW e \in Entry, ReauthLoad(e) PROVE Owned'
  <2>1. /\ reauth'[e] = [step |-> "saving", account |-> reauth[e].account, streams |-> file[e].streams]
        /\ \A d \in Entry \ {e} : reauth'[d] = reauth[d]
        /\ owner[e] # None /\ reauth[e].account # None
    BY <1>t, <1>10 DEF TypeOK, Begun, ReauthLoad
  <2>2. reauth[e].account = owner[e] /\ file[e].streams \subseteq Streams[owner[e]]
    BY <1>t, <2>1 DEF Owned, OfOwner, NoFlow, NoFile
  <2>3. OfOwner(e, reauth'[e], NoFlow)
    BY <2>1, <2>2 DEF OfOwner
  <2> QED BY <1>t, <1>10, <2>1, <2>3, OwnedKept DEF ReauthLoad, runtime
<1>11. ASSUME NEW e \in Entry, ReauthSave(e) PROVE Owned'
  <2> DEFINE content == [account |-> reauth[e].account, streams |-> reauth[e].streams]
  <2>1. reauth[e] \in Reauth /\ reauth[e].account # None /\ owner[e] # None
    BY <1>t, <1>11 DEF TypeOK, Reauth, Begun, ReauthSave
  <2>2. reauth[e].account = owner[e] /\ reauth[e].streams \subseteq Streams[owner[e]]
    BY <1>t, <2>1 DEF Owned, OfOwner, NoFlow
  <2>3. content \in File /\ OfOwner(e, content, NoFile)
    BY <2>1, <2>2, ValueTypes DEF File, OfOwner
  <2>4. file'[e] = content /\ \A d \in Entry \ {e} : file'[d] = file[d]
    BY <1>t, <1>11, <2>3, WriteTypes DEF ReauthSave
  <2>5. \A d \in Entry : data'[d] \in {data[d], owner[d]}
    BY <1>t, <1>11, <2>2 DEF TypeOK, ReauthSave
  <2>6. \A d \in Entry : reauth'[d] = reauth[d] \/ reauth'[d] = NoFlow
    BY <1>t, <1>11 DEF TypeOK, ReauthSave
  <2>7. UNCHANGED <<owner, memory>>
    BY <1>11 DEF ReauthSave, runtime
  <2> QED BY <1>t, <1>n, <2>3, <2>4, <2>5, <2>6, <2>7, OwnedKept
<1>12. ASSUME Restart PROVE Owned'
  <2>1. \A d \in Entry : memory'[d] = NoFile /\ reauth'[d] = NoFlow
    BY <1>12 DEF Restart
  <2> QED BY <1>t, <1>12, <1>n, <2>1, OwnedKept DEF Restart
<1>13. ASSUME UNCHANGED <<owner, data, file, memory, reauth>> PROVE Owned'
  BY <1>t, <1>13 DEF Owned, OfOwner
<1>14. ASSUME NEW f \in Form, SubmitForm(f) \/ AbortForm(f) PROVE Owned'
  BY <1>13, <1>14 DEF SubmitForm, AbortForm, runtime
<1>15. ASSUME NEW e \in Entry, Unload(e) \/ UnloadFails(e) \/ RemoveLoad(e) \/ Clear(e) PROVE Owned'
  BY <1>13, <1>15 DEF Unload, UnloadFails, RemoveLoad, Clear, runtime, flows
<1>16. ASSUME UNCHANGED vars PROVE Owned'
  BY <1>13, <1>16 DEF vars, runtime, flows
<1> QED
  BY <1>1, <1>2, <1>3, <1>4, <1>5, <1>6, <1>7, <1>8, <1>9, <1>10, <1>11, <1>12, <1>14, <1>15, <1>16
  DEF Next

\* Only the flow that creates an entry could give an account a second one, and it asks first.
LEMMA OneEntryStep == IInv /\ [Next]_vars => OneEntryPerAccount'
<1> SUFFICES ASSUME IInv, [Next]_vars PROVE OneEntryPerAccount'
  OBVIOUS
<1>t. TypeOK /\ OneEntryPerAccount
  BY DEF IInv
<1>1. ASSUME NEW f \in Form, CreateEntry(f) PROVE OneEntryPerAccount'
  BY <1>t, <1>1 DEF TypeOK, OneEntryPerAccount, Exists, CreateEntry, Create
<1>2. ASSUME owner' = owner, \A e \in Entry : Exists(e)' => Exists(e) PROVE OneEntryPerAccount'
  BY <1>t, <1>2 DEF OneEntryPerAccount
<1>3. ASSUME NEW e \in Entry,
             \/ SetupLoad(e) \/ SetupSave(e) \/ Prepare(e) \/ Unload(e) \/ UnloadSave(e) \/ UnloadFails(e)
             \/ RemoveLoad(e) \/ Clear(e) \/ Remove(e)
      PROVE  OneEntryPerAccount'
  <2>1. owner' = owner /\ Exists(e) /\ \A d \in Entry \ {e} : phase'[d] = phase[d]
    BY <1>t, <1>3
    DEF TypeOK, Exists, SetupLoad, SetupSave, Prepare, Unload, UnloadSave, UnloadFails, RemoveLoad, Clear,
        Remove
  <2> QED BY <1>2, <2>1 DEF Exists
<1>4. ASSUME UNCHANGED <<owner, phase>> PROVE OneEntryPerAccount'
  BY <1>2, <1>4 DEF Exists
<1>5. ASSUME NEW e \in Entry,
             \/ RefreshSave(e) \/ RefreshImport(e) \/ HeartbeatSave(e)
             \/ ReauthSubmit(e) \/ ReauthLoad(e) \/ ReauthSave(e)
      PROVE  OneEntryPerAccount'
  BY <1>4, <1>5
  DEF RefreshSave, RefreshImport, HeartbeatSave, ReauthSubmit, Validate, ReauthLoad, ReauthSave
<1>6. ASSUME Restart PROVE OneEntryPerAccount'
  BY <1>t, <1>2, <1>6 DEF TypeOK, Exists, Restart
<1>7. ASSUME NEW f \in Form, SubmitForm(f) \/ AbortForm(f) PROVE OneEntryPerAccount'
  BY <1>4, <1>7 DEF SubmitForm, AbortForm
<1>8. ASSUME UNCHANGED vars PROVE OneEntryPerAccount'
  BY <1>4, <1>8 DEF vars
<1> QED BY <1>1, <1>3, <1>5, <1>6, <1>7, <1>8 DEF Next

-----------------------------------------------------------------------------
(* Removal *)

\* A step that writes no file and brings no entry nearer to its removal.
LEMMA OutlivingKept ==
  ASSUME Outliving, file' = file, outlived' = outlived,
         \A e \in Entry : e \in tasks' /\ phase'[e] \in {"removing", "clearing", "removed"} => e \in tasks,
         \A e \in Entry : \/ phase'[e] = phase[e] /\ keys'[e] = keys[e]
                          \/ phase'[e] \notin {"removing", "clearing", "removed"}
  PROVE  Outliving'
BY DEF Outliving, RemovalDeletesFile

\* A write to the file of an entry that is not being removed, or is outlived.
LEMMA OutlivingWritten ==
  ASSUME IInv, NEW e \in Entry, NEW c \in File, Write(e, c),
         phase[e] \in {"removing", "clearing", "removed"} => e \in outlived',
         outlived \subseteq outlived', keys' = keys, tasks' \subseteq tasks,
         \A d \in Entry : \/ phase'[d] = phase[d]
                          \/ phase'[d] \notin {"removing", "clearing", "removed"}
  PROVE  Outliving'
<1>1. \A d \in Entry \ {e} : file'[d] = file[d]
  BY WriteTypes DEF IInv
<1> QED BY <1>1 DEF IInv, Outliving, RemovalDeletesFile

\* Every step that writes the file of an entry being removed is a step of a task or flow that
\* outlives the removal.
LEMMA OutlivingStep == IInv /\ [Next]_vars => Outliving'
<1> SUFFICES ASSUME IInv, [Next]_vars PROVE Outliving'
  OBVIOUS
<1>t. TypeOK /\ HasCookies /\ Begun /\ Outliving
  BY DEF IInv
<1>m. memory \in [Entry -> File]
  BY <1>t DEF TypeOK
<1>1. ASSUME NEW f \in Form, CreateEntry(f) PROVE Outliving'
  <2>1. PICK e \in Entry : phase[e] = "none" /\ phase' = [phase EXCEPT ![e] = "not_loaded"]
    BY <1>1 DEF CreateEntry, Create
  <2>2. \A d \in Entry : phase'[d] = phase[d] \/ phase'[d] = "not_loaded"
    BY <1>t, <2>1 DEF TypeOK
  <2> QED BY <1>t, <1>1, <2>2, OutlivingKept DEF CreateEntry, Create, runtime
<1>2. ASSUME NEW e \in Entry, SetupLoad(e) \/ Prepare(e) \/ Unload(e) \/ UnloadFails(e)
      PROVE  Outliving'
  <2>1. /\ phase'[e] \in {"saving", "preparing", "loaded", "not_loaded", "unloading", "failed_unload"}
        /\ \A d \in Entry \ {e} : phase'[d] = phase[d]
    BY <1>t, <1>2 DEF TypeOK, SetupLoad, Prepare, Unload, UnloadFails
  <2>2. tasks' \subseteq tasks \cup {e} /\ UNCHANGED <<file, keys, outlived>>
    BY <1>2 DEF SetupLoad, Prepare, Unload, UnloadFails, runtime
  <2> QED BY <1>t, <2>1, <2>2, OutlivingKept
<1>3. ASSUME NEW e \in Entry, SetupSave(e) \/ UnloadSave(e) PROVE Outliving'
  <2>1. /\ phase[e] \in {"saving", "unloading"} /\ phase'[e] \in {"preparing", "not_loaded"}
        /\ \A d \in Entry \ {e} : phase'[d] = phase[d]
    BY <1>t, <1>3 DEF TypeOK, SetupSave, UnloadSave
  <2> QED BY <1>m, <1>3, <2>1, OutlivingWritten DEF SetupSave, UnloadSave, runtime
<1>4. ASSUME NEW e \in Entry, RefreshImport(e) \/ HeartbeatSave(e) PROVE Outliving'
  <2>1. e \in tasks
    BY <1>t, <1>4 DEF Begun, RefreshImport, HeartbeatSave
  <2>2. phase[e] \in {"removing", "clearing", "removed"} => e \in outlived
    BY <1>t, <2>1 DEF Outliving
  <2> QED BY <1>m, <1>4, <2>2, OutlivingWritten DEF RefreshImport, HeartbeatSave, runtime
<1>5. ASSUME NEW e \in Entry, RefreshSave(e) PROVE Outliving'
  <2>1. PICK kept \in SUBSET Streams[memory[e].account] \ {{}} :
          memory' = [memory EXCEPT ![e].streams = kept]
    BY <1>5 DEF RefreshSave
  <2>2. memory'[e] \in File
    BY <1>5, <2>1, KeptIsTyped DEF RefreshSave
  <2>3. phase[e] \in {"removing", "clearing", "removed"} => e \in outlived
    BY <1>t, <1>5 DEF Outliving, RefreshSave
  <2> QED BY <1>5, <2>2, <2>3, OutlivingWritten DEF RefreshSave
<1>6. ASSUME NEW e \in Entry, RemoveLoad(e) PROVE Outliving'
  <2>1. /\ phase[e] \notin {"removing", "clearing", "removed"} /\ keys'[e] = file[e].streams
        /\ \A d \in Entry \ {e} : phase'[d] = phase[d] /\ keys'[d] = keys[d]
        /\ outlived \subseteq outlived' /\ (e \in tasks => e \in outlived')
        /\ phase'[e] = "removing"
    BY <1>t, <1>6 DEF TypeOK, RemoveLoad
  <2> QED BY <1>t, <1>6, <2>1 DEF Outliving, RemovalDeletesFile, RemoveLoad, runtime
<1>7. ASSUME NEW e \in Entry, Clear(e) PROVE Outliving'
  <2>1. /\ phase[e] = "removing" /\ phase'[e] = "clearing"
        /\ \A d \in Entry \ {e} : phase'[d] = phase[d]
    BY <1>t, <1>7 DEF TypeOK, Clear
  <2> QED BY <1>t, <1>7, <2>1 DEF Outliving, RemovalDeletesFile, Clear, runtime
<1>8. ASSUME NEW e \in Entry, Remove(e) PROVE Outliving'
  <2>1. /\ phase[e] = "clearing" /\ phase'[e] = "removed" /\ file'[e] = NoFile
        /\ \A d \in Entry \ {e} : phase'[d] = phase[d] /\ file'[d] = file[d] /\ keys'[d] = keys[d]
    BY <1>t, <1>8 DEF TypeOK, Remove
  <2> QED BY <1>t, <1>8, <2>1 DEF Outliving, RemovalDeletesFile, Remove, runtime
<1>9. ASSUME NEW e \in Entry, ReauthSave(e) PROVE Outliving'
  <2> DEFINE content == [account |-> reauth[e].account, streams |-> reauth[e].streams]
  <2>1. reauth[e] \in Reauth
    BY <1>t DEF TypeOK, Reauth
  <2>2. content \in File
    BY <2>1, ValueTypes DEF File
  <2>3. outlived \subseteq outlived' /\ (phase[e] \in {"removing", "clearing", "removed"} => e \in outlived')
    BY <1>9 DEF ReauthSave
  <2> QED BY <1>9, <2>2, <2>3, OutlivingWritten DEF ReauthSave, runtime
<1>10. ASSUME Restart PROVE Outliving'
  <2>1. \A d \in Entry : /\ phase'[d] \in {"none", "not_loaded", "removed"}
                         /\ phase'[d] = "removed" => phase[d] = "removed"
    BY <1>10 DEF Restart, Exists
  <2> QED BY <1>t, <1>10, <2>1 DEF Outliving, RemovalDeletesFile, Restart
<1>11. ASSUME UNCHANGED <<phase, file, tasks, keys, outlived>> PROVE Outliving'
  BY <1>t, <1>11 DEF Outliving, RemovalDeletesFile
<1>12. ASSUME NEW f \in Form, SubmitForm(f) \/ AbortForm(f) PROVE Outliving'
  BY <1>11, <1>12 DEF SubmitForm, AbortForm, runtime
<1>13. ASSUME NEW e \in Entry, ReauthSubmit(e) \/ ReauthLoad(e) PROVE Outliving'
  BY <1>11, <1>13 DEF ReauthSubmit, Validate, ReauthLoad, runtime
<1>14. ASSUME UNCHANGED vars PROVE Outliving'
  BY <1>11, <1>14 DEF vars, runtime
<1> QED
  BY <1>1, <1>2, <1>3, <1>4, <1>5, <1>6, <1>7, <1>8, <1>9, <1>10, <1>12, <1>13, <1>14 DEF Next

-----------------------------------------------------------------------------
(* Rows *)

\* A step that writes no file and no rows and brings no entry nearer to its removal.
LEMMA RowsKept ==
  ASSUME RowsOwned, UNCHANGED <<file, forgotten>>, rows' \subseteq rows, outlived \subseteq outlived',
         \A e \in Entry :
           \/ phase[e] = "none"
           \/ /\ owner'[e] = owner[e]
              /\ \/ phase'[e] = phase[e]
                 \/ Exists(e) /\ phase'[e] \notin {"none", "clearing", "removed"}
  PROVE  RowsOwned'
BY DEF RowsOwned, RowOf, Exists

\* A write to the file of an entry, and the import of what it writes.
LEMMA RowsWritten ==
  ASSUME IInv, NEW e \in Entry, NEW c \in File, Write(e, c), OfOwner(e, c, NoFile),
         phase[e] # "none", phase[e] \in {"clearing", "removed"} => e \in outlived',
         rows' \subseteq rows \cup c.streams, outlived \subseteq outlived', owner' = owner,
         \A d \in Entry :
           \/ phase'[d] = phase[d]
           \/ Exists(d) /\ phase'[d] \in {"preparing", "not_loaded"}
  PROVE  RowsOwned'
<1> SUFFICES ASSUME NEW s \in rows' \ forgotten' PROVE \E d \in Entry : RowOf(d, s)'
  BY DEF RowsOwned
<1>1. /\ file'[e] = c /\ \A d \in Entry \ {e} : file'[d] = file[d]
      /\ s \in c.streams \/ (s \notin forgotten /\ s \notin file[e].streams)
  BY WriteTypes DEF IInv
<1>2. CASE s \in c.streams
  <2>1. s \in Streams[owner[e]]
    BY <1>2 DEF OfOwner, NoFile
  <2>2. RowOf(e, s)'
    BY <1>1, <1>2, <2>1 DEF RowOf, Exists
  <2> QED BY <2>2
<1>3. CASE s \notin c.streams
  <2>1. s \in rows \ forgotten /\ s \notin file[e].streams
    BY <1>1, <1>3
  <2>2. PICK d \in Entry : RowOf(d, s)
    BY <2>1 DEF IInv, RowsOwned
  <2>3. RowOf(d, s)'
    BY <1>1, <2>1, <2>2 DEF RowOf, Exists
  <2> QED BY <2>3
<1> QED BY <1>2, <1>3

\* Rows follow the streams of the files: saved before they are imported, cleared before the
\* file is deleted.
LEMMA RowsStep == IInv /\ [Next]_vars => RowsOwned'
<1> SUFFICES ASSUME IInv, [Next]_vars PROVE RowsOwned'
  OBVIOUS
<1>t. TypeOK /\ Begun /\ Owned /\ Outliving /\ RowsOwned
  BY DEF IInv
<1>m. \A e \in Entry : memory[e] \in File /\ OfOwner(e, memory[e], NoFile)
  BY <1>t DEF TypeOK, Owned
<1>1. ASSUME NEW f \in Form, CreateEntry(f) PROVE RowsOwned'
  <2>1. PICK e \in Entry : /\ phase[e] = "none" /\ phase' = [phase EXCEPT ![e] = "not_loaded"]
                           /\ owner' = [owner EXCEPT ![e] = form[f]]
    BY <1>1 DEF CreateEntry, Create
  <2>2. \A d \in Entry : phase[d] = "none" \/ (phase'[d] = phase[d] /\ owner'[d] = owner[d])
    BY <1>t, <2>1 DEF TypeOK
  <2> QED BY <1>t, <1>1, <2>2, RowsKept DEF CreateEntry, Create
<1>2. ASSUME NEW e \in Entry,
             SetupLoad(e) \/ Prepare(e) \/ Unload(e) \/ UnloadFails(e) \/ RemoveLoad(e)
      PROVE  RowsOwned'
  <2>1. /\ Exists(e)
        /\ phase'[e] \notin {"none", "clearing", "removed"}
        /\ \A d \in Entry \ {e} : phase'[d] = phase[d]
    BY <1>t, <1>2 DEF TypeOK, Exists, SetupLoad, Prepare, Unload, UnloadFails, RemoveLoad
  <2>2. UNCHANGED <<owner, file, rows, forgotten>> /\ outlived \subseteq outlived'
    BY <1>2 DEF SetupLoad, Prepare, Unload, UnloadFails, RemoveLoad
  <2> QED BY <1>t, <2>1, <2>2, RowsKept
<1>3. ASSUME NEW e \in Entry, SetupSave(e) \/ UnloadSave(e) PROVE RowsOwned'
  <2>1. /\ Exists(e) /\ phase[e] \notin {"clearing", "removed"}
        /\ phase'[e] \in {"preparing", "not_loaded"}
        /\ \A d \in Entry \ {e} : phase'[d] = phase[d]
    BY <1>t, <1>3 DEF TypeOK, Exists, SetupSave, UnloadSave
  <2>2. UNCHANGED <<owner, rows, outlived>> /\ Write(e, memory[e])
    BY <1>3 DEF SetupSave, UnloadSave
  <2> QED BY <1>m, <2>1, <2>2, RowsWritten DEF Exists
<1>4. ASSUME NEW e \in Entry, RefreshImport(e) \/ HeartbeatSave(e) PROVE RowsOwned'
  <2>1. e \in tasks
    BY <1>t, <1>4 DEF Begun, RefreshImport, HeartbeatSave
  <2>2. phase[e] # "none" /\ (phase[e] \in {"clearing", "removed"} => e \in outlived)
    BY <1>t, <2>1 DEF TypeOK, Outliving
  <2>3. /\ Write(e, memory[e]) /\ rows' \subseteq rows \cup memory[e].streams
        /\ UNCHANGED <<owner, phase, outlived>>
    BY <1>4 DEF RefreshImport, HeartbeatSave
  <2> QED BY <1>m, <2>2, <2>3, RowsWritten
<1>5. ASSUME NEW e \in Entry, RefreshSave(e) PROVE RowsOwned'
  <2>1. PICK kept \in SUBSET Streams[memory[e].account] \ {{}} :
          memory' = [memory EXCEPT ![e].streams = kept]
    BY <1>5 DEF RefreshSave
  <2>2. /\ memory' \in [Entry -> File]
        /\ memory'[e].account = memory[e].account /\ memory'[e].streams = kept
        /\ \A d \in Entry \ {e} : memory'[d] = memory[d]
        /\ owner[e] # None /\ kept \subseteq Streams[owner[e]]
    BY <1>5, <2>1, KeptIsTyped DEF RefreshSave
  <2>3. memory[e].account # None
    BY <1>5 DEF IInv, HasCookies, RefreshSave
  <2>4. memory[e].account = owner[e]
    BY <1>t, <2>3 DEF Owned, OfOwner, NoFile
  <2>5. OfOwner(e, memory'[e], NoFile)
    BY <2>2, <2>4 DEF OfOwner
  <2>6. phase[e] # "none" /\ (phase[e] \in {"clearing", "removed"} => e \in outlived)
    BY <1>t, <1>5 DEF TypeOK, Outliving, RefreshSave
  <2> QED BY <1>5, <2>2, <2>5, <2>6, RowsWritten DEF RefreshSave
<1>6. ASSUME NEW e \in Entry, Clear(e) PROVE RowsOwned'
  <2> SUFFICES ASSUME NEW s \in rows' \ forgotten' PROVE \E d \in Entry : RowOf(d, s)'
    BY DEF RowsOwned
  <2>1. s \in rows \ forgotten /\ s \notin keys[e]
    BY <1>6 DEF Clear
  <2>2. PICK d \in Entry : RowOf(d, s)
    BY <1>t, <2>1 DEF RowsOwned
  <2>3. /\ phase[e] = "removing" /\ phase'[e] = "clearing"
        /\ \A b \in Entry \ {e} : phase'[b] = phase[b]
        /\ UNCHANGED <<owner, file, outlived>>
    BY <1>t, <1>6 DEF TypeOK, Clear
  <2>4. s \in file[e].streams => e \in outlived
    BY <1>t, <2>1, <2>3 DEF Outliving
  <2>5. RowOf(d, s)'
    BY <2>2, <2>3, <2>4 DEF RowOf, Exists
  <2> QED BY <2>5
<1>7. ASSUME NEW e \in Entry, Remove(e) PROVE RowsOwned'
  <2> SUFFICES ASSUME NEW s \in rows' \ forgotten' PROVE \E d \in Entry : RowOf(d, s)'
    BY DEF RowsOwned
  <2>1. PICK d \in Entry : RowOf(d, s)
    BY <1>t, <1>7 DEF RowsOwned, Remove
  <2>2. /\ phase[e] = "clearing" /\ phase'[e] = "removed"
        /\ \A b \in Entry \ {e} : phase'[b] = phase[b] /\ file'[b] = file[b]
        /\ UNCHANGED <<owner, outlived>>
    BY <1>t, <1>7 DEF TypeOK, Remove
  <2>3. s \in file[e].streams => s \in Streams[owner[e]]
    BY <1>t DEF Owned, OfOwner, NoFile
  <2>4. RowOf(d, s)'
    BY <2>1, <2>2, <2>3 DEF RowOf, Exists
  <2> QED BY <2>4
<1>8. ASSUME NEW e \in Entry, ReauthSave(e) PROVE RowsOwned'
  <2> DEFINE content == [account |-> reauth[e].account, streams |-> reauth[e].streams]
  <2>1. /\ reauth[e] \in Reauth /\ reauth[e].account # None /\ owner[e] # None
        /\ phase[e] # "none"
    BY <1>t, <1>8 DEF TypeOK, Reauth, Begun, ReauthSave
  <2>2. reauth[e].account = owner[e] /\ reauth[e].streams \subseteq Streams[owner[e]]
    BY <1>t, <2>1 DEF Owned, OfOwner, NoFlow
  <2>3. content \in File /\ OfOwner(e, content, NoFile)
    BY <2>1, <2>2, ValueTypes DEF File, OfOwner
  <2>4. /\ outlived \subseteq outlived' /\ (phase[e] \in {"clearing", "removed"} => e \in outlived')
        /\ Write(e, content) /\ UNCHANGED <<owner, phase, rows>>
    BY <1>8 DEF ReauthSave
  <2> QED BY <2>1, <2>3, <2>4, RowsWritten
<1>9. ASSUME Restart PROVE RowsOwned'
  <2> SUFFICES ASSUME NEW s \in rows \ forgotten PROVE \E d \in Entry : RowOf(d, s)'
    BY <1>9 DEF RowsOwned, Restart
  <2>1. PICK d \in Entry : RowOf(d, s)
    BY <1>t DEF RowsOwned
  <2>2. RowOf(d, s)'
    BY <1>9, <2>1 DEF RowOf, Exists, Restart
  <2> QED BY <2>2
<1>10. ASSUME UNCHANGED <<owner, phase, file, rows, forgotten, outlived>> PROVE RowsOwned'
  BY <1>t, <1>10 DEF RowsOwned, RowOf, Exists
<1>11. ASSUME NEW f \in Form, SubmitForm(f) \/ AbortForm(f) PROVE RowsOwned'
  BY <1>10, <1>11 DEF SubmitForm, AbortForm
<1>12. ASSUME NEW e \in Entry, ReauthSubmit(e) \/ ReauthLoad(e) PROVE RowsOwned'
  BY <1>10, <1>12 DEF ReauthSubmit, Validate, ReauthLoad
<1>13. ASSUME UNCHANGED vars PROVE RowsOwned'
  BY <1>10, <1>13 DEF vars
<1> QED
  BY <1>1, <1>2, <1>3, <1>4, <1>5, <1>6, <1>7, <1>8, <1>9, <1>11, <1>12, <1>13 DEF Next

-----------------------------------------------------------------------------
(* The theorems *)

\* The invariant holds before the first entry.
LEMMA InitInv == Init => IInv
BY InitTypes
DEF Init, IInv, HasCookies, Begun, Owned, OfOwner, OneEntryPerAccount, Outliving, RemovalDeletesFile,
    RowsOwned, Exists, NoFlow

\* The inductive invariant: types, cookies, accounts, removal and rows together.
THEOREM Invariance == Spec => []IInv
<1>1. IInv /\ [Next]_vars => IInv'
  BY TypesStep, CookiesStep, BegunStep, OwnedStep, OneEntryStep, OutlivingStep, RowsStep DEF IInv
<1> QED BY InitInv, <1>1, PTL DEF Spec

\* The state of the entries keeps its types.
THEOREM TypeCorrect == Spec => []TypeOK
<1>1. IInv => TypeOK
  BY DEF IInv
<1> QED BY Invariance, <1>1, PTL

\* _abort_if_unique_id_configured keeps an account to one entry, for any number of flows.
THEOREM OneEntryPerAccountHolds == Spec => []OneEntryPerAccount
<1>1. IInv => OneEntryPerAccount
  BY DEF IInv
<1> QED BY Invariance, <1>1, PTL

\* The check of the unique id in the reauthentication keeps the data of other accounts out of
\* an entry's store, through setups, refreshes, unloads and restarts.
THEOREM StoreHoldsOwnAccountHolds == Spec => []StoreHoldsOwnAccount
<1>1. IInv => StoreHoldsOwnAccount
  <2> SUFFICES ASSUME IInv, NEW e \in Entry
               PROVE  /\ file[e].account \in {None, owner[e]}
                      /\ owner[e] # None => file[e].streams \subseteq Streams[owner[e]]
    BY DEF StoreHoldsOwnAccount
  <2>1. CASE file[e] = NoFile
    BY <2>1 DEF NoFile
  <2>2. CASE file[e] # NoFile
    BY <2>2 DEF IInv, Owned, OfOwner
  <2> QED BY <2>1, <2>2
<1> QED BY Invariance, <1>1, PTL

\* async_remove_entry leaves no store file behind that is not written anew by an outliving task
\* or flow.
THEOREM RemovalDeletesFileHolds == Spec => []RemovalDeletesFile
<1>1. IInv => RemovalDeletesFile
  BY DEF IInv, Outliving
<1> QED BY Invariance, <1>1, PTL

\* The order of save, import, clear and delete leaves no row without a store that knows it.
THEOREM NoOrphanRowsHolds == Spec => []NoOrphanRows
<1>1. IInv => NoOrphanRows
  <2> SUFFICES ASSUME IInv, NEW s \in rows \ forgotten
               PROVE  \E e \in Entry : \/ Exists(e) /\ phase[e] # "clearing" /\ s \in file[e].streams
                                       \/ e \in outlived /\ s \in Streams[owner[e]]
    BY DEF NoOrphanRows
  <2>1. PICK e \in Entry : RowOf(e, s)
    BY DEF IInv, RowsOwned
  <2>2. s \in file[e].streams => s \in Streams[owner[e]]
    BY DEF IInv, Owned, OfOwner, NoFile
  <2> QED BY <2>1, <2>2 DEF RowOf
<1> QED BY Invariance, <1>1, PTL

=============================================================================
