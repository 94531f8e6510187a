------------------------ MODULE EnergyKeySessionProofs ------------------------
(***************************************************************************)
(* Theorems about EnergyKeySession, for every number of logins, rotations  *)
(* and refreshes.                                                          *)
(***************************************************************************)
EXTENDS EnergyKeySession, TLAPS

-----------------------------------------------------------------------------
(* Types *)

\* Cookies are a login and a turn, and a rotation stays within the bound.
LEMMA CookieType ==
  ASSUME NEW c \in Cookies
  PROVE  /\ c # None
         /\ c[1] \in 1 .. MaxLogin /\ c[2] \in 0 .. MaxTurn
         /\ c[2] < MaxTurn => <<c[1], c[2] + 1>> \in Cookies
BY BoundAssumption, NoneAssumption DEF Cookies

\* The cookies a user flow leaves are cookies.
LEMMA FirstLogin == <<1, 0>> \in Cookies
BY BoundAssumption DEF Cookies

\* Writing one field of a store file leaves a store file.
LEMMA FileType ==
  /\ NoFile \in File /\ NoFlow \in Flow
  /\ \A f \in File, c \in Cookies \cup {None} : [f EXCEPT !.cookies = c] \in File
  /\ \A f \in File, n \in 0 .. MaxData : [f EXCEPT !.data = n] \in File
BY BoundAssumption DEF NoFile, NoFlow, File, Flow

\* The fields of files, flows and entries.
LEMMA FieldType ==
  /\ \A f \in File : f.cookies \in Cookies \cup {None} /\ f.data \in 0 .. MaxData
  /\ \A f \in Flow : f.cookies \in Cookies \cup {None} /\ f.data \in 0 .. MaxData
  /\ \A e \in Entry : e.cookies \in Cookies \cup {None} /\ e.version \in {1, 2}
  /\ \A e \in Entry, c \in Cookies \cup {None} : [e EXCEPT !.cookies = c] \in Entry
BY DEF File, Flow, Entry

\* Every step of a reauthentication flow leaves a flow.
LEMMA FlowType ==
  /\ \A f \in Flow : [f EXCEPT !.step = "open"] \in Flow
  /\ \A f \in Flow, n \in 0 .. MaxData : [f EXCEPT !.step = "saving", !.data = n] \in Flow
  /\ \A c \in Cookies : [step |-> "validated", cookies |-> c, data |-> 0] \in Flow
<1>1. \A f \in Flow : [f EXCEPT !.step = "open"] \in Flow
  BY DEF Flow
<1>2. \A f \in Flow : [f EXCEPT !.step = "saving"] \in Flow
  BY DEF Flow
<1>3. \A f \in Flow, n \in 0 .. MaxData : [f EXCEPT !.data = n] \in Flow
  BY DEF Flow
<1>4. \A f \in Flow, n \in 0 .. MaxData : [f EXCEPT !.step = "saving", !.data = n] \in Flow
  BY <1>2, <1>3
<1>5. \A c \in Cookies : [step |-> "validated", cookies |-> c, data |-> 0] \in Flow
  BY BoundAssumption DEF Flow
<1> QED BY <1>1, <1>4, <1>5

\* The states of the entry and of its refresh.
LEMMA StateType ==
  /\ {"not loaded", "saving", "preparing", "retry", "auth failed", "setup error"} \subseteq Phase
  /\ {"loaded", "unloading", "detaching", "failed unload"} \subseteq Phase
  /\ {"off", "initial", "saving first", "retrying", "waiting", "saving"} \subseteq RefreshState
BY DEF Phase, RefreshState

\* A flow that has validated cookies holds them.
FlowCookies == flow.step \in {"validated", "saving"} => flow.cookies # None

\* What is known of a new entry.
LEMMA InitFacts ==
  Init => flow.step = "none" /\ disk.data = 0 /\ memory.data = 0 /\ latest = 0
<1> SUFFICES ASSUME Init
             PROVE  flow.step = "none" /\ disk.data = 0 /\ memory.data = 0 /\ latest = 0
  OBVIOUS
<1>1. flow = NoFlow /\ disk = NoFile /\ memory = NoFile /\ latest = 0
  BY DEF Init
<1> QED BY <1>1 DEF NoFlow, NoFile

\* A new entry is well typed.
LEMMA InitType == Init => TypeOK
<1> SUFFICES ASSUME Init PROVE TypeOK
  OBVIOUS
<1>1. entry \in Entry /\ entrySaved \in Entry
  <2>1. PICK v \in {1, 2} : entry = [version |-> v, cookies |-> <<1, 0>>]
    BY DEF Init
  <2>2. entry \in Entry
    BY <2>1, FirstLogin DEF Entry
  <2> QED BY <2>2 DEF Init
<1>2. disk \in File /\ memory \in File /\ flow \in Flow
  BY FileType DEF Init
<1>3. /\ valid \subseteq Cookies
      /\ logins \in 1 .. MaxLogin /\ latest \in 0 .. MaxData /\ restored \in 1 .. MaxLogin
  <2>1. 1 \in 1 .. MaxLogin /\ 0 \in 0 .. MaxData
    BY BoundAssumption
  <2> QED BY <2>1, FirstLogin DEF Init
<1> QED BY <1>1, <1>2, <1>3, StateType DEF Init, TypeOK

\* What an answer of the portal, or the lack of one, does to the client.
LEMMA AnswerType ==
  ASSUME TypeOK, Accepted \/ Refused \/ Unanswered
  PROVE  /\ jar' \in Cookies \cup {None} /\ rejected' \in BOOLEAN
         /\ valid' \subseteq Cookies /\ logins' = logins /\ cleared' \in BOOLEAN
         /\ Accepted => jar' \in Cookies
<1>1. /\ jar \in Cookies \cup {None} /\ valid \subseteq Cookies
      /\ rejected \in BOOLEAN /\ cleared \in BOOLEAN
  BY DEF TypeOK
<1>2. CASE Accepted
  <2>1. jar \in Cookies
    BY <1>1, <1>2 DEF Accepted
  <2>2. jar' \in Cookies
    BY <1>2, <2>1, CookieType DEF Accepted
  <2> QED BY <1>1, <1>2, <2>2 DEF Accepted, portalVars
<1>3. CASE Refused /\ ~Accepted
  BY <1>1, <1>3 DEF Refused, portalVars
<1>4. CASE Unanswered /\ ~Accepted
  BY <1>1, <1>4 DEF Unanswered, portalVars
<1> QED BY <1>2, <1>3, <1>4

\* Every step keeps every type.
LEMMA NextType ==
  ASSUME TypeOK, FlowCookies, [Next]_vars
  PROVE  TypeOK'
<1> USE FileType, FieldType DEF TypeOK, entryVars, clientVars, portalVars, seen
<1>1. CASE Expire
  BY <1>1 DEF Expire
<1>2. CASE Migrate
  <2>1. entry' \in Entry
    BY <1>2 DEF Migrate, Entry
  <2> QED BY <1>2, <2>1, StateType DEF Migrate
<1>3. CASE SetupLoad
  <2>1. jar' \in Cookies \cup {None}
    BY <1>3 DEF SetupLoad, Preferred
  <2> QED BY <1>3, <2>1, StateType DEF SetupLoad
<1>4. CASE SetupSave
  BY <1>4, StateType DEF SetupSave
<1>5. CASE Prepare
  <2>1. Accepted \/ Refused \/ Unanswered
    BY <1>5 DEF Prepare
  <2>2. flow' \in Flow
    BY <1>5, FlowType DEF Prepare, AskForLogin
  <2> QED BY <1>5, <2>1, <2>2, AnswerType, StateType DEF Prepare
<1>6. CASE Retry
  BY <1>6, StateType DEF Retry, NoClient
<1>7. CASE HeartbeatRequest
  <2>1. Accepted \/ Refused \/ Unanswered
    BY <1>7 DEF HeartbeatRequest
  <2>2. flow' \in Flow
    BY <1>7, FlowType DEF HeartbeatRequest, AskForLogin
  <2> QED BY <1>7, <2>1, <2>2, AnswerType DEF HeartbeatRequest
<1>8. CASE HeartbeatSave
  BY <1>8 DEF HeartbeatSave
<1>9. CASE RefreshRequest
  <2>1. Accepted \/ Refused \/ Unanswered
    BY <1>9 DEF RefreshRequest
  <2>2. flow' \in Flow
    BY <1>9, FlowType DEF RefreshRequest, AskForLogin
  <2>3. latest' \in 0 .. MaxData
    <3>1. latest \in 0 .. MaxData /\ MaxData \in Nat
      BY BoundAssumption
    <3>2. latest' = latest \/ (latest < MaxData /\ latest' = latest + 1)
      BY <1>9 DEF RefreshRequest
    <3> QED BY ONLY <3>1, <3>2
  <2>4. memory' \in File /\ disk' \in File
    <3>1. \/ UNCHANGED <<disk, memory>>
          \/ disk' = memory' /\ memory' = [memory EXCEPT !.data = latest']
      BY <1>9 DEF RefreshRequest
    <3>2. disk \in File /\ memory \in File
      OBVIOUS
    <3> QED BY ONLY <2>3, <3>1, <3>2, FileType
  <2>5. refresh' \in RefreshState
    BY <1>9, StateType DEF RefreshRequest, AfterFailure
  <2>6. broken' \in BOOLEAN
    BY <1>9 DEF RefreshRequest
  <2>7. UNCHANGED <<entryVars, phase, heartbeat, reload, restored>>
    BY <1>9 DEF RefreshRequest
  <2> QED BY <2>1, <2>2, <2>3, <2>4, <2>5, <2>6, <2>7, AnswerType
<1>10. CASE RefreshSave
  BY <1>10, StateType DEF RefreshSave
<1>11. CASE FlowSubmit
  <2>1. logins' \in 1 .. MaxLogin /\ <<logins', 0>> \in Cookies
    <3>1. logins \in 1 .. MaxLogin /\ MaxLogin \in Nat /\ MaxTurn \in Nat
      BY BoundAssumption
    <3>2. logins < MaxLogin /\ logins' = logins + 1
      BY <1>11 DEF FlowSubmit
    <3>3. logins' \in 1 .. MaxLogin
      BY ONLY <3>1, <3>2
    <3> QED BY ONLY <3>1, <3>3 DEF Cookies
  <2>2. flow' \in Flow
    BY <1>11, <2>1, FlowType DEF FlowSubmit
  <2> QED BY <1>11, <2>1, <2>2 DEF FlowSubmit
<1>12. CASE FlowLoad
  <2>1. flow' \in Flow
    BY <1>12, FlowType DEF FlowLoad
  <2> QED BY <1>12, <2>1 DEF FlowLoad
<1>13. CASE FlowSave
  <2>1. flow.cookies \in Cookies /\ flow.cookies[1] \in 1 .. MaxLogin
    BY <1>13, CookieType DEF FlowSave, FlowCookies
  <2>2. disk' \in File
    BY <1>13, <2>1 DEF FlowSave, File
  <2> QED BY <1>13, <2>1, <2>2 DEF FlowSave
<1>14. CASE UserReload
  BY <1>14 DEF UserReload
<1>15. CASE Unload
  BY <1>15, StateType DEF Unload
<1>16. CASE UnloadSave
  BY <1>16, StateType DEF UnloadSave
<1>17. CASE Flush
  BY <1>17 DEF Flush
<1>18. CASE Restart
  BY <1>18, StateType DEF Restart, NoClient
<1>19. CASE Detach
  BY <1>19, StateType DEF Detach, NoClient
<1>20. CASE UNCHANGED vars
  BY <1>20 DEF vars
<1> QED BY <1>1, <1>2, <1>3, <1>4, <1>5, <1>6, <1>7, <1>8, <1>9, <1>10, <1>11, <1>12, <1>13,
           <1>14, <1>15, <1>16, <1>17, <1>18, <1>19, <1>20 DEF Next

\* Every step keeps the cookies of a flow that has validated some.
LEMMA FlowStep ==
  ASSUME TypeOK, FlowCookies, [Next]_vars
  PROVE  FlowCookies'
<1> USE DEF FlowCookies, TypeOK, Flow
<1>1. CASE UNCHANGED flow
  BY <1>1
<1>2. CASE AskForLogin
  BY <1>2 DEF AskForLogin
<1>3. CASE FlowSubmit
  <2>1. <<logins', 0>> \in Cookies
    <3>1. logins \in 1 .. MaxLogin /\ MaxLogin \in Nat /\ MaxTurn \in Nat
      BY BoundAssumption
    <3>2. logins < MaxLogin /\ logins' = logins + 1
      BY <1>3 DEF FlowSubmit
    <3> QED BY ONLY <3>1, <3>2 DEF Cookies
  <2> QED BY <1>3, <2>1, NoneAssumption DEF FlowSubmit
<1>4. CASE FlowLoad
  BY <1>4 DEF FlowLoad
<1>5. CASE flow' = NoFlow
  BY <1>5 DEF NoFlow
<1>6. \/ UNCHANGED flow \/ AskForLogin \/ FlowSubmit \/ FlowLoad \/ flow' = NoFlow
  BY DEF Next, vars, Expire, Migrate, SetupLoad, SetupSave, Prepare, Retry, HeartbeatRequest,
         HeartbeatSave, RefreshRequest, RefreshSave, FlowSave, UserReload, Unload, UnloadSave,
         Detach, Flush, Restart
<1> QED BY <1>1, <1>2, <1>3, <1>4, <1>5, <1>6

Typed == TypeOK /\ FlowCookies

\* Every step keeps every variable in its type.
THEOREM TypeInvariance == Spec => []Typed
<1>1. Init => Typed
  <2>1. Init => flow.step = "none"
    BY InitFacts
  <2> QED BY <2>1, InitType DEF Typed, FlowCookies
<1>2. Typed /\ [Next]_vars => Typed'
  BY NextType, FlowStep DEF Typed
<1> QED BY <1>1, <1>2, PTL DEF Spec

\* The variables of the session keep their types, whatever the bounds.
THEOREM TypeCorrect == Spec => []TypeOK
BY TypeInvariance, PTL DEF Typed

-----------------------------------------------------------------------------
(* Stored data *)

\* The phases in which a store has been loaded that will write the file.
Live == phase \in {"saving", "preparing", "loaded", "unloading", "detaching", "failed unload"}

\* The runtime's store is never behind the file, and the file never behind a flow.
DataOrder ==
  /\ flow.step = "saving" => flow.data <= disk.data
  /\ Live => disk.data <= memory.data
  /\ disk.data <= latest /\ memory.data <= latest

\* The versions are numbers, and a write of cookies leaves them alone.
LEMMA DataType ==
  ASSUME TypeOK
  PROVE  /\ disk.data \in Nat /\ memory.data \in Nat /\ flow.data \in Nat /\ latest \in Nat
         /\ \A c : [disk EXCEPT !.cookies = c].data = disk.data
         /\ \A c : [memory EXCEPT !.cookies = c].data = memory.data
         /\ \A n : [memory EXCEPT !.data = n].data = n
         /\ \A n : [flow EXCEPT !.step = "saving", !.data = n].data = n
         /\ [flow EXCEPT !.step = "open"].step = "open"
<1>1. disk \in File /\ memory \in File /\ flow \in Flow /\ latest \in 0 .. MaxData
  BY DEF TypeOK
<1>2. disk.data \in Nat /\ memory.data \in Nat /\ flow.data \in Nat /\ latest \in Nat
  BY <1>1, FieldType, BoundAssumption
<1>3. /\ \A c : [disk EXCEPT !.cookies = c].data = disk.data
      /\ \A c : [memory EXCEPT !.cookies = c].data = memory.data
      /\ \A n : [memory EXCEPT !.data = n].data = n
  BY <1>1 DEF File
<1>4. [flow EXCEPT !.step = "open"].step = "open"
  BY <1>1 DEF Flow
<1>5. \A n : [flow EXCEPT !.step = "saving", !.data = n].data = n
  BY <1>1 DEF Flow
<1> QED BY <1>2, <1>3, <1>4, <1>5

\* Every step keeps the order of the versions in memory, on disk and stored last.
LEMMA DataStep ==
  ASSUME TypeOK, DataOrder, [Next]_vars
  PROVE  /\ DataOrder'
         /\ disk'.data >= disk.data \/ (flow.step = "saving" /\ disk'.data = flow.data)
<1> USE DataType DEF DataOrder
<1>u. UNCHANGED phase => Live' = Live
  BY DEF Live
<1>1. CASE UNCHANGED <<disk, memory, flow, phase, latest>>
  BY <1>1, <1>u
<1>2. CASE Migrate
  <2>1. disk'.data = disk.data /\ ~Live' /\ UNCHANGED <<memory, flow, latest>>
    BY <1>2 DEF Migrate, seen, Live
  <2> QED BY <2>1
<1>3. CASE SetupLoad
  <2>1. memory' = disk /\ UNCHANGED <<disk, flow, latest>>
    BY <1>3 DEF SetupLoad, seen
  <2> QED BY <2>1
<1>4. CASE SetupSave \/ HeartbeatSave \/ RefreshSave \/ UnloadSave
  <2>1. disk' = memory' /\ memory'.data = memory.data /\ UNCHANGED <<flow, latest>>
    BY <1>4 DEF SetupSave, HeartbeatSave, RefreshSave, UnloadSave, seen
  <2>2. Live
    BY <1>4 DEF SetupSave, HeartbeatSave, RefreshSave, RefreshRuns, UnloadSave, Live
  <2> QED BY <2>1, <2>2
<1>5. CASE Prepare \/ HeartbeatRequest
  <2>1. UNCHANGED <<disk, memory, latest>> /\ Live
    BY <1>5 DEF Prepare, HeartbeatRequest, seen, Live
  <2>2. flow'.step = "saving" => flow' = flow
    BY <1>5 DEF Prepare, HeartbeatRequest, AskForLogin
  <2> QED BY <2>1, <2>2
<1>6. CASE RefreshRequest
  <2>1. Live /\ phase' = phase
    BY <1>6 DEF RefreshRequest, RefreshRuns, Live
  <2>2. flow'.step = "saving" => flow' = flow
    BY <1>6 DEF RefreshRequest, AskForLogin
  <2>3. \/ UNCHANGED <<disk, memory, latest>>
        \/ disk' = memory' /\ memory'.data = latest + 1 /\ latest' = latest + 1
    BY <1>6 DEF RefreshRequest
  <2> QED BY <2>1, <2>2, <2>3
<1>7. CASE FlowSubmit
  <2>1. flow'.step = "validated" /\ UNCHANGED <<disk, memory, phase, latest>>
    BY <1>7 DEF FlowSubmit, seen
  <2> QED BY <2>1, <1>u
<1>8. CASE FlowLoad
  <2>1. flow'.data = disk.data /\ UNCHANGED <<disk, memory, phase, latest>>
    BY <1>8 DEF FlowLoad, seen
  <2> QED BY <2>1, <1>u
<1>9. CASE FlowSave
  <2>1. disk'.data = flow.data /\ flow.step = "saving" /\ flow'.step = "none"
    BY <1>9 DEF FlowSave, NoFlow
  <2>2. UNCHANGED <<memory, phase, latest>>
    BY <1>9 DEF FlowSave
  <2> QED BY <2>1, <2>2, <1>u
<1>10. CASE Retry \/ Unload \/ Detach
  <2>1. UNCHANGED <<disk, memory, flow, latest>>
    BY <1>10 DEF Retry, Unload, Detach, seen
  <2>2. Live' => Live
    BY <1>10 DEF Retry, Unload, Detach, Live
  <2> QED BY <2>1, <2>2
<1>11. CASE Restart
  <2>1. memory'.data = 0 /\ flow'.step = "none" /\ ~Live' /\ UNCHANGED <<disk, latest>>
    BY <1>11 DEF Restart, NoFlow, NoFile, Live
  <2> QED BY <2>1
<1>12. Expire \/ UserReload \/ Flush \/ UNCHANGED vars =>
         UNCHANGED <<disk, memory, flow, phase, latest>>
  BY DEF Expire, UserReload, Flush, vars, seen
<1> QED BY <1>1, <1>2, <1>3, <1>4, <1>5, <1>6, <1>7, <1>8, <1>9, <1>10, <1>11, <1>12 DEF Next

\* No write of cookies puts older data over what a refresh has stored, except by a flow.
THEOREM StoredDataKeptHolds == Spec => StoredDataKept
<1>1. Init => DataOrder
  <2> SUFFICES ASSUME Init PROVE DataOrder
    OBVIOUS
  <2>1. ~Live
    BY DEF Init, Live
  <2>2. flow.step = "none" /\ disk.data = 0 /\ memory.data = 0 /\ latest = 0
    BY InitFacts
  <2> QED BY <2>1, <2>2 DEF DataOrder
<1>2. TypeOK /\ DataOrder /\ [Next]_vars =>
        /\ DataOrder'
        /\ [disk'.data >= disk.data \/ (flow.step = "saving" /\ disk'.data = flow.data)]_vars
  BY DataStep
<1> QED BY <1>1, <1>2, TypeCorrect, PTL DEF Spec, StoredDataKept

-----------------------------------------------------------------------------
(* The login on disk *)

\* A login is in the entry or in the file, now and after a restart; the client and the store
\* that may write the file next have one as well.
LoginHeld ==
  /\ entrySaved.cookies # None \/ disk.cookies # None
  /\ entry.version = 1 => entry.cookies # None
  /\ entrySaved.version = 1 => entrySaved.cookies # None
  /\ entry.cookies # None \/ disk.cookies # None
  /\ Live => jar # None
  /\ phase = "saving" => entry.version = 2
  /\ Live /\ phase # "saving" => memory.cookies # None

\* What is known of the fields of typed values.
LEMMA Fields ==
  ASSUME TypeOK
  PROVE  /\ \A c : /\ [disk EXCEPT !.cookies = c].cookies = c
                   /\ [memory EXCEPT !.cookies = c].cookies = c
                   /\ [entry EXCEPT !.cookies = c].cookies = c
                   /\ [entry EXCEPT !.cookies = c].version = entry.version
         /\ \A n : [memory EXCEPT !.data = n].cookies = memory.cookies
         /\ entry.version \in {1, 2}
<1>1. disk \in File /\ memory \in File /\ entry \in Entry
  BY DEF TypeOK
<1> QED BY <1>1 DEF File, Entry

\* Only an answer that clears the jar leaves it empty.
LEMMA JarKept ==
  ASSUME TypeOK, ~cleared', jar # None, Accepted \/ Refused \/ Unanswered
  PROVE  jar' # None
BY AnswerType, NoneAssumption DEF Refused, Unanswered

\* That the portal has cleared a jar is not forgotten.
LEMMA ClearedStays ==
  ASSUME cleared, TypeOK, [Next]_vars
  PROVE  cleared'
BY DEF Next, vars, portalVars, TypeOK, Expire, Migrate, SetupLoad, SetupSave, Prepare, Retry,
       HeartbeatRequest, HeartbeatSave, RefreshRequest, RefreshSave, FlowSubmit, FlowLoad,
       FlowSave, UserReload, Unload, UnloadSave, Detach, Flush, Restart, Accepted, Refused, Unanswered

\* Every step that leaves the jar alone keeps a login where LoginHeld has it.
LEMMA LoginStep ==
  ASSUME TypeOK, FlowCookies, LoginHeld, ~cleared', [Next]_vars
  PROVE  LoginHeld'
<1> USE Fields DEF LoginHeld
<1>u. UNCHANGED phase => Live' = Live
  BY DEF Live
<1>1. CASE UNCHANGED <<entry, entrySaved, disk, memory, phase, jar>>
  BY <1>1, <1>u
<1>2. CASE Migrate
  <2>1. disk'.cookies = entry.cookies /\ entry.cookies # None /\ entry'.version = 2
    BY <1>2 DEF Migrate
  <2>2. ~Live' /\ phase' # "saving"
    BY <1>2 DEF Migrate, Live
  <2>3. disk'.cookies # None /\ entrySaved' = entrySaved
    BY <1>2, <2>1 DEF Migrate
  <2> QED BY <2>1, <2>2, <2>3
<1>3. CASE SetupLoad
  <2>1. UNCHANGED <<entry, entrySaved, disk>> /\ memory' = disk /\ entry.version = 2
    BY <1>3 DEF SetupLoad, entryVars
  <2>2. phase' \in {"retry", "saving", "preparing"} /\ (Live' => jar' # None)
    BY <1>3 DEF SetupLoad, Live
  <2>3. phase' = "preparing" => disk.cookies # None
    BY <1>3 DEF SetupLoad, Preferred
  <2>4. Live' /\ phase' # "saving" => phase' = "preparing"
    BY <2>2 DEF Live
  <2> QED BY <2>1, <2>2, <2>3, <2>4
<1>4. CASE SetupSave
  <2>1. disk' = memory' /\ memory'.cookies = jar /\ jar # None /\ jar' = jar
    BY <1>4 DEF SetupSave, clientVars, Live
  <2>2. entry'.version = 2 /\ entrySaved' = entrySaved /\ phase' = "preparing"
    BY <1>4 DEF SetupSave
  <2> QED BY <2>1, <2>2
<1>5. CASE Prepare \/ HeartbeatRequest
  <2>1. UNCHANGED <<entry, entrySaved, disk, memory>>
    BY <1>5 DEF Prepare, HeartbeatRequest, entryVars
  <2>2. jar' # None
    BY <1>5, JarKept DEF Prepare, HeartbeatRequest, Live
  <2>3. phase' # "saving" /\ Live /\ phase # "saving"
    BY <1>5 DEF Prepare, HeartbeatRequest, Live
  <2> QED BY <2>1, <2>2, <2>3
<1>6. CASE RefreshRequest
  <2>1. UNCHANGED <<entry, entrySaved, phase>> /\ Live /\ phase # "saving"
    BY <1>6 DEF RefreshRequest, RefreshRuns, entryVars, Live
  <2>2. jar' # None
    BY <1>6, <2>1, JarKept DEF RefreshRequest
  <2>3. UNCHANGED <<disk, memory>> \/ (disk' = memory' /\ memory'.cookies = memory.cookies)
    <3>1. \/ UNCHANGED <<disk, memory>>
          \/ disk' = memory' /\ memory' = [memory EXCEPT !.data = latest']
      BY <1>6 DEF RefreshRequest
    <3> QED BY <3>1, Fields
  <2> QED BY <2>1, <2>2, <2>3, <1>u
<1>7. CASE HeartbeatSave \/ RefreshSave \/ UnloadSave
  <2>1. /\ disk' = memory' /\ memory'.cookies = jar /\ jar # None
        /\ UNCHANGED <<entry, entrySaved>>
    BY <1>7 DEF HeartbeatSave, RefreshSave, RefreshRuns, UnloadSave, entryVars, Live
  <2>2. phase' # "saving" /\ jar' = jar
    BY <1>7 DEF HeartbeatSave, RefreshSave, RefreshRuns, UnloadSave, clientVars
  <2> QED BY <2>1, <2>2
<1>8. CASE FlowSave
  <2>1. disk'.cookies = flow.cookies /\ flow.cookies # None
    BY <1>8 DEF FlowSave, FlowCookies
  <2>2. entry'.cookies = flow.cookies /\ entry'.version = entry.version
    BY <1>8 DEF FlowSave
  <2>3. UNCHANGED <<entrySaved, memory, phase, jar>>
    BY <1>8 DEF FlowSave, clientVars
  <2> QED BY <2>1, <2>2, <2>3, <1>u
<1>9. CASE Retry \/ Unload \/ Detach
  <2>1. UNCHANGED <<entry, entrySaved, disk, memory>>
    BY <1>9 DEF Retry, Unload, Detach, entryVars
  <2>2. /\ phase' # "saving"
        /\ Live' => Live /\ phase # "saving" /\ jar' = jar
    BY <1>9 DEF Retry, Unload, Detach, Live
  <2> QED BY <2>1, <2>2
<1>10. CASE Flush
  BY <1>10, <1>u DEF Flush, clientVars
<1>11. CASE Restart
  <2>1. entry' = entrySaved /\ UNCHANGED <<entrySaved, disk>>
    BY <1>11 DEF Restart
  <2>2. ~Live' /\ phase' = "not loaded"
    BY <1>11 DEF Restart, Live
  <2> QED BY <2>1, <2>2
<1>12. Expire \/ FlowSubmit \/ FlowLoad \/ UserReload \/ UNCHANGED vars =>
         UNCHANGED <<entry, entrySaved, disk, memory, phase, jar>>
  BY DEF Expire, FlowSubmit, FlowLoad, UserReload, vars, entryVars, clientVars
<1> QED BY <1>1, <1>2, <1>3, <1>4, <1>5, <1>6, <1>7, <1>8, <1>9, <1>10, <1>11, <1>12 DEF Next

\* Until the portal deletes the cookies of a session it rejects, a login is on disk at every
\* moment, for any number of logins, rotations and restarts.
THEOREM LoginOnDiskHolds == Spec => []LoginOnDisk
<1>1. Init => LoginHeld
  <2> SUFFICES ASSUME Init PROVE LoginHeld
    OBVIOUS
  <2>1. PICK v \in {1, 2} : entry = [version |-> v, cookies |-> <<1, 0>>]
    BY DEF Init
  <2>2. entry.cookies # None /\ entrySaved = entry /\ phase = "not loaded"
    BY <2>1, FirstLogin, NoneAssumption DEF Init
  <2> QED BY <2>2 DEF LoginHeld, Live
<1>2. Typed /\ (cleared \/ LoginHeld) /\ [Next]_vars => (cleared \/ LoginHeld)'
  BY LoginStep, ClearedStays DEF Typed
<1>3. cleared \/ LoginHeld => LoginOnDisk
  BY DEF LoginHeld, LoginOnDisk
<1> QED BY <1>1, <1>2, <1>3, TypeInvariance, PTL DEF Spec

-----------------------------------------------------------------------------
(* The newest cookies *)

\* Until the first reauthentication, restart, failed setup or rotation behind an unload's back,
\* accepted cookies are in the jar of the client, or, while there is no client, where the next
\* setup takes its cookies from; an unload has stored them before it lets go of the client; and
\* the client has not been rejected.  Reauthentication brings a later login than the first.
HeldHere(c) ==
  /\ phase = "not loaded" =>
       jar = None /\ c = (IF entry.version = 1 THEN entry.cookies ELSE Preferred)
  /\ phase # "not loaded" => jar = c /\ entry.version = 2
  /\ phase = "detaching" => disk.cookies = c /\ memory.cookies = c
  /\ ~rejected /\ phase \notin {"retry", "auth failed", "setup error"}

NewestHeld ==
  /\ flow.step \in {"validated", "saving"} => flow.cookies[1] >= 2
  /\ \A c \in valid : c[1] = 1 /\ restored = 1 /\ ~broken => HeldHere(c)

\* The portal's answer leaves the client with the cookies it accepts, which it cannot refuse.
LEMMA AnswerNewest ==
  ASSUME TypeOK, NewestHeld, phase # "not loaded", Accepted \/ Refused \/ Unanswered,
         NEW c \in valid', c[1] = 1, restored = 1, ~broken
  PROVE  jar' = c /\ ~rejected' /\ entry.version = 2 /\ ~Refused
<1>1. \A d \in valid : d[1] = 1 => jar = d /\ ~rejected /\ entry.version = 2
  BY DEF NewestHeld, HeldHere
<1>2. CASE c \in valid
  <2>1. jar = c /\ ~rejected /\ entry.version = 2 /\ ~Refused
    BY <1>1, <1>2 DEF Refused
  <2>2. CASE Accepted
    <3>1. c = jar'
      <4>1. CASE UNCHANGED <<jar, valid>>
        BY <4>1, <2>1
      <4>2. CASE valid' = (valid \ {jar}) \cup {jar'}
        BY <4>2, <2>1
      <4> QED BY <4>1, <4>2, <2>2 DEF Accepted
    <3> QED BY <2>1, <2>2, <3>1 DEF Accepted
  <2>3. CASE Unanswered
    BY <2>1, <2>3 DEF Unanswered
  <2> QED BY <2>1, <2>2, <2>3
<1>3. CASE c \notin valid
  <2>1. Accepted /\ c = jar' /\ jar \in valid /\ jar' = <<jar[1], jar[2] + 1>>
    BY <1>3 DEF Accepted, Refused, Unanswered, portalVars
  <2>2. jar[1] = 1
    BY <2>1
  <2> QED BY <1>1, <2>1, <2>2 DEF Accepted, Refused
<1> QED BY <1>2, <1>3

\* The flow keeps to later logins.
LEMMA NewestFlow ==
  ASSUME TypeOK, NewestHeld, [Next]_vars
  PROVE  flow'.step \in {"validated", "saving"} => flow'.cookies[1] >= 2
<1> USE DEF NewestHeld
<1>0. flow \in Flow /\ logins \in 1 .. MaxLogin
  BY DEF TypeOK
<1>1. CASE UNCHANGED flow
  BY <1>1
<1>2. CASE AskForLogin
  <2>1. flow' = flow \/ flow'.step = "open"
    BY <1>0, <1>2 DEF AskForLogin, Flow
  <2> QED BY <2>1
<1>3. CASE FlowSubmit
  <2>1. logins' = logins + 1 /\ flow'.cookies[1] = logins'
    BY <1>3 DEF FlowSubmit
  <2>2. logins' >= 2
    BY ONLY <1>0, <2>1, BoundAssumption
  <2> QED BY <2>1, <2>2
<1>4. CASE FlowLoad
  BY <1>0, <1>4 DEF FlowLoad, Flow
<1>5. CASE flow' = NoFlow
  BY <1>5 DEF NoFlow
<1>6. \/ UNCHANGED flow \/ AskForLogin \/ FlowSubmit \/ FlowLoad \/ flow' = NoFlow
  BY DEF Next, vars, Expire, Migrate, SetupLoad, SetupSave, Prepare, Retry, HeartbeatRequest,
         HeartbeatSave, RefreshRequest, RefreshSave, FlowSave, UserReload, Unload, UnloadSave,
         Detach, Flush, Restart
<1> QED BY <1>1, <1>2, <1>3, <1>4, <1>5, <1>6

\* Every step leaves the newest cookies where the client or the next setup has them.
LEMMA NewestStep ==
  ASSUME TypeOK, NewestHeld, [Next]_vars
  PROVE  NewestHeld'
<1> SUFFICES ASSUME NEW c \in valid', c[1] = 1, restored' = 1, ~broken'
             PROVE  HeldHere(c)'
  BY NewestFlow DEF NewestHeld
<1>h. c \in valid /\ restored = 1 /\ ~broken => HeldHere(c)
  BY DEF NewestHeld
<1>t. /\ c \in valid => c \in Cookies /\ c # None
      /\ valid \subseteq Cookies /\ logins \in 1 .. MaxLogin
  BY NoneAssumption DEF TypeOK
<1>1. CASE UNCHANGED <<entry, disk, memory, phase, jar, rejected, valid, restored, broken>>
  BY <1>1, <1>h DEF HeldHere, Preferred
<1>2. CASE Expire
  BY <1>2 DEF Expire
<1>3. CASE Migrate
  <2>1. HeldHere(c)
    BY <1>3, <1>h DEF Migrate, portalVars, seen
  <2>2. disk'.cookies = c /\ entry'.version = 2 /\ c # None
    BY <1>3, <1>t, <2>1, Fields DEF HeldHere, Migrate, portalVars
  <2>3. phase = "not loaded" /\ phase' = "not loaded" /\ jar' = jar
    BY <1>3 DEF Migrate, clientVars
  <2>4. Preferred' = c /\ entry'.version # 1
    BY <2>2 DEF Preferred
  <2>5. ~rejected'
    BY <1>3, <2>1 DEF HeldHere, Migrate, clientVars
  <2>6. jar' = None
    BY <2>1, <2>3 DEF HeldHere
  <2> QED BY <2>3, <2>4, <2>5, <2>6 DEF HeldHere
<1>4. CASE SetupLoad
  <2>1. HeldHere(c) /\ c # None
    BY <1>4, <1>h, <1>t DEF SetupLoad, portalVars, seen
  <2>2. phase = "not loaded" /\ entry' = entry /\ jar' = Preferred
    BY <1>4 DEF SetupLoad, entryVars
  <2>v. entry.version = 2
    BY <1>4 DEF SetupLoad
  <2>3. jar' = c
    <3>1. entry.version # 1
      BY <2>v
    <3> QED BY <2>1, <2>2, <3>1 DEF HeldHere
  <2>4. phase' \in {"saving", "preparing"}
    BY <1>4, <2>1, <2>3 DEF SetupLoad
  <2>5. ~rejected'
    BY <1>4, <2>1 DEF HeldHere, SetupLoad
  <2> QED BY <2>2, <2>v, <2>3, <2>4, <2>5 DEF HeldHere
<1>5. CASE SetupSave
  <2>1. HeldHere(c)
    BY <1>5, <1>h DEF SetupSave, portalVars, seen
  <2> QED BY <1>5, <2>1, Fields DEF HeldHere, SetupSave, clientVars
<1>6. CASE Prepare \/ HeartbeatRequest \/ RefreshRequest
  <2>1. /\ phase \in {"preparing", "loaded", "unloading", "detaching", "failed unload"}
        /\ Accepted \/ Refused \/ Unanswered
        /\ UNCHANGED <<entry, restored>> /\ ~broken
    BY <1>6 DEF Prepare, HeartbeatRequest, RefreshRequest, RefreshRuns, entryVars, seen, TypeOK
  <2>2. jar' = c /\ ~rejected' /\ entry.version = 2 /\ ~Refused
    <3>1. phase # "not loaded" /\ restored = 1
      BY <2>1
    <3> QED BY <2>1, <3>1, AnswerNewest
  <2>3. phase' \notin {"not loaded", "retry", "auth failed", "setup error"}
    BY <1>6, <2>1, <2>2 DEF Prepare, HeartbeatRequest, RefreshRequest
  <2>4. phase' = "detaching" => disk'.cookies = c /\ memory'.cookies = c
    <3> SUFFICES ASSUME phase' = "detaching"
                 PROVE  disk'.cookies = c /\ memory'.cookies = c
      OBVIOUS
    <3>1. RefreshRequest /\ phase = "detaching"
      BY <1>6 DEF Prepare, HeartbeatRequest, RefreshRequest
    <3>2. jar = jar'
      BY <3>1 DEF RefreshRequest
    <3>3. c \in valid
      <4>1. c = jar
        BY <2>2, <3>2
      <4>2. c \in valid'
        OBVIOUS
      <4>3. jar \in valid \/ valid' = valid
        BY <2>1 DEF Accepted, Refused, Unanswered, portalVars
      <4> QED BY <4>1, <4>2, <4>3
    <3>4. disk.cookies = c /\ memory.cookies = c
      BY <1>h, <2>1, <3>1, <3>3 DEF HeldHere
    <3>5. \/ UNCHANGED <<disk, memory>>
          \/ disk' = memory' /\ memory' = [memory EXCEPT !.data = latest']
      BY <3>1 DEF RefreshRequest
    <3> QED BY <3>4, <3>5, Fields
  <2> QED BY <2>1, <2>2, <2>3, <2>4 DEF HeldHere
<1>7. CASE Retry
  <2>1. HeldHere(c)
    BY <1>7, <1>h DEF Retry, portalVars, seen
  <2> QED BY <1>7, <2>1 DEF HeldHere, Retry
<1>8. CASE HeartbeatSave \/ RefreshSave
  <2>1. /\ UNCHANGED <<entry, phase, jar, rejected, valid, restored, broken>>
        /\ phase # "not loaded"
    BY <1>8 DEF HeartbeatSave, RefreshSave, RefreshRuns, entryVars, portalVars, seen
  <2>2. disk'.cookies = jar /\ memory'.cookies = jar
    BY <1>8, Fields DEF HeartbeatSave, RefreshSave
  <2> QED BY <1>h, <2>1, <2>2 DEF HeldHere
<1>9. CASE FlowSubmit
  <2>1. logins' >= 2 /\ logins' \in Nat
    BY <1>9, <1>t, BoundAssumption DEF FlowSubmit
  <2>2. c \in valid
    BY <1>9, <2>1 DEF FlowSubmit
  <2> QED BY <1>9, <1>h, <2>2 DEF HeldHere, FlowSubmit, entryVars, clientVars, seen, Preferred
<1>10. CASE FlowSave
  <2>1. flow.cookies[1] >= 2 /\ restored' = flow.cookies[1]
    BY <1>10 DEF FlowSave, NewestHeld
  <2>2. ~ (1 >= 2)
    OBVIOUS
  <2> QED BY <2>1, <2>2
<1>11. CASE Unload
  <2>1. HeldHere(c)
    BY <1>11, <1>h DEF Unload, portalVars, seen
  <2> QED BY <1>11, <2>1 DEF HeldHere, Unload, entryVars
<1>12. CASE UnloadSave
  <2>1. HeldHere(c)
    BY <1>12, <1>h DEF UnloadSave, portalVars, seen
  <2>2. disk'.cookies = jar /\ memory'.cookies = jar
    BY <1>12, Fields DEF UnloadSave
  <2>3. /\ phase = "unloading" /\ phase' = "detaching"
        /\ UNCHANGED <<entry, jar, rejected>>
    BY <1>12 DEF UnloadSave, entryVars, clientVars
  <2> QED BY <2>1, <2>2, <2>3 DEF HeldHere
<1>13. CASE Restart
  BY <1>13 DEF Restart
<1>14. CASE Detach
  <2>1. HeldHere(c) /\ c # None
    BY <1>14, <1>h, <1>t DEF Detach, portalVars, seen
  <2>2. /\ phase = "detaching" /\ phase' = "not loaded" /\ jar' = None /\ ~rejected'
        /\ UNCHANGED <<entry, disk>>
    BY <1>14 DEF Detach, NoClient, entryVars
  <2>3. entry.version = 2 /\ disk.cookies = c
    BY <2>1, <2>2 DEF HeldHere
  <2>4. Preferred' = c
    BY <2>1, <2>2, <2>3 DEF Preferred
  <2>5. entry'.version # 1
    <3>1. entry' = entry
      BY <2>2
    <3> QED BY <2>3, <3>1
  <2> QED BY <2>2, <2>4, <2>5 DEF HeldHere
<1>15. FlowLoad \/ UserReload \/ Flush \/ UNCHANGED vars =>
         UNCHANGED <<entry, disk, memory, phase, jar, rejected, valid, restored, broken>>
  BY DEF FlowLoad, UserReload, Flush, vars, entryVars, clientVars, portalVars, seen
<1> QED BY <1>1, <1>2, <1>3, <1>4, <1>5, <1>6, <1>7, <1>8, <1>9, <1>10, <1>11, <1>12, <1>13,
           <1>14, <1>15 DEF Next

\* A new entry has the cookies of the first login.
LEMMA NewestInit == Init => NewestHeld
<1> SUFFICES ASSUME Init PROVE NewestHeld
  OBVIOUS
<1>1. PICK v \in {1, 2} : entry = [version |-> v, cookies |-> <<1, 0>>]
  BY DEF Init
<1>2. /\ entry.version \in {1, 2} /\ entry.cookies = <<1, 0>>
      /\ disk.cookies = None /\ flow.step = "none" /\ valid = {<<1, 0>>}
      /\ phase = "not loaded" /\ jar = None /\ rejected = FALSE
  BY <1>1, InitFacts DEF Init, NoFile
<1>3. Preferred = <<1, 0>>
  BY <1>2 DEF Preferred
<1> QED BY <1>2, <1>3 DEF NewestHeld, HeldHere

\* Of the first login, no interleaving of heartbeat, refresh, saves, unload and reload loses the
\* cookies the portal accepts, for any number of rotations and refreshes; a restart, a setup
\* that fails after it has contacted the portal and a rotation by a scheduled refresh after an
\* unload has read the cookies are the exceptions.
THEOREM NewestSessionKeptHolds == Spec => []NewestSessionKept
<1>1. TypeOK /\ NewestHeld /\ [Next]_vars => NewestHeld'
  BY NewestStep
<1>2. TypeOK /\ NewestHeld => NewestSessionKept
  <2> SUFFICES ASSUME TypeOK, NewestHeld, NEW c \in valid, c[1] = 1, restored = 1, ~broken
               PROVE  IF jar # None THEN c = jar ELSE c \in {disk.cookies, entry.cookies}
    BY DEF NewestSessionKept
  <2>1. c # None
    BY NoneAssumption DEF TypeOK
  <2> QED BY <2>1 DEF NewestHeld, HeldHere, Preferred
<1> QED BY <1>1, <1>2, NewestInit, TypeCorrect, PTL DEF Spec

-----------------------------------------------------------------------------
(* The order of logins *)

UpTo(cookies, login) == cookies # None => cookies[1] <= login

\* Nothing holds a later login than the last one the user made, which is what a flow has
\* validated.  An entry is of version 1 only before the first flow, and a setup that is about to
\* save has its cookies from the file, if there were any.
LoginOrder ==
  /\ UpTo(disk.cookies, logins) /\ UpTo(memory.cookies, logins) /\ UpTo(jar, logins)
  /\ UpTo(entry.cookies, logins) /\ UpTo(entrySaved.cookies, logins)
  /\ flow.step \in {"validated", "saving"} => flow.cookies[1] = logins
  /\ entry.version = 1 =>
       entrySaved.version = 1 /\ flow.step = "none" /\ entry.cookies # None
  /\ entrySaved.version = 1 => logins = 1 /\ entrySaved.cookies # None
  /\ phase = "saving" => jar # None /\ (memory.cookies # None => jar = memory.cookies)
  /\ phase # "not loaded" => entry.version = 2

\* An answer does not change the login of the client.
LEMMA AnswerLogin ==
  ASSUME TypeOK, UpTo(jar, logins), Accepted \/ Refused \/ Unanswered
  PROVE  UpTo(jar', logins) /\ logins' = logins
<1>1. jar' # None => jar # None /\ jar'[1] = jar[1]
  <2>1. CASE Accepted
    <3>1. jar \in Cookies
      BY <2>1 DEF Accepted, TypeOK
    <3> QED BY <2>1, <3>1, CookieType DEF Accepted
  <2>2. CASE Refused \/ Unanswered
    BY <2>2 DEF Refused, Unanswered
  <2> QED BY <2>1, <2>2
<1> QED BY <1>1, AnswerType DEF UpTo

\* Every step keeps the order of logins, and no step without a client puts an older one over
\* that of the file.
LEMMA LoginOrderStep ==
  ASSUME TypeOK, FlowCookies, LoginOrder, [Next]_vars
  PROVE  /\ LoginOrder'
         /\ /\ phase \notin {"loaded", "unloading", "detaching"} /\ refresh = "off"
            /\ disk.cookies # None
            /\ phase = "saving" => disk = memory
            => disk'.cookies # None /\ disk'.cookies[1] >= disk.cookies[1]
<1> DEFINE Kept == /\ phase \notin {"loaded", "unloading", "detaching"} /\ refresh = "off"
                   /\ disk.cookies # None
                   /\ phase = "saving" => disk = memory
                   => disk'.cookies # None /\ disk'.cookies[1] >= disk.cookies[1]
<1> SUFFICES LoginOrder' /\ Kept
  OBVIOUS
<1>n. logins \in Nat /\ \A c \in Cookies \cup {None} : c # None => c[1] \in Nat /\ c[1] >= 1
  <2>1. logins \in 1 .. MaxLogin /\ MaxLogin \in Nat
    BY BoundAssumption DEF TypeOK
  <2>2. \A c \in Cookies : c[1] \in 1 .. MaxLogin
    BY CookieType
  <2> QED BY ONLY <2>1, <2>2
<1>d. /\ disk.cookies \in Cookies \cup {None} /\ flow.cookies \in Cookies \cup {None}
      /\ entry.cookies \in Cookies \cup {None} /\ flow \in Flow
  BY FieldType DEF TypeOK
<1>k. disk'.cookies = disk.cookies => Kept
  BY <1>n, <1>d
<1> USE Fields DEF LoginOrder, UpTo
<1>1. CASE UNCHANGED <<entry, entrySaved, disk, memory, phase, jar, flow, logins>>
  BY <1>1, <1>k
<1>2. CASE Migrate
  <2>1. /\ disk'.cookies = entry.cookies /\ entry.cookies # None
        /\ entry'.version = 2 /\ entry'.cookies = None /\ phase' = "not loaded"
        /\ UNCHANGED <<entrySaved, memory, jar, flow, logins>>
    BY <1>2 DEF Migrate, clientVars, portalVars
  <2>2. logins = 1
    BY <1>2 DEF Migrate
  <2>3. Kept
    <3>1. disk.cookies # None => disk.cookies[1] <= 1
      BY <2>2
    <3>2. entry.cookies[1] >= 1 /\ entry.cookies[1] \in Nat
      BY <1>n, <1>d, <2>1
    <3>3. disk.cookies # None => disk.cookies[1] \in Nat
      BY <1>n, <1>d
    <3>4. disk'.cookies = entry.cookies
      BY <2>1
    <3>5. disk.cookies # None => disk'.cookies[1] >= disk.cookies[1]
      BY ONLY <3>1, <3>2, <3>3, <3>4
    <3> QED BY <2>1, <3>5
  <2>4. UpTo(disk'.cookies, logins') /\ UpTo(entry'.cookies, logins')
    <3>1. UpTo(entry.cookies, logins) /\ UpTo(None, logins)
      BY DEF LoginOrder, UpTo
    <3>2. disk'.cookies = entry.cookies /\ entry'.cookies = None /\ logins' = logins
      BY <2>1
    <3> QED BY ONLY <3>1, <3>2
  <2>5. entry'.version # 1
    <3>1. entry'.version = 2
      BY <2>1
    <3> QED BY ONLY <3>1
  <2>6. entrySaved'.version = 1 => logins' = 1 /\ entrySaved'.cookies # None
    BY <2>1, <2>2
  <2>7. phase' # "saving"
    BY <2>1
  <2>8. flow'.step \in {"validated", "saving"} => flow'.cookies[1] = logins'
    BY <2>1
  <2> QED BY <2>1, <2>3, <2>4, <2>5, <2>6, <2>7, <2>8
<1>3. CASE SetupLoad
  <2>1. /\ UNCHANGED <<entry, entrySaved, disk, flow, logins>> /\ memory' = disk
        /\ jar' = Preferred /\ phase' # "not loaded" /\ entry.version = 2
    BY <1>3 DEF SetupLoad, entryVars, portalVars
  <2>2. phase' = "saving" => jar' # None
    BY <1>3 DEF SetupLoad
  <2> QED BY <1>k, <2>1, <2>2 DEF Preferred
<1>4. CASE SetupSave
  <2>1. /\ disk'.cookies = jar /\ memory'.cookies = jar /\ jar # None /\ phase = "saving"
        /\ entry'.version = entry.version /\ entry'.cookies = None
        /\ phase' = "preparing" /\ UNCHANGED <<entrySaved, jar, flow, logins>>
    BY <1>4 DEF SetupSave, clientVars, portalVars
  <2>2. Kept
    BY <1>n, <1>d, <2>1
  <2> QED BY <2>1, <2>2
<1>5. CASE Prepare \/ HeartbeatRequest
  <2>1. /\ UNCHANGED <<entry, entrySaved, disk, memory>>
        /\ phase' \notin {"saving"} /\ phase # "not loaded"
        /\ Accepted \/ Refused \/ Unanswered
    BY <1>5 DEF Prepare, HeartbeatRequest, entryVars
  <2>2. UNCHANGED flow \/ flow'.step = "open"
    BY <1>5, <1>d DEF Prepare, HeartbeatRequest, AskForLogin, Flow
  <2>3. UpTo(jar', logins) /\ logins' = logins
    BY <2>1, AnswerLogin
  <2>0. entry.version = 2 /\ entry' = entry /\ entrySaved' = entrySaved
    BY <2>1
  <2>4. entry'.version = 2 /\ (entrySaved'.version = 1 => logins' = 1 /\ entrySaved'.cookies # None)
    BY <2>0, <2>3
  <2>5. flow'.step \in {"validated", "saving"} => flow'.cookies[1] = logins'
    BY <2>2, <2>3
  <2>6. entry'.version # 1 /\ phase' # "saving"
    <3>1. entry'.version # 1
      BY ONLY <2>4
    <3> QED BY <2>1, <3>1
  <2>7. UpTo(entry'.cookies, logins') /\ UpTo(entrySaved'.cookies, logins')
    BY <2>1, <2>3
  <2>8. UpTo(disk'.cookies, logins') /\ UpTo(memory'.cookies, logins') /\ UpTo(jar', logins')
    BY <2>1, <2>3
  <2> QED BY <1>k, <2>1, <2>4, <2>5, <2>6, <2>7, <2>8
<1>6. CASE RefreshRequest
  <2>1. /\ UNCHANGED <<entry, entrySaved, phase>> /\ phase \notin {"not loaded", "saving"}
        /\ refresh # "off"
        /\ Accepted \/ Refused \/ Unanswered
    BY <1>6 DEF RefreshRequest, RefreshRuns, entryVars
  <2>2. UNCHANGED flow \/ flow'.step = "open"
    BY <1>6, <1>d DEF RefreshRequest, AskForLogin, Flow
  <2>3. UpTo(jar', logins) /\ logins' = logins
    BY <2>1, AnswerLogin
  <2>4. UNCHANGED <<disk, memory>> \/ (disk' = memory' /\ memory'.cookies = memory.cookies)
    <3>1. \/ UNCHANGED <<disk, memory>>
          \/ disk' = memory' /\ memory' = [memory EXCEPT !.data = latest']
      BY <1>6 DEF RefreshRequest
    <3>2. [memory EXCEPT !.data = latest'].cookies = memory.cookies
      OBVIOUS
    <3> QED BY <3>1, <3>2
  <2>5. Kept
    BY <2>1
  <2>6. entry'.version = 2 /\ phase' # "saving"
    <3>1. entry.version = 2 /\ entry' = entry
      BY <2>1
    <3> QED BY <2>1, <3>1
  <2>7. UpTo(disk'.cookies, logins') /\ UpTo(memory'.cookies, logins')
    BY <2>3, <2>4
  <2>8. UpTo(entry'.cookies, logins') /\ UpTo(entrySaved'.cookies, logins')
    BY <2>1, <2>3
  <2>9. flow'.step \in {"validated", "saving"} => flow'.cookies[1] = logins'
    BY <2>2, <2>3
  <2>10. entrySaved'.version = 1 => logins' = 1 /\ entrySaved'.cookies # None
    BY <2>1, <2>3
  <2>11. entry'.version # 1
    BY ONLY <2>6
  <2> QED BY <2>3, <2>5, <2>6, <2>7, <2>8, <2>9, <2>10, <2>11
<1>7. CASE HeartbeatSave \/ RefreshSave \/ UnloadSave
  <2>1. /\ disk' = memory' /\ memory'.cookies = jar
        /\ phase # "not loaded" /\ phase' # "saving"
        /\ phase \in {"loaded", "unloading"} \/ refresh # "off"
        /\ UNCHANGED <<entry, entrySaved, jar, flow, logins>>
    BY <1>7 DEF HeartbeatSave, RefreshSave, RefreshRuns, UnloadSave, entryVars, clientVars,
                portalVars
  <2> QED BY <2>1
<1>8. CASE FlowSubmit
  <2>1. /\ logins' = logins + 1 /\ flow.step = "open" /\ entrySaved = entry
        /\ flow'.cookies[1] = logins' /\ UNCHANGED <<entry, entrySaved, disk, memory, phase, jar>>
    BY <1>8 DEF FlowSubmit, entryVars, clientVars
  <2>2. entry.version = 2
    BY <2>1
  <2>3. \A c \in Cookies \cup {None} : UpTo(c, logins) => UpTo(c, logins')
    BY ONLY <1>n, <2>1 DEF UpTo
  <2>4. /\ memory.cookies \in Cookies \cup {None} /\ jar \in Cookies \cup {None}
        /\ entrySaved.cookies \in Cookies \cup {None}
    BY FieldType DEF TypeOK
  <2> QED BY <1>k, <1>d, <2>1, <2>2, <2>3, <2>4
<1>9. CASE FlowLoad
  <2>1. /\ flow.step = "validated" /\ flow'.step = "saving" /\ flow'.cookies = flow.cookies
        /\ UNCHANGED <<entry, entrySaved, disk, memory, phase, jar, logins>>
    BY <1>9, <1>d DEF FlowLoad, Flow, entryVars, clientVars, portalVars
  <2> QED BY <1>k, <2>1
<1>10. CASE FlowSave
  <2>1. /\ flow.step = "saving" /\ flow'.step = "none"
        /\ disk'.cookies = flow.cookies /\ entry'.cookies = flow.cookies
        /\ entry'.version = entry.version
        /\ UNCHANGED <<entrySaved, memory, phase, jar, logins>>
    BY <1>10 DEF FlowSave, NoFlow, clientVars, portalVars
  <2>2. flow.cookies # None /\ flow.cookies[1] = logins /\ entry.version = 2
    BY <2>1 DEF FlowCookies
  <2> QED BY <1>n, <1>d, <2>1, <2>2
<1>11. CASE Retry \/ Unload \/ Detach
  <2>1. /\ UNCHANGED <<entry, entrySaved, disk, memory, flow, logins>>
        /\ phase' # "saving" /\ (phase' # "not loaded" => phase # "not loaded")
        /\ jar' = jar \/ jar' = None
    BY <1>11 DEF Retry, Unload, Detach, NoClient, entryVars, clientVars, portalVars
  <2> QED BY <1>k, <2>1
<1>12. CASE Flush
  <2>1. /\ UNCHANGED <<entry, disk, memory, phase, jar, flow, logins>> /\ entrySaved' = entry
    BY <1>12 DEF Flush, clientVars, portalVars
  <2> QED BY <1>k, <2>1
<1>13. CASE Restart
  <2>1. /\ UNCHANGED <<entrySaved, disk, logins>> /\ entry' = entrySaved
        /\ phase' = "not loaded" /\ jar' = None /\ memory'.cookies = None /\ flow'.step = "none"
    BY <1>13 DEF Restart, NoClient, NoFile, NoFlow, portalVars
  <2> QED BY <1>k, <2>1
<1>14. Expire \/ UserReload \/ UNCHANGED vars =>
         UNCHANGED <<entry, entrySaved, disk, memory, phase, jar, flow, logins>>
  BY DEF Expire, UserReload, vars, entryVars, clientVars, portalVars
<1> QED BY <1>1, <1>2, <1>3, <1>4, <1>5, <1>6, <1>7, <1>8, <1>9, <1>10, <1>11, <1>12, <1>13,
           <1>14 DEF Next

\* While no client lives, neither migration, nor setup, nor a flow replaces a stored login by an
\* older one, for any number of logins and restarts.
THEOREM StoredLoginKeptHolds == Spec => StoredLoginKept
<1>1. Init => LoginOrder
  <2> SUFFICES ASSUME Init PROVE LoginOrder
    OBVIOUS
  <2>1. PICK v \in {1, 2} : entry = [version |-> v, cookies |-> <<1, 0>>]
    BY DEF Init
  <2>2. /\ entry.cookies = <<1, 0>> /\ entrySaved = entry /\ logins = 1
        /\ disk.cookies = None /\ memory.cookies = None /\ jar = None
        /\ flow.step = "none" /\ phase = "not loaded"
    BY <2>1, InitFacts DEF Init, NoFile
  <2>3. entry.cookies # None
    BY <2>2, FirstLogin, NoneAssumption
  <2>4. <<1, 0>>[1] <= 1
    OBVIOUS
  <2> QED BY <2>2, <2>3, <2>4 DEF LoginOrder, UpTo
<1>2. Typed /\ LoginOrder /\ [Next]_vars =>
        /\ LoginOrder'
        /\ [/\ phase \notin {"loaded", "unloading", "detaching"} /\ refresh = "off"
            /\ disk.cookies # None
            /\ phase = "saving" => disk = memory
            => disk'.cookies # None /\ disk'.cookies[1] >= disk.cookies[1]]_vars
  BY LoginOrderStep DEF Typed
<1> QED BY <1>1, <1>2, TypeInvariance, PTL DEF Spec, StoredLoginKept

=============================================================================
