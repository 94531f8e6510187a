------------------------ MODULE EnergyKeyRequestsProofs ------------------------
(***************************************************************************)
(* Theorems about EnergyKeyClient, for any set of callers that call at any *)
(* time, and about EnergyKeyRequests, for any meters, views, chunks and    *)
(* limit of history requests: the client keeps its promises when a refresh *)
(* is cancelled with all its requests, a refresh stores nothing of a meter *)
(* that met a rejection, and no heartbeat waits for longer than the        *)
(* requests of one refresh allow.                                          *)
(***************************************************************************)
EXTENDS EnergyKeyRequests, SequenceTheorems, FiniteSetTheorems, TLAPS

-----------------------------------------------------------------------------
(* The client, whoever calls it *)

\* No caller waits twice for the lock.
WaitersDistinct ==
  \A i, j \in 1 .. Len(waiters) : waiters[i] = waiters[j] => i = j

IInv ==
  /\ TypeOK
  /\ LockHeldBySender
  /\ WaitersDistinct
  /\ QuietAfterRejection

\* Removing one element of a queue keeps the others, in order.
LEMMA RemoveAtProperties ==
  ASSUME NEW S, NEW s \in Seq(S), NEW i \in 1 .. Len(s)
  PROVE  /\ RemoveAt(s, i) \in Seq(S)
         /\ Len(RemoveAt(s, i)) = Len(s) - 1
         /\ \A j \in 1 .. Len(s) - 1 : RemoveAt(s, i)[j] = IF j < i THEN s[j] ELSE s[j + 1]
<1> DEFINE n == Len(s)
           before == SubSeq(s, 1, i - 1)
           after == SubSeq(s, i + 1, n)
<1>1. n \in Nat /\ i \in 1 .. n
  BY LenProperties
<1>2. /\ before \in Seq(S) /\ Len(before) = i - 1
      /\ \A j \in 1 .. i - 1 : before[j] = s[j]
  BY <1>1
<1>3. /\ after \in Seq(S) /\ Len(after) = n - i
      /\ \A j \in 1 .. n - i : after[j] = s[i + j]
  BY <1>1
<1>4. RemoveAt(s, i) = before \o after
  BY DEF RemoveAt
<1> HIDE DEF n, before, after
<1>5. /\ before \o after \in Seq(S)
      /\ Len(before \o after) = Len(before) + Len(after)
      /\ \A j \in 1 .. Len(before) + Len(after) :
           (before \o after)[j] = IF j <= Len(before) THEN before[j] ELSE after[j - Len(before)]
  BY <1>2, <1>3, ConcatProperties
<1>6. ASSUME NEW j \in 1 .. n - 1
      PROVE  (before \o after)[j] = IF j < i THEN s[j] ELSE s[j + 1]
  <2>1. CASE j < i
    <3>1. j \in 1 .. i - 1
      BY <1>1, <2>1
    <3> QED BY <1>1, <1>2, <1>3, <1>5, <2>1, <3>1
  <2>2. CASE ~(j < i)
    <3>1. j - (i - 1) \in 1 .. n - i /\ i + (j - (i - 1)) = j + 1
      BY <1>1, <2>2
    <3>2. (before \o after)[j] = after[j - (i - 1)]
      BY <1>1, <1>2, <1>3, <1>5, <2>2
    <3> QED BY <1>3, <2>2, <3>1, <3>2
  <2> QED BY <2>1, <2>2
<1>7. Len(before \o after) = n - 1
  BY <1>1, <1>2, <1>3, <1>5
<1> QED BY <1>4, <1>5, <1>6, <1>7 DEF n

\* The invariant holds of a new client.
LEMMA InitInv == Init => IInv
<1> SUFFICES ASSUME Init PROVE IInv
  OBVIOUS
<1>1. TypeOK
  <2>1. <<>> \in Seq(Caller)
    BY EmptySeq
  <2> QED BY <2>1 DEF Init, TypeOK, Outcome
<1>2. LockHeldBySender
  BY CallerAssumption DEF Init, LockHeldBySender
<1> QED BY <1>1, <1>2 DEF Init, IInv, WaitersDistinct, QuietAfterRejection

\* A caller that joins the queue keeps the invariant.
LEMMA CallInv ==
  ASSUME IInv, NEW c \in Caller, Call(c)
  PROVE  IInv'
<1>1. waiters \in Seq(Caller) /\ Len(waiters) \in Nat
  BY DEF IInv, TypeOK
<1>2. /\ waiters' \in Seq(Caller) /\ Len(waiters') = Len(waiters) + 1
      /\ \A i \in 1 .. Len(waiters) : waiters'[i] = waiters[i]
      /\ waiters'[Len(waiters) + 1] = c
  BY <1>1 DEF Call
<1>3. \A i \in 1 .. Len(waiters) : waiters[i] # c
  BY DEF IInv, LockHeldBySender, Call
<1>4. TypeOK'
  BY <1>2 DEF IInv, TypeOK, Call
<1>5. LockHeldBySender'
  <2>1. ASSUME NEW d \in Caller
        PROVE  pc'[d] = "waiting" <=> \E i \in 1 .. Len(waiters') : waiters'[i] = d
    <3>1. CASE d = c
      BY <1>1, <1>2, <3>1 DEF Call, IInv, TypeOK
    <3>2. CASE d # c
      <4>1. pc'[d] = pc[d]
        BY <3>2 DEF Call, IInv, TypeOK
      <4> QED BY <1>1, <1>2, <3>2, <4>1 DEF IInv, LockHeldBySender
    <3> QED BY <3>1, <3>2
  <2>2. \A d \in Caller : pc'[d] = "sent" <=> lock' = d
    BY DEF Call, IInv, TypeOK, LockHeldBySender
  <2> QED BY <2>1, <2>2 DEF LockHeldBySender
<1>6. WaitersDistinct'
  BY <1>1, <1>2, <1>3 DEF IInv, WaitersDistinct
<1>7. QuietAfterRejection'
  BY DEF IInv, QuietAfterRejection, TypeOK, Call
<1> QED BY <1>4, <1>5, <1>6, <1>7 DEF IInv

\* The head of the queue leaves it for a state that is not "waiting".
LEMMA AcquireInv ==
  ASSUME IInv, NEW c \in Caller, Acquire(c), NEW state \in {"sent", "done"},
         pc' = [pc EXCEPT ![c] = state],
         lock' = IF state = "sent" THEN c ELSE lock
  PROVE  waiters' \in Seq(Caller) /\ LockHeldBySender' /\ WaitersDistinct'
<1>1. waiters \in Seq(Caller) /\ Len(waiters) \in Nat \ {0} /\ waiters[1] = c
  BY DEF IInv, TypeOK, Acquire
<1>2. /\ waiters' \in Seq(Caller) /\ Len(waiters') = Len(waiters) - 1
      /\ \A i \in 1 .. Len(waiters) - 1 : waiters'[i] = waiters[i + 1]
  BY <1>1 DEF Acquire
<1>3. pc \in [Caller -> {"idle", "waiting", "sent", "done"}] /\ pc[c] = "waiting"
  BY <1>1 DEF IInv, TypeOK, LockHeldBySender
<1>4. WaitersDistinct'
  BY <1>1, <1>2 DEF IInv, WaitersDistinct
<1>5. \A d \in Caller : pc'[d] = "sent" <=> lock' = d
  BY <1>3, CallerAssumption DEF IInv, LockHeldBySender, Acquire
<1>6. ASSUME NEW d \in Caller
      PROVE  pc'[d] = "waiting" <=> \E i \in 1 .. Len(waiters') : waiters'[i] = d
  <2>1. CASE d = c
    <3>1. \A i \in 1 .. Len(waiters') : waiters'[i] # c
      BY <1>1, <1>2 DEF IInv, WaitersDistinct
    <3> QED BY <1>3, <2>1, <3>1
  <2>2. CASE d # c
    <3>1. pc'[d] = pc[d]
      BY <1>3, <2>2
    <3>2. (\E i \in 1 .. Len(waiters) : waiters[i] = d)
            <=> \E i \in 1 .. Len(waiters') : waiters'[i] = d
      <4>1. ASSUME NEW i \in 1 .. Len(waiters), waiters[i] = d
            PROVE  \E j \in 1 .. Len(waiters') : waiters'[j] = d
        <5>1. i - 1 \in 1 .. Len(waiters') /\ waiters'[i - 1] = d
          BY <1>1, <1>2, <2>2, <4>1
        <5> QED BY <5>1
      <4>2. ASSUME NEW i \in 1 .. Len(waiters'), waiters'[i] = d
            PROVE  \E j \in 1 .. Len(waiters) : waiters[j] = d
        <5>1. i + 1 \in 1 .. Len(waiters) /\ waiters[i + 1] = d
          BY <1>1, <1>2, <4>2
        <5> QED BY <5>1
      <4> QED BY <4>1, <4>2
    <3> QED BY <3>1, <3>2 DEF IInv, LockHeldBySender
  <2> QED BY <2>1, <2>2
<1> QED BY <1>2, <1>4, <1>5, <1>6 DEF LockHeldBySender

\* The sender lets go of the lock.
LEMMA FinishInv ==
  ASSUME IInv, NEW c \in Caller, NEW result \in Outcome, Finish(c, result),
         rejected' \in BOOLEAN
  PROVE  IInv'
<1>1. pc \in [Caller -> {"idle", "waiting", "sent", "done"}]
  BY DEF IInv, TypeOK
<1>2. pc' = [pc EXCEPT ![c] = "done"] /\ pc[c] = "sent" /\ lock' = Nobody /\ lock = c
  BY DEF Finish, IInv, LockHeldBySender
<1>3. \A d \in Caller : pc'[d] # "sent"
  BY <1>1, <1>2 DEF IInv, LockHeldBySender
<1>4. \A d \in Caller : pc'[d] = "waiting" <=> pc[d] = "waiting"
  BY <1>1, <1>2
<1>5. TypeOK'
  BY <1>2 DEF IInv, TypeOK, Finish
<1>6. LockHeldBySender'
  BY <1>2, <1>3, <1>4, CallerAssumption DEF IInv, LockHeldBySender, Finish
<1> QED BY <1>3, <1>5, <1>6 DEF IInv, WaitersDistinct, QuietAfterRejection, Finish

\* A waiter that is cancelled leaves the queue for good.
LEMMA CancelWaitingInv ==
  ASSUME IInv, NEW c \in Caller, CancelWaiting(c)
  PROVE  IInv'
<1>1. waiters \in Seq(Caller) /\ Len(waiters) \in Nat
      /\ pc \in [Caller -> {"idle", "waiting", "sent", "done"}]
  BY DEF IInv, TypeOK
<1>2. PICK i \in 1 .. Len(waiters) : waiters[i] = c /\ waiters' = RemoveAt(waiters, i)
  BY DEF CancelWaiting
<1>3. /\ waiters' \in Seq(Caller) /\ Len(waiters') = Len(waiters) - 1
      /\ \A j \in 1 .. Len(waiters) - 1 :
           waiters'[j] = IF j < i THEN waiters[j] ELSE waiters[j + 1]
  BY <1>1, <1>2, RemoveAtProperties
<1>4. WaitersDistinct'
  <2>1. ASSUME NEW j \in 1 .. Len(waiters'), NEW k \in 1 .. Len(waiters'),
               waiters'[j] = waiters'[k]
        PROVE  j = k
    BY <1>1, <1>3, <2>1 DEF IInv, WaitersDistinct
  <2> QED BY <2>1 DEF WaitersDistinct
<1>5. pc' = [pc EXCEPT ![c] = "done"] /\ pc[c] = "waiting" /\ UNCHANGED <<lock, rejected>>
  BY DEF CancelWaiting
<1>6. \A d \in Caller : pc'[d] = "sent" <=> lock' = d
  BY <1>1, <1>5 DEF IInv, LockHeldBySender
<1>7. ASSUME NEW d \in Caller
      PROVE  pc'[d] = "waiting" <=> \E j \in 1 .. Len(waiters') : waiters'[j] = d
  <2>1. CASE d = c
    <3>1. \A j \in 1 .. Len(waiters') : waiters'[j] # c
      BY <1>1, <1>2, <1>3 DEF IInv, WaitersDistinct
    <3> QED BY <1>1, <1>5, <2>1, <3>1
  <2>2. CASE d # c
    <3>1. pc'[d] = pc[d]
      BY <1>1, <1>5, <2>2
    <3>2. ASSUME NEW j \in 1 .. Len(waiters), waiters[j] = d
          PROVE  \E k \in 1 .. Len(waiters') : waiters'[k] = d
      <4>1. CASE j < i
        <5>1. j \in 1 .. Len(waiters') /\ waiters'[j] = d
          BY <1>1, <1>3, <3>2, <4>1
        <5> QED BY <5>1
      <4>2. CASE ~(j < i)
        <5>1. j # i
          BY <1>2, <2>2, <3>2
        <5>2. j - 1 \in 1 .. Len(waiters') /\ waiters'[j - 1] = d
          BY <1>1, <1>3, <3>2, <4>2, <5>1
        <5> QED BY <5>2
      <4> QED BY <4>1, <4>2
    <3>3. ASSUME NEW j \in 1 .. Len(waiters'), waiters'[j] = d
          PROVE  \E k \in 1 .. Len(waiters) : waiters[k] = d
      <4>1. j \in 1 .. Len(waiters) /\ j + 1 \in 1 .. Len(waiters)
        BY <1>1, <1>3
      <4> QED BY <1>3, <3>3, <4>1
    <3> QED BY <3>1, <3>2, <3>3 DEF IInv, LockHeldBySender
  <2> QED BY <2>1, <2>2
<1>8. TypeOK'
  BY <1>3, <1>5 DEF IInv, TypeOK, CancelWaiting, Outcome
<1>9. QuietAfterRejection'
  BY <1>1, <1>5 DEF IInv, QuietAfterRejection
<1> QED BY <1>4, <1>6, <1>7, <1>8, <1>9 DEF IInv, LockHeldBySender

\* Taking the result disturbs neither the lock nor the queue.
LEMMA ReturnInv ==
  ASSUME IInv, NEW c \in Caller, Return(c)
  PROVE  IInv'
<1>1. pc \in [Caller -> {"idle", "waiting", "sent", "done"}]
  BY DEF IInv, TypeOK
<1>2. \A d \in Caller : (pc'[d] = "sent" <=> pc[d] = "sent")
                        /\ (pc'[d] = "waiting" <=> pc[d] = "waiting")
  BY <1>1 DEF Return
<1>3. UNCHANGED <<lock, waiters, rejected>>
  BY DEF Return
<1>4. TypeOK'
  BY <1>1, <1>3 DEF IInv, TypeOK, Return, Outcome
<1>5. LockHeldBySender'
  BY <1>2, <1>3 DEF IInv, LockHeldBySender
<1> QED BY <1>2, <1>3, <1>4, <1>5 DEF IInv, WaitersDistinct, QuietAfterRejection

\* Every step of a caller keeps the invariant.
LEMMA StepInv ==
  ASSUME IInv, NEW c \in Caller, Step(c)
  PROVE  IInv'
<1>1. CASE Call(c)
  BY <1>1, CallInv
<1>2. CASE Refuse(c)
  <2>1. waiters' \in Seq(Caller) /\ LockHeldBySender' /\ WaitersDistinct'
    BY <1>2, AcquireInv DEF Refuse
  <2>2. TypeOK'
    BY <1>2, <2>1 DEF Refuse, IInv, TypeOK, Outcome
  <2>3. QuietAfterRejection'
    BY <1>2 DEF Refuse, IInv, QuietAfterRejection, TypeOK
  <2> QED BY <2>1, <2>2, <2>3 DEF IInv
<1>3. CASE Send(c)
  <2>1. waiters' \in Seq(Caller) /\ LockHeldBySender' /\ WaitersDistinct'
    BY <1>3, AcquireInv DEF Send
  <2>2. TypeOK'
    BY <1>3, <2>1 DEF Send, IInv, TypeOK
  <2> QED BY <1>3, <2>1, <2>2 DEF IInv, Send, QuietAfterRejection
<1>4. CASE Reject(c) \/ HeartbeatRefused(c)
  BY <1>4, FinishInv DEF Reject, HeartbeatRefused, Outcome
<1>5. CASE Answer(c)
  BY <1>5, FinishInv DEF Answer, Outcome, IInv, TypeOK
<1>6. CASE Fail(c)
  BY <1>6, FinishInv DEF Fail, Error, Outcome, IInv, TypeOK
<1>7. CASE Timeout(c) \/ CancelSent(c)
  BY <1>7, FinishInv DEF Timeout, CancelSent, Outcome, IInv, TypeOK
<1>8. CASE CancelWaiting(c)
  BY <1>8, CancelWaitingInv
<1>9. CASE Return(c)
  BY <1>9, ReturnInv
<1> QED
  BY <1>1, <1>2, <1>3, <1>4, <1>5, <1>6, <1>7, <1>8, <1>9 DEF Step

\* Every step, and every stutter, keeps the invariant.
LEMMA NextInv == IInv /\ [Next]_vars => IInv'
<1>1. CASE UNCHANGED vars
  BY <1>1 DEF vars, IInv, TypeOK, LockHeldBySender, WaitersDistinct, QuietAfterRejection
<1> QED BY <1>1, StepInv DEF Next

\* The inductive invariant: types, the lock and its queue, and the quiet after a rejection.
THEOREM Invariance == Spec => []IInv
BY InitInv, NextInv, PTL DEF Spec

\* A rejected session has no request on the wire, whatever was queued, timed out or
\* cancelled around the rejection.
THEOREM Quiet == Spec => []QuietAfterRejection
<1>1. IInv => QuietAfterRejection
  BY DEF IInv
<1> QED BY <1>1, Invariance, PTL

\* The lock is held by the one caller with a request on the wire, and its queue holds
\* exactly the callers that wait.
THEOREM LockDiscipline == Spec => []LockHeldBySender
<1>1. IInv => LockHeldBySender
  BY DEF IInv
<1> QED BY <1>1, Invariance, PTL

\* The client's variables keep their types, whatever the order of calls, answers and
\* cancellations.
THEOREM TypeCorrect == Spec => []TypeOK
<1>1. IInv => TypeOK
  BY DEF IInv
<1> QED BY <1>1, Invariance, PTL

\* What a step tells a caller after a rejection.
FinalStep ==
  rejected => /\ rejected'
              /\ \A c \in Caller : pc[c] # "done" /\ pc'[c] = "done"
                                     => outcome'[c] \in {"auth", "cancelled"}

\* A caller is refused or cancelled once the session is rejected: there is no request left
\* that could end otherwise.
LEMMA StepFinal ==
  ASSUME IInv, NEW c \in Caller, Step(c)
  PROVE  FinalStep
<1> SUFFICES ASSUME rejected
             PROVE  /\ rejected'
                    /\ \A d \in Caller : pc[d] # "done" /\ pc'[d] = "done"
                                           => outcome'[d] \in {"auth", "cancelled"}
  BY DEF FinalStep
<1>1. pc[c] # "sent"
  BY DEF IInv, QuietAfterRejection
<1>2. Call(c) \/ Refuse(c) \/ CancelWaiting(c) \/ Return(c)
  BY <1>1
  DEF Step, Send, Reject, HeartbeatRefused, Answer, Fail, Timeout, CancelSent, Finish
<1> QED BY <1>2 DEF IInv, TypeOK, Call, Refuse, CancelWaiting, Return

\* After a rejection every caller learns of the rejection, in the queue as in a new call.
THEOREM RejectionIsFinalHolds == Spec => RejectionIsFinal
<1>1. IInv /\ [Next]_vars => [FinalStep]_vars
  BY StepFinal DEF Next
<1> QED BY <1>1, Invariance, PTL DEF Spec, RejectionIsFinal, FinalStep

-----------------------------------------------------------------------------
(* The client implements the gate *)

\* A new client is an open gate with nothing on the wire.
LEMMA InitGate == Init => Gate!Init
BY DEF Init, Gate!Init

\* A step of a caller is a step of the gate or does not show there.
LEMMA StepGate ==
  ASSUME IInv, NEW c \in Caller, Step(c)
  PROVE  Gate!Next \/ UNCHANGED Gate!vars
<1> DEFINE wire == {d \in Caller : pc[d] = "sent"}
<1>1. pc \in [Caller -> {"idle", "waiting", "sent", "done"}] /\ rejected \in BOOLEAN
  BY DEF IInv, TypeOK
<1>2. \A d \in Caller : pc[d] = "sent" <=> lock = d
  BY DEF IInv, LockHeldBySender
<1>3. CASE Call(c) \/ Refuse(c) \/ CancelWaiting(c) \/ Return(c)
  <2>1. \A d \in Caller : pc'[d] = "sent" <=> pc[d] = "sent"
    <3>1. CASE Refuse(c)
      <4>1. pc[c] # "sent"
        BY <1>2, <3>1, CallerAssumption DEF Refuse, Acquire
      <4> QED BY <1>1, <3>1, <4>1 DEF Refuse
    <3> QED BY <1>1, <1>3, <3>1 DEF Call, CancelWaiting, Return
  <2>2. UNCHANGED <<wire, rejected>>
    BY <1>3, <2>1 DEF Call, Refuse, CancelWaiting, Return
  <2> QED BY <2>2 DEF Gate!vars
<1>4. CASE Send(c)
  <2>1. wire = {}
    BY <1>2, <1>4, CallerAssumption DEF Send, Acquire
  <2>2. wire' = {c}
    BY <1>1, <1>4, <2>1 DEF Send
  <2>3. ~rejected /\ UNCHANGED rejected
    BY <1>4 DEF Send
  <2> QED BY <2>1, <2>2, <2>3 DEF Gate!Next, Gate!Enter
<1>5. CASE \E result \in Outcome : Finish(c, result) /\ (UNCHANGED rejected \/ rejected' = TRUE)
  <2>1. wire = {c}
    BY <1>2, <1>5 DEF Finish
  <2>2. wire' = {}
    BY <1>1, <1>5, <2>1 DEF Finish
  <2>3. (~rejected') \in {~rejected, FALSE}
    <3>1. CASE UNCHANGED rejected
      BY <3>1
    <3>2. CASE rejected' = TRUE
      BY <3>2
    <3> QED BY <1>5, <3>1, <3>2
  <2>4. Gate!Leave(c)
    BY <2>1, <2>2, <2>3 DEF Gate!Leave
  <2> QED BY <2>4 DEF Gate!Next
<1>6. CASE \/ Reject(c) \/ HeartbeatRefused(c) \/ Answer(c) \/ Fail(c) \/ Timeout(c) \/ CancelSent(c)
  BY <1>5, <1>6 DEF Reject, HeartbeatRefused, Answer, Fail, Timeout, CancelSent, Error, Outcome
<1> QED BY <1>3, <1>4, <1>6 DEF Step

\* Every behaviour of the client is one of the gate: one request at a time, none after
\* a rejection.
THEOREM Refinement == Spec => ImplementsGate
<1>1. IInv /\ [Next]_vars => [Gate!Next]_(Gate!vars)
  <2>1. CASE UNCHANGED vars
    BY <2>1 DEF vars, Gate!vars
  <2>2. ASSUME IInv, NEW c \in Caller, Step(c)
        PROVE  [Gate!Next]_(Gate!vars)
    BY <2>2, StepGate
  <2> QED BY <2>1, <2>2 DEF Next
<1> QED BY <1>1, InitGate, Invariance, PTL DEF Spec, Gate!Spec, ImplementsGate

-----------------------------------------------------------------------------
(* The client under its callers *)

\* The requests of a refresh are callers of the client.
LEMMA Callers ==
  /\ \A v \in View : <<v, 0>> \in Caller
  /\ Chunk \subseteq Caller /\ Heartbeat \subseteq Caller
BY RequestAssumption DEF Recent

\* Whatever its callers do, the client makes a step of its own or stands still.
LEMMA ClientSteps ==
  ASSUME [RequestsNext]_allVars
  PROVE  [Next]_vars
<1>1. ASSUME NEW c \in Caller, Serve(c) PROVE Next
  BY <1>1 DEF Serve, Next, Step
<1>2. ASSUME NEW h \in Heartbeat, Beat(h) \/ BeatReturns(h) \/ CancelBeat(h) PROVE Next
  BY <1>2, Callers DEF Beat, BeatReturns, CancelBeat, Next, Step
<1>3. ASSUME NEW h \in Heartbeat, CancelSleeping(h) PROVE UNCHANGED vars
  BY <1>3 DEF CancelSleeping
<1>4. ASSUME StartRefresh \/ EndRefresh \/ Stop \/ CancelRefresh PROVE UNCHANGED vars
  BY <1>4 DEF StartRefresh, EndRefresh, Stop, CancelRefresh
<1>5. ASSUME NEW v \in View, AskRecent(v) \/ RecentReturns(v) PROVE Next
  BY <1>5, Callers DEF AskRecent, RecentReturns, TakeResult, Next, Step
<1>6. ASSUME NEW v \in View, EndView(v) PROVE UNCHANGED vars
  BY <1>6 DEF EndView
<1>7. ASSUME NEW r \in Chunk, AskChunk(r) \/ ChunkReturns(r) PROVE Next
  BY <1>7, Callers DEF AskChunk, ChunkReturns, TakeResult, Next, Step
<1>8. ASSUME NEW r \in Recent \cup Chunk, CancelRequest(r) PROVE Next
  BY <1>8, RequestAssumption DEF CancelRequest, Next, Step
<1>9. ASSUME UNCHANGED allVars PROVE UNCHANGED vars
  BY <1>9 DEF allVars
<1> QED BY <1>1, <1>2, <1>3, <1>4, <1>5, <1>6, <1>7, <1>8, <1>9 DEF RequestsNext

\* A refresh, its cancellation and the heartbeats use the client as any callers may: what
\* holds of the client, whoever calls it, holds beneath them.
THEOREM RequestsImplementClient == RequestsSpec => Spec
<1>1. RequestsInit => Init
  BY DEF RequestsInit
<1> QED BY <1>1, ClientSteps, PTL DEF RequestsSpec, Spec

\* The client's invariant holds beneath its callers.
THEOREM RequestsInvariance == RequestsSpec => []IInv
BY RequestsImplementClient, Invariance, PTL

\* Nothing is on the wire after a rejection, with a refresh and its history requests around it.
THEOREM RequestsQuiet == RequestsSpec => []QuietAfterRejection
BY RequestsImplementClient, Quiet, PTL

\* The lock and its queue fit the requests of a heartbeat and a refresh, cancelled ones too.
THEOREM RequestsLockDiscipline == RequestsSpec => []LockHeldBySender
BY RequestsImplementClient, LockDiscipline, PTL

\* Every request of a refresh learns of the rejection, or is cancelled.
THEOREM RequestsRejectionIsFinal == RequestsSpec => RejectionIsFinal
BY RequestsImplementClient, RejectionIsFinalHolds, PTL

\* The client with its callers is the gate: one request at a time, none after a rejection.
THEOREM RequestsRefinement == RequestsSpec => ImplementsGate
BY RequestsImplementClient, Refinement, PTL

-----------------------------------------------------------------------------
(* A refresh that met a rejection *)

RefreshTyped ==
  /\ refresh \in {"none", "running", "stored", "failed", "auth", "cancelled"}
  /\ stage \in [View -> {"none", "due", "recent", "chunks", "ended"}]
  /\ plan \subseteq Meter /\ refreshed \in BOOLEAN
  /\ fetched \in [View -> {"ok", "auth", "protocol", "error"}]
  /\ queued \subseteq Chunk /\ met \subseteq Recent \cup Chunk

\* Between refreshes nothing is asked; in a refresh each view of a planned meter asks for its
\* recent days first, and then for the chunks.
AskedInOrder ==
  /\ refresh \in {"none", "stored", "failed"} =>
       /\ queued = {}
       /\ \A r \in Recent \cup Chunk : pc[r] = "idle"
  /\ refresh = "running" =>
       /\ \A v \in View : /\ pc[<<v, 0>>] # "idle" => stage[v] = "recent"
                          /\ stage[v] # "none" => v[1] \in plan
       /\ \A r \in Chunk : pc[r] # "idle" \/ r \in queued => stage[r[1]] = "chunks"

\* The view whose request met a rejection remembers it to the end of the refresh.
MetRemembered ==
  /\ refresh # "running" => met = {}
  /\ \A r \in met : fetched[r[1]] = "auth" /\ stage[r[1]] \notin {"none", "due", "recent"}

RefreshInv == RefreshTyped /\ AskedInOrder /\ MetRemembered

\* What a request belongs to.
LEMMA RequestParts ==
  /\ \A v \in View : v[1] \in Meter /\ v[2] \in DOMAIN Position /\ v = <<v[1], v[2]>>
  /\ \A v \in View : <<v, 0>> \in Recent \cap Caller
  /\ \A r \in Recent : r[1] \in View /\ r = <<r[1], 0>>
  /\ \A r \in Chunk : r[1] \in View /\ r[2] \in Nat \ {0} /\ r = <<r[1], r[2]>>
  /\ Recent \cup Chunk \subseteq Caller /\ Heartbeat \subseteq Caller
  /\ Heartbeat \cap (Recent \cup Chunk) = {}
BY RequestAssumption, ViewAssumption DEF Recent

\* A step that leaves the refresh alone, and makes no request of it and ends none.
LEMMA RefreshKept ==
  ASSUME RefreshInv, UNCHANGED <<refresh, plan, refreshed, stage, fetched, queued, met>>,
         \A r \in Recent \cup Chunk : pc'[r] = "idle" <=> pc[r] = "idle"
  PROVE  RefreshInv'
<1>1. AskedInOrder'
  BY RequestParts DEF RefreshInv, AskedInOrder
<1> QED BY <1>1 DEF RefreshInv, RefreshTyped, MetRemembered

\* A request that is served, or cancelled, is still one its caller waits for.
LEMMA ServedStaysAsked ==
  ASSUME IInv, NEW c \in Caller,
         \/ Refuse(c) \/ Send(c) \/ Reject(c) \/ HeartbeatRefused(c) \/ Answer(c) \/ Fail(c) \/ Timeout(c)
         \/ CancelWaiting(c) \/ CancelSent(c)
  PROVE  \A d \in Caller : pc'[d] = "idle" <=> pc[d] = "idle"
<1>1. pc \in [Caller -> {"idle", "waiting", "sent", "done"}]
  BY DEF IInv, TypeOK
<1>2. CASE Refuse(c) \/ Send(c)
  <2>1. waiters \in Seq(Caller) /\ waiters # <<>> /\ c = Head(waiters)
    BY <1>2 DEF Refuse, Send, Acquire, IInv, TypeOK
  <2>2. 1 \in 1 .. Len(waiters) /\ waiters[1] = c
    BY <2>1
  <2>3. pc[c] = "waiting"
    BY <2>2 DEF IInv, LockHeldBySender
  <2> QED BY <1>1, <1>2, <2>3 DEF Refuse, Send
<1>3. CASE CancelWaiting(c)
  BY <1>1, <1>3 DEF CancelWaiting
<1>4. CASE \E result \in Outcome : Finish(c, result)
  BY <1>1, <1>4 DEF Finish
<1>5. CASE Reject(c) \/ HeartbeatRefused(c) \/ Answer(c) \/ Fail(c) \/ Timeout(c) \/ CancelSent(c)
  BY <1>4, <1>5 DEF Reject, HeartbeatRefused, Answer, Fail, Timeout, CancelSent, Error, Outcome
<1> QED BY <1>2, <1>3, <1>5

\* Every step keeps the order of the requests and what the views remember.
LEMMA RefreshStep == IInv /\ RefreshInv /\ [RequestsNext]_allVars => RefreshInv'
<1> SUFFICES ASSUME IInv, RefreshInv, [RequestsNext]_allVars PROVE RefreshInv'
  OBVIOUS
<1>p. pc \in [Caller -> {"idle", "waiting", "sent", "done"}]
  BY DEF IInv, TypeOK
<1>1. ASSUME NEW c \in Caller, Serve(c) PROVE RefreshInv'
  <2>1. \A d \in Caller : pc'[d] = "idle" <=> pc[d] = "idle"
    BY <1>1, ServedStaysAsked DEF Serve
  <2> QED BY <1>1, <2>1, RequestParts, RefreshKept DEF Serve, requestVars, refreshVars, planVars
<1>2. ASSUME NEW h \in Heartbeat, Beat(h) \/ BeatReturns(h) PROVE RefreshInv'
  <2>1. \A r \in Recent \cup Chunk : pc'[r] = pc[r]
    BY <1>2, <1>p, RequestParts DEF Beat, BeatReturns, Call, Return
  <2> QED BY <1>2, <2>1, RefreshKept DEF Beat, BeatReturns, requestVars, refreshVars, planVars
<1>3. ASSUME NEW h \in Heartbeat, CancelBeat(h) PROVE RefreshInv'
  <2>1. \A d \in Caller : pc'[d] = "idle" <=> pc[d] = "idle"
    BY <1>3, RequestParts, ServedStaysAsked DEF CancelBeat
  <2> QED BY <1>3, <2>1, RequestParts, RefreshKept DEF CancelBeat, requestVars, refreshVars, planVars
<1>4. ASSUME Stop \/ \E h \in Heartbeat : CancelSleeping(h) PROVE RefreshInv'
  BY <1>4, RefreshKept DEF Stop, CancelSleeping, vars, refreshVars, planVars
<1>5. ASSUME StartRefresh PROVE RefreshInv'
  <2>1. \A r \in Recent \cup Chunk : pc'[r] = "idle"
    BY <1>5 DEF StartRefresh, RefreshInv, AskedInOrder, vars
  <2>2. queued' = {} /\ met' = {} /\ refresh' = "running"
    BY <1>5 DEF StartRefresh, RefreshInv, AskedInOrder, MetRemembered
  <2>3. \A v \in View : stage'[v] # "none" => v[1] \in plan'
    BY <1>5 DEF StartRefresh, planVars
  <2>4. RefreshTyped'
    BY <1>5, <2>2 DEF StartRefresh, RefreshInv, RefreshTyped, planVars
  <2> QED BY <2>1, <2>2, <2>3, <2>4, RequestParts DEF RefreshInv, AskedInOrder, MetRemembered
<1>6. ASSUME NEW v \in View, AskRecent(v) PROVE RefreshInv'
  <2>1. /\ refresh = "running" /\ stage[v] = "due"
        /\ UNCHANGED <<refresh, plan, refreshed, fetched, queued, met>>
        /\ stage' = [stage EXCEPT ![v] = "recent"]
        /\ pc' = [pc EXCEPT ![<<v, 0>>] = "waiting"]
    BY <1>6 DEF AskRecent, Call, planVars
  <2>2. RefreshTyped'
    BY <2>1 DEF RefreshInv, RefreshTyped
  <2>3. \A r \in Chunk : pc'[r] = pc[r] /\ (stage[r[1]] = "chunks" => stage'[r[1]] = "chunks")
    BY <1>p, <2>1, RequestParts DEF RefreshInv, RefreshTyped
  <2>4. AskedInOrder'
    BY <1>p, <2>1, <2>3, RequestParts DEF RefreshInv, RefreshTyped, AskedInOrder
  <2>5. MetRemembered'
    BY <2>1, RequestParts DEF RefreshInv, RefreshTyped, MetRemembered
  <2> QED BY <2>2, <2>4, <2>5 DEF RefreshInv
<1>7. ASSUME NEW v \in View, RecentReturns(v) PROVE RefreshInv'
  <2>1. /\ refresh = "running" /\ refresh' = "running" /\ UNCHANGED <<plan, refreshed>>
        /\ pc[<<v, 0>>] = "done" /\ pc' = [pc EXCEPT ![<<v, 0>>] = "idle"]
        /\ met' \subseteq met \cup {<<v, 0>>}
        /\ outcome[<<v, 0>>] # "auth" => met' = met
    BY <1>7 DEF RecentReturns, TakeResult, Return, planVars
  <2>2. stage[v] = "recent" /\ v[1] \in plan
    BY <2>1 DEF RefreshInv, AskedInOrder
  <2>3. \A r \in met : r[1] # v
    BY <2>2 DEF RefreshInv, MetRemembered
  <2>4. \A r \in Chunk : r[1] = v => pc[r] = "idle" /\ r \notin queued
    BY <2>1, <2>2 DEF RefreshInv, AskedInOrder
  <2>5. met' \subseteq Recent \cup Chunk
    BY <2>1, RequestParts DEF RefreshInv, RefreshTyped
  <2>6. \A r \in Chunk : pc'[r] = pc[r]
    BY <1>p, <2>1, RequestParts
  <2>7. CASE /\ outcome[<<v, 0>>] = "ok"
             /\ \E missing \in SUBSET ChunksOf(v) : queued' = queued \cup missing
             /\ stage' = [stage EXCEPT ![v] = "chunks"] /\ fetched' = fetched
    <3>1. PICK missing \in SUBSET ChunksOf(v) : queued' = queued \cup missing
      BY <2>7
    <3>2. \A r \in missing : r \in Chunk /\ r[1] = v
      BY DEF ChunksOf
    <3>3. RefreshTyped'
      BY <2>1, <2>5, <2>7, <3>1, <3>2 DEF RefreshInv, RefreshTyped
    <3>4. \A r \in Chunk : r[1] # v /\ r \in queued' => r \in queued
      BY <3>1, <3>2
    <3>5. AskedInOrder'
      BY <1>p, <2>1, <2>2, <2>6, <2>7, <3>4, RequestParts DEF RefreshInv, RefreshTyped, AskedInOrder
    <3>6. MetRemembered'
      BY <2>1, <2>3, <2>7, RequestParts DEF RefreshInv, RefreshTyped, MetRemembered
    <3> QED BY <3>3, <3>5, <3>6 DEF RefreshInv
  <2>8. CASE /\ fetched' = [fetched EXCEPT ![v] = RecentError(outcome[<<v, 0>>])]
             /\ stage' = [stage EXCEPT ![v] = "ended"] /\ queued' = queued
    <3>1. RecentError(outcome[<<v, 0>>]) \in {"ok", "auth", "protocol", "error"}
          /\ (outcome[<<v, 0>>] = "auth" => RecentError(outcome[<<v, 0>>]) = "auth")
      BY DEF RecentError
    <3>2. RefreshTyped'
      BY <2>1, <2>5, <2>8, <3>1 DEF RefreshInv, RefreshTyped
    <3>3. AskedInOrder'
      BY <1>p, <2>1, <2>2, <2>4, <2>6, <2>8, RequestParts DEF RefreshInv, RefreshTyped, AskedInOrder
    <3>4. MetRemembered'
      BY <2>1, <2>3, <2>8, <3>1, RequestParts DEF RefreshInv, RefreshTyped, MetRemembered
    <3> QED BY <3>2, <3>3, <3>4 DEF RefreshInv
  <2> QED BY <1>7, <2>7, <2>8 DEF RecentReturns
<1>8. ASSUME NEW r \in Chunk, AskChunk(r) PROVE RefreshInv'
  <2>1. /\ refresh = "running" /\ r \in queued
        /\ UNCHANGED <<refresh, plan, refreshed, stage, fetched, met>>
        /\ queued' = queued \ {r}
        /\ pc' = [pc EXCEPT ![r] = "waiting"]
    BY <1>8 DEF AskChunk, Call, planVars
  <2>2. stage[r[1]] = "chunks"
    BY <2>1 DEF RefreshInv, AskedInOrder
  <2>3. \A v \in View : <<v, 0>> # r
    BY RequestParts
  <2>4. RefreshTyped'
    BY <2>1 DEF RefreshInv, RefreshTyped
  <2>5. AskedInOrder'
    BY <1>p, <2>1, <2>2, <2>3, RequestParts DEF RefreshInv, RefreshTyped, AskedInOrder
  <2> QED BY <2>1, <2>4, <2>5 DEF RefreshInv, MetRemembered
<1>9. ASSUME NEW r \in Chunk, ChunkReturns(r) PROVE RefreshInv'
  <2>1. /\ refresh = "running" /\ UNCHANGED <<refresh, plan, refreshed, stage, queued>>
        /\ pc[r] = "done" /\ pc' = [pc EXCEPT ![r] = "idle"]
        /\ met' = IF outcome[r] = "auth" THEN met \cup {r} ELSE met
        /\ fetched' = [fetched EXCEPT ![r[1]] = IF outcome[r] = "auth" THEN "auth" ELSE @]
    BY <1>9 DEF ChunkReturns, TakeResult, Return, planVars
  <2>2. stage[r[1]] = "chunks"
    BY <2>1 DEF RefreshInv, AskedInOrder
  <2>3. \A v \in View : <<v, 0>> # r
    BY RequestParts
  <2>4. met' \subseteq Recent \cup Chunk
    BY <2>1 DEF RefreshInv, RefreshTyped
  <2>5. RefreshTyped'
    BY <2>1, <2>4 DEF RefreshInv, RefreshTyped
  <2>6. AskedInOrder'
    BY <1>p, <2>1, <2>2, <2>3, RequestParts DEF RefreshInv, RefreshTyped, AskedInOrder
  <2>7. MetRemembered'
    BY <2>1, <2>2, RequestParts DEF RefreshInv, RefreshTyped, MetRemembered
  <2> QED BY <2>5, <2>6, <2>7 DEF RefreshInv
<1>10. ASSUME NEW v \in View, EndView(v) PROVE RefreshInv'
  <2>1. /\ refresh = "running" /\ stage[v] = "chunks"
        /\ UNCHANGED <<refresh, plan, refreshed, fetched, queued, met, pc>>
        /\ \A r \in ChunksOf(v) : r \notin queued /\ pc[r] = "idle"
        /\ stage' = [stage EXCEPT ![v] = "ended"]
    BY <1>10 DEF EndView, vars, planVars
  <2>2. RefreshTyped'
    BY <2>1 DEF RefreshInv, RefreshTyped
  <2>3. AskedInOrder'
    BY <2>1, RequestParts DEF RefreshInv, RefreshTyped, AskedInOrder, ChunksOf
  <2>4. MetRemembered'
    BY <2>1, RequestParts DEF RefreshInv, RefreshTyped, MetRemembered
  <2> QED BY <2>2, <2>3, <2>4 DEF RefreshInv
<1>11. ASSUME EndRefresh PROVE RefreshInv'
  <2>1. /\ refresh = "running" /\ refresh' \in {"auth", "failed", "stored"}
        /\ \A v \in View : stage[v] \in {"none", "ended"}
        /\ plan' \subseteq plan /\ refreshed' \in BOOLEAN
        /\ stage' = [v \in View |-> "none"] /\ fetched' = [v \in View |-> "ok"] /\ met' = {}
        /\ UNCHANGED <<queued, pc>>
    BY <1>11 DEF EndRefresh, Forget, vars, planVars, RefreshInv, RefreshTyped
  <2>2. ASSUME NEW r \in Chunk PROVE pc[r] = "idle" /\ r \notin queued
    BY <2>1, RequestParts DEF RefreshInv, AskedInOrder
  <2>3. ASSUME NEW r \in Recent PROVE pc[r] = "idle"
    BY <2>1, RequestParts DEF RefreshInv, AskedInOrder
  <2>4. queued = {}
    BY <2>2 DEF RefreshInv, RefreshTyped
  <2>5. RefreshTyped'
    BY <2>1 DEF RefreshInv, RefreshTyped
  <2> QED BY <2>1, <2>2, <2>3, <2>4, <2>5 DEF RefreshInv, AskedInOrder, MetRemembered
<1>12. ASSUME CancelRefresh PROVE RefreshInv'
  BY <1>12 DEF CancelRefresh, Forget, planVars, RefreshInv, RefreshTyped, AskedInOrder, MetRemembered
<1>13. ASSUME NEW r \in Recent \cup Chunk, CancelRequest(r) PROVE RefreshInv'
  <2>1. \A d \in Caller : pc'[d] = "idle" <=> pc[d] = "idle"
    BY <1>13, RequestParts, ServedStaysAsked DEF CancelRequest
  <2> QED BY <1>13, <2>1, RequestParts, RefreshKept DEF CancelRequest, requestVars, refreshVars, planVars
<1>14. ASSUME UNCHANGED allVars PROVE RefreshInv'
  BY <1>14, RefreshKept DEF allVars, vars, requestVars, refreshVars, planVars
<1> QED
  BY <1>1, <1>2, <1>3, <1>4, <1>5, <1>6, <1>7, <1>8, <1>9, <1>10, <1>11, <1>12, <1>13, <1>14
  DEF RequestsNext

\* The order of a refresh's requests, and the memory of its views, hold at every moment.
THEOREM RefreshInvariance == RequestsSpec => []RefreshInv
<1>1. RequestsInit => RefreshInv
  BY RequestAssumption
  DEF RequestsInit, Init, RefreshInv, RefreshTyped, AskedInOrder, MetRemembered
<1> QED BY <1>1, RefreshStep, RequestsInvariance, PTL DEF RequestsSpec

\* The update of a meter one of whose views met a rejection raises an error, and the one of
\* its usage raises the rejection.
LEMMA RejectedMeterFails ==
  ASSUME NEW v \in View, fetched[v] = "auth"
  PROVE  /\ "ok" \notin MeterEnds(v[1])
         /\ v[2] = "usage" => MeterEnds(v[1]) \subseteq {"auth"}
<1>1. ViewEnds(v) = {"auth"}
  BY DEF ViewEnds
<1>2. "ok" \notin MeterEnds(v[1])
  BY <1>1 DEF MeterEnds
<1>3. ASSUME v[2] = "usage", NEW end \in MeterEnds(v[1])
      PROVE  end = "auth"
  <2>1. PICK w \in View : /\ w[1] = v[1] /\ end \in ViewEnds(w)
                          /\ \A u \in ViewsBefore(w) : "ok" \in ViewEnds(u)
    BY <1>2, <1>3 DEF MeterEnds
  <2>2. CASE w[2] = "usage"
    <3>1. w = v
      BY <1>3, <2>1, <2>2, RequestParts
    <3> QED BY <1>1, <2>1, <3>1
  <2>3. CASE w[2] # "usage"
    <3>1. Position[v[2]] < Position[w[2]]
      BY <1>3, <2>3, RequestParts DEF Position
    <3>2. v \in ViewsBefore(w)
      BY <2>1, <3>1 DEF ViewsBefore
    <3> QED BY <1>1, <2>1, <3>2
  <2> QED BY <2>2, <2>3
<1> QED BY <1>2, <1>3

\* Once a refresh has succeeded, none that meets a rejection is stored; the first one stores
\* nothing of a meter that met one, for any meters, views and chunks.
THEOREM RejectedRefreshNotStoredHolds == RequestsSpec => RejectedRefreshNotStored
<1> DEFINE NotStored ==
      refresh = "running" /\ refresh' = "stored" =>
        \A r \in met : ~refreshed /\ r[1][1] \notin plan' /\ r[1][2] # "usage"
<1>1. ASSUME RefreshInv, EndRefresh, refresh' = "stored", NEW r \in met
      PROVE  ~refreshed /\ r[1][1] \notin plan' /\ r[1][2] # "usage"
  <2> DEFINE v == r[1]
  <2>1. PICK end \in [plan -> {"ok", "auth", "protocol", "error"}] :
          /\ \A m \in plan : end[m] \in MeterEnds(m)
          /\ Failing(end) = {} /\ plan' = plan \ Skipped(end)
    BY <1>1 DEF EndRefresh
  <2>2. v \in View /\ fetched[v] = "auth" /\ stage[v] # "none" /\ refresh = "running"
    BY <1>1, RequestParts DEF EndRefresh, RefreshInv, RefreshTyped, MetRemembered
  <2>3. v[1] \in plan
    BY <1>1, <2>2 DEF RefreshInv, AskedInOrder
  <2>4. end[v[1]] # "ok" /\ (v[2] = "usage" => end[v[1]] = "auth")
    BY <2>1, <2>2, <2>3, RejectedMeterFails
  <2>5. v[1] \in Skipped(end)
    BY <2>1, <2>3, <2>4 DEF Failing
  <2>6. ~refreshed /\ end[v[1]] = "protocol"
    BY <2>5 DEF Skipped
  <2> QED BY <2>1, <2>4, <2>5, <2>6
<1>2. RefreshInv /\ [RequestsNext]_allVars => [NotStored]_allVars
  <2> SUFFICES ASSUME RefreshInv, RequestsNext, refresh = "running", refresh' = "stored"
               PROVE  \A r \in met : ~refreshed /\ r[1][1] \notin plan' /\ r[1][2] # "usage"
    OBVIOUS
  <2>1. EndRefresh
    BY DEF RequestsNext, Serve, Beat, BeatReturns, CancelSleeping, CancelBeat, StartRefresh, Stop,
           CancelRefresh, CancelRequest, AskRecent, RecentReturns, TakeResult, EndView, AskChunk, ChunkReturns,
           requestVars, refreshVars
  <2> QED BY <1>1, <2>1
<1> QED BY <1>2, RefreshInvariance, PTL DEF RequestsSpec, RejectedRefreshNotStored

-----------------------------------------------------------------------------
(* The semaphore, and how long a heartbeat waits *)

\* The chunks that have been asked for and not been taken, cancelled ones too.
Asking == {r \in Chunk : pc[r] # "idle"}

\* Each of them has a slot, and no other slot is taken.
SlotsCount ==
  /\ IsFiniteSet(Asking) /\ slots \in Nat
  /\ slots + Cardinality(Asking) = HistoryLimit

\* A view that is past its recent days, or not there yet, has no request for them.
RecentAsked == \A v \in View : pc[<<v, 0>>] # "idle" => stage[v] = "recent"

CountInv ==
  /\ SlotsCount /\ RecentAsked
  /\ beating \subseteq Heartbeat /\ stopping \in BOOLEAN

\* A step that takes no slot and gives none back, and asks for no recent days.
LEMMA CountKept ==
  ASSUME CountInv, UNCHANGED <<stage, slots>>,
         beating' \subseteq beating, stopping' \in BOOLEAN,
         \A r \in Recent \cup Chunk : pc'[r] = "idle" <=> pc[r] = "idle"
  PROVE  CountInv'
<1>1. Asking' = Asking
  BY DEF Asking
<1>2. \A v \in View : <<v, 0>> \in Recent
  BY DEF Recent
<1>3. SlotsCount'
  BY <1>1 DEF CountInv, SlotsCount
<1>4. RecentAsked'
  BY <1>2 DEF CountInv, RecentAsked
<1> QED BY <1>3, <1>4 DEF CountInv

\* A chunk takes a slot with its request and gives it back with its result.
LEMMA ChunkCount ==
  ASSUME IInv, CountInv, NEW r \in Chunk, AskChunk(r) \/ ChunkReturns(r)
  PROVE  CountInv'
<1>1. /\ pc \in [Caller -> {"idle", "waiting", "sent", "done"}]
      /\ Chunk \subseteq Caller /\ \A v \in View : <<v, 0>> \in Caller
  BY Callers DEF IInv, TypeOK
<1>2. IsFiniteSet(Asking) /\ Cardinality(Asking) \in Nat /\ slots \in Nat
      /\ slots + Cardinality(Asking) = HistoryLimit
  BY FS_CardinalityType DEF CountInv, SlotsCount
<1>3. SlotsCount'
  <2>1. CASE AskChunk(r)
    <3>1. slots > 0 /\ slots' = slots - 1 /\ pc[r] = "idle" /\ pc' = [pc EXCEPT ![r] = "waiting"]
      BY <2>1 DEF AskChunk, Call
    <3>2. Asking' = Asking \cup {r} /\ r \notin Asking
      BY <1>1, <3>1 DEF Asking
    <3>3. IsFiniteSet(Asking') /\ Cardinality(Asking') = Cardinality(Asking) + 1
      BY <1>2, <3>2, FS_AddElement
    <3>4. slots' \in Nat /\ slots' + Cardinality(Asking') = HistoryLimit
      BY <1>2, <3>1, <3>3
    <3> QED BY <3>3, <3>4 DEF SlotsCount
  <2>2. CASE ChunkReturns(r)
    <3>1. slots' = slots + 1 /\ pc[r] = "done" /\ pc' = [pc EXCEPT ![r] = "idle"]
      BY <2>2 DEF ChunkReturns, TakeResult, Return
    <3>2. Asking' = Asking \ {r} /\ r \in Asking
      BY <1>1, <3>1 DEF Asking
    <3>3. IsFiniteSet(Asking') /\ Cardinality(Asking') = Cardinality(Asking) - 1
      BY <1>2, <3>2, FS_RemoveElement
    <3>4. slots' \in Nat /\ slots' + Cardinality(Asking') = HistoryLimit
      BY <1>2, <3>1, <3>3
    <3> QED BY <3>3, <3>4 DEF SlotsCount
  <2> QED BY <2>1, <2>2
<1>4. RecentAsked'
  <2>1. stage' = stage /\ \A d \in Caller \ {r} : pc'[d] = pc[d]
    BY <1>1 DEF AskChunk, ChunkReturns, TakeResult, Call, Return
  <2>2. \A v \in View : <<v, 0>> # r
    BY RequestParts
  <2> QED BY <1>1, <2>1, <2>2 DEF CountInv, RecentAsked
<1> QED BY <1>3, <1>4 DEF CountInv, AskChunk, ChunkReturns

\* A request for recent days is asked and taken while its view is at its recent days.
LEMMA RecentCount ==
  ASSUME IInv, RefreshInv, CountInv, NEW v \in View, AskRecent(v) \/ RecentReturns(v)
  PROVE  CountInv'
<1>1. /\ pc \in [Caller -> {"idle", "waiting", "sent", "done"}]
      /\ Chunk \subseteq Caller /\ \A w \in View : <<w, 0>> \in Caller
  BY Callers DEF IInv, TypeOK
<1>2. \A d \in Caller \ {<<v, 0>>} : pc'[d] = pc[d]
  BY <1>1 DEF AskRecent, RecentReturns, TakeResult, Call, Return
<1>3. Asking' = Asking
  <2>1. \A r \in Chunk : r # <<v, 0>>
    BY RequestParts
  <2> QED BY <1>1, <1>2, <2>1 DEF Asking
<1>4. SlotsCount'
  BY <1>3 DEF AskRecent, RecentReturns, CountInv, SlotsCount
<1>5. \A w \in View \ {v} : pc'[<<w, 0>>] = pc[<<w, 0>>]
  BY <1>1, <1>2
<1>6. RecentAsked'
  <2>1. CASE AskRecent(v)
    <3>1. stage' = [stage EXCEPT ![v] = "recent"]
      BY <2>1 DEF AskRecent
    <3>2. stage'[v] = "recent" /\ \A w \in View : stage[w] = "recent" => stage'[w] = "recent"
      BY <3>1 DEF RefreshInv, RefreshTyped
    <3> QED BY <1>5, <3>2 DEF CountInv, RecentAsked
  <2>2. CASE RecentReturns(v)
    <3>1. pc'[<<v, 0>>] = "idle"
      BY <1>1, <2>2 DEF RecentReturns, TakeResult, Return
    <3>2. \A w \in View \ {v} : stage'[w] = stage[w]
      BY <2>2 DEF RecentReturns, RefreshInv, RefreshTyped
    <3> QED BY <1>5, <3>1, <3>2 DEF CountInv, RecentAsked
  <2> QED BY <2>1, <2>2
<1> QED BY <1>4, <1>6 DEF CountInv, AskRecent, RecentReturns

\* Every step keeps the count of the slots.
LEMMA CountStep == IInv /\ RefreshInv /\ CountInv /\ [RequestsNext]_allVars => CountInv'
<1> SUFFICES ASSUME IInv, RefreshInv, CountInv, [RequestsNext]_allVars PROVE CountInv'
  OBVIOUS
<1>c. /\ Recent \cup Chunk \subseteq Caller /\ Heartbeat \subseteq Caller
      /\ Heartbeat \cap (Recent \cup Chunk) = {} /\ \A v \in View : <<v, 0>> \in Recent
  BY RequestAssumption DEF Recent
<1>p. /\ pc \in [Caller -> {"idle", "waiting", "sent", "done"}]
      /\ beating \subseteq Heartbeat /\ stopping \in BOOLEAN
  BY DEF IInv, TypeOK, CountInv
<1>1. ASSUME NEW c \in Caller, Serve(c) PROVE CountInv'
  <2>1. \A d \in Caller : pc'[d] = "idle" <=> pc[d] = "idle"
    BY <1>1, ServedStaysAsked DEF Serve
  <2> QED BY <1>1, <1>c, <1>p, <2>1, CountKept DEF Serve, requestVars, refreshVars
<1>2. ASSUME NEW h \in Heartbeat, Beat(h) \/ BeatReturns(h) PROVE CountInv'
  <2>1. \A r \in Recent \cup Chunk : pc'[r] = pc[r]
    BY <1>2, <1>c, <1>p DEF Beat, BeatReturns, Call, Return
  <2>2. beating' \subseteq beating /\ UNCHANGED <<stage, slots, stopping>>
    BY <1>2 DEF Beat, BeatReturns, requestVars, refreshVars
  <2> QED BY <1>p, <2>1, <2>2, CountKept
<1>3. ASSUME NEW h \in Heartbeat, CancelBeat(h) PROVE CountInv'
  <2>1. \A d \in Caller : pc'[d] = "idle" <=> pc[d] = "idle"
    BY <1>3, <1>c, ServedStaysAsked DEF CancelBeat
  <2> QED BY <1>3, <1>c, <1>p, <2>1, CountKept DEF CancelBeat, requestVars, refreshVars
<1>4. ASSUME NEW r \in Recent \cup Chunk, CancelRequest(r) PROVE CountInv'
  <2>1. \A d \in Caller : pc'[d] = "idle" <=> pc[d] = "idle"
    BY <1>4, <1>c, ServedStaysAsked DEF CancelRequest
  <2> QED BY <1>4, <1>c, <1>p, <2>1, CountKept DEF CancelRequest, requestVars, refreshVars
<1>5. ASSUME \/ Stop \/ CancelRefresh \/ UNCHANGED allVars
             \/ \E h \in Heartbeat : CancelSleeping(h)
      PROVE  CountInv'
  <2>1. UNCHANGED <<pc, stage, slots>> /\ beating' \subseteq beating /\ stopping' \in BOOLEAN
    BY <1>5, <1>p DEF Stop, CancelRefresh, CancelSleeping, allVars, vars, requestVars, refreshVars
  <2> QED BY <2>1, CountKept
<1>6. ASSUME \/ StartRefresh \/ EndRefresh \/ \E v \in View : EndView(v)
      PROVE  CountInv'
  <2>1. UNCHANGED <<pc, slots, beating, stopping>>
    BY <1>6 DEF StartRefresh, EndRefresh, EndView, vars
  <2>2. SlotsCount'
    BY <2>1 DEF CountInv, SlotsCount, Asking
  <2>3. RecentAsked'
    <3>1. CASE StartRefresh
      <4>1. \A r \in Recent \cup Chunk : pc[r] = "idle"
        BY <3>1 DEF StartRefresh, RefreshInv, AskedInOrder
      <4> QED BY <1>c, <2>1, <4>1 DEF RecentAsked
    <3>2. CASE EndRefresh
      <4>1. \A v \in View : pc[<<v, 0>>] = "idle"
        BY <3>2 DEF EndRefresh, CountInv, RecentAsked
      <4> QED BY <2>1, <4>1 DEF RecentAsked
    <3>3. ASSUME NEW v \in View, EndView(v) PROVE RecentAsked'
      <4>1. stage[v] = "chunks" /\ \A w \in View \ {v} : stage'[w] = stage[w]
        BY <3>3 DEF EndView
      <4> QED BY <2>1, <4>1 DEF CountInv, RecentAsked
    <3> QED BY <1>6, <3>1, <3>2, <3>3
  <2> QED BY <1>p, <2>1, <2>2, <2>3 DEF CountInv
<1>7. ASSUME NEW v \in View, AskRecent(v) \/ RecentReturns(v) PROVE CountInv'
  BY <1>7, RecentCount
<1>8. ASSUME NEW r \in Chunk, AskChunk(r) \/ ChunkReturns(r) PROVE CountInv'
  BY <1>8, ChunkCount
<1> QED
  BY <1>1, <1>2, <1>3, <1>4, <1>5, <1>6, <1>7, <1>8 DEF RequestsNext

\* The slots of the semaphore are those of the chunks that ask, at every moment.
THEOREM CountInvariance == RequestsSpec => []CountInv
<1>1. ASSUME RequestsInit PROVE CountInv
  <2>1. /\ \A c \in Caller : pc[c] = "idle"
        /\ slots = HistoryLimit /\ beating = Heartbeat /\ stopping = FALSE
    BY <1>1 DEF RequestsInit, Init
  <2>2. Asking = {}
    BY <2>1, Callers DEF Asking
  <2>3. SlotsCount
    BY <2>1, <2>2, FS_EmptySet, RequestAssumption DEF SlotsCount
  <2>4. RecentAsked
    BY <2>1, Callers DEF RecentAsked
  <2> QED BY <2>1, <2>3, <2>4 DEF CountInv
<1> QED BY <1>1, CountStep, RequestsInvariance, RefreshInvariance, PTL DEF RequestsSpec

\* The variables of the client and of its callers keep their types; the semaphore never has
\* fewer than no slots, nor more than it began with.
THEOREM RequestsTypeCorrect == RequestsSpec => []RequestsTypeOK
<1>1. IInv /\ RefreshInv /\ CountInv => RequestsTypeOK
  <2> SUFFICES ASSUME IInv, RefreshInv, CountInv PROVE RequestsTypeOK
    OBVIOUS
  <2>1. slots \in 0 .. HistoryLimit
    <3>1. Cardinality(Asking) \in Nat
      BY FS_CardinalityType DEF CountInv, SlotsCount
    <3> QED BY <3>1, RequestAssumption DEF CountInv, SlotsCount
  <2> QED BY <2>1 DEF IInv, RefreshInv, RefreshTyped, CountInv, RequestsTypeOK
<1> QED BY <1>1, RequestsInvariance, RefreshInvariance, CountInvariance, PTL

\* The views that still fetch their recent days, and their requests.
Fetching == {v \in View : stage[v] = "recent"}
FetchingRequest == Fetching \X {0}

\* There are as many of these requests as views.
LEMMA FetchingCount ==
  /\ IsFiniteSet(Fetching) /\ IsFiniteSet(FetchingRequest)
  /\ Cardinality(Fetching) \in Nat /\ Cardinality(FetchingRequest) = Cardinality(Fetching)
<1>1. IsFiniteSet(Fetching) /\ Cardinality(Fetching) \in Nat
  BY RequestAssumption, FS_Subset, FS_CardinalityType DEF Fetching
<1>2. IsFiniteSet({0}) /\ Cardinality({0}) = 1
  BY FS_Singleton
<1>3. IsFiniteSet(FetchingRequest) /\ Cardinality(FetchingRequest) = Cardinality(Fetching) * 1
  BY <1>1, <1>2, FS_Product DEF FetchingRequest
<1> QED BY <1>1, <1>3

\* What can be before a heartbeat: other heartbeats, requests for recent days, chunks with a
\* slot.
LEMMA BeforeCount ==
  ASSUME CountInv, NEW h \in Heartbeat
  PROVE  LET before == (Heartbeat \ {h}) \cup FetchingRequest \cup Asking
         IN  /\ IsFiniteSet(before) /\ Cardinality(before) \in Nat
             /\ Cardinality(before)
                  <= Cardinality(Heartbeat) - 1 + Cardinality(Fetching) + HistoryLimit
<1> DEFINE others == Heartbeat \ {h}
           first == others \cup FetchingRequest
<1>1. /\ IsFiniteSet(others) /\ Cardinality(others) = Cardinality(Heartbeat) - 1
      /\ Cardinality(others) \in Nat /\ Cardinality(Heartbeat) \in Nat
  <2>1. IsFiniteSet(others) /\ Cardinality(others) = Cardinality(Heartbeat) - 1
    BY RequestAssumption, FS_RemoveElement
  <2>2. Cardinality(others) \in Nat /\ Cardinality(Heartbeat) \in Nat
    BY <2>1, RequestAssumption, FS_CardinalityType
  <2> QED BY <2>1, <2>2
<1> HIDE DEF others
<1>2. /\ IsFiniteSet(first) /\ Cardinality(first) \in Nat
      /\ Cardinality(first) <= Cardinality(others) + Cardinality(Fetching)
  <2>1. /\ IsFiniteSet(first)
        /\ Cardinality(first) = Cardinality(others) + Cardinality(FetchingRequest)
                                  - Cardinality(others \cap FetchingRequest)
    BY <1>1, FetchingCount, FS_Union
  <2>2. Cardinality(first) \in Nat
    BY <2>1, FS_CardinalityType
  <2>3. Cardinality(others \cap FetchingRequest) \in Nat
    <3>1. IsFiniteSet(others \cap FetchingRequest)
      BY <1>1, FS_Intersection
    <3> QED BY <3>1, FS_CardinalityType
  <2> HIDE DEF first
  <2> QED BY <1>1, <2>1, <2>2, <2>3, FetchingCount
<1> HIDE DEF first
<1>3. /\ IsFiniteSet(Asking) /\ Cardinality(Asking) \in Nat
      /\ Cardinality(Asking) <= HistoryLimit
  <2>1. IsFiniteSet(Asking) /\ slots \in Nat /\ slots + Cardinality(Asking) = HistoryLimit
    BY DEF CountInv, SlotsCount
  <2>2. Cardinality(Asking) \in Nat
    BY <2>1, FS_CardinalityType
  <2> QED BY <2>1, <2>2
<1>4. /\ IsFiniteSet(first \cup Asking) /\ Cardinality(first \cup Asking) \in Nat
      /\ Cardinality(first \cup Asking) <= Cardinality(first) + Cardinality(Asking)
  <2>1. /\ IsFiniteSet(first \cup Asking)
        /\ Cardinality(first \cup Asking) = Cardinality(first) + Cardinality(Asking)
                                              - Cardinality(first \cap Asking)
    BY <1>2, <1>3, FS_Union
  <2>2. Cardinality(first \cup Asking) \in Nat
    BY <2>1, FS_CardinalityType
  <2>3. Cardinality(first \cap Asking) \in Nat
    <3>1. IsFiniteSet(first \cap Asking)
      BY <1>2, FS_Intersection
    <3> QED BY <3>1, FS_CardinalityType
  <2> QED BY <1>2, <1>3, <2>1, <2>2, <2>3
<1>5. HistoryLimit \in Nat
  BY RequestAssumption
<1>6. Cardinality(first \cup Asking)
        <= Cardinality(Heartbeat) - 1 + Cardinality(Fetching) + HistoryLimit
  BY <1>1, <1>2, <1>3, <1>4, <1>5, FetchingCount
<1> QED BY <1>4, <1>6 DEF first, others

\* The callers before a heartbeat in the queue, and the one that holds the lock, are of that
\* set, each of them once.
LEMMA WaitBounded ==
  ASSUME IInv, CountInv, NEW i \in 1 .. Len(waiters), waiters[i] \in Heartbeat
  PROVE  i - 1 + (IF lock = Nobody THEN 0 ELSE 1)
           <= Cardinality(Heartbeat) - 1 + Cardinality(Fetching) + HistoryLimit
<1> DEFINE h == waiters[i]
           before == (Heartbeat \ {h}) \cup FetchingRequest \cup Asking
           n == i - 1 + (IF lock = Nobody THEN 0 ELSE 1)
           who == [j \in 1 .. n |-> IF j <= i - 1 THEN waiters[j] ELSE lock]
<1>1. /\ waiters \in Seq(Caller) /\ Len(waiters) \in Nat /\ i \in Nat \ {0} /\ i <= Len(waiters)
      /\ lock \in Caller \cup {Nobody} /\ n \in Nat
  BY DEF IInv, TypeOK
<1>2. \A c \in Caller : pc[c] # "idle" => c \in Heartbeat \cup FetchingRequest \cup Asking
  <2>1. ASSUME NEW c \in Recent, pc[c] # "idle" PROVE c \in FetchingRequest
    <3>1. PICK v \in View : c = <<v, 0>>
      BY DEF Recent
    <3> QED BY <2>1, <3>1 DEF CountInv, RecentAsked, FetchingRequest, Fetching
  <2> QED BY <2>1, RequestAssumption DEF Asking
<1>3. \A j \in 1 .. Len(waiters) : waiters[j] \in Caller /\ pc[waiters[j]] = "waiting"
  BY <1>1 DEF IInv, LockHeldBySender
<1>4. lock # Nobody => lock \in Caller /\ pc[lock] = "sent"
  BY <1>1 DEF IInv, LockHeldBySender
<1>5. ASSUME NEW j \in 1 .. n PROVE who[j] \in before
  <2>1. CASE j <= i - 1
    <3>1. who[j] = waiters[j] /\ j \in 1 .. Len(waiters) /\ j # i
      BY <1>1, <2>1
    <3>2. waiters[j] # h
      BY <3>1 DEF IInv, WaitersDistinct
    <3> QED BY <1>2, <1>3, <3>1, <3>2
  <2>2. CASE ~(j <= i - 1)
    <3>1. lock # Nobody /\ who[j] = lock
      BY <1>1, <2>2
    <3>2. lock # h
      BY <1>3, <1>4, <3>1
    <3> QED BY <1>2, <1>4, <3>1, <3>2
  <2> QED BY <2>1, <2>2
<1>6. ASSUME NEW j \in 1 .. n, NEW k \in 1 .. n, who[j] = who[k] PROVE j = k
  <2>1. CASE j <= i - 1 /\ k <= i - 1
    <3>1. waiters[j] = waiters[k] /\ j \in 1 .. Len(waiters) /\ k \in 1 .. Len(waiters)
      BY <1>1, <1>6, <2>1
    <3> QED BY <3>1 DEF IInv, WaitersDistinct
  <2>2. CASE ~(j <= i - 1) /\ ~(k <= i - 1)
    BY <1>1, <2>2
  <2>3. ASSUME NEW l \in 1 .. n, NEW m \in 1 .. n, l <= i - 1, ~(m <= i - 1) PROVE who[l] # who[m]
    <3>1. who[l] = waiters[l] /\ l \in 1 .. Len(waiters) /\ who[m] = lock /\ lock # Nobody
      BY <1>1, <2>3
    <3> QED BY <1>3, <1>4, <3>1
  <2> QED BY <1>6, <2>1, <2>2, <2>3
<1>7. who \in Injection(1 .. n, before)
  <2>1. who \in [1 .. n -> before]
    BY <1>5
  <2> QED BY <1>6, <2>1 DEF Injection, IsInjective
<1>8. Cardinality(1 .. n) = n
  <2>1. n \in Nat
    BY <1>1
  <2> HIDE DEF n
  <2>2. Cardinality(1 .. n) = IF 1 > n THEN 0 ELSE n - 1 + 1
    BY <2>1, FS_Interval
  <2> QED BY <2>1, <2>2
<1>9. /\ IsFiniteSet(before) /\ Cardinality(before) \in Nat
      /\ Cardinality(before) <= Cardinality(Heartbeat) - 1 + Cardinality(Fetching) + HistoryLimit
  BY BeforeCount
<1> HIDE DEF before, who
<1>10. Cardinality(1 .. n) <= Cardinality(before)
  BY <1>7, <1>9, FS_Injection
<1>11. n <= Cardinality(before)
  BY <1>8, <1>10
<1>12. /\ Cardinality(Heartbeat) \in Nat /\ Cardinality(Fetching) \in Nat /\ HistoryLimit \in Nat
  BY RequestAssumption, FS_CardinalityType, FetchingCount
<1> QED BY <1>1, <1>9, <1>11, <1>12

\* A heartbeat has at most one request of each view that fetches its recent days, and
\* HistoryLimit chunks, before it, for any number of views, missing months and cancellations.
THEOREM HeartbeatWaitBoundedHolds == RequestsSpec => []HeartbeatWaitBounded
<1>1. IInv /\ CountInv => HeartbeatWaitBounded
  BY WaitBounded DEF HeartbeatWaitBounded, Fetching
<1> QED BY <1>1, RequestsInvariance, CountInvariance, PTL

=============================================================================
