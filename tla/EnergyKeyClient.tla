--------------------------- MODULE EnergyKeyClient ---------------------------
(***************************************************************************)
(* The request path of one EnergyKeyClient: _request_json and everything   *)
(* its callers (heartbeat, discovery, consumption requests) share.  Who    *)
(* calls, and when, is left to EnergyKeyRequests.                          *)
(*                                                                         *)
(* Requests are serialised by an asyncio.Lock, whose waiters are served in *)
(* order.  A caller checks the authentication latch only once it has the   *)
(* lock, and its timeout runs only while it holds it.  The cookies that    *)
(* travel with a request are left to the session module.                   *)
(***************************************************************************)
EXTENDS Naturals, SequencesExt

CONSTANTS
  Caller,        \* the tasks that make requests
  Heartbeat,     \* those that send the heartbeat
  Nobody         \* holder of a free lock

ASSUME CallerAssumption == Heartbeat \subseteq Caller /\ Nobody \notin Caller

VARIABLES
  pc,         \* pc[c]: "idle", "waiting" for the lock, "sent", or "done"
  lock,       \* the caller that holds _request_lock
  waiters,    \* the callers waiting for it, first come first served
  rejected,   \* _authentication_rejected
  outcome     \* outcome[c]: what the request of c returned or raised, until c has taken it

vars == <<pc, lock, waiters, rejected, outcome>>

\* What _request_json raises for an answer that neither is JSON nor rejects the session:
\* a foreign redirect or a body that is no JSON; another HTTP error, 429 too, whose error is a
\* connection error with a delay; a Location that is no URL, whose ValueError is told from a
\* connection error by the heartbeat loop only.
Error(c) == {"protocol", "connection"} \cup IF c \in Heartbeat THEN {"unexpected"} ELSE {}

Init ==
  /\ pc = [c \in Caller |-> "idle"]
  /\ lock = Nobody /\ waiters = <<>>
  /\ rejected = FALSE
  /\ outcome = [c \in Caller |-> "none"]

Call(c) ==
  /\ pc[c] = "idle"
  /\ pc' = [pc EXCEPT ![c] = "waiting"]
  /\ waiters' = Append(waiters, c)
  /\ UNCHANGED <<lock, rejected, outcome>>

Acquire(c) ==
  /\ lock = Nobody /\ waiters # <<>> /\ c = Head(waiters)
  /\ waiters' = Tail(waiters)

\* Mutant: the local refusal is a connection error.
RefuseAsConnection(c) ==
  /\ Acquire(c) /\ rejected
  /\ pc' = [pc EXCEPT ![c] = "done"]
  /\ outcome' = [outcome EXCEPT ![c] = "connection"]
  /\ UNCHANGED <<lock, rejected>>

\* The session was rejected while c waited: raise without contacting the portal.
Refuse(c) ==
  /\ Acquire(c) /\ rejected
  /\ pc' = [pc EXCEPT ![c] = "done"]
  /\ outcome' = [outcome EXCEPT ![c] = "auth"]
  /\ UNCHANGED <<lock, rejected>>

\* Mutant: the latch is not read again under the lock.
SendUnchecked(c) ==
  /\ Acquire(c)
  /\ lock' = c
  /\ pc' = [pc EXCEPT ![c] = "sent"]
  /\ UNCHANGED <<rejected, outcome>>

\* Mutant: the request runs outside the lock.
SendUnlocked(c) ==
  /\ Acquire(c) /\ ~rejected
  /\ pc' = [pc EXCEPT ![c] = "sent"]
  /\ UNCHANGED <<lock, rejected, outcome>>

Send(c) ==
  /\ Acquire(c) /\ ~rejected
  /\ lock' = c
  /\ pc' = [pc EXCEPT ![c] = "sent"]
  /\ UNCHANGED <<rejected, outcome>>

\* Leave the lock with a result or an exception.
Finish(c, result) ==
  /\ pc[c] = "sent"
  /\ lock' = Nobody
  /\ pc' = [pc EXCEPT ![c] = "done"]
  /\ outcome' = [outcome EXCEPT ![c] = result]
  /\ UNCHANGED waiters

\* 401, 403, a redirect within the portal or a login page latches the rejection.
Reject(c) == Finish(c, "auth") /\ rejected' = TRUE

\* A heartbeat whose JSON is not true is latched by its caller, which runs on from
\* _request_json without a suspension: no waiter gets the lock in between.
HeartbeatRefused(c) == c \in Heartbeat /\ Finish(c, "auth") /\ rejected' = TRUE

Answer(c) == Finish(c, "ok") /\ UNCHANGED rejected

Fail(c) == (\E error \in Error(c) : Finish(c, error)) /\ UNCHANGED rejected

\* Mutant: the TimeoutError is not turned into an error of the client.
TimeoutEscapes(c) == Finish(c, "timeout") /\ UNCHANGED rejected

\* Mutant: a request that timed out keeps the lock.
TimeoutKeepsLock(c) ==
  /\ pc[c] = "sent"
  /\ pc' = [pc EXCEPT ![c] = "done"]
  /\ outcome' = [outcome EXCEPT ![c] = "connection"]
  /\ UNCHANGED <<lock, waiters, rejected>>

\* The request, or the reading of its body, outlasts REQUEST_TIMEOUT_SECONDS.
Timeout(c) == Finish(c, "connection") /\ UNCHANGED rejected

\* Mutant: a cancelled waiter stays in the queue.
CancelQueued(c) ==
  /\ pc[c] = "waiting"
  /\ pc' = [pc EXCEPT ![c] = "done"]
  /\ outcome' = [outcome EXCEPT ![c] = "cancelled"]
  /\ UNCHANGED <<lock, waiters, rejected>>

\* The task is cancelled in the queue, or in the middle of its request.
CancelWaiting(c) ==
  /\ pc[c] = "waiting"
  /\ \E i \in 1 .. Len(waiters) : waiters[i] = c /\ waiters' = RemoveAt(waiters, i)
  /\ pc' = [pc EXCEPT ![c] = "done"]
  /\ outcome' = [outcome EXCEPT ![c] = "cancelled"]
  /\ UNCHANGED <<lock, rejected>>

CancelSent(c) == Finish(c, "cancelled") /\ UNCHANGED rejected

\* The caller takes the result and may call again.
Return(c) ==
  /\ pc[c] = "done"
  /\ pc' = [pc EXCEPT ![c] = "idle"]
  /\ outcome' = [outcome EXCEPT ![c] = "none"]
  /\ UNCHANGED <<lock, waiters, rejected>>

Step(c) ==
  \/ Call(c) \/ Refuse(c) \/ Send(c)
  \/ Reject(c) \/ HeartbeatRefused(c) \/ Answer(c) \/ Fail(c) \/ Timeout(c)
  \/ CancelWaiting(c) \/ CancelSent(c) \/ Return(c)

Next == \E c \in Caller : Step(c)

Spec == Init /\ [][Next]_vars

-----------------------------------------------------------------------------

Outcome == {"none", "ok", "auth", "connection", "protocol", "unexpected", "cancelled"}

\* Every variable stays in the set of values the code gives it.
TypeOK ==
  /\ pc \in [Caller -> {"idle", "waiting", "sent", "done"}]
  /\ lock \in Caller \cup {Nobody}
  /\ waiters \in Seq(Caller)
  /\ rejected \in BOOLEAN
  /\ outcome \in [Caller -> Outcome]

\* The holder of the lock is the one caller with a request on the wire, and a caller is
\* queued for the lock exactly while it waits.
LockHeldBySender ==
  /\ \A c \in Caller : pc[c] = "sent" <=> lock = c
  /\ \A c \in Caller : pc[c] = "waiting" <=> \E i \in 1 .. Len(waiters) : waiters[i] = c

\* Once the session is rejected nothing is on the wire, and nothing queued before the
\* rejection reaches the portal after it.
QuietAfterRejection == rejected => \A c \in Caller : pc[c] # "sent"

\* After a rejection a caller only ever learns of the rejection: no late success or
\* error hides it.
RejectionIsFinal ==
  [][rejected => /\ rejected'
                 /\ \A c \in Caller : pc[c] # "done" /\ pc'[c] = "done"
                                        => outcome'[c] \in {"auth", "cancelled"}]_vars

-----------------------------------------------------------------------------
(* The client keeps the promise of EnergyKeyGate. *)

Gate == INSTANCE EnergyKeyGate
          WITH wire <- {c \in Caller : pc[c] = "sent"}, open <- ~rejected

\* Seen from the portal the queue, the timeouts and the cancellations do not show: there
\* is a gate that lets one request through at a time and closes for good.
ImplementsGate == Gate!Spec

=============================================================================
