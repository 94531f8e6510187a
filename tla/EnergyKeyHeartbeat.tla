-------------------------- MODULE EnergyKeyHeartbeat --------------------------
(***************************************************************************)
(* When the heartbeat loop of one loaded entry sends: it sleeps until the  *)
(* session has been idle for an interval, backs off after a failure and    *)
(* ends with a rejection.  Discovery and refreshes use the same session    *)
(* beside it; their answers shorten the idle time, and a rejection they    *)
(* meet makes the next heartbeat fail without a request.                   *)
(*                                                                         *)
(* Time passes in ticks, and a sleep that is over ends before the next.    *)
(* Saving the cookies of a heartbeat takes no time.                        *)
(***************************************************************************)
EXTENDS Integers, FiniteSetsExt

CONSTANTS
  Interval,        \* HEARTBEAT_INTERVAL
  RetryInterval,   \* HEARTBEAT_RETRY_INTERVAL
  MinWait,         \* the second the loop sleeps at least
  MaxRequest,      \* bound on the time a heartbeat takes, in the queue and on the wire
  RetryAfter,      \* what _parse_retry_after may return, 0 for nothing usable
  MaxFailures      \* bound on the back-offs in a row

ASSUME TimeAssumption ==
  /\ MinWait \in Nat \ {0} /\ RetryInterval \in Nat /\ Interval \in Nat /\ MaxRequest \in Nat
  /\ MinWait <= RetryInterval /\ RetryInterval <= Interval
  /\ RetryAfter \subseteq Nat
  /\ MaxFailures \in Nat

VARIABLES
  loop,       \* "sleeping", "requesting", "backoff", "returned", or "died"
  timer,      \* the time left of a sleep, or the time the request has taken
  idle,       \* client.seconds_since_activity
  rejected,   \* client.authentication_rejected
  asked,      \* runtime.reauth_started
  failures,   \* runtime.consecutive_heartbeat_failures
  embargo     \* observation: for how long the last failure forbids a heartbeat

vars == <<loop, timer, idle, rejected, asked, failures, embargo>>

\* Mutant: the wait is not held above the minimum.
WaitUnclamped(i) == Interval - i

\* The rest of the interval, but at least MinWait.
Wait(i) == Max({MinWait, IF i < Interval THEN Interval - i ELSE 0})

\* Setup has just had the answers of discovery.
Init ==
  /\ idle = 0
  /\ loop = "sleeping" /\ timer = Wait(idle)
  /\ rejected = FALSE /\ asked = FALSE
  /\ failures = 0 /\ embargo = 0

Asleep == loop \in {"sleeping", "backoff"}
Ended == loop \in {"returned", "died"}

Tick ==
  /\ \/ Asleep /\ timer > 0 /\ timer' = timer - 1
     \/ loop = "requesting" /\ timer < MaxRequest /\ timer' = timer + 1
  /\ idle' = idle + 1
  /\ embargo' = IF embargo > 0 THEN embargo - 1 ELSE 0
  /\ UNCHANGED <<loop, rejected, asked, failures>>

\* Another request of the client is answered, or meets the rejection.
Activity ==
  /\ ~rejected /\ idle > 0 /\ idle' = 0
  /\ UNCHANGED <<loop, timer, rejected, asked, failures, embargo>>

RejectedElsewhere ==
  /\ ~rejected /\ rejected' = TRUE
  /\ UNCHANGED <<loop, timer, idle, asked, failures, embargo>>

Send ==
  /\ loop = "sleeping" /\ timer = 0
  /\ loop' = "requesting" /\ UNCHANGED timer
  /\ UNCHANGED <<idle, rejected, asked, failures, embargo>>

Answered ==
  /\ loop = "requesting" /\ ~rejected
  /\ idle' = 0 /\ failures' = 0 /\ embargo' = 0
  /\ loop' = "sleeping" /\ timer' = Wait(idle')
  /\ UNCHANGED <<rejected, asked>>

\* Mutant: the loop ends without a reauthentication.
RefusedSilently ==
  /\ loop = "requesting" /\ rejected' = TRUE
  /\ loop' = "returned" /\ timer' = 0
  /\ failures' = failures + 1
  /\ UNCHANGED <<idle, asked, embargo>>

\* The portal rejects the session now, or has before.
Refused ==
  /\ loop = "requesting" /\ rejected' = TRUE
  /\ loop' = "returned" /\ timer' = 0
  /\ asked' = TRUE /\ failures' = failures + 1
  /\ UNCHANGED <<idle, embargo>>

\* A failure that says nothing about the session: sleep for a while.
BackOff(time) ==
  /\ loop = "requesting" /\ ~rejected /\ failures < MaxFailures
  /\ loop' = "backoff" /\ timer' = time
  /\ failures' = failures + 1
  /\ UNCHANGED <<idle, rejected, asked>>

Unreachable == BackOff(RetryInterval) /\ embargo' = RetryInterval

\* Mutant: the server's wait is cut to the retry interval.
RateLimitedBriefly ==
  \E r \in RetryAfter :
    /\ BackOff(RetryInterval)
    /\ embargo' = Min({Interval, Max({r, RetryInterval})})

\* HTTP 429: the server's wait, but not longer than the interval.
RateLimited ==
  \E r \in RetryAfter :
    LET serverWait == IF r # 0 THEN r ELSE RetryInterval
    IN  /\ BackOff(Max({RetryInterval, Min({serverWait, Interval})}))
        /\ embargo' = Min({Interval, Max({r, RetryInterval})})

\* An exception nobody expects ends the task.
Die ==
  /\ loop = "requesting" /\ ~rejected
  /\ loop' = "died" /\ timer' = 0
  /\ UNCHANGED <<idle, rejected, asked, failures, embargo>>

\* Mutant: after a failure the loop sleeps for a whole interval again.
ResumeLate ==
  /\ loop = "backoff" /\ timer = 0
  /\ loop' = "sleeping" /\ timer' = Interval
  /\ UNCHANGED <<idle, rejected, asked, failures, embargo>>

Resume ==
  /\ loop = "backoff" /\ timer = 0
  /\ loop' = "sleeping" /\ timer' = Wait(idle)
  /\ UNCHANGED <<idle, rejected, asked, failures, embargo>>

\* The entry is unloaded and set up again, with a new client that knows of no failure.
Reload ==
  /\ idle' = 0 /\ loop' = "sleeping" /\ timer' = Wait(idle')
  /\ rejected' = FALSE /\ asked' = FALSE /\ failures' = 0 /\ embargo' = 0

Next ==
  \/ Tick \/ Activity \/ RejectedElsewhere
  \/ Send \/ Answered \/ Refused \/ Unreachable \/ RateLimited \/ Die \/ Resume
  \/ Reload

\* Time passes, the loop runs on when its sleep is over, and a request with a rejected
\* client fails at once when it has the lock.
Fairness ==
  /\ WF_vars(Tick) /\ WF_vars(Send) /\ WF_vars(Resume)
  /\ WF_vars(rejected /\ Refused)

Spec == Init /\ [][Next]_vars /\ Fairness

-----------------------------------------------------------------------------
(* Properties *)

\* Every variable keeps its type.
TypeOK ==
  /\ loop \in {"sleeping", "requesting", "backoff", "returned", "died"}
  /\ timer \in Nat /\ idle \in Nat /\ embargo \in Nat
  /\ rejected \in BOOLEAN /\ asked \in BOOLEAN
  /\ failures \in 0 .. MaxFailures + 1

\* While the loop lives, the session is never idle for longer than the interval and one
\* request, and for every failure in a row one back-off, one wait and one request more.
IdleBounded ==
  ~Ended => idle <= Interval + MaxRequest + failures * (Interval + MinWait + MaxRequest)

\* No heartbeat is sent before the time the last failure forbids is over: the retry
\* interval, or what the server asked for up to the interval.
EmbargoKept == [][loop # "requesting" /\ loop' = "requesting" => embargo = 0]_vars

\* Whoever meets the rejection, the heartbeat hands it on to the user, unless it dies.
RejectionReported == rejected ~> (asked \/ loop = "died" \/ ~rejected)

=============================================================================
