----------------------- MODULE EnergyKeyHeartbeatProofs -----------------------
(***************************************************************************)
(* Theorems about EnergyKeyHeartbeat, for any intervals, any Retry-After   *)
(* and any number of failures.                                             *)
(***************************************************************************)
EXTENDS EnergyKeyHeartbeat, TLAPS

\* The larger and the smaller of two numbers.
LEMMA PairOrder ==
  ASSUME NEW a \in Nat, NEW b \in Nat
  PROVE  /\ Max({a, b}) = IF a >= b THEN a ELSE b
         /\ Min({a, b}) = IF a <= b THEN a ELSE b
<1>1. ASSUME NEW x \in {a, b}, \A y \in {a, b} : x >= y
      PROVE  Max({a, b}) = x
  <2>1. Max({a, b}) \in {a, b} /\ \A y \in {a, b} : Max({a, b}) >= y
    BY <1>1 DEF Max
  <2> QED BY <1>1, <2>1
<1>2. ASSUME NEW x \in {a, b}, \A y \in {a, b} : x <= y
      PROVE  Min({a, b}) = x
  <2>1. Min({a, b}) \in {a, b} /\ \A y \in {a, b} : Min({a, b}) <= y
    BY <1>2 DEF Min
  <2> QED BY <1>2, <2>1
<1>3. Max({a, b}) = IF a >= b THEN a ELSE b
  <2>1. CASE a >= b  BY <2>1, <1>1
  <2>2. CASE ~(a >= b)  BY <2>2, <1>1
  <2> QED BY <2>1, <2>2
<1>4. Min({a, b}) = IF a <= b THEN a ELSE b
  <2>1. CASE a <= b  BY <2>1, <1>2
  <2>2. CASE ~(a <= b)  BY <2>2, <1>2
  <2> QED BY <2>1, <2>2
<1> QED BY <1>3, <1>4

\* A wait ends when the session has been idle for the interval, or after MinWait.
LEMMA WaitValue ==
  ASSUME NEW i \in Nat
  PROVE  /\ Wait(i) \in Nat
         /\ i + Wait(i) <= Interval \/ Wait(i) = MinWait
<1> DEFINE rest == IF i < Interval THEN Interval - i ELSE 0
<1>1. rest \in Nat
  BY TimeAssumption
<1>2. Wait(i) = IF MinWait >= rest THEN MinWait ELSE rest
  BY <1>1, TimeAssumption, PairOrder DEF Wait
<1> QED BY <1>1, <1>2, TimeAssumption

\* A back-off lies between the retry interval and the interval, and is as long as the
\* failure asks for.
LEMMA BackOffTime ==
  ASSUME NEW r \in RetryAfter
  PROVE  LET serverWait == IF r # 0 THEN r ELSE RetryInterval
             time == Max({RetryInterval, Min({serverWait, Interval})})
             ask == Min({Interval, Max({r, RetryInterval})})
         IN  time \in Nat /\ ask \in Nat /\ ask <= time /\ time <= Interval
<1> DEFINE serverWait == IF r # 0 THEN r ELSE RetryInterval
<1>1. r \in Nat /\ serverWait \in Nat /\ RetryInterval \in Nat /\ Interval \in Nat
  BY TimeAssumption
<1>2. Min({serverWait, Interval}) = IF serverWait <= Interval THEN serverWait ELSE Interval
  BY <1>1, PairOrder
<1>3. Max({r, RetryInterval}) = IF r >= RetryInterval THEN r ELSE RetryInterval
  BY <1>1, PairOrder
<1> DEFINE most == Min({serverWait, Interval})
           least == Max({r, RetryInterval})
<1>4. most \in Nat /\ least \in Nat
  BY <1>1, <1>2, <1>3
<1>5. Max({RetryInterval, most}) = IF RetryInterval >= most THEN RetryInterval ELSE most
  BY <1>1, <1>4, PairOrder
<1>6. Min({Interval, least}) = IF Interval <= least THEN Interval ELSE least
  BY <1>1, <1>4, PairOrder
<1> QED BY <1>1, <1>2, <1>3, <1>5, <1>6, TimeAssumption

-----------------------------------------------------------------------------
(* The inductive invariant *)

\* How long the session may have been idle when a heartbeat is sent after f failures.
Step == Interval + MinWait + MaxRequest
Budget(f) == Interval + f * Step

\* The time that is left until the next heartbeat is within the budget, and covers what the
\* last failure forbids.
Within ==
  /\ ~Ended => failures <= MaxFailures
  /\ loop = "sleeping" => idle + timer <= Budget(failures) /\ embargo <= timer
  /\ loop = "requesting" =>
       timer <= MaxRequest /\ idle <= Budget(failures) + timer /\ embargo = 0
  /\ loop = "backoff" => idle + timer + MinWait <= Budget(failures) /\ embargo <= timer

IInv == TypeOK /\ Within

\* The budget grows by one step with each failure.
LEMMA BudgetGrows ==
  /\ Step \in Nat
  /\ Budget(0) = Interval
  /\ \A f \in Nat : /\ Budget(f) \in Nat /\ Budget(f) >= Interval
                    /\ Budget(f + 1) = Budget(f) + Step
<1>1. Step \in Nat /\ Interval \in Nat
  BY TimeAssumption DEF Step
<1>2. \A f \in Nat, k \in Nat : f * k \in Nat /\ (f + 1) * k = f * k + k
  OBVIOUS
<1>3. \A k \in Nat : 0 * k = 0
  OBVIOUS
<1> HIDE DEF Step
<1> QED BY <1>1, <1>2, <1>3 DEF Budget

\* The invariant holds of a loop that starts.
LEMMA InitInv ==
  ASSUME idle = 0, loop = "sleeping", timer = Wait(0), failures = 0, embargo = 0,
         rejected \in BOOLEAN, asked \in BOOLEAN
  PROVE  IInv
<1>1. timer \in Nat /\ 0 + timer <= Interval
  BY WaitValue, TimeAssumption
<1>2. TypeOK
  BY <1>1, TimeAssumption DEF TypeOK
<1>3. Within
  BY <1>1, BudgetGrows, TimeAssumption DEF Within, Ended
<1> QED BY <1>2, <1>3 DEF IInv

\* Every step, and every stutter, keeps the invariant.
LEMMA NextInv == IInv /\ [Next]_vars => IInv'
<1> SUFFICES ASSUME IInv, [Next]_vars PROVE IInv'
  OBVIOUS
<1> USE TimeAssumption
<1>1. /\ failures \in Nat /\ idle \in Nat /\ timer \in Nat /\ embargo \in Nat
      /\ Budget(failures) \in Nat /\ Budget(failures) >= Interval
      /\ Budget(failures + 1) = Budget(failures) + Step
  <2>1. failures \in Nat /\ idle \in Nat /\ timer \in Nat /\ embargo \in Nat
    BY DEF IInv, TypeOK
  <2> QED BY <2>1, BudgetGrows
<1>2. CASE Tick
  BY <1>1, <1>2 DEF IInv, TypeOK, Within, Ended, Tick, Asleep
<1>3. CASE Activity
  <2>1. TypeOK'
    BY <1>3 DEF IInv, TypeOK, Activity
  <2>2. Within'
    BY <1>1, <1>3 DEF IInv, Within, Ended, Activity
  <2> QED BY <2>1, <2>2 DEF IInv
<1>4. CASE RejectedElsewhere
  <2>1. TypeOK'
    BY <1>4 DEF IInv, TypeOK, RejectedElsewhere
  <2>2. Within'
    BY <1>4 DEF IInv, Within, Ended, RejectedElsewhere
  <2> QED BY <2>1, <2>2 DEF IInv
<1>5. CASE Send
  BY <1>1, <1>5 DEF IInv, TypeOK, Within, Ended, Send
<1>6. CASE Answered
  <2>1. /\ idle' = 0 /\ loop' = "sleeping" /\ timer' = Wait(0) /\ failures' = 0 /\ embargo' = 0
        /\ timer' \in Nat /\ timer' <= Interval
    BY <1>6, WaitValue DEF Answered
  <2> QED BY <2>1, <1>6, BudgetGrows DEF IInv, TypeOK, Within, Ended, Answered
<1>7. CASE Refused
  <2>1. failures' \in 0 .. MaxFailures + 1
    BY <1>1, <1>7 DEF IInv, Within, Ended, Refused
  <2> QED BY <2>1, <1>7 DEF IInv, TypeOK, Within, Ended, Refused
<1>8. CASE Die
  BY <1>8 DEF IInv, TypeOK, Within, Ended, Die
<1>9. ASSUME NEW time \in Nat, BackOff(time), time <= Interval,
             embargo' \in Nat, embargo' <= time
      PROVE  IInv'
  <2>1. idle + time + MinWait <= Budget(failures) + Step
    BY <1>1, <1>9 DEF IInv, Within, BackOff, Step
  <2> QED BY <1>1, <1>9, <2>1 DEF IInv, TypeOK, Within, Ended, BackOff
<1>10. CASE Unreachable
  BY <1>9, <1>10 DEF Unreachable
<1>11. CASE RateLimited
  BY <1>9, <1>11, BackOffTime DEF RateLimited
<1>12. CASE Resume
  <2>1. timer' = Wait(idle) /\ timer' \in Nat
        /\ (idle + timer' <= Interval \/ timer' = MinWait)
    BY <1>1, <1>12, WaitValue DEF Resume
  <2> QED BY <1>1, <1>12, <2>1 DEF IInv, TypeOK, Within, Ended, Resume
<1>13. CASE Reload
  <2>1. /\ idle' = 0 /\ loop' = "sleeping" /\ timer' = Wait(0) /\ failures' = 0 /\ embargo' = 0
        /\ timer' \in Nat /\ timer' <= Interval
    BY <1>13, WaitValue DEF Reload
  <2>2. TypeOK'
    <3>1. 0 \in 0 .. MaxFailures + 1 /\ 0 \in Nat
      OBVIOUS
    <3>2. rejected' \in BOOLEAN /\ asked' \in BOOLEAN
      BY <1>13 DEF Reload
    <3> QED BY <2>1, <3>1, <3>2 DEF TypeOK
  <2>3. Within'
    BY <2>1, BudgetGrows DEF Within, Ended
  <2> QED BY <2>2, <2>3 DEF IInv
<1>14. CASE UNCHANGED vars
  BY <1>14 DEF IInv, TypeOK, Within, Ended, vars
<1> QED
  BY <1>2, <1>3, <1>4, <1>5, <1>6, <1>7, <1>8, <1>9, <1>10, <1>11, <1>12, <1>13, <1>14 DEF Next

-----------------------------------------------------------------------------
(* Theorems *)

\* The invariant: types, and the time until the next heartbeat within the budget.
THEOREM Invariance == Spec => []IInv
<1>1. Init => IInv
  BY InitInv DEF Init
<1> QED BY <1>1, NextInv, PTL DEF Spec

\* Every variable keeps its type.
THEOREM TypeCorrect == Spec => []TypeOK
<1>1. IInv => TypeOK
  BY DEF IInv
<1> QED BY <1>1, Invariance, PTL

\* While the loop lives the session is never idle for longer than the interval, one request,
\* and one round of back-off, wait and request for each failure in a row.
THEOREM IdleBoundedHolds == Spec => []IdleBounded
<1>1. IInv => IdleBounded
  <2> SUFFICES ASSUME IInv, ~Ended PROVE IdleBounded
    BY DEF IdleBounded
  <2>1. failures \in Nat /\ idle \in Nat /\ timer \in Nat /\ Budget(failures) \in Nat
    BY BudgetGrows, TimeAssumption DEF IInv, TypeOK
  <2>2. idle <= Budget(failures) + MaxRequest
    BY <2>1, TimeAssumption DEF IInv, TypeOK, Within, Ended
  <2>3. failures * Step \in Nat /\ Budget(failures) = Interval + failures * Step
    BY <2>1, BudgetGrows, TimeAssumption DEF Budget
  <2>4. idle <= Interval + MaxRequest + failures * Step
    BY <2>1, <2>2, <2>3, TimeAssumption
  <2> QED BY <2>4 DEF IdleBounded, Step
<1> QED BY <1>1, Invariance, PTL

\* No heartbeat is sent before the time the last failure forbids is over.
THEOREM EmbargoKeptHolds == Spec => EmbargoKept
<1>1. IInv /\ [Next]_vars => [loop # "requesting" /\ loop' = "requesting" => embargo = 0]_vars
  <2> SUFFICES ASSUME IInv, Next, loop # "requesting", loop' = "requesting" PROVE embargo = 0
    OBVIOUS
  <2>1. Send
    BY DEF Next, Tick, Activity, RejectedElsewhere, Answered, Refused, Unreachable, RateLimited,
           BackOff, Die, Resume, Reload
  <2> QED BY <2>1 DEF IInv, TypeOK, Within, Send
<1> QED BY <1>1, Invariance, PTL DEF Spec, EmbargoKept
=============================================================================
