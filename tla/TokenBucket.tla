------------------------------ MODULE TokenBucket ------------------------------
(***************************************************************************)
(* RateLimiter: one token bucket in Redis, of all calls, of a user or of   *)
(* an activity, and the calls that pass it.  Time passes in ticks, and a   *)
(* token is cut into Unit parts, so that a tick brings a whole number of   *)
(* them.                                                                   *)
(***************************************************************************)
EXTENDS Integers

CONSTANTS
    Limit,      \* limit: calls in a window
    Burst,      \* burst: calls at once; none given is 0
    Window,     \* window, in ticks
    Second,     \* ticks in a second
    MinTtl,     \* the least time to live of a key, 60 seconds, in ticks
    MaxTtl,     \* the longest, seven days
    MaxBack,    \* bound on how far Redis's clock may be set back
    MaxElapsed, \* bound on the ticks of an observation
    BucketFaults

(***************************************************************************)
(* StoreError  the script reports an error, run or not                     *)
(* ClockBack   Redis's clock is set back                                   *)
(***************************************************************************)
BucketFault == {"StoreError", "ClockBack"}

ASSUME BucketAssumption ==
    /\ Limit \in Nat \ {0} /\ Burst \in Nat
    /\ Window \in Nat \ {0} /\ Second \in Nat \ {0}
    /\ MinTtl \in Nat \ {0} /\ MaxTtl \in Nat \ {0}
    /\ MaxBack \in Nat /\ MaxElapsed \in Nat
    /\ BucketFaults \subseteq BucketFault

(***************************************************************************)
(* bucketParams                                                            *)
(***************************************************************************)
Unit == Window
Rate == Limit

BucketSize == Unit * (IF Burst = 0 THEN Limit ELSE Burst)

\* math.Ceil of three windows in seconds, within its limits, in ticks.
BucketTtl ==
    LET ceil == Second * ((3 * Window + Second - 1) \div Second)
    IN  CASE ceil < MinTtl -> MinTtl
          [] ceil > MaxTtl -> MaxTtl
          [] OTHER -> ceil

\* What the callers rely on: a bucket whose key expires would have been full.
ASSUME RefillAssumption == BucketTtl \in Nat \ {0} /\ BucketTtl * Rate >= BucketSize

\* The longest pause after which a token is there again.
Pace == (Unit + Rate - 1) \div Rate

VARIABLES
    key,      \* is the bucket in Redis
    tokens,   \* the parts it had when it was written
    age,      \* ticks of Redis's clock since then
    passed,   \* calls that passed since an observer came
    observed, \* ticks since he came
    paced,    \* each call so far came Pace after the one before
    refused   \* was the last call refused

bucketVars == <<key, tokens, age, passed, observed, paced, refused>>

BucketTypeOK ==
    /\ key \in BOOLEAN
    /\ tokens \in 0 .. BucketSize
    /\ age \in (0 - MaxBack) .. (BucketTtl - 1)
    /\ passed \in Nat
    /\ observed \in 0 .. MaxElapsed
    /\ paced \in BOOLEAN /\ refused \in BOOLEAN

BucketInit ==
    /\ key = FALSE
    /\ tokens = 0
    /\ age = 0
    /\ passed = 0
    /\ observed = 0
    /\ paced = TRUE
    /\ refused = FALSE

-------------------------------------------------------------------------------
(* tokenBucketScript *)

Least(a, b) == IF a <= b THEN a ELSE b

\* What a time brings; a clock that went back brings nothing.
Refill == IF age < 0 THEN 0 ELSE Rate * age

\* Mutant: the bucket is not capped.
Overflow == IF key THEN tokens + Refill ELSE BucketSize

\* What is in the bucket now; the first call finds it full.
Available == IF key THEN Least(BucketSize, tokens + Refill) ELSE BucketSize

Allowed == Available >= Unit

\* The script writes what is left and starts the time to live anew.
Script ==
    /\ tokens' = IF Allowed THEN Available - Unit ELSE Available
    /\ key' = TRUE
    /\ age' = 0

Calls ==
    /\ Script
    /\ passed' = IF Allowed THEN passed + 1 ELSE passed
    /\ refused' = ~Allowed
    /\ paced' = (paced /\ (key => age >= Pace))
    /\ UNCHANGED observed

\* A call whose script reports an error is refused, whatever the script did.
CallFails ==
    /\ "StoreError" \in BucketFaults
    /\ \/ Script /\ paced' = (paced /\ (key => age >= Pace))
       \/ UNCHANGED <<key, tokens, age, paced>>
    /\ refused' = FALSE
    /\ UNCHANGED <<passed, observed>>

\* The key expires when nobody called for its time to live.
BucketTick ==
    /\ observed < MaxElapsed
    /\ observed' = observed + 1
    /\ IF key /\ age + 1 < BucketTtl
       THEN age' = age + 1 /\ UNCHANGED <<key, tokens>>
       ELSE key' = FALSE /\ age' = 0 /\ tokens' = 0
    /\ UNCHANGED <<passed, paced, refused>>

ClockBack ==
    /\ "ClockBack" \in BucketFaults
    /\ key
    /\ \E d \in 1 .. MaxBack : age - d >= 0 - MaxBack /\ age' = age - d
    /\ paced' = FALSE
    /\ UNCHANGED <<key, tokens, passed, observed, refused>>

\* An observer comes and counts from now on.
Observe ==
    /\ passed' = 0
    /\ observed' = 0
    /\ UNCHANGED <<key, tokens, age, paced, refused>>

BucketNext == Calls \/ CallFails \/ BucketTick \/ ClockBack \/ Observe

BucketSpec == BucketInit /\ [][BucketNext]_bucketVars

-------------------------------------------------------------------------------
(* Properties. *)

\* However the calls come, in any stretch of time no more of them pass than the burst
\* and what the rate brings: neither an expired key nor a clock set back gives more.
RateBounded == passed * Unit <= BucketSize + Rate * observed

\* A caller who leaves one token's time between his calls is never refused.
PacedIsServed == paced => ~refused
===============================================================================
