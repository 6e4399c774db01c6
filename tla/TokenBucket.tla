---------------------------- MODULE TokenBucket ----------------------------
(***************************************************************************)
(* What ratelimit.nim promises: every key has a token bucket of its own    *)
(* that refills at a steady rate up to its burst, and a request is allowed *)
(* exactly when the bucket holds a whole token, which it then takes.  Only *)
(* a key that has spent nothing may be let through without being charged.  *)
(***************************************************************************)
EXTENDS Integers

CONSTANTS Keys, Rate, Burst, One

VARIABLES
    level,    \* level[k]: what k's bucket holds now, in parts of a token
    verdict   \* the answer to the last request

bucketVars == <<level, verdict>>

Full(k)    == Burst[k] * One
Limited(k) == Rate[k] > 0 /\ Burst[k] > 0

BucketInit ==
    /\ level = [k \in Keys |-> Full(k)]
    /\ verdict = "none"

\* Time passes: every bucket gains its rate, up to its burst.
Refill ==
    /\ level' = [k \in Keys |-> IF ~Limited(k) THEN level[k]
                                ELSE IF level[k] + Rate[k] < Full(k)
                                THEN level[k] + Rate[k] ELSE Full(k)]
    /\ UNCHANGED verdict

Request(k) ==
    IF ~Limited(k) THEN verdict' = "allow" /\ UNCHANGED level
    ELSE IF level[k] >= One
    THEN verdict' = "allow" /\ level' = [level EXCEPT ![k] = @ - One]
    ELSE verdict' = "refuse" /\ UNCHANGED level

\* The limiter has no room left to remember k: it fails open.
FailOpen(k) ==
    /\ level[k] = Full(k)
    /\ verdict' = "allow"
    /\ UNCHANGED level

BucketNext == Refill \/ \E k \in Keys : Request(k) \/ FailOpen(k)

BucketSpec == BucketInit /\ [][BucketNext]_bucketVars
=============================================================================
