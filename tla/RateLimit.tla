----------------------------- MODULE RateLimit -----------------------------
(***************************************************************************)
(* The per-thread token-bucket limiter of ratelimit.nim: a table of        *)
(* buckets brought up to date only when their key is seen, pruned of the   *)
(* buckets that are full again, and limited in size.                       *)
(*                                                                         *)
(* Time is counted in ticks, Sub of them to a millisecond; tokens in parts *)
(* of a token, One of them to a token, so that every amount is an integer. *)
(***************************************************************************)
EXTENDS Integers, FiniteSets

CONSTANTS
    Keys,
    Rate,           \* Rate[k]: parts of a token per tick, k's ratePerSec
    Burst,          \* Burst[k]: k's burst
    One,            \* parts in a token
    Sub,            \* ticks in a millisecond
    PruneInterval,  \* pruneIntervalSec, in ticks
    PruneThrottle,  \* the pause between prunes of a full table, in ticks
    MaxBuckets,     \* maxBuckets
    MaxTime         \* bound: the clock

ASSUME RateAssumption ==
    /\ Rate \in [Keys -> Int] /\ Burst \in [Keys -> Int]
    /\ One \in Nat \ {0} /\ Sub \in Nat \ {0}
    /\ PruneInterval \in Nat /\ PruneThrottle \in Nat
    /\ MaxBuckets \in Nat /\ MaxTime \in Nat

VARIABLES
    now,        \* the monotonic clock
    buckets,    \* the table: tracked keys to what was stored for them
    lastPrune,
    verdict     \* the answer to the last call

vars == <<now, buckets, lastPrune, verdict>>

Cap(k)     == Burst[k] * One
Limited(k) == Rate[k] > 0 /\ Burst[k] > 0
Least(a, b) == IF a < b THEN a ELSE b

\* A fresh thread: an empty table, a zero lastPrune, and a clock that may or
\* may not be a prune interval away from zero.
Init ==
    /\ now \in {0, PruneInterval}
    /\ buckets = << >>
    /\ lastPrune = 0
    /\ verdict = "none"

\* What bucket b holds now by k's limits: whole milliseconds count.
Gained(b, k)   == b.tokens + Rate[k] * (Sub * ((now - b.last) \div Sub))
Refilled(b, k) == Least(Cap(k), Gained(b, k))

\* Mutant: a bucket with a token to spare counts as full.
PruneEarly(table, k) ==
    [j \in {i \in DOMAIN table : Gained(table[i], k) < One} |-> table[j]]

\* pruneStale, called by a request for k: it judges every bucket by the limits
\* of that request.
PruneStale(table, k) ==
    [j \in {i \in DOMAIN table : Gained(table[i], k) < Cap(k)} |-> table[j]]

\* Mutant: the table takes one key too many.
FullPastCap(table, k) ==
    Cardinality(DOMAIN table) > MaxBuckets /\ k \notin DOMAIN table

\* An unseen key finds no room.
Full(table, k) ==
    Cardinality(DOMAIN table) >= MaxBuckets /\ k \notin DOMAIN table

\* The table after the lazy prune, and the time of the last prune.
AfterLazyPrune(k) ==
    IF DOMAIN buckets /= {} /\ now - lastPrune >= PruneInterval
    THEN [table |-> PruneStale(buckets, k), last |-> now]
    ELSE [table |-> buckets, last |-> lastPrune]

\* The same after the throttled prune that makes room for an unseen key.
AfterPrunes(k) ==
    LET p == AfterLazyPrune(k)
    IN  IF Full(p.table, k) /\ now - p.last >= PruneThrottle
        THEN [table |-> PruneStale(p.table, k), last |-> now]
        ELSE p

\* The bucket of a key seen for the first time.
Fresh(k) == [tokens |-> Cap(k), last |-> now]

\* rateLimit(key, ratePerSec, burst).
RateLimit(k) ==
    LET p == AfterPrunes(k)
        b == IF k \in DOMAIN p.table THEN p.table[k] ELSE Fresh(k)
        t == Refilled(b, k)
        Store(tokens) ==
            [j \in DOMAIN p.table \union {k} |->
                IF j = k THEN [tokens |-> tokens, last |-> now]
                ELSE p.table[j]]
    IN  /\ IF ~Limited(k)
           THEN verdict' = "allow" /\ UNCHANGED <<buckets, lastPrune>>
           ELSE /\ lastPrune' = p.last
                /\ \/ /\ Full(p.table, k)        \* allowed and not tracked
                      /\ verdict' = "allow"
                      /\ buckets' = p.table
                   \/ /\ ~Full(p.table, k) /\ t >= One
                      /\ verdict' = "allow"
                      /\ buckets' = Store(t - One)
                   \/ /\ ~Full(p.table, k) /\ t < One
                      /\ verdict' = "refuse"
                      /\ buckets' = Store(t)
        /\ UNCHANGED now

Tick ==
    /\ now < MaxTime
    /\ now' = now + 1
    /\ UNCHANGED <<buckets, lastPrune, verdict>>

Next == Tick \/ \E k \in Keys : RateLimit(k)

Spec == Init /\ [][Next]_vars

-----------------------------------------------------------------------------
(* Properties.                                                             *)

\* However many keys are seen, the table stays within its limit, and a stored
\* bucket is never negative, above its own burst or from the future.
TypeOK ==
    /\ now \in 0..(MaxTime + PruneInterval) /\ lastPrune \in 0..now
    /\ DOMAIN buckets \subseteq Keys /\ Cardinality(DOMAIN buckets) <= MaxBuckets
    /\ \A k \in DOMAIN buckets : /\ buckets[k].tokens \in 0..Cap(k)
                                 /\ buckets[k].last \in 0..now
    /\ verdict \in {"none", "allow", "refuse"}

\* What a key may spend now; an untracked key is as good as full.
Level(k) == IF k \in DOMAIN buckets THEN Refilled(buckets[k], k) ELSE Cap(k)

\* The lazy table with its prunes is the promised bucket per key: nobody can
\* tell that buckets are brought up to date late and dropped when full.
Promise == INSTANCE TokenBucket WITH level <- [k \in Keys |-> Level(k)]
ImplementsTokenBucket == Promise!BucketSpec

=============================================================================
