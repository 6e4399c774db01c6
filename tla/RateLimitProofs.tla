-------------------------- MODULE RateLimitProofs --------------------------
(***************************************************************************)
(* Proofs about ratelimit.nim for any keys, limits, prune times and size   *)
(* of the table: the table stays within its limit, and what it promises    *)
(* when every caller uses the same limits.                                 *)
(***************************************************************************)
EXTENDS RateLimit, FiniteSetTheorems, TLAPS

\* The table never tracks a key without a limit, and is finite.
Tracked ==
    /\ IsFiniteSet(DOMAIN buckets)
    /\ \A k \in DOMAIN buckets : Limited(k)

IInv == TypeOK /\ Tracked

\* A table a call works on: part of the stored one.
PartOf(table) ==
    /\ DOMAIN table \subseteq DOMAIN buckets
    /\ \A j \in DOMAIN table : table[j] = buckets[j]

\* The product of an amount and a time is an amount.
LEMMA Products ==
    ASSUME NEW a \in Nat, NEW b \in Nat
    PROVE  a * b \in Nat
  OBVIOUS

\* Refilling a bucket gains nothing but tokens, and never above the burst.
LEMMA RefilledInRange ==
    ASSUME IInv, NEW k \in Keys, Limited(k),
           NEW b, b.tokens \in 0..Cap(k), b.last \in 0..now
    PROVE  /\ Cap(k) \in Nat /\ Cap(k) >= One
           /\ Gained(b, k) \in Nat /\ Gained(b, k) >= b.tokens
           /\ Refilled(b, k) \in 0..Cap(k)
<1>1. /\ Rate[k] \in Nat \ {0} /\ Burst[k] \in Nat \ {0} /\ One \in Nat \ {0}
      /\ Sub \in Nat \ {0}
  BY RateAssumption DEF Limited
<1>2. Cap(k) \in Nat /\ Cap(k) >= One
  BY <1>1 DEF Cap
<1> DEFINE d == now - b.last  q == d \div Sub  t == Sub * q  g == Rate[k] * t
<1>3. d \in Nat
  BY DEF IInv, TypeOK
<1> HIDE DEF d
<1>4. q \in Nat
  BY <1>1, <1>3
<1> HIDE DEF q
<1>5. t \in Nat
  BY <1>1, <1>4, Products, Zenon
<1> HIDE DEF t
<1>6. g \in Nat
  BY <1>1, <1>5, Products, Zenon
<1>7. Gained(b, k) = b.tokens + g
  BY Zenon DEF Gained, g, t, q, d
<1> HIDE DEF g
<1>8. b.tokens \in Nat
  BY <1>2
<1>9. Gained(b, k) \in Nat /\ Gained(b, k) >= b.tokens
  BY <1>6, <1>7, <1>8
<1>10. Refilled(b, k) \in 0..Cap(k)
  BY <1>2, <1>9 DEF Refilled, Least
<1> QED BY <1>2, <1>9, <1>10, Zenon

\* The prunes only take buckets out, and set the time of the last prune to a time
\* that has been.
LEMMA PrunesTakeOut ==
    ASSUME IInv, NEW k \in Keys
    PROVE  PartOf(AfterPrunes(k).table) /\ AfterPrunes(k).last \in 0..now
<1>1. lastPrune \in 0..now /\ now \in 0..now
  BY RateAssumption DEF IInv, TypeOK
<1>2. PartOf(AfterLazyPrune(k).table) /\ AfterLazyPrune(k).last \in 0..now
  BY <1>1, Zenon DEF AfterLazyPrune, PartOf, PruneStale
<1> QED BY <1>1, <1>2, Zenon DEF AfterPrunes, PartOf, PruneStale

\* The table after a call that stores tokens for k.
Stored(table, k, tokens) ==
    [j \in DOMAIN table \union {k} |->
        IF j = k THEN [tokens |-> tokens, last |-> now] ELSE table[j]]

\* The bucket of k that the call works on.
Bucket(table, k) == IF k \in DOMAIN table THEN table[k] ELSE Fresh(k)

\* The cases of a call for a key with a limit.
LEMMA CallCases ==
    ASSUME NEW k \in Keys, RateLimit(k), Limited(k)
    PROVE  LET table == AfterPrunes(k).table
               t == Refilled(Bucket(table, k), k)
           IN  /\ lastPrune' = AfterPrunes(k).last /\ now' = now
               /\ \/ /\ Full(table, k) /\ verdict' = "allow" /\ buckets' = table
                  \/ /\ ~Full(table, k) /\ t >= One
                     /\ verdict' = "allow" /\ buckets' = Stored(table, k, t - One)
                  \/ /\ ~Full(table, k) /\ t < One
                     /\ verdict' = "refuse" /\ buckets' = Stored(table, k, t)
  BY Zenon DEF RateLimit, Stored, Bucket

\* Storing a bucket keeps the table within its limit.
LEMMA StoreKeepsSize ==
    ASSUME IInv, NEW k \in Keys, Limited(k), NEW table, PartOf(table), ~Full(table, k),
           NEW tokens \in 0..Cap(k), buckets' = Stored(table, k, tokens), now' = now
    PROVE  /\ DOMAIN buckets' \subseteq Keys /\ IsFiniteSet(DOMAIN buckets')
           /\ Cardinality(DOMAIN buckets') <= MaxBuckets
           /\ \A j \in DOMAIN buckets' : /\ Limited(j)
                                         /\ buckets'[j].tokens \in 0..Cap(j)
                                         /\ buckets'[j].last \in 0..now
<1>1. /\ IsFiniteSet(DOMAIN buckets) /\ DOMAIN buckets \subseteq Keys
      /\ Cardinality(DOMAIN buckets) <= MaxBuckets /\ MaxBuckets \in Nat
      /\ \A j \in DOMAIN buckets : /\ Limited(j) /\ buckets[j].tokens \in 0..Cap(j)
                                   /\ buckets[j].last \in 0..now
      /\ now \in 0..now
  BY RateAssumption DEF IInv, TypeOK, Tracked
<1>2. IsFiniteSet(DOMAIN table) /\ Cardinality(DOMAIN table) <= MaxBuckets
      /\ Cardinality(DOMAIN table) \in Nat
  BY <1>1, FS_Subset, FS_CardinalityType DEF PartOf
<1>3. DOMAIN buckets' = DOMAIN table \union {k}
  BY Zenon DEF Stored
<1>4. /\ IsFiniteSet(DOMAIN table \union {k})
      /\ Cardinality(DOMAIN table \union {k}) <= MaxBuckets
  <2>1. CASE k \in DOMAIN table
    <3>1. DOMAIN table \union {k} = DOMAIN table
      BY <2>1, Zenon
    <3> QED BY <1>2, <3>1, Zenon
  <2>2. CASE k \notin DOMAIN table
    <3> DEFINE n == Cardinality(DOMAIN table)
    <3>1. /\ IsFiniteSet(DOMAIN table \union {k})
          /\ Cardinality(DOMAIN table \union {k}) = n + 1
      BY <1>2, <2>2, FS_AddElement, Zenon
    <3>2. ~(n >= MaxBuckets) /\ n \in Nat
      BY <1>2, <2>2, Zenon DEF Full
    <3> HIDE DEF n
    <3> QED BY <1>1, <3>1, <3>2
  <2> QED BY <2>1, <2>2, Zenon
<1>5. \A j \in DOMAIN buckets' :
        buckets'[j] = IF j = k THEN [tokens |-> tokens, last |-> now] ELSE table[j]
  BY <1>3, Zenon DEF Stored
<1>6. ASSUME NEW j \in DOMAIN buckets'
      PROVE  Limited(j) /\ buckets'[j].tokens \in 0..Cap(j) /\ buckets'[j].last \in 0..now
  <2>1. CASE j = k
    BY <1>1, <1>5, <2>1
  <2>2. CASE j /= k
    BY <1>1, <1>3, <1>5, <2>2, Zenon DEF PartOf
  <2> QED BY <2>1, <2>2, Zenon
<1> QED BY <1>1, <1>3, <1>4, <1>6, Zenon DEF PartOf

\* An empty table satisfies the inductive invariant.
LEMMA IInvInit == Init => IInv
<1> SUFFICES ASSUME Init PROVE IInv
  BY Zenon
<1>1. DOMAIN buckets = {}
  BY DEF Init
<1>2. IsFiniteSet(DOMAIN buckets) /\ Cardinality(DOMAIN buckets) = 0
  BY <1>1, FS_EmptySet, Zenon
<1>3. now \in 0..(MaxTime + PruneInterval) /\ lastPrune \in 0..now
  BY RateAssumption DEF Init
<1> QED BY <1>1, <1>2, <1>3, RateAssumption DEF IInv, TypeOK, Tracked, Init

\* A tick and a request, with the prune it may run, keep it.
LEMMA IInvNext == IInv /\ [Next]_vars => IInv'
<1> SUFFICES ASSUME IInv, [Next]_vars PROVE IInv'
  BY Zenon
<1>0. /\ now \in 0..(MaxTime + PruneInterval) /\ lastPrune \in 0..now
      /\ DOMAIN buckets \subseteq Keys /\ Cardinality(DOMAIN buckets) <= MaxBuckets
      /\ \A k \in DOMAIN buckets : /\ Limited(k) /\ buckets[k].tokens \in 0..Cap(k)
                                   /\ buckets[k].last \in 0..now
      /\ verdict \in {"none", "allow", "refuse"}
      /\ IsFiniteSet(DOMAIN buckets)
      /\ MaxTime \in Nat /\ PruneInterval \in Nat /\ MaxBuckets \in Nat
  BY RateAssumption, Zenon DEF IInv, TypeOK, Tracked
<1>1. CASE Tick
  <2> DEFINE n == Cardinality(DOMAIN buckets)
  <2>1. /\ now' \in 0..(MaxTime + PruneInterval) /\ lastPrune' \in 0..now'
        /\ \A i \in 0..now : i \in 0..now'
    BY <1>0, <1>1 DEF Tick
  <2>2. buckets' = buckets /\ verdict' = verdict
    BY <1>1, Zenon DEF Tick
  <2> QED BY <1>0, <2>1, <2>2, Zenon DEF IInv, TypeOK, Tracked, Limited, Cap
<1>2. ASSUME NEW k \in Keys, RateLimit(k) PROVE IInv'
  <2>0. now' = now
    BY <1>2, Zenon DEF RateLimit
  <2>1. CASE ~Limited(k)
    <3>1. verdict' = "allow" /\ buckets' = buckets /\ lastPrune' = lastPrune
      BY <1>2, <2>1, Zenon DEF RateLimit
    <3> QED BY <1>0, <2>0, <3>1, Zenon DEF IInv, TypeOK, Tracked, Limited, Cap
  <2>2. CASE Limited(k)
    <3> DEFINE table == AfterPrunes(k).table
               b == Bucket(table, k)
               t == Refilled(b, k)
    <3>1. PartOf(table) /\ AfterPrunes(k).last \in 0..now
      BY PrunesTakeOut, Zenon
    <3>2. lastPrune' \in 0..now'
      BY <1>2, <2>0, <2>2, <3>1, CallCases, Zenon
    <3>3. \/ verdict' = "allow" /\ buckets' = table
          \/ /\ ~Full(table, k) /\ t >= One
             /\ verdict' = "allow" /\ buckets' = Stored(table, k, t - One)
          \/ /\ ~Full(table, k) /\ verdict' = "refuse" /\ buckets' = Stored(table, k, t)
      BY <1>2, <2>2, CallCases, Zenon
    <3> HIDE DEF table
    <3>4. b.tokens \in 0..Cap(k) /\ b.last \in 0..now
      <4>1. CASE k \in DOMAIN table
        BY <1>0, <3>1, <4>1, Zenon DEF Bucket, PartOf
      <4>2. CASE k \notin DOMAIN table
        <5>1. Cap(k) \in 0..Cap(k)
          BY <2>2, RateAssumption DEF Limited, Cap
        <5> QED BY <1>0, <4>2, <5>1 DEF Bucket, Fresh
      <4> QED BY <4>1, <4>2, Zenon
    <3> HIDE DEF b
    <3>5. t \in 0..Cap(k) /\ Cap(k) \in Nat
      BY <2>2, <3>4, RefilledInRange, Zenon
    <3> HIDE DEF t
    <3>6. CASE buckets' = table /\ verdict' = "allow"
      <4>1. IsFiniteSet(DOMAIN table) /\ Cardinality(DOMAIN table) <= Cardinality(DOMAIN buckets)
        BY <1>0, <3>1, FS_Subset, Zenon DEF PartOf
      <4>2. Cardinality(DOMAIN table) \in Nat /\ Cardinality(DOMAIN buckets) \in Nat
        BY <1>0, <4>1, FS_CardinalityType, Zenon
      <4>3. Cardinality(DOMAIN table) <= MaxBuckets
        <5> DEFINE n == Cardinality(DOMAIN table)  m == Cardinality(DOMAIN buckets)
        <5>1. n \in Nat /\ m \in Nat /\ n <= m /\ m <= MaxBuckets
          BY <1>0, <4>1, <4>2, Zenon
        <5> HIDE DEF n, m
        <5>2. n <= MaxBuckets
          BY <1>0, <5>1
        <5> QED BY <5>2, Zenon DEF n
      <4>4. \A j \in DOMAIN table : /\ j \in Keys /\ Limited(j)
                                    /\ table[j].tokens \in 0..Cap(j)
                                    /\ table[j].last \in 0..now
        BY <1>0, <3>1, Zenon DEF PartOf
      <4> QED BY <1>0, <2>0, <3>2, <3>6, <4>1, <4>3, <4>4, Zenon
              DEF IInv, TypeOK, Tracked, Limited, Cap
    <3>7. CASE /\ ~Full(table, k) /\ verdict' \in {"allow", "refuse"}
               /\ \E u \in {t, t - One} : u >= 0 /\ buckets' = Stored(table, k, u)
      <4>1. PICK u \in {t, t - One} : u >= 0 /\ buckets' = Stored(table, k, u)
        BY <3>7, Zenon
      <4>2. u \in 0..Cap(k)
        BY <3>5, <4>1, RateAssumption
      <4>3. /\ DOMAIN buckets' \subseteq Keys /\ IsFiniteSet(DOMAIN buckets')
            /\ Cardinality(DOMAIN buckets') <= MaxBuckets
            /\ \A j \in DOMAIN buckets' : /\ Limited(j)
                                          /\ buckets'[j].tokens \in 0..Cap(j)
                                          /\ buckets'[j].last \in 0..now
        BY <2>0, <2>2, <3>1, <3>7, <4>1, <4>2, StoreKeepsSize, Zenon
      <4> QED BY <1>0, <2>0, <3>2, <3>7, <4>3, Zenon DEF IInv, TypeOK, Tracked, Limited, Cap
    <3>8. t >= One => t - One >= 0
      BY <3>5, RateAssumption
    <3>9. t >= 0
      BY <3>5
    <3> QED BY <3>3, <3>6, <3>7, <3>8, <3>9, Zenon
  <2> QED BY <2>1, <2>2, Zenon
<1>3. CASE UNCHANGED vars
  BY <1>0, <1>3, Zenon DEF vars, IInv, TypeOK, Tracked, Limited, Cap
<1> QED BY <1>1, <1>2, <1>3, Zenon DEF Next

\* The table of the limiter stays within its limit, and every stored bucket within
\* its burst and in the past, whatever limits the callers of rateLimit pass.
THEOREM TableBounded == Spec => []TypeOK
<1>1. Spec => []IInv
  BY IInvInit, IInvNext, PTL DEF Spec
<1>2. IInv => TypeOK
  BY Zenon DEF IInv
<1> QED BY <1>1, <1>2, PTL

-----------------------------------------------------------------------------
(* The promise: a token bucket per key, when the clock moves by whole       *)
(* milliseconds and the callers agree on the limits.                        *)

\* Every caller that limits passes the same rate and the same burst.
OneLimit ==
    \A j, k \in Keys : Limited(j) /\ Limited(k) => Rate[j] = Rate[k] /\ Burst[j] = Burst[k]

\* What k may spend by the table of a call under way.
LevelIn(table, k) == IF k \in DOMAIN table THEN Refilled(table[k], k) ELSE Cap(k)

\* What the prunes of a call took out was full again.
LEMMA PrunedWasFull ==
    ASSUME IInv, OneLimit, NEW k \in Keys, Limited(k),
           NEW j \in DOMAIN buckets, j \notin DOMAIN AfterPrunes(k).table
    PROVE  Refilled(buckets[j], j) = Cap(j)
<1>1. j \in Keys /\ Limited(j)
  BY Zenon DEF IInv, TypeOK, Tracked
<1>2. Gained(buckets[j], k) = Gained(buckets[j], j) /\ Cap(k) = Cap(j)
  BY <1>1, Zenon DEF OneLimit, Gained, Cap
<1>3. ~(Gained(buckets[j], k) < Cap(k))
  <2> DEFINE p == AfterLazyPrune(k)
  <2>1. j \notin DOMAIN p.table => ~(Gained(buckets[j], k) < Cap(k))
    BY Zenon DEF AfterLazyPrune, PruneStale
  <2>2. j \in DOMAIN p.table => p.table[j] = buckets[j]
    BY Zenon DEF AfterLazyPrune, PruneStale
  <2> HIDE DEF p
  <2>3. j \in DOMAIN p.table => ~(Gained(p.table[j], k) < Cap(k))
    BY Zenon DEF AfterPrunes, PruneStale, p
  <2> QED BY <2>1, <2>2, <2>3, Zenon
<1>4. Gained(buckets[j], j) \in Nat /\ Cap(j) \in Nat
  BY <1>1, RefilledInRange, Zenon DEF IInv, TypeOK
<1> QED BY <1>2, <1>3, <1>4 DEF Refilled, Least

\* So that no key can tell that there was a prune.
LEMMA PrunesKeepLevels ==
    ASSUME IInv, OneLimit, NEW k \in Keys, Limited(k), NEW j \in Keys
    PROVE  LevelIn(AfterPrunes(k).table, j) = Level(j)
<1>1. PartOf(AfterPrunes(k).table)
  BY PrunesTakeOut, Zenon
<1>2. CASE j \in DOMAIN AfterPrunes(k).table
  BY <1>1, <1>2, Zenon DEF LevelIn, Level, PartOf
<1>3. CASE j \notin DOMAIN AfterPrunes(k).table /\ j \in DOMAIN buckets
  BY <1>3, PrunedWasFull, Zenon DEF LevelIn, Level
<1>4. CASE j \notin DOMAIN AfterPrunes(k).table /\ j \notin DOMAIN buckets
  BY <1>4, Zenon DEF LevelIn, Level
<1> QED BY <1>2, <1>3, <1>4, Zenon

\* A bucket just stored holds what was stored.
LEMMA StoredNow ==
    ASSUME IInv, NEW k \in Keys, Limited(k), NEW u \in 0..Cap(k)
    PROVE  Refilled([tokens |-> u, last |-> now], k) = u
<1>1. now - now = 0 /\ Sub \in Nat \ {0} /\ Rate[k] \in Int /\ Cap(k) \in Int
  BY RateAssumption DEF IInv, TypeOK, Cap
<1>2. 0 \div Sub = 0
  BY <1>1
<1>3. Sub * 0 = 0 /\ Rate[k] * 0 = 0
  BY <1>1
<1>4. Gained([tokens |-> u, last |-> now], k) = u + 0
  BY <1>1, <1>2, <1>3, Zenon DEF Gained
<1> QED BY <1>1, <1>4 DEF Refilled, Least

\* A tick refills a bucket by its rate, up to its burst.
LEMMA TickRefills ==
    ASSUME IInv, Sub = 1, Tick, NEW k \in DOMAIN buckets
    PROVE  Level(k)' = IF Level(k) + Rate[k] < Cap(k) THEN Level(k) + Rate[k] ELSE Cap(k)
<1> DEFINE b == buckets[k]  d == now - b.last  r == Rate[k]
<1>1. k \in Keys /\ Limited(k) /\ b.tokens \in 0..Cap(k) /\ b.last \in 0..now /\ now \in Nat
  BY RateAssumption DEF IInv, TypeOK, Tracked
<1>2. r \in Nat \ {0} /\ Cap(k) \in Nat
  BY <1>1, RateAssumption DEF Limited, Cap
<1>3. d \in Nat /\ now' - b.last = d + 1
  BY <1>1 DEF Tick
<1>4. buckets' = buckets
  BY Zenon DEF Tick
<1> HIDE DEF b, d, r
<1>5. d \div 1 = d /\ (d + 1) \div 1 = d + 1 /\ 1 * d = d /\ 1 * (d + 1) = d + 1
  BY <1>3
<1>6. r * (d + 1) = r * d + r /\ r * d \in Nat
  BY <1>2, <1>3
<1>7. Level(k) = Least(Cap(k), b.tokens + r * d)
  BY <1>5, Zenon DEF Level, Refilled, Gained, b, d, r
<1>8. Level(k)' = Least(Cap(k), b.tokens + r * (d + 1))
  <2>1. Level(k)' = Least(Cap(k), b.tokens + Rate[k] * (Sub * ((now' - b.last) \div Sub)))
    BY <1>4, Zenon DEF Level, Refilled, Gained, b, Least, Cap
  <2> QED BY <1>3, <1>5, <2>1, Zenon DEF r
<1> DEFINE g == r * d  cap == Cap(k)  tok == b.tokens
<1>9. g \in Nat /\ cap \in Nat /\ tok \in Nat /\ r \in Nat \ {0}
  BY <1>1, <1>2, <1>6
<1>10. Level(k) = Least(cap, tok + g) /\ Level(k)' = Least(cap, tok + g + r)
  BY <1>1, <1>2, <1>6, <1>7, <1>8
<1> HIDE DEF g, cap, tok
<1>11. Level(k)' = IF Level(k) + r < cap THEN Level(k) + r ELSE cap
  BY <1>9, <1>10 DEF Least
<1> QED BY <1>11, Zenon DEF r, cap

\* No bucket yet: every key is promised its full burst.
LEMMA PromiseInit == Init => Promise!BucketInit
  BY DEF Init, Promise!BucketInit, Level, Promise!Full, Cap

\* A tick is a refill.
LEMMA TickIsRefill ==
    ASSUME IInv, Sub = 1, Tick
    PROVE  Promise!Refill
<1> DEFINE level == [k \in Keys |-> Level(k)]
<1>1. DOMAIN buckets \subseteq Keys /\ \A k \in DOMAIN buckets : Limited(k)
  BY Zenon DEF IInv, TypeOK, Tracked
<1>2. ASSUME NEW k \in Keys
      PROVE  Level(k)' = IF ~Limited(k) THEN Level(k)
                         ELSE IF Level(k) + Rate[k] < Cap(k) THEN Level(k) + Rate[k] ELSE Cap(k)
  <2>1. CASE k \in DOMAIN buckets
    BY <1>1, <2>1, TickRefills, Zenon
  <2>2. CASE k \notin DOMAIN buckets
    <3>1. Level(k)' = Cap(k) /\ Level(k) = Cap(k)
      BY <2>2, Zenon DEF Level, Tick, Cap
    <3>2. Limited(k) => ~(Cap(k) + Rate[k] < Cap(k))
      BY RateAssumption DEF Limited, Cap
    <3> QED BY <3>1, <3>2, Zenon
  <2> QED BY <2>1, <2>2, Zenon
<1>3. [k \in Keys |-> Level(k)'] = [k \in Keys |-> IF ~Promise!Limited(k) THEN level[k]
            ELSE IF level[k] + Rate[k] < Promise!Full(k)
            THEN level[k] + Rate[k] ELSE Promise!Full(k)]
  BY <1>2, Zenon DEF Promise!Limited, Promise!Full, Limited, Cap
<1> QED BY <1>3, Zenon DEF Promise!Refill, Tick

\* A call is a request, or a key that spent nothing let through for want of room.
LEMMA CallIsRequest ==
    ASSUME IInv, OneLimit, NEW k \in Keys, RateLimit(k)
    PROVE  Promise!Request(k) \/ Promise!FailOpen(k)
<1> DEFINE level == [j \in Keys |-> Level(j)]
<1>0. now' = now
  BY Zenon DEF RateLimit
<1>1. CASE ~Limited(k)
  <2>1. verdict' = "allow" /\ buckets' = buckets
    BY <1>1, Zenon DEF RateLimit
  <2>2. \A j \in Keys : Level(j)' = Level(j)
    BY <1>0, <2>1, Zenon DEF Level, Refilled, Gained, Cap, Least
  <2> QED BY <1>1, <2>1, <2>2, Zenon DEF Promise!Request, Promise!Limited, Limited
<1>2. CASE Limited(k)
  <2> DEFINE table == AfterPrunes(k).table
             t == Refilled(Bucket(table, k), k)
  <2>1. \/ /\ Full(table, k) /\ verdict' = "allow" /\ buckets' = table
        \/ /\ ~Full(table, k) /\ t >= One
           /\ verdict' = "allow" /\ buckets' = Stored(table, k, t - One)
        \/ /\ ~Full(table, k) /\ t < One
           /\ verdict' = "refuse" /\ buckets' = Stored(table, k, t)
    BY <1>2, CallCases, Zenon
  <2>2. \A j \in Keys : LevelIn(table, j) = Level(j)
    BY <1>2, PrunesKeepLevels, Zenon
  <2>3. PartOf(table)
    BY PrunesTakeOut, Zenon
  <2> HIDE DEF table
  <2>4. Cap(k) \in Nat /\ One \in Nat \ {0} /\ Cap(k) \in 0..Cap(k)
    BY <1>2, RateAssumption DEF Limited, Cap
  <2>5. t = Level(k)
    <3>1. CASE k \in DOMAIN table
      BY <2>2, <3>1, Zenon DEF LevelIn, Bucket
    <3>2. CASE k \notin DOMAIN table
      <4>1. t = Cap(k)
        BY <1>2, <2>4, <3>2, StoredNow, Zenon DEF Bucket, Fresh
      <4> QED BY <2>2, <3>2, <4>1, Zenon DEF LevelIn
    <3> QED BY <3>1, <3>2, Zenon
  <2>6. t \in 0..Cap(k)
    <3>1. k \in DOMAIN buckets => Level(k) \in 0..Cap(k)
      BY <1>2, RefilledInRange, Zenon DEF IInv, TypeOK, Level
    <3> QED BY <2>4, <2>5, <3>1, Zenon DEF Level
  <2> HIDE DEF t
  <2>7. CASE Full(table, k) /\ verdict' = "allow" /\ buckets' = table
    <3>1. \A j \in Keys : Level(j)' = LevelIn(table, j)
      BY <1>0, <2>7, Zenon DEF Level, LevelIn, Refilled, Gained, Cap, Least
    <3>2. Level(k) = Cap(k)
      BY <2>2, <2>7, Zenon DEF Full, LevelIn
    <3> QED BY <2>2, <2>7, <3>1, <3>2, Zenon DEF Promise!FailOpen, Promise!Full, Cap
  <2>8. ASSUME NEW u \in 0..Cap(k), buckets' = Stored(table, k, u)
        PROVE  \A j \in Keys : Level(j)' = IF j = k THEN u ELSE Level(j)
    <3>0. DOMAIN buckets' = DOMAIN table \union {k}
      BY <2>8, Zenon DEF Stored
    <3>1. buckets'[k] = [tokens |-> u, last |-> now]
      BY <2>8, Zenon DEF Stored
    <3>2. Level(k)' = Refilled([tokens |-> u, last |-> now], k)
      BY <1>0, <3>0, <3>1, Zenon DEF Level, Refilled, Gained, Cap, Least
    <3>3. Level(k)' = u
      BY <1>2, <3>2, StoredNow, Zenon
    <3>4. ASSUME NEW j \in Keys, j /= k PROVE Level(j)' = LevelIn(table, j)
      <4>1. CASE j \in DOMAIN table
        <5>1. buckets'[j] = table[j]
          BY <2>8, <3>4, <4>1, Zenon DEF Stored
        <5> QED BY <1>0, <3>0, <4>1, <5>1, Zenon DEF Level, LevelIn, Refilled, Gained, Cap, Least
      <4>2. CASE j \notin DOMAIN table
        BY <3>0, <3>4, <4>2, Zenon DEF Level, LevelIn, Cap
      <4> QED BY <4>1, <4>2, Zenon
    <3> QED BY <2>2, <3>3, <3>4, Zenon
  <2>9. CASE t >= One /\ verdict' = "allow" /\ buckets' = Stored(table, k, t - One)
    <3>1. t - One \in 0..Cap(k)
      BY <2>4, <2>6, <2>9
    <3>2. \A j \in Keys : Level(j)' = IF j = k THEN level[k] - One ELSE level[j]
      BY <2>5, <2>8, <2>9, <3>1, Zenon
    <3> HIDE DEF level
    <3>3. [j \in Keys |-> Level(j)'] = [level EXCEPT ![k] = @ - One]
      BY <3>2, Zenon DEF level
    <3>4. level[k] >= One
      BY <2>5, <2>9, Zenon DEF level
    <3> QED BY <1>2, <2>9, <3>3, <3>4, Zenon DEF Promise!Request, Promise!Limited, Limited, level
  <2>10. CASE t < One /\ verdict' = "refuse" /\ buckets' = Stored(table, k, t)
    <3>1. \A j \in Keys : Level(j)' = Level(j)
      BY <2>5, <2>6, <2>8, <2>10, Zenon
    <3>2. ~(level[k] >= One)
      BY <2>4, <2>5, <2>6, <2>10
    <3> QED BY <1>2, <2>10, <3>1, <3>2, Zenon DEF Promise!Request, Promise!Limited, Limited
  <2> QED BY <2>1, <2>7, <2>9, <2>10, Zenon
<1> QED BY <1>1, <1>2, Zenon

\* The lazy table, with its two kinds of prune and its limit in size, keeps the promise
\* of a bucket per key: a request is allowed exactly when the key's bucket, refilled
\* steadily, holds a token, or when the key had spent nothing.  It is a theorem for
\* callers with one limit, counted in whole milliseconds: pruneStale judges every bucket
\* by the limits of the caller, and the code drops the fraction of a millisecond.
THEOREM KeepsThePromise ==
    ASSUME Sub = 1, OneLimit
    PROVE  Spec => ImplementsTokenBucket
<1>1. Spec => []IInv
  BY IInvInit, IInvNext, PTL DEF Spec
<1>2. ASSUME IInv, [Next]_vars
      PROVE  [Promise!BucketNext]_(Promise!bucketVars)
  <2>1. CASE Tick
    BY <1>2, <2>1, TickIsRefill, Zenon DEF Promise!BucketNext
  <2>2. CASE \E k \in Keys : RateLimit(k)
    BY <1>2, <2>2, CallIsRequest, Zenon DEF Promise!BucketNext
  <2>3. CASE UNCHANGED vars
    BY <2>3, Zenon DEF vars, Promise!bucketVars, Level, Refilled, Gained, Cap, Least
  <2> QED BY <1>2, <2>1, <2>2, <2>3, Zenon DEF Next
<1> QED BY <1>1, <1>2, PromiseInit, PTL DEF Spec, ImplementsTokenBucket, Promise!BucketSpec

=============================================================================
