------------------------------ MODULE MixSplit ------------------------------
(***************************************************************************)
(* How the stress client turns the VORTEX_MIX knob and a worker budget     *)
(* into the slices of a mixed soak: parse_mix and split_mix of             *)
(* conformance/stress/client/stress_client.py.  The knob is a sequence of  *)
(* entries; an entry is the workload it names and its weight.              *)
(***************************************************************************)
EXTENDS Integers, Sequences, FiniteSets, SequencesExt, FiniteSetsExt

\* The order of MIX_DEFAULT, which parse_mix and split_mix both follow.
MixOrder == <<"requests", "ws", "sse", "streamupload", "streamdownload">>

Workloads == {MixOrder[i] : i \in DOMAIN MixOrder}

MixDefault ==
    [k \in Workloads |->
        IF k = "requests" THEN 40 ELSE IF k \in {"ws", "sse"} THEN 20 ELSE 10]

\* The slices fixed at one worker: one whole transfer in flight per client.
MixFixed == {"streamupload", "streamdownload"}

\* An entry with no "=", and a weight that is not a decimal number.
NoWeight == -2
BadWeight == -1

-----------------------------------------------------------------------------
\* parse_mix reads the entries from left to right; a blank one is skipped and
\* the first one it rejects ends the program.
RejectsEntry(e, seen) ==
    \/ e.weight = NoWeight
    \/ e.key \notin Workloads
    \/ e.key \in seen
    \/ e.weight = BadWeight

ParseEntry(e, st) ==
    IF st.failed \/ e.key = "" THEN st
    ELSE IF RejectsEntry(e, st.seen) THEN [st EXCEPT !.failed = TRUE]
    ELSE [st EXCEPT !.seen = @ \cup {e.key}, !.share[e.key] = e.weight]

\* The weights of the workloads to run; the empty mix stands for exit 2.
ParseMix(knob) ==
    LET st == FoldLeft(LAMBDA acc, e : ParseEntry(e, acc),
                       [failed |-> FALSE, seen |-> {}, share |-> MixDefault],
                       knob)
        kept == {k \in Workloads : st.share[k] > 0}
    IN  IF st.failed THEN <<>> ELSE [k \in kept |-> st.share[k]]

-----------------------------------------------------------------------------
\* left * w / total_w is a double.  Its fractional part differs from the exact
\* one by the rounding of the quotient, and the sort compares the rounded
\* parts.  Two exact remainders that differ do so by far more than a rounding
\* error, so only the order of equal ones depends on it.

\* 2^i modulo d.
PowerMod(i, d) == LET p[j \in 0..i] == IF j = 0 THEN 1 % d ELSE (2 * p[j - 1]) % d
                  IN  p[i]

\* The binary exponent of n / d, for 0 < n < 2^20 * d and d < 2^20 * n.
Exponent(n, d) ==
    IF n >= d THEN Max({e \in 0..20 : 2^e * d <= n})
              ELSE -Min({e \in 1..20 : 2^e * n >= d})

\* The rounding error of n / d, in units of 2^(Exponent - 52) / d: a double has
\* 52 bits below its leading one, and rounds to the nearest.
RoundingError(n, d) ==
    LET rem == ((n % d) * PowerMod(52 - Exponent(n, d), d)) % d
    IN  IF 2 * rem <= d THEN -rem ELSE d - rem

\* The fractional part of n / d, rounded, is less than that of m / d.
RemainderBelow(n, m, d) ==
    IF n % d # m % d THEN n % d < m % d
    ELSE LET low == Min({Exponent(n, d), Exponent(m, d)})
         IN  RoundingError(n, d) * 2^(Exponent(n, d) - low)
                < RoundingError(m, d) * 2^(Exponent(m, d) - low)

\* The place of k in sorted(exact, key=remainder, reverse=True), from 0.
SparePlace(k, rest, left, total) ==
    LET pos(j) == CHOOSE i \in DOMAIN rest : rest[i].key = j
        quota(j) == left * rest[pos(j)].weight
    IN  Cardinality({i \in DOMAIN rest :
            LET j == rest[i].key IN
            \/ RemainderBelow(quota(k), quota(j), total)
            \/ /\ i < pos(k)
               /\ ~RemainderBelow(quota(j), quota(k), total)})

\* Mutant: a slice rounded to zero stays there.
FlooredNever(alloc, keys) == alloc

\* Each slice rounded to zero gets a worker of the first largest one.
Floored(alloc, keys) ==
    FoldLeft(LAMBDA acc, k :
                 LET most == Max({acc[j] : j \in DOMAIN acc})
                     donor == keys[Min({i \in DOMAIN keys : acc[keys[i]] = most})]
                 IN  [acc EXCEPT ![donor] = @ - 1, ![k] = 1],
             alloc, SelectSeq(keys, LAMBDA k : alloc[k] = 0))

\* Largest remainder over the workers the request-shaped slices share.
Allocate(left, rest) ==
    LET total == FoldLeft(LAMBDA acc, r : acc + r.weight, 0, rest)
        keys == [i \in DOMAIN rest |-> rest[i].key]
        whole == [k \in Range(keys) |->
                    (left * rest[CHOOSE i \in DOMAIN rest : rest[i].key = k].weight)
                        \div total]
        spare == left - FoldLeft(LAMBDA acc, k : acc + whole[k], 0, keys)
    IN  Floored([k \in Range(keys) |->
                    IF SparePlace(k, rest, left, total) < spare
                    THEN whole[k] + 1 ELSE whole[k]],
                keys)

\* The workers of each slice; the empty split stands for exit 2.
SplitMix(budget, mix) ==
    LET n == Cardinality(DOMAIN mix)
        keys == SelectSeq(MixOrder, LAMBDA k : k \in DOMAIN mix \ MixFixed)
        rest == [i \in DOMAIN keys |-> [key |-> keys[i], weight |-> mix[keys[i]]]]
        extra == budget - n
        ones == [k \in DOMAIN mix |-> 1]
    IN  IF n = 0 \/ extra < 0 THEN <<>>
        ELSE IF rest = <<>> \/ extra = 0 THEN ones
        ELSE Allocate(extra + Len(rest), rest) @@ ones

-----------------------------------------------------------------------------
\* What the docstrings of the two functions promise.

\* A knob is read as its words say, or not at all: every entry is well formed
\* and names a workload at most once, and then each workload has the weight
\* the knob gives it, or its default.
ParsedAsWritten(knob, mix) ==
    LET named == {i \in DOMAIN knob : knob[i].key # ""}
        sound == /\ \A i \in named : knob[i].key \in Workloads /\ knob[i].weight >= 0
                 /\ \A i, j \in named : knob[i].key = knob[j].key => i = j
        weight(k) == IF \E i \in named : knob[i].key = k
                     THEN knob[CHOOSE i \in named : knob[i].key = k].weight
                     ELSE MixDefault[k]
    IN  IF sound THEN mix = [k \in {w \in Workloads : weight(w) > 0} |-> weight(k)]
                 ELSE mix = <<>>

\* A split spends the budget exactly, or one worker per slice when there is
\* no request-shaped one; no slice is dropped and no transfer doubled; and no
\* request-shaped slice gets more than its quota rounded up, or loses more to
\* its companions than the workers that raise them from nothing.
SplitAsPromised(budget, mix, split) ==
    LET shaped == DOMAIN mix \ MixFixed
        left == budget - Cardinality(DOMAIN mix \cap MixFixed)
        total == MapThenSumSet(LAMBDA k : mix[k], shaped)
        raised == {k \in shaped : left * mix[k] < total}
    IN  \/ split = <<>> /\ (mix = <<>> \/ budget < Cardinality(DOMAIN mix))
        \/ /\ DOMAIN split = DOMAIN mix
           /\ \A k \in DOMAIN mix : split[k] >= 1
           /\ \A k \in DOMAIN mix \cap MixFixed : split[k] = 1
           /\ MapThenSumSet(LAMBDA k : split[k], DOMAIN split)
                = IF shaped = {} THEN Cardinality(DOMAIN mix) ELSE budget
           /\ \A k \in shaped :
                /\ split[k] = 1 \/ (split[k] - 1) * total < left * mix[k]
                /\ split[k] + Cardinality(raised) >= (left * mix[k]) \div total
=============================================================================
