---------------------------- MODULE ChaosProofs ----------------------------
(***************************************************************************)
(* What the exit code of the chaos sidecar means, for any number of        *)
(* workers, loops, warm-up connections, retries and any SLACK.             *)
(***************************************************************************)
EXTENDS Chaos, FiniteSetTheorems, TLAPS

\* Nobody holds a connection before the window.
Unstarted ==
    phase \in {"parse", "warm", "warmed", "baseline"} =>
        /\ worker = [w \in Workers |-> "idle"]
        /\ canary = "waiting"
        /\ baseline = None /\ verdict = None

\* The baseline is what it was taken from, and loops only ever warm.
BaselineKept ==
    /\ baseline # None =>
        baseline = Cardinality(Loops) - at.cold + at.dead + at.leaked + 1
    /\ baseline # None => Cardinality(cold) <= at.cold

\* A pass compared a sample that counted every leak.
PassCompared ==
    verdict = 0 /\ pool # <<>> =>
        /\ baseline # None
        /\ final <= baseline + Slack
        /\ final >= Cardinality(Loops) - Cardinality(cold) + leaked + 1

\* The counter of connects sees every transport that opens.
OpensCounted ==
    /\ opened => connects
    /\ baseline # None => opened
    /\ phase = "parse" => pool = <<>> /\ verdict = None
    /\ phase # "done" => verdict = None

IInv == TypeOK /\ Unstarted /\ BaselineKept /\ PassCompared /\ OpensCounted
        /\ ExitTruthful

\* The counts a sample of /stats adds up are natural numbers.
LEMMA Cards ==
    ASSUME TypeOK
    PROVE  /\ Cardinality(Loops) \in Nat /\ Cardinality(cold) \in Nat
           /\ \A c \in SUBSET cold : Cardinality(c) \in Nat
                                    /\ Cardinality(c) <= Cardinality(cold)
           /\ Cardinality(cold) <= Cardinality(Loops)
           /\ Held \in Nat /\ Dead \in Nat
<1>1. IsFiniteSet(Loops) /\ IsFiniteSet(Workers) /\ cold \subseteq Loops
  BY ChaosAssumption, Zenon DEF TypeOK
<1>2. IsFiniteSet(cold) /\ Cardinality(cold) <= Cardinality(Loops)
  BY <1>1, FS_Subset, Zenon
<1>3. \A c \in SUBSET cold : IsFiniteSet(c) /\ Cardinality(c) <= Cardinality(cold)
  BY <1>2, FS_Subset, Zenon
<1>4. IsFiniteSet({w \in Workers : worker[w] \in Ends \union {"wedged"}})
  BY <1>1, FS_Subset, Zenon
<1>5. Held \in Nat
  BY <1>4, FS_CardinalityType, Zenon DEF Held
<1>6. Dead \in Nat
  BY DEF TypeOK, Dead, MaxLag
<1> QED BY <1>1, <1>2, <1>3, <1>5, <1>6, FS_CardinalityType, Zenon

\* A sample counts the warm loops and every descriptor lost.
LEMMA SampleCountsLeaks ==
    ASSUME TypeOK
    PROVE  Fds \in Int /\ Fds >= Cardinality(Loops) - Cardinality(cold) + leaked + 1
<1>1. CanarySocks \in Nat
  BY ChaosAssumption, Zenon
<1>2. leaked \in Nat
  BY Zenon DEF TypeOK
<1> DEFINE socks == IF canary = "running" THEN CanarySocks ELSE 0
<1>3. socks \in Nat
  BY <1>1, Zenon
<1>4. Fds = (Cardinality(Loops) - Cardinality(cold)) + Held + Dead + leaked + socks + 1
  BY Zenon DEF Fds
<1> HIDE DEF socks
<1> QED BY <1>2, <1>3, <1>4, Cards

\* Nothing is open, sampled or decided when the sidecar starts.
LEMMA IInvInit == Init => IInv
<1> SUFFICES ASSUME Init PROVE IInv
  BY Zenon
<1>1. TypeOK
  BY DEF Init, TypeOK, None, MaxLag
<1> QED BY <1>1, Zenon DEF Init, IInv, Unstarted, BaselineKept, PassCompared, OpensCounted,
       ExitTruthful, None

-----------------------------------------------------------------------------
\* The steps of run.

\* Nothing happens to the server or the sidecar once the verdict is out, and the
\* steps of the environment take no descriptor out of a sample.
LEMMA EnvironmentPreserves ==
    ASSUME IInv, Environment
    PROVE  IInv'
<1> USE DEF IInv, mainVars, canaryVars, serverVars
<1>1. CASE ServerMoves
  BY <1>1, Zenon DEF ServerMoves, TypeOK, Unstarted, BaselineKept, PassCompared,
     OpensCounted, ExitTruthful, None
<1>2. CASE Suspend
  <2>1. TypeOK'
    BY <1>2, Zenon DEF Suspend, TypeOK
  <2>2. Cardinality(cold') <= Cardinality(cold) /\ Cardinality(cold) \in Nat
        /\ Cardinality(cold') \in Nat
    BY <1>2, Cards, Zenon DEF Suspend
  <2> QED BY <1>2, <2>1, <2>2, SMTT(30) DEF Suspend, TypeOK, Unstarted, BaselineKept,
         PassCompared, OpensCounted, ExitTruthful, None
<1>3. CASE \E k \in 0..MaxLag : Reap(k)
  <2> PICK k \in 0..MaxLag : Reap(k)
    BY <1>3, Zenon
  <2>1. TypeOK'
    BY DEF Reap, TypeOK
  <2> QED BY <2>1 DEF Reap, Unstarted, BaselineKept, PassCompared, OpensCounted,
         ExitTruthful, None
<1>4. CASE CanaryEnds
  BY <1>4, Zenon DEF CanaryEnds, TypeOK, Unstarted, BaselineKept, PassCompared,
     OpensCounted, ExitTruthful, None
<1>5. CASE Tick
  <2>1. TypeOK'
    BY <1>5 DEF Tick, TypeOK, MaxLag
  <2> QED BY <1>5, <2>1, Zenon DEF Tick, Unstarted, BaselineKept, PassCompared,
         OpensCounted, ExitTruthful, None
<1> QED BY <1>1, <1>2, <1>3, <1>4, <1>5, Zenon DEF Environment

\* A worker's connection is counted by connects before it can be sampled.
LEMMA WorkerPreserves ==
    ASSUME IInv, NEW w \in Workers, WorkerStep(w) \/ Wedge(w)
    PROVE  IInv'
<1> USE DEF IInv, mainVars, canaryVars, serverVars, Ends
<1>1. CASE Begin(w)
  <2>1. TypeOK'
    <3>1. \A key, proto : EndsAs(key, proto) \subseteq Ends
      BY Zenon DEF EndsAs, VanishesAs
    <3>2. UNCHANGED worker \/ \E how \in Ends : worker' = [worker EXCEPT ![w] = how]
      BY <1>1, <3>1, Zenon DEF Begin
    <3>3. worker' \in [Workers -> Ends \union {"idle", "out", "wedged"}]
      BY <3>2, Zenon DEF TypeOK
    <3> QED BY <1>1, <3>3, Zenon DEF Begin, TypeOK
  <2>2. /\ phase = "window" /\ (opened => opened')
        /\ UNCHANGED <<pool, mainVars, serverVars, canaryVars>>
    BY <1>1 DEF Begin
  <2>3. opened' => connects'
    BY <1>1, Zenon DEF Begin, OpensCounted
  <2> QED BY <2>1, <2>2, <2>3 DEF Unstarted, BaselineKept, PassCompared,
         OpensCounted, ExitTruthful, None
<1>2. CASE End(w)
  <2>1. TypeOK'
    BY <1>2 DEF End, TypeOK, Dies, Lag, MaxLag
  <2> QED BY <1>2, <2>1, Zenon DEF End, Unstarted, BaselineKept, PassCompared,
         OpensCounted, ExitTruthful, None
<1>3. CASE LeaveLoop(w)
  BY <1>3, Zenon DEF LeaveLoop, TypeOK, Unstarted, BaselineKept, PassCompared,
     OpensCounted, ExitTruthful, None
<1>4. CASE Wedge(w)
  BY <1>4, Zenon DEF Wedge, TypeOK, Unstarted, BaselineKept, PassCompared,
     OpensCounted, ExitTruthful, None
<1> QED BY <1>1, <1>2, <1>3, <1>4, Zenon DEF WorkerStep

\* The baseline is a sample of a server nobody holds a connection to.
LEMMA BaselinePreserves ==
    ASSUME IInv, Baseline
    PROVE  IInv'
<1> USE DEF IInv
<1>1. TypeOK' /\ (opened' => connects')
  <2>1. linger' \in [0..MaxLag -> Nat] /\ (opened' => connects')
    BY DEF Baseline, SampleAnswers, SampleFails, Dies, Lag, MaxLag, TypeOK, OpensCounted
  <2>2. at' \in [cold : Nat, dead : Nat, leaked : Nat]
    BY Cards, SMTT(30) DEF Baseline, Window, TypeOK
  <2>3. {baseline', final', verdict'} \subseteq Int
    BY SampleCountsLeaks DEF Baseline, Window, TypeOK, None
  <2> QED BY <2>1, <2>2, <2>3, Zenon DEF Baseline, TypeOK
<1>2. baseline = None /\ verdict = None /\ Held = 0 /\ canary = "waiting"
  <2>1. {w \in Workers : worker[w] \in Ends \union {"wedged"}} = {}
    BY Zenon DEF Unstarted, Baseline, Ends
  <2> QED BY <2>1, FS_EmptySet, Zenon DEF Unstarted, Baseline, Held
<1>3. /\ UNCHANGED <<cold, leaked, pool, final>>
      /\ verdict' \in {None, 2}
      /\ phase' \in {"window", "done", "baseline"}
      /\ phase' # "done" => verdict' = None
      /\ phase' = "baseline" => UNCHANGED <<worker, canary, baseline, verdict>>
  BY <1>2, Zenon DEF Baseline, Window, canaryVars
<1>4. baseline' # None =>
        /\ opened'
        /\ baseline' = Cardinality(Loops) - at'.cold + at'.dead + at'.leaked + 1
        /\ at'.cold = Cardinality(cold)
  <2> SUFFICES ASSUME baseline' # None
               PROVE  /\ opened'
                      /\ baseline' = Cardinality(Loops) - at'.cold + at'.dead
                                       + at'.leaked + 1
                      /\ at'.cold = Cardinality(cold)
    BY Zenon
  <2>1. /\ opened' /\ baseline' = Fds
        /\ at' = [cold |-> Cardinality(cold), dead |-> Dead, leaked |-> leaked]
    BY <1>2, Zenon DEF Baseline, Window, SampleAnswers
  <2>2. Fds = (Cardinality(Loops) - Cardinality(cold)) + Dead + leaked + 1
    BY <1>2, Cards DEF Fds, TypeOK
  <2> QED BY <2>1, <2>2, Cards, Zenon DEF TypeOK
<1>5. Unstarted'
  <2>1. phase = "baseline"
    BY Zenon DEF Baseline
  <2> QED BY <1>2, <1>3, <2>1, Zenon DEF Unstarted
<1>7. BaselineKept'
  BY <1>3, <1>4, Cards, Zenon DEF BaselineKept
<1>6. PassCompared' /\ OpensCounted' /\ ExitTruthful'
  BY <1>1, <1>3, <1>4 DEF PassCompared, OpensCounted, ExitTruthful, None
<1> QED BY <1>1, <1>5, <1>6, <1>7, Zenon

\* settle_fds judges a sample that counted every leak, against the baseline.
LEMMA SettlePreserves ==
    ASSUME IInv, SettleFds
    PROVE  IInv'
<1> USE DEF IInv
<1>1. /\ linger' \in [0..MaxLag -> Nat] /\ (opened => opened')
      /\ (opened' => connects')
  <2>1. linger' \in [0..MaxLag -> Nat]
    BY DEF SettleFds, SampleAnswers, SampleFails, Dies, Lag, MaxLag, TypeOK
  <2>2. (opened => opened') /\ (opened' => connects')
    BY Zenon DEF SettleFds, SampleAnswers, SampleFails, OpensCounted
  <2> QED BY <2>1, <2>2, Zenon
<1>2. /\ UNCHANGED <<pool, baseline, at, worker, cold, leaked, canary>>
      /\ verdict = None /\ phase = "settle"
  BY Zenon DEF SettleFds, OpensCounted, canaryVars
<1>3. CASE phase' = "settle" /\ UNCHANGED verdict
  <2>1. final' \in Int
    <3>1. final \in Int /\ Fds \in Int /\ None \in Int
      BY SampleCountsLeaks DEF TypeOK, None
    <3>2. final' \in {final, Fds, None}
      BY Zenon DEF SettleFds, SettleOn, Conclude
    <3> QED BY <3>1, <3>2, Zenon
  <2> QED BY <1>1, <1>2, <1>3, <2>1 DEF TypeOK, Unstarted, BaselineKept, PassCompared,
         OpensCounted, ExitTruthful, None
<1>4. CASE \E fds \in {Fds, None} :
              /\ phase' = "done" /\ final' = fds /\ verdict' = Judge(fds, connects')
  <2> PICK fds \in {Fds, None} :
              /\ phase' = "done" /\ final' = fds /\ verdict' = Judge(fds, connects')
    BY <1>4, Zenon
  <2>1. fds \in Int /\ verdict' \in Int
    BY SampleCountsLeaks DEF None, Judge
  <2>2. verdict' = 0 => /\ fds # None /\ baseline # None
                        /\ ~(fds > baseline + Slack)
    BY DEF Judge
  <2>3. verdict' = 4 => ~connects'
    BY DEF Judge
  <2>4. PassCompared'
    <3>1. baseline \in Int /\ Slack \in Nat
      BY ChaosAssumption, Zenon DEF TypeOK
    <3> QED BY <1>2, <2>1, <2>2, <3>1, SampleCountsLeaks DEF PassCompared
  <2> QED BY <1>1, <1>2, <2>1, <2>2, <2>3, <2>4, Zenon DEF TypeOK, Unstarted, BaselineKept,
         OpensCounted, ExitTruthful
<1> QED BY <1>2, <1>3, <1>4, Zenon DEF SettleFds, SettleOn, Conclude, SampleAnswers

\* The other steps of run decide nothing but the phase.
LEMMA RunPreserves ==
    ASSUME IInv, RunStep
    PROVE  IInv'
<1> USE DEF IInv, serverVars, canaryVars
<1>1. CASE Main
  BY <1>1 DEF Main, TypeOK, Unstarted, BaselineKept, PassCompared, OpensCounted,
     ExitTruthful, None
<1>2. CASE WarmRound
  <2>1. TypeOK' /\ (opened' => connects')
    <3>1. linger' \in [0..MaxLag -> Nat] /\ cold' \subseteq Loops
      BY <1>2 DEF WarmRound, TypeOK, Lag, MaxLag
    <3>2. opened' => connects'
      BY <1>2, Zenon DEF WarmRound, OpensCounted
    <3> QED BY <1>2, <3>1, <3>2, Zenon DEF WarmRound, TypeOK
  <2>2. /\ phase = "warm" /\ phase' = "warmed"
        /\ UNCHANGED <<pool, baseline, verdict, worker, canary>>
    BY <1>2, Zenon DEF WarmRound
  <2> QED BY <2>1, <2>2 DEF Unstarted, BaselineKept, PassCompared, OpensCounted,
         ExitTruthful, None
<1>3. CASE WarmAgain
  BY <1>3, Zenon DEF WarmAgain, TypeOK, Unstarted, BaselineKept, PassCompared,
     OpensCounted, ExitTruthful, None
<1>4. CASE Gathered
  BY <1>4, Zenon DEF Gathered, TypeOK, Unstarted, BaselineKept, PassCompared,
     OpensCounted, ExitTruthful, None
<1>5. CASE WatchdogTrips
  BY <1>5 DEF WatchdogTrips, TypeOK, Unstarted, BaselineKept, PassCompared,
     OpensCounted, ExitTruthful, None
<1>6. CASE Drained
  BY <1>6, Zenon DEF Drained, TypeOK, Unstarted, BaselineKept, PassCompared,
     OpensCounted, ExitTruthful, None
<1> QED
  BY <1>1, <1>2, <1>3, <1>4, <1>5, <1>6, BaselinePreserves, SettlePreserves, Zenon
     DEF RunStep

-----------------------------------------------------------------------------
\* The invariant holds throughout every run of the sidecar.
THEOREM IInvAlways == Spec => []IInv
<1>1. IInv /\ [Next]_vars => IInv'
  <2>1. IInv /\ UNCHANGED vars => IInv'
    BY DEF vars, mainVars, serverVars, canaryVars, IInv, TypeOK, Unstarted,
       BaselineKept, PassCompared, OpensCounted, ExitTruthful
  <2> QED BY <2>1, RunPreserves, WorkerPreserves, EnvironmentPreserves, Zenon DEF Next
<1> QED BY IInvInit, <1>1, PTL DEF Spec

\* A cell that passed (exit 0 of run) lost at most SLACK descriptors, plus the
\* connections the warm-up left unreaped when the baseline was sampled.
THEOREM PassIsSound == Spec => []PassMeansNoLeak
<1>1. IInv => PassMeansNoLeak
  <2> SUFFICES ASSUME IInv, verdict = 0, pool # <<>>
               PROVE  leaked - at.leaked <= Slack + at.dead
    BY Zenon DEF PassMeansNoLeak
  <2>1. Slack \in Nat /\ Cardinality(Loops) \in Nat /\ Cardinality(cold) \in Nat
    BY Cards, ChaosAssumption, Zenon DEF IInv
  <2>2. /\ leaked \in Nat /\ baseline \in Int /\ final \in Int
        /\ at.cold \in Nat /\ at.dead \in Nat /\ at.leaked \in Nat
    BY Zenon DEF IInv, TypeOK
  <2>3. /\ final <= baseline + Slack
        /\ final >= Cardinality(Loops) - Cardinality(cold) + leaked + 1
        /\ baseline = Cardinality(Loops) - at.cold + at.dead + at.leaked + 1
        /\ Cardinality(cold) <= at.cold
    BY Zenon DEF IInv, BaselineKept, PassCompared
  <2> HIDE DEF IInv
  <2> DEFINE n == Cardinality(Loops)  c == Cardinality(cold)
             ac == at.cold  ad == at.dead  al == at.leaked
  <2> SUFFICES leaked - al <= Slack + ad
    BY Zenon
  <2>4. /\ n \in Nat /\ c \in Nat /\ ac \in Nat /\ ad \in Nat /\ al \in Nat
        /\ final >= n - c + leaked + 1 /\ baseline = n - ac + ad + al + 1 /\ c <= ac
    BY <2>1, <2>2, <2>3, Zenon
  <2> HIDE DEF n, c, ac, ad, al
  <2> QED BY <2>1, <2>2, <2>3, <2>4
<1> QED BY IInvAlways, <1>1, PTL

\* What a sample adds up keeps its type, whatever the bounds: nothing is reaped
\* that was not dying (Reap, End, SettleFds).
THEOREM TypeCorrect == Spec => []TypeOK
<1>1. IInv => TypeOK
  BY Zenon DEF IInv
<1> QED BY IInvAlways, <1>1, PTL

\* Exit 0 has reached the server, and exit 4 never did (the guard of run on
\* connects[0], for the sessions that dial late too).
THEOREM ExitsTruthful == Spec => []ExitTruthful
<1>1. IInv => ExitTruthful
  BY Zenon DEF IInv
<1> QED BY IInvAlways, <1>1, PTL

-----------------------------------------------------------------------------
\* That exit 1 is never a false alarm is a matter of time: what the drain and
\* the settling wait for is over before the sample that is judged.

\* The clocks count down to zero.
Clocks ==
    /\ timer \in Nat /\ left \in Nat /\ giveUp \in Nat /\ canaryLeft \in Nat
    /\ \A k \in 0..MaxLag : linger[k] \in Nat

\* Only a QUIC peer can go away unnoticed, and then costs its idle timeout.
OnlyQuicVanishes ==
    cell.proto # "h3" => /\ linger[2] = 0
                         /\ \A w \in Workers : worker[w] # "vanished"

\* The workers leave at the deadline and not before, and all have left by the
\* time of the drain.
OutAtDeadline ==
    /\ \A w \in Workers : phase = "window" /\ worker[w] = "out" => left = 0
    /\ phase \in {"drain", "settle"} => \A w \in Workers : worker[w] = "out"

\* How long the canary may still run, by the clock of the phase.
CanaryInTime ==
    canary = "running" =>
        /\ phase = "window" => canaryLeft + Seconds <= CanaryTime + left
        /\ phase = "drain" =>
              canaryLeft + Seconds + Drain(cell.proto) <= CanaryTime + timer
        /\ phase = "settle" =>
              canaryLeft + Seconds + Drain(cell.proto) + Settle <= CanaryTime + giveUp

\* What the server may still hold: the drain outlasts every reaping, and of the
\* settling samples at most two are dying, one when the next is due.
Draining ==
    /\ phase = "drain" =>
        /\ timer <= 2 => linger[2] = 0
        /\ timer <= 1 => linger[1] = 0
        /\ timer = 0 => linger[0] = 0
    /\ phase = "settle" =>
        /\ timer <= 1 /\ linger[2] = 0 /\ linger[1] <= 1 /\ linger[0] <= 1
        /\ timer = 0 => linger[1] = 0

TimeInv == /\ Clocks /\ OnlyQuicVanishes /\ OutAtDeadline /\ CanaryInTime
           /\ Draining /\ NoFalseLeak

\* At the start no clock runs.
LEMMA TimeInvInit == Init => TimeInv
  BY ChaosAssumption DEF Init, TimeInv, Clocks, OnlyQuicVanishes, OutAtDeadline,
     CanaryInTime, Draining, NoFalseLeak, MaxLag, None

\* What the server, the canary and the clock do.
LEMMA EnvironmentInTime ==
    ASSUME IInv, TimeInv, Environment
    PROVE  TimeInv'
<1> USE DEF mainVars, canaryVars, serverVars, MaxLag
<1>0. /\ Clocks /\ OnlyQuicVanishes /\ OutAtDeadline /\ CanaryInTime
      /\ Draining /\ NoFalseLeak /\ linger \in [0..2 -> Nat]
  BY Zenon DEF TimeInv, IInv, TypeOK
<1>1. CASE ServerMoves \/ Suspend
  BY <1>0, <1>1 DEF ServerMoves, Suspend, TimeInv, Clocks, OnlyQuicVanishes,
     OutAtDeadline, CanaryInTime, Draining, NoFalseLeak
<1>2. CASE \E k \in 0..MaxLag : Reap(k)
  <2> PICK k \in 0..2 : Reap(k)
    BY <1>2, Zenon
  <2>1. \A j \in 0..2 : linger'[j] \in Nat /\ linger'[j] <= linger[j]
    BY <1>0 DEF Reap, Clocks
  <2>2. UNCHANGED <<cell, mainVars, worker, canaryVars>> /\ verdict = None
    BY Zenon DEF Reap
  <2> QED BY <1>0, <2>1, <2>2 DEF TimeInv, Clocks, OnlyQuicVanishes, OutAtDeadline,
         CanaryInTime, Draining, NoFalseLeak, None
<1>3. CASE CanaryEnds
  BY <1>0, <1>3, Zenon DEF CanaryEnds, TimeInv, Clocks, OnlyQuicVanishes, OutAtDeadline,
     CanaryInTime, Draining, NoFalseLeak
<1>4. CASE Tick
  <2>1. /\ linger[0] = 0
        /\ linger'[0] = linger[1] /\ linger'[1] = linger[2] /\ linger'[2] = 0
        /\ verdict' = None
        /\ UNCHANGED <<cell, phase, worker, canary, at>>
    BY <1>4 DEF Tick
  <2>2. /\ timer' = Down(timer) /\ left' = Down(left) /\ giveUp' = Down(giveUp)
        /\ canaryLeft' = Down(canaryLeft)
        /\ canary = "running" => canaryLeft > 0
    BY <1>4, Zenon DEF Tick
  <2>3. Clocks'
    BY <1>0, <2>1, <2>2 DEF Clocks, Down
  <2>4. OnlyQuicVanishes' /\ OutAtDeadline' /\ NoFalseLeak'
    BY <1>0, <2>1, <2>2 DEF Clocks, Down, OnlyQuicVanishes, OutAtDeadline,
       NoFalseLeak, None
  <2>5. CanaryInTime'
    <3>1. /\ Seconds \in Nat /\ Settle \in Nat /\ CanaryTime \in Nat
          /\ Drain(cell.proto) \in Nat
      BY ChaosAssumption, Zenon DEF Drain
    <3> QED BY <1>0, <2>1, <2>2, <3>1 DEF Clocks, Down, CanaryInTime
  <2>6. Draining'
    BY <1>0, <2>1, <2>2 DEF Clocks, Down, Draining
  <2> QED BY <2>3, <2>4, <2>5, <2>6, Zenon DEF TimeInv
<1> QED BY <1>1, <1>2, <1>3, <1>4, Zenon DEF Environment

\* Outside QUIC no behaviour of the pool vanishes.
LEMMA WorkersInTime ==
    ASSUME IInv, TimeInv, NEW w \in Workers, WorkerStep(w) \/ Wedge(w)
    PROVE  TimeInv'
<1> USE DEF mainVars, canaryVars, serverVars, MaxLag
<1>0. /\ Clocks /\ OnlyQuicVanishes /\ OutAtDeadline /\ CanaryInTime
      /\ Draining /\ NoFalseLeak /\ linger \in [0..2 -> Nat]
      /\ worker \in [Workers -> Ends \union {"idle", "out", "wedged"}]
  BY Zenon DEF TimeInv, IInv, TypeOK
<1>1. phase = "window" /\ UNCHANGED <<cell, mainVars, leaked, canaryVars>>
  BY Zenon DEF WorkerStep, Wedge, Begin, End, LeaveLoop
<1>2. /\ linger' \in [0..2 -> Nat]
      /\ cell.proto # "h3" => linger'[2] = 0
  <2>1. CASE UNCHANGED linger
    BY <1>0, <2>1, Zenon DEF OnlyQuicVanishes
  <2>2. CASE End(w)
    BY <1>0, <2>2 DEF End, Dies, Lag, OnlyQuicVanishes
  <2> QED BY <2>1, <2>2, Zenon DEF WorkerStep, Wedge, Begin, LeaveLoop
<1>3. \E new \in Ends \union {"idle", "out", "wedged"} :
        /\ worker' = [worker EXCEPT ![w] = new]
        /\ new = "out" => left = 0 \/ worker[w] = "out"
        /\ cell.proto # "h3" => new # "vanished"
  <2>1. CASE UNCHANGED worker
    BY <1>0, <2>1 DEF OnlyQuicVanishes, OutAtDeadline
  <2>2. CASE Begin(w) /\ ~UNCHANGED worker
    <3>1. PICK key, how : how \in EndsAs(key, cell.proto)
                          /\ worker' = [worker EXCEPT ![w] = how]
      BY <2>2, Zenon DEF Begin
    <3>2. how \in Ends /\ (cell.proto # "h3" => how # "vanished")
      BY <3>1, Zenon DEF EndsAs, VanishesAs, Ends
    <3> QED BY <3>1, <3>2, Zenon DEF Ends
  <2>3. CASE End(w) \/ LeaveLoop(w) \/ Wedge(w)
    BY <2>3, Zenon DEF End, LeaveLoop, Wedge
  <2> QED BY <2>1, <2>2, <2>3, Zenon DEF WorkerStep
<1>4. OnlyQuicVanishes' /\ OutAtDeadline'
  BY <1>0, <1>1, <1>2, <1>3, Zenon DEF OnlyQuicVanishes, OutAtDeadline
<1> QED BY <1>0, <1>1, <1>2, <1>4, Zenon DEF TimeInv, Clocks, CanaryInTime, Draining,
       NoFalseLeak

\* The baseline starts the window and the canary together.
LEMMA BaselineInTime ==
    ASSUME IInv, TimeInv, Baseline
    PROVE  TimeInv'
<1> USE DEF canaryVars, MaxLag
<1>0. /\ Clocks /\ OnlyQuicVanishes /\ linger \in [0..2 -> Nat] /\ verdict = None
      /\ worker = [w \in Workers |-> "idle"] /\ canary = "waiting"
  BY Zenon DEF TimeInv, IInv, TypeOK, Unstarted, Baseline
<1>1. /\ linger' \in [0..2 -> Nat] /\ linger'[2] = linger[2]
      /\ UNCHANGED <<cell, worker>> /\ verdict' \in {None, 2}
  BY <1>0 DEF Baseline, SampleAnswers, SampleFails, Dies, Lag
<1>2. /\ phase' \in {"baseline", "window", "done"}
      /\ timer' \in {timer, 1} /\ giveUp' = giveUp
      /\ \/ left' = Seconds /\ canaryLeft' = CanaryTime
         \/ phase' # "window" /\ UNCHANGED <<left, canaryVars>>
  BY Zenon DEF Baseline, Window
<1>3. Clocks'
  BY <1>0, <1>1, <1>2, ChaosAssumption DEF Clocks
<1>4. OnlyQuicVanishes' /\ OutAtDeadline' /\ CanaryInTime' /\ Draining' /\ NoFalseLeak'
  BY <1>0, <1>1, <1>2, ChaosAssumption DEF OnlyQuicVanishes, OutAtDeadline,
     CanaryInTime, Draining, NoFalseLeak, None
<1> QED BY <1>3, <1>4, Zenon DEF TimeInv

\* The sample that accuses the server is one the canary and the drained
\* connections are no longer in: at most the sample before it is still dying.
LEMMA SettleInTime ==
    ASSUME IInv, TimeInv, SettleFds
    PROVE  TimeInv'
<1> USE DEF canaryVars, MaxLag
<1>0. /\ Clocks /\ OnlyQuicVanishes /\ OutAtDeadline /\ CanaryInTime /\ Draining
      /\ linger \in [0..2 -> Nat] /\ phase = "settle" /\ timer = 0
      /\ TypeOK /\ verdict = None
  BY Zenon DEF TimeInv, IInv, TypeOK, SettleFds, OpensCounted
<1>1. UNCHANGED <<cell, worker, left, giveUp, canary, canaryLeft, baseline, at, leaked>>
  BY Zenon DEF SettleFds
<1>2. \/ UNCHANGED linger
      \/ linger' = [linger EXCEPT ![1] = @ + 1]
  BY Zenon DEF SettleFds, SampleAnswers, SampleFails, Dies, Lag
<1>3. /\ linger' \in [0..2 -> Nat] /\ linger'[0] = linger[0] /\ linger'[2] = linger[2]
      /\ linger'[1] <= 1
  BY <1>0, <1>2 DEF Draining
<1>4. \/ phase' = "settle" /\ timer' = 1
      \/ phase' = "done" /\ UNCHANGED timer
  BY <1>0, Zenon DEF SettleFds, SettleOn, Conclude
<1>5. OnlyQuicVanishes' /\ OutAtDeadline' /\ Clocks'
  BY <1>0, <1>1, <1>3, <1>4 DEF OnlyQuicVanishes, OutAtDeadline, Clocks
<1>6. CanaryInTime' /\ Draining'
  BY <1>0, <1>1, <1>3, <1>4 DEF CanaryInTime, Draining
<1>7. NoFalseLeak'
  <2> SUFFICES ASSUME verdict' = 1
               PROVE  (leaked - at.leaked) + at.cold >= Slack
    BY <1>1, Zenon DEF NoFalseLeak
  <2>1. baseline # None /\ Fds > baseline + Slack /\ giveUp = 0
    <3>1. \/ SettleOn(Fds)
          \/ verdict' \in {Judge(None, connects'), verdict}
      BY Zenon DEF SettleFds, Conclude
    <3>2. Judge(None, connects') \in {2, 4}
      BY Zenon DEF Judge
    <3>3. SettleOn(Fds)
      BY <1>0, <3>1, <3>2 DEF None
    <3>4. /\ verdict' = Judge(Fds, TRUE)
          /\ ~(baseline # None /\ Fds > baseline + Slack /\ giveUp > 0)
      <4> DEFINE again == baseline # None /\ Fds > baseline + Slack /\ giveUp > 0
      <4>1. (again => verdict' = verdict) /\ (~again => verdict' = Judge(Fds, TRUE))
        BY <3>3, Zenon DEF SettleOn, Conclude
      <4> HIDE DEF again
      <4>2. ~again
        BY <1>0, <4>1 DEF None
      <4> QED BY <4>1, <4>2, Zenon DEF again
    <3>5. baseline # None /\ Fds > baseline + Slack
      BY <3>4 DEF Judge
    <3> QED BY <1>0, <3>4, <3>5 DEF Clocks
  <2>2. canary # "running"
    <3>1. /\ Seconds \in Nat /\ Settle \in Nat /\ CanaryTime \in Nat
          /\ Drain(cell.proto) \in Nat
          /\ CanaryTime < Seconds + Drain(cell.proto) + Settle
      BY ChaosAssumption, Zenon DEF Drain
    <3> QED BY <1>0, <2>1, <3>1 DEF CanaryInTime, Clocks
  <2>3. Held = 0
    <3>1. {w \in Workers : worker[w] \in Ends \union {"wedged"}} = {}
      BY <1>0, Zenon DEF OutAtDeadline, Ends
    <3> QED BY <3>1, FS_EmptySet, Zenon DEF Held
  <2>4. Dead <= 1 /\ Dead \in Nat
    BY <1>0 DEF Dead, Draining
  <2>5. Cardinality(Loops) \in Nat /\ Cardinality(cold) \in Nat
    BY <1>0, Cards, Zenon
  <2>6. Fds = (Cardinality(Loops) - Cardinality(cold)) + Dead + leaked + 1
    BY <1>0, <2>2, <2>3, <2>4, <2>5 DEF Fds, TypeOK
  <2>7. baseline = Cardinality(Loops) - at.cold + at.dead + at.leaked + 1
    BY <2>1, Zenon DEF IInv, BaselineKept
  <2> DEFINE n == Cardinality(Loops)  c == Cardinality(cold)
             ac == at.cold  ad == at.dead  al == at.leaked
  <2>8. /\ n \in Nat /\ c \in Nat /\ ac \in Nat /\ ad \in Nat /\ al \in Nat
        /\ leaked \in Nat /\ Slack \in Nat
        /\ (n - c) + Dead + leaked + 1 > (n - ac + ad + al + 1) + Slack
    BY <1>0, <2>1, <2>5, <2>6, <2>7, ChaosAssumption, Zenon DEF TypeOK
  <2> SUFFICES (leaked - al) + ac >= Slack
    BY Zenon
  <2> HIDE DEF n, c, ac, ad, al
  <2> QED BY <2>4, <2>8
<1> QED BY <1>5, <1>6, <1>7, Zenon DEF TimeInv

\* The drain begins when every worker has left, so not before the deadline.
LEMMA RunInTime ==
    ASSUME Workers # {}, IInv, TimeInv, RunStep
    PROVE  TimeInv'
<1> USE DEF serverVars, canaryVars, MaxLag
<1>0. /\ Clocks /\ OnlyQuicVanishes /\ OutAtDeadline /\ CanaryInTime /\ Draining
      /\ NoFalseLeak /\ linger \in [0..2 -> Nat] /\ OpensCounted /\ Unstarted
  BY Zenon DEF TimeInv, IInv, TypeOK
<1>1. CASE Main \/ WarmAgain \/ WatchdogTrips
  <2>1. /\ UNCHANGED <<cell, left, giveUp, at, worker, linger, leaked, canary, canaryLeft>>
        /\ timer' \in {timer, 1} /\ phase' \in {"warm", "baseline", "done"}
        /\ verdict' \in {verdict, 0, 2, 3}
    BY <1>1, Zenon DEF Main, WarmAgain, WatchdogTrips
  <2>2. Clocks'
    BY <1>0, <2>1 DEF Clocks
  <2>3. OnlyQuicVanishes'
    BY <1>0, <2>1, Zenon DEF OnlyQuicVanishes
  <2>4. NoFalseLeak'
    BY <1>0, <2>1 DEF NoFalseLeak
  <2>5. OutAtDeadline' /\ CanaryInTime' /\ Draining'
    BY <2>1 DEF OutAtDeadline, CanaryInTime, Draining
  <2> QED BY <2>2, <2>3, <2>4, <2>5, Zenon DEF TimeInv
<1>2. CASE WarmRound
  <2>1. /\ linger' \in [0..2 -> Nat] /\ linger'[2] = linger[2] /\ timer' = 2
        /\ phase' = "warmed" /\ phase = "warm"
        /\ UNCHANGED <<cell, left, giveUp, verdict, at, worker, leaked, canary, canaryLeft>>
    BY <1>0, <1>2 DEF WarmRound, Lag
  <2> QED BY <1>0, <2>1, Zenon DEF TimeInv, Clocks, OnlyQuicVanishes, OutAtDeadline,
         CanaryInTime, Draining, NoFalseLeak
<1>3. CASE Gathered
  <2>1. /\ phase = "window" /\ phase' = "drain" /\ timer' = Drain(cell.proto)
        /\ \A w \in Workers : worker[w] = "out"
        /\ UNCHANGED <<cell, left, giveUp, verdict, at, worker, linger, leaked,
                       canary, canaryLeft>>
    BY <1>3, Zenon DEF Gathered
  <2>2. left = 0
    BY <1>0, <2>1, Zenon DEF OutAtDeadline
  <2>3. CanaryInTime'
    <3>1. Seconds \in Nat /\ CanaryTime \in Nat /\ Drain(cell.proto) \in Nat
      BY ChaosAssumption, Zenon DEF Drain
    <3> QED BY <1>0, <2>1, <2>2, <3>1 DEF CanaryInTime, Clocks
  <2>4. Clocks' /\ OnlyQuicVanishes' /\ OutAtDeadline' /\ Draining' /\ NoFalseLeak'
    BY <1>0, <2>1 DEF Clocks, OnlyQuicVanishes, OutAtDeadline, Draining,
       NoFalseLeak, Drain
  <2> QED BY <2>3, <2>4, Zenon DEF TimeInv
<1>4. CASE Drained
  <2>1. /\ phase = "drain" /\ phase' = "settle" /\ timer = 0 /\ giveUp' = Settle
        /\ UNCHANGED <<cell, timer, left, verdict, at, worker, linger, leaked, canary,
                       canaryLeft>>
    BY <1>4, Zenon DEF Drained
  <2>2. CanaryInTime'
    <3>1. /\ Seconds \in Nat /\ CanaryTime \in Nat /\ Settle \in Nat
          /\ Drain(cell.proto) \in Nat
      BY ChaosAssumption, Zenon DEF Drain
    <3> QED BY <1>0, <2>1, <3>1 DEF CanaryInTime, Clocks
  <2>3. Clocks' /\ OnlyQuicVanishes' /\ OutAtDeadline' /\ Draining' /\ NoFalseLeak'
    BY <1>0, <2>1, ChaosAssumption DEF Clocks, OnlyQuicVanishes, OutAtDeadline,
       Draining, NoFalseLeak
  <2> QED BY <2>2, <2>3, Zenon DEF TimeInv
<1> QED BY <1>1, <1>2, <1>3, <1>4, BaselineInTime, SettleInTime, Zenon DEF RunStep

\* Exit 1 of run is never a false alarm, whatever the number of workers (at least
\* one), loops, retries and the times chosen, as long as the canary's run fits in
\* the window, the drain and the settling (ChaosAssumption).
THEOREM AccusesTruthfully ==
    ASSUME Workers # {}
    PROVE  Spec => []NoFalseLeak
<1>1. IInv /\ TimeInv /\ [Next]_vars => TimeInv'
  <2>1. TimeInv /\ UNCHANGED vars => TimeInv'
    BY Zenon DEF vars, mainVars, serverVars, canaryVars, TimeInv, Clocks, OnlyQuicVanishes,
       OutAtDeadline, CanaryInTime, Draining, NoFalseLeak
  <2> QED BY <2>1, RunInTime, WorkersInTime, EnvironmentInTime, Zenon DEF Next
<1>2. TimeInv => NoFalseLeak
  BY Zenon DEF TimeInv
<1> QED BY IInvAlways, TimeInvInit, <1>1, <1>2, PTL DEF Spec


=============================================================================
