------------------------------- MODULE Chaos -------------------------------
(***************************************************************************)
(* The misbehaving sidecar of the stress soak (chaos.py) and its one       *)
(* assertion: the server's open descriptors, sampled before and after a    *)
(* window of chaos, differ by no more than SLACK.                          *)
(*                                                                         *)
(* Modelled: the choice of behaviours, the warm-up rounds, the baseline,   *)
(* the window under its watchdog, the drain, the settling samples and the  *)
(* exit code.  A behaviour is its effect on the server: it holds a         *)
(* connection, and lets go of it cleanly, by a reset, by vanishing, or by  *)
(* abandoning the client object.  The server and the verified client (the  *)
(* canary) are external: the server reaps a dead connection within the     *)
(* time its kind allows and may leak its descriptor; a loop opens its      *)
(* dispatcher descriptor when a handler on it first suspends.              *)
(*                                                                         *)
(* Timers count down in ticks.  asyncio may run a due timer late, so a     *)
(* tick never waits for the sidecar.                                       *)
(***************************************************************************)
EXTENDS Integers, Sequences, FiniteSets, SequencesExt, Functions

CONSTANTS
    Cells,       \* [raw, workload, proto, hasFd]: the settings, and the server's age
    Workers,     \* CONC of them
    Loops,       \* event loops of the server
    Seconds, Settle, WatchSlack,  \* SECONDS, SETTLE, and the 45 s of WATCHDOG
    Slack,       \* SLACK
    Rounds,      \* warm-up rounds
    Tries,       \* attempts of one sample
    WarmConc,    \* WARMUP_CONC
    CanarySocks, CanaryTime, \* sockets of the canary, and its longest run
    MaxLeak, MaxDead         \* bounds: descriptors leaked, connections unreaped

None == -1       \* Python's None

Styles == <<"slowread", "slowwrite", "idle", "abort", "vanish">>

\* BEHAVIORS: the generic form of each style, then the targeted ones.
Behaviors ==
    [k \in 1..Len(Styles) |-> <<Styles[k], "generic">>] \o
    << <<"slowread", "ws">>, <<"abort", "ws">>, <<"vanish", "ws">>,
       <<"slowread", "sse">>, <<"idle", "sse">>, <<"abort", "sse">>,
       <<"vanish", "sse">>, <<"slowwrite", "streamupload">>,
       <<"vanish", "streamupload">>, <<"idle", "streamdownload">> >>

\* parse_behaviors: the names between the commas.  An unknown one is an error.
Unknown(raw) == raw \notin {<<"all">>, <<"none">>}
                /\ \E i \in 1..Len(raw) : raw[i] \notin ToSet(Styles) \union {""}

ParseBehaviors(raw) ==
    CASE raw = <<"none">> -> <<>>
      [] raw = <<"all">>  -> Styles
      [] OTHER -> FoldLeft(LAMBDA out, n : IF n = "" \/ Contains(out, n) THEN out
                                           ELSE Append(out, n), <<>>, raw)

\* build_pool: uniform over entries.
BuildPool(enabled, workload) ==
    LET Forms(style) == SelectSeq(Behaviors, LAMBDA b :
            b[1] = style /\ (b[2] \in {"generic", workload} \/ workload = "mixed"))
    IN  FoldLeft(LAMBDA p, style : p \o Forms(style), <<>>, enabled)

\* _vanish and b_vanish_*: how a client goes away without a goodbye.  Over QUIC
\* nothing reaches the server; an h2 socket that cannot be reached is abandoned.
VanishesAs(target, proto) ==
    CASE proto = "h3" -> {"vanished"}
      [] proto = "h1" -> IF target = "ws" THEN {"reset", "abandoned"} ELSE {"reset"}
      [] OTHER -> IF target = "streamupload" THEN {"abandoned"}
                  ELSE {"reset", "abandoned"}

\* How a connection of the behaviour ends.  Every other behaviour leaves its
\* session block, which closes the connection, whether it raises or not.
EndsAs(key, proto) ==
    {"clean"} \union IF key[1] = "vanish" THEN VanishesAs(key[2], proto) ELSE {}

\* Whether the transport is open when connects[0] is raised: an httpx session
\* dials with its first request only.
DialsFirst(key, proto) ==
    CASE proto = "h3" \/ key[2] = "ws" -> {TRUE}
      [] proto = "h1" /\ key[1] = "vanish" -> {TRUE}
      [] proto /= "h3" /\ key = <<"idle", "generic">> -> BOOLEAN
      [] OTHER -> {FALSE}

Ends == {"clean", "reset", "vanished", "abandoned"}
\* Ticks the server takes to reap: a vanished QUIC peer costs its idle timeout.
Lag(how) == IF how = "vanished" THEN 2 ELSE 1
MaxLag == 2

Drain(proto) == IF proto = "h3" THEN 3 ELSE 2
Watchdog(proto) == Seconds + Drain(proto) + WatchSlack

ASSUME ChaosAssumption ==
    /\ Seconds \in Nat \ {0} /\ Settle \in Nat /\ WatchSlack \in Nat \ {0}
    /\ Slack \in Nat \ {0} /\ Tries \in Nat \ {0} /\ Rounds \in Nat \ {0}
    /\ \A p \in {"h1", "h2", "h3"} : CanaryTime < Seconds + Drain(p) + Settle
    /\ CanarySocks \in Nat /\ CanarySocks > Slack /\ CanaryTime \in Nat
    /\ {WarmConc, MaxLeak, MaxDead} \subseteq Nat
    /\ IsFiniteSet(Loops) /\ IsFiniteSet(Workers)

VARIABLES
    cell, pool,
    phase,     \* where run() is
    timer,     \* ticks until its sleep returns
    tries,     \* attempts made of the present sample, or warm-up rounds
    prelude,   \* ticks since launch, up to Seconds
    left,      \* ticks until the workers' deadline
    watch,     \* ticks until the watchdog
    giveUp,    \* ticks until settle_fds gives up
    worker,    \* "idle", "out", "wedged", or how its connection will end
    connects,  \* connects[0] > 0
    baseline, final,
    verdict,   \* the exit code, None while running
    reach,     \* the server: "starting", "up", "down"
    cold,      \* loops without a dispatcher descriptor
    linger,    \* ticks left to reap -> dead connections the server still holds
    leaked,    \* descriptors lost for good
    canary, canaryLeft,
    opened,    \* history: some transport really opened
    at         \* history: cold loops, dead connections and leaks at the baseline

mainVars == <<phase, timer, tries, prelude, left, watch, giveUp, baseline, final,
              verdict, at>>
serverVars == <<reach, cold, linger, leaked>>
canaryVars == <<canary, canaryLeft>>
vars == <<cell, pool, mainVars, worker, connects, serverVars, canaryVars, opened>>

Down(t) == IF t = 0 THEN 0 ELSE t - 1
Held == Cardinality({w \in Workers : worker[w] \in Ends \union {"wedged"}})
Dead == linger[0] + linger[1] + linger[2]
Dies(how) == [linger EXCEPT ![Lag(how)] = @ + 1]
Lazy == cell.proto /= "h3"

\* What /stats answers on a connection of the sampler's own.
Fds == (Cardinality(Loops) - Cardinality(cold)) + Held + Dead + leaked
       + (IF canary = "running" THEN CanarySocks ELSE 0) + 1

Init ==
    /\ cell \in Cells
    /\ pool = <<>> /\ phase = "parse"
    /\ timer = 0 /\ tries = 0 /\ prelude = 0 /\ left = 0 /\ watch = 0 /\ giveUp = 0
    /\ worker = [w \in Workers |-> "idle"]
    /\ connects = FALSE /\ opened = FALSE
    /\ baseline = None /\ final = None /\ verdict = None
    /\ reach \in {"starting", "up"}
    /\ cold = Loops /\ linger = [k \in 0..MaxLag |-> 0] /\ leaked = 0
    /\ canary = "waiting" /\ canaryLeft = 0
    /\ at = [cold |-> 0, dead |-> 0, leaked |-> 0]

-----------------------------------------------------------------------------
\* main: parse_behaviors and, in run, build_pool.
Main ==
    /\ phase = "parse"
    /\ LET enabled == ParseBehaviors(cell.raw)
       IN  IF Unknown(cell.raw) \/ enabled = <<>>
           THEN /\ verdict' = IF Unknown(cell.raw) THEN 2 ELSE 0
                /\ phase' = "done"
                /\ UNCHANGED pool
           ELSE /\ pool' = BuildPool(enabled, cell.workload)
                /\ phase' = "warm"
                /\ UNCHANGED verdict
    /\ UNCHANGED <<cell, timer, tries, prelude, left, watch, giveUp, baseline,
                   final, at, worker, connects, serverVars, canaryVars, opened>>

\* One round of warm_baseline: n of the reads reach the server, each suspends a
\* handler on the loop that accepted it, and all are closed again.
WarmRound ==
    /\ phase = "warm" /\ timer = 0
    /\ \E n \in 0..WarmConc, hit \in SUBSET Loops :
        /\ n > 0 => reach = "up"
        /\ Cardinality(hit) <= n
        /\ Dead + n <= MaxDead
        /\ cold' = cold \ hit
        /\ linger' = [linger EXCEPT ![Lag("clean")] = @ + n]
        /\ opened' = (opened \/ n > 0)
        /\ connects' = (connects \/ n > 0 \/ Lazy)
    /\ timer' = 2
    /\ tries' = tries + 1
    /\ phase' = "warmed"
    /\ UNCHANGED <<cell, pool, prelude, left, watch, giveUp, baseline, final,
                   verdict, at, worker, reach, leaked, canaryVars>>

\* The loop around it: again after a second until something connected.
WarmAgain ==
    /\ phase = "warmed" /\ timer = 0
    /\ IF connects \/ tries = Rounds
       THEN phase' = "baseline" /\ tries' = 0 /\ UNCHANGED timer
       ELSE phase' = "warm" /\ timer' = 1 /\ UNCHANGED tries
    /\ UNCHANGED <<cell, pool, prelude, left, watch, giveUp, baseline, final,
                   verdict, at, worker, connects, serverVars, canaryVars, opened>>

\* An attempt of sample_fds or sample_fds_strict that raised: the session could
\* not be opened, or /stats failed on it.
SampleFails ==
    \E o \in BOOLEAN :
        /\ o => reach = "up" /\ Dead < MaxDead
        /\ opened' = (opened \/ o)
        /\ connects' = (connects \/ o \/ Lazy)
        /\ linger' = IF o THEN Dies("clean") ELSE linger

\* An attempt that was answered.
SampleAnswers ==
    /\ reach = "up" /\ Dead < MaxDead
    /\ opened' = TRUE /\ connects' = TRUE
    /\ linger' = Dies("clean")

\* Mutant: the window is measured from the launch, not from the baseline.
WindowFromLaunch(fds) ==
    /\ baseline' = fds
    /\ phase' = "window" /\ tries' = 0
    /\ left' = Seconds - prelude
    /\ watch' = Watchdog(cell.proto)
    /\ canary' = "running" /\ canaryLeft' = CanaryTime
    /\ at' = [cold |-> Cardinality(cold), dead |-> Dead, leaked |-> leaked]

\* The baseline line is printed: the clock of the window starts, and run.sh
\* launches the canary on seeing it.
Window(fds) ==
    /\ baseline' = fds
    /\ phase' = "window" /\ tries' = 0
    /\ left' = Seconds
    /\ watch' = Watchdog(cell.proto)
    /\ canary' = "running" /\ canaryLeft' = CanaryTime
    /\ at' = [cold |-> Cardinality(cold), dead |-> Dead, leaked |-> leaked]

Baseline ==
    /\ phase = "baseline" /\ timer = 0
    /\ \/ /\ SampleAnswers
          /\ IF cell.hasFd THEN Window(Fds) /\ UNCHANGED verdict
             ELSE /\ verdict' = 2 /\ phase' = "done"
                  /\ UNCHANGED <<baseline, tries, left, watch, canaryVars, at>>
          /\ UNCHANGED timer
       \/ /\ SampleFails
          /\ IF tries + 1 = Tries THEN Window(None) /\ UNCHANGED timer
             ELSE /\ tries' = tries + 1 /\ timer' = 1
                  /\ UNCHANGED <<baseline, phase, left, watch, canaryVars, at>>
          /\ UNCHANGED verdict
    /\ UNCHANGED <<cell, pool, prelude, giveUp, final, worker, reach, cold, leaked>>

-----------------------------------------------------------------------------
\* One iteration of a worker begins; an attempt to open that fails is an error
\* it tallies, and goes on.
Begin(w) ==
    /\ phase = "window" /\ worker[w] = "idle" /\ left > 0
    /\ \E k \in 1..Len(pool) :
        \/ /\ reach = "up" /\ Dead + Held < MaxDead
           /\ \E how \in EndsAs(pool[k], cell.proto) :
                  worker' = [worker EXCEPT ![w] = how]
           /\ opened' = TRUE /\ connects' = TRUE
        \/ /\ \E d \in DialsFirst(pool[k], cell.proto) : connects' = (connects \/ ~d)
           /\ UNCHANGED <<worker, opened>>
    /\ UNCHANGED <<cell, pool, mainVars, serverVars, canaryVars>>

\* It ends, with or without an error, and lets go of its connection.
End(w) ==
    /\ phase = "window" /\ worker[w] \in Ends
    /\ linger' = Dies(worker[w])
    /\ worker' = [worker EXCEPT ![w] = "idle"]
    /\ UNCHANGED <<cell, pool, mainVars, connects, reach, cold, leaked, canaryVars,
                   opened>>

\* It waits for something that never comes.
Wedge(w) ==
    /\ phase = "window" /\ worker[w] \in Ends
    /\ worker' = [worker EXCEPT ![w] = "wedged"]
    /\ UNCHANGED <<cell, pool, mainVars, connects, serverVars, canaryVars, opened>>

LeaveLoop(w) ==
    /\ phase = "window" /\ worker[w] = "idle" /\ left = 0
    /\ worker' = [worker EXCEPT ![w] = "out"]
    /\ UNCHANGED <<cell, pool, mainVars, connects, serverVars, canaryVars, opened>>

\* wait_for over the gather: every worker is out, or the watchdog fires first.
Gathered ==
    /\ phase = "window" /\ \A w \in Workers : worker[w] = "out"
    /\ phase' = "drain" /\ timer' = Drain(cell.proto)
    /\ UNCHANGED <<cell, pool, tries, prelude, left, watch, giveUp, baseline, final,
                   verdict, at, worker, connects, serverVars, canaryVars, opened>>

\* Mutant: the watchdog only warns.
WatchdogWarns ==
    phase = "window" /\ watch = 0 /\ UNCHANGED vars

WatchdogTrips ==
    /\ phase = "window" /\ watch = 0 /\ \E w \in Workers : worker[w] /= "out"
    /\ phase' = "done" /\ verdict' = 3
    /\ UNCHANGED <<cell, pool, timer, tries, prelude, left, watch, giveUp, baseline,
                   final, at, worker, connects, serverVars, canaryVars, opened>>

Drained ==
    /\ phase = "drain" /\ timer = 0
    /\ phase' = "settle" /\ giveUp' = Settle /\ tries' = 0
    /\ UNCHANGED <<cell, pool, timer, prelude, left, watch, baseline, final, verdict,
                   at, worker, connects, serverVars, canaryVars, opened>>

\* Mutant: the slack is granted twice.
JudgeTwice(fds, connected) ==
    IF fds /= None /\ baseline = None THEN 2
    ELSE IF ~connected THEN 4
    ELSE IF fds = None THEN 2
    ELSE IF fds - Slack > baseline + Slack THEN 1 ELSE 0

\* Mutant: a sidecar that never connected is not told apart.
JudgeConnected(fds, connected) ==
    IF fds /= None /\ baseline = None THEN 2
    ELSE IF fds = None THEN IF connected THEN 2 ELSE 0
    ELSE IF fds > baseline + Slack THEN 1 ELSE 0

\* The end of run.  Without a baseline the comparison raises, which main turns
\* into 2.
Judge(fds, connected) ==
    IF fds /= None /\ baseline = None THEN 2
    ELSE IF ~connected THEN 4
    ELSE IF fds = None THEN 2
    ELSE IF fds > baseline + Slack THEN 1 ELSE 0

Conclude(fds, connected) ==
    /\ final' = fds /\ verdict' = Judge(fds, connected) /\ phase' = "done"
    /\ UNCHANGED <<timer, tries>>

\* settle_fds after an answer: sample again while it is too high and there is
\* time, else judge.
SettleOn(fds) ==
    IF baseline /= None /\ fds > baseline + Slack /\ giveUp > 0
    THEN /\ final' = fds /\ timer' = 1 /\ tries' = 0
         /\ UNCHANGED <<verdict, phase>>
    ELSE Conclude(fds, TRUE)

SettleFds ==
    /\ phase = "settle" /\ timer = 0
    /\ \/ SampleAnswers /\ SettleOn(Fds)
       \/ /\ SampleFails
          /\ IF tries + 1 = Tries THEN Conclude(None, connects')
             ELSE /\ tries' = tries + 1 /\ timer' = 1
                  /\ UNCHANGED <<final, verdict, phase>>
    /\ UNCHANGED <<cell, pool, prelude, left, watch, giveUp, baseline, at, worker,
                   reach, cold, leaked, canaryVars>>

-----------------------------------------------------------------------------
\* The server, the canary and the clock.

ServerMoves ==
    /\ verdict = None
    /\ \/ reach = "starting" /\ reach' = "up"
       \/ reach = "up" /\ reach' = "down"
    /\ UNCHANGED <<cell, pool, mainVars, worker, connects, cold, linger, leaked,
                   canaryVars, opened>>

\* A handler on a cold loop suspends.
Suspend ==
    /\ verdict = None /\ reach = "up" /\ (Held > 0 \/ canary = "running")
    /\ \E l \in cold : cold' = cold \ {l}
    /\ UNCHANGED <<cell, pool, mainVars, worker, connects, reach, linger, leaked,
                   canaryVars, opened>>

\* A dead connection is reaped; a server with a bug keeps its descriptor.
Reap(k) ==
    /\ verdict = None
    /\ linger[k] > 0 /\ linger' = [linger EXCEPT ![k] = @ - 1]
    /\ leaked' \in {leaked, leaked + 1} /\ leaked' <= MaxLeak
    /\ UNCHANGED <<cell, pool, mainVars, worker, connects, reach, cold, canaryVars,
                   opened>>

CanaryEnds ==
    /\ verdict = None /\ canary = "running"
    /\ canary' = "done" /\ canaryLeft' = 0
    /\ UNCHANGED <<cell, pool, mainVars, worker, connects, serverVars, opened>>

\* Reaping and the canary keep their deadlines; the sidecar need not.
Tick ==
    /\ verdict = None /\ phase /= "parse"
    /\ linger[0] = 0
    /\ canary = "running" => canaryLeft > 0
    /\ linger' = [k \in 0..MaxLag |-> IF k = MaxLag THEN 0 ELSE linger[k + 1]]
    /\ canaryLeft' = Down(canaryLeft)
    /\ timer' = Down(timer) /\ left' = Down(left) /\ watch' = Down(watch)
    /\ giveUp' = Down(giveUp)
    /\ prelude' = IF phase \in {"warm", "warmed", "baseline"} /\ prelude < Seconds
                  THEN prelude + 1 ELSE prelude
    /\ UNCHANGED <<cell, pool, phase, tries, baseline, final, verdict, at, worker,
                   connects, reach, cold, leaked, canary, opened>>

WorkerStep(w) == Begin(w) \/ End(w) \/ LeaveLoop(w)
RunStep == Main \/ WarmRound \/ WarmAgain \/ Baseline \/ Gathered \/ WatchdogTrips
           \/ Drained \/ SettleFds
Environment == ServerMoves \/ Suspend \/ (\E k \in 0..MaxLag : Reap(k))
               \/ CanaryEnds \/ Tick

Next == RunStep \/ (\E w \in Workers : WorkerStep(w) \/ Wedge(w)) \/ Environment

\* asyncio runs every task that is due, and time passes.  A worker that is not
\* wedged ends its iteration.
Spec ==
    /\ Init /\ [][Next]_vars
    /\ WF_vars(RunStep) /\ WF_vars(CanaryEnds) /\ WF_vars(Tick)
    /\ \A k \in 0..MaxLag : WF_vars(Reap(k))
    /\ \A w \in Workers : WF_vars(End(w) \/ LeaveLoop(w))

-----------------------------------------------------------------------------
\* Shape of the state: what a sample adds up.
TypeOK ==
    /\ linger \in [0..MaxLag -> Nat]
    /\ leaked \in Nat
    /\ cold \subseteq Loops
    /\ worker \in [Workers -> Ends \union {"idle", "out", "wedged"}]
    /\ {baseline, final, verdict} \subseteq Int
    /\ at \in [cold : Nat, dead : Nat, leaked : Nat]

\* Exit 1 (run) accuses the server only of what it did: descriptors it lost, or
\* dispatchers the warm-up had not forced, at least SLACK of them.  Neither the
\* canary's tail nor the sidecar's own dying connections, the vanished ones
\* included, are ever counted as a leak.
NoFalseLeak ==
    verdict = 1 => (leaked - at.leaked) + at.cold >= Slack

\* Exit 0 after a window: the server lost no more than SLACK, or than SLACK and
\* the connections still dying when warm_baseline's two seconds were over.
PassMeansNoLeak ==
    verdict = 0 /\ pool /= <<>> => leaked - at.leaked <= Slack + at.dead

\* The exit codes of main's docstring that a silent sidecar must not confuse: a
\* pass has really reached the server, and 4 means it never was reached.
ExitTruthful ==
    /\ verdict = 0 /\ pool /= <<>> => opened
    /\ verdict = 4 => ~opened

\* Whatever wedges, the sidecar ends: the watchdog or the verdict (run).
ChaosEnds == <>(verdict /= None)

=============================================================================
