----------------------------- MODULE StressSoak -----------------------------
(***************************************************************************)
(* One cell of the stress soak: conformance/stress/client/stress_client.py *)
(* from the reading of its knobs to its exit code.  The workers are the    *)
(* asyncio tasks that main() gathers; a step of one is what it does        *)
(* between two awaits.  The server is free to answer well, badly or not at *)
(* all, and the clock counts in ticks from the start of the cell.          *)
(***************************************************************************)
EXTENDS MixSplit

CONSTANTS
    Settings,    \* the environments to start in: VORTEX_WORKLOAD, VORTEX_PROTO,
                 \* VORTEX_MIX, VORTEX_CONCURRENCY and VORTEX_CLIENTS
    Deadline,    \* VORTEX_SECONDS, in ticks
    Grace,       \* what main() adds to it before it gives up (60 s)
    SseTotal,    \* events of one SSE sequence (100)
    SseBatch,    \* events of one SSE connection (20)
    SeqsPerConn, \* sequences before an SSE worker reopens its session (2000)
    MaxDone,     \* bound: what one worker completes
    MaxEvents,   \* bound: the events one SSE worker receives
    MaxWorkers   \* bound: the cells that are followed past their start

ASSUME SoakAssumption ==
    /\ {Deadline, Grace, SseTotal, SseBatch, SeqsPerConn} \subseteq Nat \ {0}
    /\ {MaxDone, MaxEvents, MaxWorkers} \subseteq Nat

VARIABLES
    setting,    \* the environment variables of this cell
    mix,        \* what parse_mix returned
    slices,     \* MIX_SLICES, or the one workload of a single soak
    phase,      \* "load", "running", "final", "done"
    now,        \* the monotonic clock
    worker,     \* the tasks: where each one awaits, and what it remembers
    okBy,       \* ok_by: completions per workload
    abandoned,  \* transfers given up at the deadline, per workload
    movedBy,    \* the workloads for which add_xfer has counted bytes
    wedged,     \* the workers the server has stopped serving
    bad,        \* the workers the server has answered wrongly
    verdict     \* the exit code, its cause, and no_progress of each dead slice

vars == <<setting, mix, slices, phase, now, worker, okBy, abandoned, movedBy,
          wedged, bad, verdict>>
tallies == <<okBy, abandoned, movedBy>>
settled == <<setting, mix, slices>>

Tags == Workloads \cup {"methods"}
Streaming == MixFixed
Looping == {"requests", "ws", "methods"}    \* one request per iteration
Waiting == {"ramp", "probe", "open", "busy", "leaving", "sitting"}

IsMixed == setting.workload = "mixed"
IsH3 == setting.proto = "h3"

\* TAG.get(): every task inherits the context of the slice that created it.
Tag(w) == w.tag

\* session() connects at once over h3, and so does websockets.connect; httpx
\* connects when it sends the first request.
Entering(tag) == IF IsH3 \/ tag = "ws" THEN "open" ELSE "busy"

Fresh(tag) ==
    [st |-> IF tag = "ws" THEN "ramp"
            ELSE IF tag = "streamupload" THEN "probe" ELSE Entering(tag),
     got |-> 0, batch |-> 0, seq |-> 0, t0 |-> 0, slowest |-> 0,
     own |-> 0, begun |-> IF tag = "streamdownload" THEN 1 ELSE 0,
     longest |-> 0, moved |-> FALSE]

\* The tasks of one cell: every client runs the whole fan-out.
Tasks(split) ==
    {[client |-> c, tag |-> t, i |-> i] :
        c \in 1..setting.clients, t \in DOMAIN split,
        i \in 1..Max({split[k] : k \in DOMAIN split})}

Spawned(split) == {w \in Tasks(split) : w.i <= split[w.tag]}

\* The concurrency a workload has by itself: CONC, or one whole transfer.
AloneConc == IF setting.workload \in Streaming THEN 1 ELSE setting.conc

NoVerdict == [code |-> -1, why |-> "none", diag |-> <<>>]

Init ==
    /\ setting \in Settings
    /\ mix = <<>> /\ slices = <<>> /\ worker = <<>>
    /\ phase = "load" /\ now = 0
    /\ okBy = [t \in Tags |-> 0]
    /\ abandoned = [t \in Tags |-> 0]
    /\ movedBy = {} /\ wedged = {} /\ bad = {}
    /\ verdict = NoVerdict

-----------------------------------------------------------------------------
\* Import time and the start of main().

Exit(code, why) ==
    /\ verdict' = [code |-> code, why |-> why, diag |-> <<>>]
    /\ phase' = "done"

ReadMix ==
    /\ phase = "load" /\ IsMixed /\ mix = <<>>
    /\ mix' = ParseMix(setting.knob)
    /\ slices' = SplitMix(setting.conc, mix')
    /\ IF slices' = <<>> THEN Exit(2, "config") ELSE UNCHANGED <<phase, verdict>>
    /\ UNCHANGED <<setting, now, worker, tallies, wedged, bad>>

StartSingle ==
    /\ phase = "load" /\ ~IsMixed
    /\ IF setting.workload \in Tags
       THEN /\ slices' = [t \in {setting.workload} |-> AloneConc]
            /\ worker' = [w \in Spawned(slices') |-> Fresh(w.tag)]
            /\ phase' = "running" /\ UNCHANGED verdict
       ELSE Exit(2, "config") /\ UNCHANGED <<slices, worker>>
    /\ UNCHANGED <<setting, mix, now, tallies, wedged, bad>>

StartMixed ==
    /\ phase = "load" /\ IsMixed /\ mix # <<>>
    /\ Cardinality(Spawned(slices)) <= MaxWorkers
    /\ worker' = [w \in Spawned(slices) |-> Fresh(w.tag)]
    /\ phase' = "running"
    /\ UNCHANGED <<settled, now, tallies, wedged, bad, verdict>>

-----------------------------------------------------------------------------
\* drive(): the loop around every worker.

At(w, st) == phase = "running" /\ w \in DOMAIN worker /\ worker[w].st = st

\* Back at the top of the loop; an upload that cannot finish sits out the tail.
Driven(w, r) ==
    LET left == Deadline - now IN
    IF left <= 0 THEN [r EXCEPT !.st = "out"]
    ELSE IF w.tag = "streamupload" /\ r.slowest > 0 /\ left < r.slowest
    THEN [r EXCEPT !.st = "sitting"]
    ELSE [r EXCEPT !.st = Entering(w.tag), !.t0 = now, !.got = 0, !.batch = 0,
                   !.seq = 0, !.begun = IF w.tag \in Streaming THEN @ + 1 ELSE @]

Becomes(w, r) == worker' = [worker EXCEPT ![w] = r]

Bump(w, n) == okBy' = [okBy EXCEPT ![Tag(w)] = @ + n]

Abandon(w) == abandoned' = [abandoned EXCEPT ![Tag(w)] = @ + 1]

\* ramped(): the ws workers wait at most a tenth of the cell before they start.
Ramp(w) ==
    /\ At(w, "ramp")
    /\ Becomes(w, Driven(w, worker[w]))
    /\ UNCHANGED <<settled, phase, now, tallies, wedged, bad, verdict>>

\* The upload's negative probe, before drive(): a wrong digest is refused.
ProbeRefused(w) ==
    /\ At(w, "probe")
    /\ Becomes(w, Driven(w, worker[w]))
    /\ UNCHANGED <<settled, phase, now, tallies, wedged, bad, verdict>>

\* session() is entered.  A request loop looks at the clock first; a transfer
\* does not.
Opened(w) ==
    /\ At(w, "open")
    /\ Becomes(w, IF w.tag \in Streaming \/ now < Deadline
                  THEN [worker[w] EXCEPT !.st = "busy", !.t0 = now]
                  ELSE [worker[w] EXCEPT !.st = "out"])
    /\ UNCHANGED <<settled, phase, now, tallies, wedged, bad, verdict>>

\* A transport or pin error, or an exception nobody expected: the first one to
\* leave a worker ends the cell.  The probe runs outside drive().
Raises(w) ==
    /\ phase = "running" /\ w \in DOMAIN worker
    /\ worker[w].st \in {"probe", "open", "busy"}
    /\ \E why \in IF worker[w].st = "probe" THEN {"unexpected"}
                  ELSE {"transport", "unexpected"} : Exit(1, why)
    /\ UNCHANGED <<settled, now, worker, tallies, wedged, bad>>

\* A wrong status, body, digest or order: Fail, wherever it is noticed.
Misserved(w) ==
    /\ phase = "running" /\ w \in DOMAIN worker
    /\ worker[w].st \in {"probe", "busy"} /\ w \notin wedged
    /\ bad' = bad \cup {w}
    /\ Exit(1, "defect")
    /\ UNCHANGED <<settled, now, worker, tallies, wedged>>

\* The server, or its network, stops serving one worker for good.  An h3
\* connection that is lost while _upload_body waits for room in the send
\* buffer is such a case: the error waits in a queue nobody reads.
Wedge(w) ==
    /\ At(w, "busy") /\ now < Deadline
    /\ wedged' = wedged \cup {w}
    /\ UNCHANGED <<settled, phase, now, worker, tallies, bad, verdict>>

Served(w) == At(w, "busy") /\ w \notin wedged

-----------------------------------------------------------------------------
\* requests, ws and methods: one verified answer after another.
Answered(w) ==
    /\ Served(w) /\ w.tag \in Looping /\ worker[w].own < MaxDone
    /\ Bump(w, 1)
    /\ Becomes(w, [worker[w] EXCEPT !.own = @ + 1,
                                    !.st = IF now < Deadline THEN "busy" ELSE "out"])
    /\ UNCHANGED <<settled, phase, now, abandoned, movedBy, wedged, bad, verdict>>

\* sse: an event with the id that is due.
SseEvent(w) ==
    /\ Served(w) /\ w.tag = "sse"
    /\ worker[w].got <= SseTotal /\ worker[w].own < MaxEvents
    /\ Bump(w, 1)
    /\ Becomes(w, [worker[w] EXCEPT !.got = @ + 1, !.batch = @ + 1, !.own = @ + 1])
    /\ UNCHANGED <<settled, phase, now, abandoned, movedBy, wedged, bad, verdict>>

\* The batch that just ended is one the sequence cannot go on from.
ShortBatch(r) ==
    \/ r.batch = 0
    \/ r.got < SseTotal /\ r.batch # SseBatch

\* After a whole sequence: the next one, a new session, or the end.
NextSequence(r) ==
    LET s == [r EXCEPT !.got = 0, !.batch = 0, !.seq = @ + 1] IN
    IF now >= Deadline THEN [s EXCEPT !.st = "out"]
    ELSE IF s.seq = SeqsPerConn THEN [s EXCEPT !.st = Entering("sse"), !.seq = 0]
    ELSE s

\* The server ends the stream; the worker resumes after the last id it saw.
SseClose(w) ==
    /\ Served(w) /\ w.tag = "sse"
    /\ IF ShortBatch(worker[w])
       THEN Exit(1, "defect") /\ UNCHANGED worker
       ELSE /\ Becomes(w, IF worker[w].got < SseTotal
                          THEN [worker[w] EXCEPT !.batch = 0]
                          ELSE NextSequence(worker[w]))
            /\ UNCHANGED <<phase, verdict>>
    /\ bad' = IF worker[w].got < SseTotal /\ worker[w].batch < SseBatch
              THEN bad \cup {w} ELSE bad
    /\ UNCHANGED <<settled, now, tallies, wedged>>

-----------------------------------------------------------------------------
\* streamupload: one transfer bounded by the time that is left.

\* httpx pulls the next chunk of the body: the last one is on the wire.
UploadChunk(w) ==
    /\ Served(w) /\ w.tag = "streamupload" /\ ~IsH3 /\ ~worker[w].moved
    /\ movedBy' = movedBy \cup {Tag(w)}
    /\ Becomes(w, [worker[w] EXCEPT !.moved = TRUE])
    /\ UNCHANGED <<settled, phase, now, okBy, abandoned, wedged, bad, verdict>>

\* Mutant: one measurement for all workers.
MeasuredShared(w, took) ==
    [x \in DOMAIN worker |-> Max({worker[x].slowest, took})]

\* What a completed transfer teaches its own worker.
Measured(w, took) ==
    [x \in DOMAIN worker |->
        IF x = w THEN Max({worker[x].slowest, took}) ELSE worker[x].slowest]

UploadDone(w) ==
    LET took == now - worker[w].t0
        r == [worker[w] EXCEPT !.own = @ + 1, !.longest = Max({@, took}),
                               !.moved = TRUE, !.slowest = Measured(w, took)[w]]
    IN  /\ Served(w) /\ w.tag = "streamupload" /\ worker[w].own < MaxDone
        /\ Bump(w, 1)
        /\ movedBy' = movedBy \cup {Tag(w)}
        /\ worker' = [x \in DOMAIN worker |->
                        IF x = w THEN Driven(w, r)
                        ELSE [worker[x] EXCEPT !.slowest = Measured(w, took)[x]]]
        /\ UNCHANGED <<settled, phase, now, abandoned, wedged, bad, verdict>>

\* Mutant: the outer arm does not ask whether the inner one has counted.
OuterArmTwice(w, counted) ==
    /\ now >= Deadline
    /\ Abandon(w)
    /\ Becomes(w, [worker[w] EXCEPT !.st = "out"])

\* The outer except arm: the teardown artifact or the cancellation, accepted
\* past the deadline, and tallied unless the inner arm has done so.
OuterArm(w, counted) ==
    /\ now >= Deadline
    /\ IF counted THEN UNCHANGED abandoned ELSE Abandon(w)
    /\ Becomes(w, [worker[w] EXCEPT !.st = "out"])

\* wait_for expires: as the TimeoutError of the inner arm, or replaced by the
\* artifact of the teardown.
UploadExpires(w) ==
    /\ At(w, "busy") /\ w.tag = "streamupload" /\ now >= Deadline
    /\ \/ Abandon(w) /\ Becomes(w, [worker[w] EXCEPT !.st = "leaving"])
       \/ OuterArm(w, FALSE)
    /\ UNCHANGED <<settled, phase, now, okBy, movedBy, wedged, bad, verdict>>

\* The return of the inner arm leaves session() with the request in flight:
\* quietly, or by way of the outer arm.
UploadLeaves(w) ==
    /\ At(w, "leaving")
    /\ \/ /\ Becomes(w, [worker[w] EXCEPT !.st = "out"])
          /\ UNCHANGED abandoned
       \/ OuterArm(w, TRUE)
    /\ UNCHANGED <<settled, phase, now, okBy, movedBy, wedged, bad, verdict>>

SatOut(w) ==
    /\ At(w, "sitting") /\ now >= Deadline
    /\ Becomes(w, [worker[w] EXCEPT !.st = "out"])
    /\ UNCHANGED <<settled, phase, now, tallies, wedged, bad, verdict>>

-----------------------------------------------------------------------------
\* streamdownload: the clock is looked at after every chunk.
DownloadChunk(w) ==
    /\ Served(w) /\ w.tag = "streamdownload"
    /\ worker[w].got = 0 \/ now >= Deadline
    /\ movedBy' = movedBy \cup {Tag(w)}
    /\ IF now >= Deadline
       THEN Abandon(w) /\ Becomes(w, [worker[w] EXCEPT !.moved = TRUE, !.st = "out"])
       ELSE /\ Becomes(w, [worker[w] EXCEPT !.moved = TRUE, !.got = 1])
            /\ UNCHANGED abandoned
    /\ UNCHANGED <<settled, phase, now, okBy, wedged, bad, verdict>>

\* The body ends, whole and with the right digest.
DownloadDone(w) ==
    /\ Served(w) /\ w.tag = "streamdownload"
    /\ worker[w].got = 1 /\ worker[w].own < MaxDone
    /\ Bump(w, 1)
    /\ Becomes(w, Driven(w, [worker[w] EXCEPT !.own = @ + 1]))
    /\ UNCHANGED <<settled, phase, now, abandoned, movedBy, wedged, bad, verdict>>

-----------------------------------------------------------------------------
\* The clock, the safety net and the verdict.

\* A timer of the client that is due is served before the clock moves on.
TimerDue(w) ==
    \/ worker[w].st \in {"ramp", "leaving"}
    \/ now >= Deadline /\ \/ worker[w].st = "sitting"
                          \/ worker[w].st = "busy" /\ w.tag = "streamupload"

Tick ==
    /\ phase = "running" /\ now < Deadline + Grace
    /\ \A w \in DOMAIN worker : ~TimerDue(w)
    /\ now' = now + 1
    /\ UNCHANGED <<settled, phase, worker, tallies, wedged, bad, verdict>>

\* Mutant: the gather is awaited without a limit.
NetMissing == FALSE

\* main()'s wait_for cancels the gather.  The transfers swallow the
\* cancellation as one more abandonment; the gather still reports it.
NetFires ==
    LET hit == {w \in DOMAIN worker :
                    w.tag \in Streaming /\ worker[w].st \in {"open", "busy"}}
    IN  /\ phase = "running" /\ now = Deadline + Grace
        /\ \E w \in DOMAIN worker : worker[w].st # "out"
        /\ abandoned' = [t \in Tags |->
                abandoned[t] + Cardinality({w \in hit : Tag(w) = t})]
        /\ worker' = [w \in DOMAIN worker |-> [worker[w] EXCEPT !.st = "out"]]
        /\ Exit(1, "stall")
        /\ UNCHANGED <<settled, now, okBy, movedBy, wedged, bad>>

AllOut ==
    /\ phase = "running"
    /\ \A w \in DOMAIN worker : worker[w].st = "out"
    /\ phase' = "final"
    /\ UNCHANGED <<settled, now, worker, tallies, wedged, bad, verdict>>

\* Mutant: the bytes of the whole cell.
MovedInCell(t) == movedBy # {}

\* moved(): the bytes of this workload, not of the cell.
Moved(t) == t \in movedBy

\* no_progress(): why a workload completed nothing.
NoProgress(t) ==
    IF abandoned[t] = 0 THEN "nothing started"
    ELSE IF Moved(t) THEN "too big"
    ELSE IF t = "streamupload" /\ IsH3 THEN "undecidable" ELSE "stall"

\* Mutant: progress is checked on the sum.
DeadOnSum == IF \E t \in DOMAIN slices : okBy[t] > 0 THEN {} ELSE DOMAIN slices

\* The workloads that completed nothing, each by its own count.
Dead == {t \in DOMAIN slices : okBy[t] = 0}

\* The closing /stats sample may fail without touching the verdict.
Conclude ==
    /\ phase = "final"
    /\ phase' = "done"
    /\ verdict' = IF Dead = {}
                  THEN [code |-> 0, why |-> "passed", diag |-> <<>>]
                  ELSE [code |-> 1, why |-> "dead",
                        diag |-> [t \in Dead |-> NoProgress(t)]]
    /\ UNCHANGED <<settled, now, worker, tallies, wedged, bad>>

-----------------------------------------------------------------------------
WorkerStep(w) ==
    \/ Ramp(w) \/ ProbeRefused(w) \/ Opened(w) \/ Raises(w) \/ Misserved(w)
    \/ Wedge(w) \/ Answered(w) \/ SseEvent(w) \/ SseClose(w)
    \/ UploadChunk(w) \/ UploadDone(w) \/ UploadExpires(w) \/ UploadLeaves(w)
    \/ SatOut(w) \/ DownloadChunk(w) \/ DownloadDone(w)

Next ==
    \/ ReadMix \/ StartSingle \/ StartMixed
    \/ \E w \in DOMAIN worker : WorkerStep(w)
    \/ Tick \/ NetFires \/ AllOut \/ Conclude

\* Time passes and the timers of the client fire; the network owes nothing.
TimerFires ==
    \E w \in DOMAIN worker :
        Ramp(w) \/ UploadExpires(w) \/ UploadLeaves(w) \/ SatOut(w)

Fairness ==
    /\ WF_vars(Tick) /\ WF_vars(TimerFires)
    /\ WF_vars(NetFires) /\ WF_vars(AllOut) /\ WF_vars(Conclude)

Spec == Init /\ [][Next]_vars /\ Fairness

-----------------------------------------------------------------------------
\* Properties.

TasksOf(t) == {w \in DOMAIN worker : w.tag = t}

\* A cell that exits 0 has seen no wrong answer, and every one of its slices
\* has completed something by itself: no slice hides behind another's count
\* (the per-workload check at the end of main()).  If the server stopped serving
\* a worker in mid-answer, that worker was uploading: main()'s limit catches the
\* others, but an upload is bounded by the deadline itself and counts as
\* abandoned, so for it the stall detector that mix_segments relies on is blind.
PassMeansVerified ==
    verdict.code = 0 =>
        /\ bad = {}
        /\ \A w \in wedged : w.tag = "streamupload"
        /\ \A t \in DOMAIN slices : \E w \in TasksOf(t) : worker[w].own > 0

\* Every transfer an upload or download worker has begun is completed, in
\* flight, or abandoned, and counted so exactly once, although the deadline
\* can reach it by the timeout, the teardown artifact, both, or the net.
AttemptsAccounted ==
    \A t \in Streaming :
        MapThenSumSet(LAMBDA w : worker[w].begun, TasksOf(t))
            = okBy[t] + abandoned[t]
                + Cardinality({w \in TasksOf(t) : worker[w].st \in {"open", "busy"}})

\* What no_progress prints of a dead slice is true of that slice: nothing was
\* begun, or bytes of its own moved, or none did.
DiagnosisTruthful ==
    \A t \in DOMAIN verdict.diag :
        CASE verdict.diag[t] = "nothing started" ->
                \A w \in TasksOf(t) : worker[w].begun = 0
          [] verdict.diag[t] = "too big" -> \E w \in TasksOf(t) : worker[w].moved
          [] verdict.diag[t] = "stall" -> \A w \in TasksOf(t) : ~worker[w].moved
          [] OTHER -> IsH3 /\ t = "streamupload"

\* An upload worker sits out the tail of a cell only when one of its own
\* transfers took longer than the time that is left.
SitOutJustified ==
    \A w \in DOMAIN worker :
        worker[w].st = "sitting" => worker[w].longest > Deadline - now

\* The knob is read as it is written, or refused (parse_mix), and the budget is
\* split as split_mix promises, or refused.
BudgetSplit ==
    IsMixed /\ (mix # <<>> \/ phase # "load") =>
        /\ ParsedAsWritten(setting.knob, mix)
        /\ SplitAsPromised(setting.conc, mix, slices)

\* Every cell that starts ends with a verdict, whatever the server does.
EveryCellEnds == (phase = "running") ~> (phase = "done")
=============================================================================
