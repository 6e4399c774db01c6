------------------------------- MODULE H2Send -------------------------------
(***************************************************************************)
(* The sending half of an HTTP/2 connection (http2/codec.nim, the          *)
(* streaming API of request.nim, flushOut of eventloop.nim): streamed      *)
(* responses under flow control, the ready-queue of the write scheduler,   *)
(* the write buffer and its high-water mark, and the drain callbacks that  *)
(* resume producers.                                                       *)
(*                                                                         *)
(* Everything runs on the loop thread, but it nests: a write runs the      *)
(* scheduler and a flush, a flush runs the scheduler again, and both may   *)
(* call a producer, which may write.  stk is the call stack; an action is  *)
(* one turn of the innermost loop or call.  The peer, the socket and the   *)
(* producers are free.  A frame weighs its payload, an empty one 1.        *)
(*                                                                         *)
(* Left out: WebSocket streams, buffered responses, trailers, a declared   *)
(* length, requests that are still arriving, TLS, the flood budget, and    *)
(* priorities that change.  A callback acts on its own response only, and  *)
(* a connection error closes the connection at once.                       *)
(***************************************************************************)
EXTENDS Integers, Sequences, FiniteSets, FiniteSetsExt, Functions

CONSTANTS
    Sids,        \* the streams the client opens
    Urgency,     \* each stream's level, 0 or 1
    Incremental, \* the streams that are scheduled round-robin
    MaxBytes,    \* bound: bytes written on each stream
    Sizes,       \* sizes of a write
    HighWater,   \* respHighWater
    MaxFrame,    \* peerMaxFrame
    MaxWin,      \* the largest window, for 2^31-1
    Grants,      \* increments of a WINDOW_UPDATE
    InitWins,    \* values of SETTINGS_INITIAL_WINDOW_SIZE
    Rounds,      \* h2MaxRefillRounds
    MaxOut       \* bound: bytes in the buffer when a SETTINGS is answered

ASSUME H2Assumption ==
    /\ IsFiniteSet(Sids)
    /\ Urgency \in [Sids -> 0..1] /\ Incremental \subseteq Sids
    /\ MaxBytes \in [Sids -> Nat] /\ {MaxWin, MaxOut} \subseteq Nat
    /\ {HighWater, MaxFrame, Rounds} \subseteq Nat \ {0}
    /\ Sizes \union Grants \subseteq Nat \ {0}
    /\ InitWins \subseteq 0..MaxWin /\ InitWins /= {}

VARIABLES
    stk,       \* the call stack, innermost call first
    up,        \* the connection is open
    phase,     \* "idle", "none" (no head yet), "streaming", "finished", "gone"
    win, connWin, initWin,  \* sendWindow, connSendWindow, peerInitialWindow
    written,   \* bytes the producer wrote; they are numbered
    pending,   \* pendingBody from pendingPos on
    wire,      \* history: the bytes put in DATA frames
    ended,     \* history: END_STREAM was sent
    sendQ,     \* the ready-queue, by level
    inSendQ,
    backedUp,  \* respBackedUp
    cb,        \* onRespDrain is set
    parked,    \* history: a producer waits for its callback
    kicks,     \* drainKicks
    out,       \* pendingOut
    armed      \* write interest

streamVars == <<phase, win, written, pending, wire, ended, inSendQ, backedUp, cb, parked>>
vars == <<stk, up, connWin, initWin, sendQ, kicks, out, armed, streamVars>>

Init ==
    /\ stk = <<>> /\ up = TRUE
    /\ phase = [s \in Sids |-> "idle"]
    /\ initWin \in InitWins
    /\ win = [s \in Sids |-> 0] /\ connWin = MaxWin
    /\ written = [s \in Sids |-> 0]
    /\ pending = [s \in Sids |-> <<>>] /\ wire = [s \in Sids |-> <<>>]
    /\ ended = [s \in Sids |-> FALSE]
    /\ sendQ = [u \in 0..1 |-> <<>>] /\ inSendQ = [s \in Sids |-> FALSE]
    /\ backedUp = [s \in Sids |-> FALSE]
    /\ cb = [s \in Sids |-> FALSE] /\ parked = [s \in Sids |-> FALSE]
    /\ kicks = {} /\ out = 0 /\ armed = FALSE

-----------------------------------------------------------------------------
\* h2.streams, and the stack.
Open(s) == phase[s] \in {"none", "streaming", "finished"}

On(frame) == stk /= <<>> /\ Head(stk)[1] = frame
Top == Head(stk)
Returns == stk' = Tail(stk)
Then(calls) == stk' = calls \o Tail(stk)

\* h2.resuming: inside the resume scan, or inside a kick's pass.
Resuming == \E i \in DOMAIN stk : stk[i][1] \in {"scan", "kick"}

\* c.flushHold > 0 in calls: a read batch or the pump, flushOut's refill, a kick.
Held(calls) ==
    \E i \in DOMAIN calls : \/ calls[i][1] \in {"batch", "kick"}
                            \/ calls[i][1] = "flush" /\ calls[i][3] /= "write"

\* flushImpl, called with n bytes in the buffer: held below the mark, else flushOut.
HookCalls(calls, n) ==
    IF n = 0 \/ (Held(calls) /\ n < HighWater) THEN <<>>
    ELSE << <<"flush", 0, "write">> >>

\* A batch: frames of one read, or what one pump resumes.  It takes its next
\* item; nothing else runs meanwhile.
InBatch == up /\ (stk = <<>> \/ On("batch"))
Batch == IF stk = <<>> THEN << <<"batch">> >> ELSE stk
BatchCalls(calls) == stk' = calls \o Batch

EndBatch ==
    /\ On("batch")
    /\ Then(IF out > 0 THEN << <<"flush", 0, "write">> >> ELSE <<>>)
    /\ UNCHANGED <<up, connWin, initWin, sendQ, kicks, out, armed, streamVars>>

\* h2Sendable, for what stream s holds after the step.
Sendable(s, bytes, w, fin) == IF bytes /= <<>> THEN w > 0 ELSE fin

\* h2Enqueue.
Enqueued(s, bytes, w, fin) ==
    IF ~inSendQ[s] /\ Sendable(s, bytes, w, fin)
    THEN /\ inSendQ' = [inSendQ EXCEPT ![s] = TRUE]
         /\ sendQ' = [sendQ EXCEPT ![Urgency[s]] = Append(@, s)]
    ELSE UNCHANGED <<inSendQ, sendQ>>

\* teardownStream: out of the table; a parked callback is called (by ThenCall).
Gone(s) ==
    /\ phase' = [phase EXCEPT ![s] = "gone"]
    /\ cb' = [cb EXCEPT ![s] = FALSE]
    /\ backedUp' = [backedUp EXCEPT ![s] = FALSE]
    /\ pending' = [pending EXCEPT ![s] = <<>>]
    /\ win' = [win EXCEPT ![s] = 0]

\* The history of a response that was cut short is of no more use.
Forgotten(s) ==
    /\ written' = [written EXCEPT ![s] = 0] /\ wire' = [wire EXCEPT ![s] = <<>>]

ThenCall(s) == IF cb[s] THEN << <<"call", s>> >> ELSE <<>>

-----------------------------------------------------------------------------
\* h2Schedule: one turn of the loop.
Ready == {u \in 0..1 : sendQ[u] /= <<>>}

PassGoes == connWin > 0 /\ out < HighWater /\ Ready /= {}

\* Mutant: the frame is not cut to the connection's window.
ChunkOfStream(s) == Min({Len(pending[s]), MaxFrame, win[s]})

\* emitOneFrame's size.
Chunk(s) == Min({Len(pending[s]), MaxFrame, win[s], connWin})

\* The popped stream goes back to its level while it can send more.
Requeued(s, rest, bytes, w) ==
    LET again == Sendable(s, bytes, w, FALSE)
        u == Urgency[s]
    IN /\ inSendQ' = [inSendQ EXCEPT ![s] = again]
       /\ sendQ' = [sendQ EXCEPT ![u] = CASE ~again -> rest
                                         [] again /\ s \in Incremental -> Append(rest, s)
                                         [] OTHER -> <<s>> \o rest]

\* The empty END_STREAM frame of a body that is out already.
EmitEnd(s) ==
    /\ Gone(s) /\ ended' = [ended EXCEPT ![s] = TRUE] /\ out' = out + 1
    /\ UNCHANGED <<connWin, wire>>

\* Mutant: compaction drops a byte that is not out yet when more than one is left.
LeftShort(s, n) ==
    SubSeq(pending[s], n + (IF Len(pending[s]) > n THEN 2 ELSE 1), Len(pending[s]))

\* The backlog behind a frame of n bytes (pendingPos, compactPendingBody).
Left(s, n) == SubSeq(pending[s], n + 1, Len(pending[s]))

\* n bytes of the backlog in one frame; the last one of a finished body ends it.
EmitData(s, n) ==
    LET left == Left(s, n) IN
    /\ wire' = [wire EXCEPT ![s] = @ \o SubSeq(pending[s], 1, n)]
    /\ connWin' = connWin - n /\ out' = out + n
    /\ IF left = <<>> /\ phase[s] = "finished"
       THEN Gone(s) /\ ended' = [ended EXCEPT ![s] = TRUE]
       ELSE /\ pending' = [pending EXCEPT ![s] = left]
            /\ win' = [win EXCEPT ![s] = @ - n]
            /\ UNCHANGED <<phase, cb, backedUp, ended>>

Emit ==
    /\ On("pass") /\ PassGoes
    /\ LET u == Min(Ready)
           s == Head(sendQ[u])
           rest == Tail(sendQ[u])
           Drops == /\ sendQ' = [sendQ EXCEPT ![u] = rest]
                    /\ inSendQ' = [inSendQ EXCEPT ![s] = ~Open(s) /\ @]
       IN CASE Open(s) /\ pending[s] = <<>> /\ phase[s] = "finished" ->
                 EmitEnd(s) /\ Drops /\ stk' = ThenCall(s) \o stk
            [] Open(s) /\ pending[s] /= <<>> /\ Chunk(s) > 0 ->
                 /\ EmitData(s, Chunk(s))
                 /\ Requeued(s, rest, pending'[s], win'[s])
                 /\ stk' = (IF phase'[s] = "gone" THEN ThenCall(s) ELSE <<>>) \o stk
            [] OTHER ->
                 /\ Drops
                 /\ UNCHANGED <<stk, phase, win, connWin, pending, wire, ended, backedUp,
                                cb, out>>
    /\ UNCHANGED <<up, initWin, kicks, armed, written, parked>>

\* h2ResumeProducers: collect the producers with room, to call each.
Resumable == {s \in Sids : Open(s) /\ backedUp[s] /\ cb[s] /\ Len(pending[s]) < HighWater}

ResumeCalls ==
    IF Resuming \/ out >= HighWater \/ Resumable = {} THEN <<>>
    ELSE << <<"scan", Resumable>> >>

PassEnds ==
    /\ On("pass") /\ ~PassGoes
    /\ Then(ResumeCalls)
    /\ UNCHANGED <<up, connWin, initWin, sendQ, kicks, out, armed, streamVars>>

ScanNext(s) ==
    /\ On("scan") /\ out < HighWater /\ s \in Top[2]
    /\ IF Open(s) /\ backedUp[s] /\ cb[s]
       THEN /\ backedUp' = [backedUp EXCEPT ![s] = FALSE]
            /\ cb' = [cb EXCEPT ![s] = FALSE]
            /\ parked' = [parked EXCEPT ![s] = FALSE]
            /\ Then(<< <<"cb", s>>, <<"scan", Top[2] \ {s}>> >>)
       ELSE Then(<< <<"scan", Top[2] \ {s}>> >>) /\ UNCHANGED <<backedUp, cb, parked>>
    /\ UNCHANGED <<up, connWin, initWin, sendQ, kicks, out, armed, phase, win, written,
                   pending, wire, ended, inSendQ>>

ScanEnds ==
    /\ On("scan") /\ (Top[2] = {} \/ out >= HighWater)
    /\ Returns
    /\ UNCHANGED <<up, connWin, initWin, sendQ, kicks, out, armed, streamVars>>

\* A callback detached earlier is called: the producer of s runs.
CallProducer ==
    /\ On("call")
    /\ parked' = [parked EXCEPT ![Top[2]] = FALSE]
    /\ Then(<< <<"cb", Top[2]>> >>)
    /\ UNCHANGED <<up, connWin, initWin, sendQ, kicks, out, armed, phase, win, written,
                   pending, wire, ended, inSendQ, backedUp, cb>>

ProducerReturns ==
    /\ On("cb") /\ Returns
    /\ UNCHANGED <<up, connWin, initWin, sendQ, kicks, out, armed, streamVars>>

-----------------------------------------------------------------------------
\* The streaming API, called from a batch or from the producer's own callback.
MayAct(s) == InBatch \/ (up /\ On("cb") /\ Top[2] = s)
Caller == IF On("cb") THEN stk ELSE Batch
ActCalls(calls) == stk' = calls \o Caller

SendHead(s) ==
    /\ MayAct(s) /\ phase[s] = "none"
    /\ phase' = [phase EXCEPT ![s] = "streaming"] /\ out' = out + 1
    /\ ActCalls(HookCalls(Caller, out + 1))
    /\ UNCHANGED <<up, connWin, initWin, sendQ, kicks, armed, win, written, pending, wire,
                   ended, inSendQ, backedUp, cb, parked>>

\* h2WriteDirect: how many of n bytes leave at once, in frames that each start
\* below the mark; none with a backlog or while another stream is ready.
Direct(s, n) ==
    LET frames == IF out >= HighWater THEN 0 ELSE (HighWater - out - 1) \div MaxFrame + 1
    IN IF pending[s] /= <<>> \/ Ready /= {} THEN 0
       ELSE Max({0, Min({n, win[s], connWin, frames * MaxFrame})})

\* res.write: h2StreamWrite, the flush, and the verdict.
Write(s, n) ==
    /\ MayAct(s) /\ phase[s] = "streaming" /\ written[s] + n <= MaxBytes[s]
    /\ LET bytes == [i \in 1..n |-> written[s] + i]
           k == Direct(s, n)
       IN /\ written' = [written EXCEPT ![s] = @ + n]
          /\ wire' = [wire EXCEPT ![s] = @ \o SubSeq(bytes, 1, k)]
          /\ pending' = [pending EXCEPT ![s] = @ \o SubSeq(bytes, k + 1, n)]
          /\ win' = [win EXCEPT ![s] = @ - k]
          /\ connWin' = connWin - k /\ out' = out + k
    /\ Enqueued(s, pending'[s], win'[s], FALSE)
    /\ ActCalls(<< <<"pass">>, <<"wrote", s>> >>)
    /\ UNCHANGED <<up, initWin, kicks, armed, phase, ended, backedUp, cb, parked>>

\* The rest of res.write: the flush, if it is not held, then h2Writable's verdict
\* on what is left.
WriteEnds ==
    /\ On("wrote") \/ On("verdict")
    /\ LET s == Top[2]
           calls == IF On("wrote") THEN HookCalls(Tail(stk), out) ELSE <<>>
           full == /\ calls = <<>> /\ phase[s] = "streaming"
                   /\ (Len(pending[s]) >= HighWater \/ out >= HighWater)
       IN /\ backedUp' = [backedUp EXCEPT ![s] = @ \/ full]
          /\ Then(IF calls = <<>> THEN <<>> ELSE Append(calls, <<"verdict", s>>))
    /\ UNCHANGED <<up, connWin, initWin, sendQ, kicks, out, armed, phase, win, written,
                   pending, wire, ended, inSendQ, cb, parked>>

\* drainKickQueued, until the kick is taken up.
KickQueued(s) ==
    s \in kicks \/ \E i \in DOMAIN stk : stk[i][1] = "kicks" /\ s \in stk[i][2]

\* res.onDrain: the callback, h2ArmDrain's mark, and a kick.
OnDrain(s) ==
    /\ MayAct(s) /\ phase[s] \in {"none", "streaming"}
    /\ cb' = [cb EXCEPT ![s] = TRUE] /\ parked' = [parked EXCEPT ![s] = TRUE]
    /\ backedUp' = [backedUp EXCEPT ![s] = TRUE]
    /\ kicks' = IF KickQueued(s) THEN kicks ELSE kicks \union {s}
    /\ ActCalls(<<>>)
    /\ UNCHANGED <<up, connWin, initWin, sendQ, out, armed, phase, win, written, pending,
                   wire, ended, inSendQ>>

\* Mutant: finish drops the parked callback.
EndedDropped(s) == <<>>

\* fireEndedDrain: a callback that finish or abort detached is called after.
EndedCalls(s) == ThenCall(s)

\* res.finish: the rest is queued with its END_STREAM, or the end goes out now.
Finish(s) ==
    /\ MayAct(s) /\ phase[s] = "streaming"
    /\ IF pending[s] /= <<>>
       THEN /\ phase' = [phase EXCEPT ![s] = "finished"]
            /\ cb' = [cb EXCEPT ![s] = FALSE]
            /\ backedUp' = [backedUp EXCEPT ![s] = FALSE]
            /\ Enqueued(s, pending[s], win[s], TRUE)
            /\ ActCalls(<< <<"pass">> >> \o EndedCalls(s) \o << <<"hook">> >>)
            /\ UNCHANGED <<pending, ended, out, win, connWin, wire>>
       ELSE /\ EmitEnd(s)
            /\ ActCalls(EndedCalls(s) \o << <<"hook">> >>)
            /\ UNCHANGED <<inSendQ, sendQ>>
    /\ UNCHANGED <<up, initWin, kicks, armed, written, parked>>

\* res.abort, and a stream error: RST_STREAM, and out of the table.
Resets(s) ==
    /\ Gone(s) /\ Forgotten(s) /\ out' = out + 1
    /\ UNCHANGED <<up, connWin, initWin, sendQ, kicks, armed, ended, inSendQ, parked>>

Abort(s) ==
    /\ MayAct(s) /\ phase[s] = "streaming"
    /\ Resets(s) /\ ActCalls(EndedCalls(s) \o << <<"hook">> >>)

-----------------------------------------------------------------------------
\* closeConn: h2NotifyClosed calls what is parked; nothing is sent any more.
Closes ==
    /\ up' = FALSE /\ stk' = <<>>
    /\ phase' = [s \in Sids |-> "gone"] /\ pending' = [s \in Sids |-> <<>>]
    /\ cb' = [s \in Sids |-> FALSE] /\ parked' = [s \in Sids |-> FALSE]
    /\ backedUp' = [s \in Sids |-> FALSE]
    /\ kicks' = {} /\ out' = 0 /\ armed' = FALSE
    /\ connWin' = 0 /\ initWin' = (CHOOSE v \in InitWins : TRUE) /\ win' = [s \in Sids |-> 0]
    /\ written' = [s \in Sids |-> 0] /\ wire' = [s \in Sids |-> <<>>]
    /\ ended' = [s \in Sids |-> FALSE] /\ inSendQ' = [s \in Sids |-> FALSE]
    /\ sendQ' = [u \in 0..1 |-> <<>>]

Close == up /\ (stk = <<>> \/ (On("flush") /\ Top[3] = "write")) /\ Closes

\* The frames of the peer.
HeadersIn(s) ==
    /\ InBatch /\ phase[s] = "idle"
    /\ phase' = [phase EXCEPT ![s] = "none"] /\ win' = [win EXCEPT ![s] = initWin]
    /\ BatchCalls(<<>>)
    /\ UNCHANGED <<up, connWin, initWin, sendQ, kicks, out, armed, written, pending, wire,
                   ended, inSendQ, backedUp, cb, parked>>

RstIn(s) ==
    /\ InBatch /\ Open(s)
    /\ Gone(s) /\ Forgotten(s) /\ BatchCalls(ThenCall(s))
    /\ UNCHANGED <<up, connWin, initWin, sendQ, kicks, out, armed, ended, inSendQ, parked>>

\* What handleWindowUpdate runs once a stream's window is w.
UpdateCalls(s, w) ==
    IF Sendable(s, pending[s], w, phase[s] = "finished") THEN << <<"pass">> >>
    ELSE ResumeCalls

\* Mutant: the sum is not checked.
TooLargeNever(w) == FALSE

\* Past the largest window (RFC 9113 6.9.1).
TooLarge(w) == w > MaxWin

WindowUpdate(s, inc) ==
    /\ InBatch /\ Open(s)
    /\ IF TooLarge(win[s] + inc)
       THEN Resets(s) /\ BatchCalls(ThenCall(s))
       ELSE /\ win' = [win EXCEPT ![s] = @ + inc]
            /\ Enqueued(s, pending[s], win[s] + inc, phase[s] = "finished")
            /\ BatchCalls(UpdateCalls(s, win[s] + inc))
            /\ UNCHANGED <<up, connWin, initWin, kicks, out, armed, phase, written, pending,
                           wire, ended, backedUp, cb, parked>>

\* Mutant: a connection update runs a pass only for a queue that is not empty
\* and a window that was open.
ConnCallsOpen(inc) == IF Ready /= {} /\ connWin > 0 THEN << <<"pass">> >> ELSE <<>>

ConnCalls(inc) ==
    IF Ready /= {} \/ (connWin <= 0 /\ connWin + inc > 0) THEN << <<"pass">> >> ELSE <<>>

ConnUpdate(inc) ==
    /\ InBatch
    /\ IF TooLarge(connWin + inc)
       THEN Closes
       ELSE /\ connWin' = connWin + inc
            /\ BatchCalls(ConnCalls(inc))
            /\ UNCHANGED <<up, initWin, sendQ, kicks, out, armed, streamVars>>

\* The orders in which a walk over a set of streams can meet them.
Orders(S) == Bijection(1..Cardinality(S), S)

\* handleSettings: the change moves every open stream's window; the streams with
\* a backlog that can send now are queued, in any order.
Settings(v) ==
    /\ InBatch /\ out < MaxOut
    /\ LET moved == [s \in Sids |-> IF Open(s) THEN win[s] + (v - initWin) ELSE win[s]]
           woken == {s \in Sids : Open(s) /\ pending[s] /= <<>> /\ moved[s] > 0 /\ ~inSendQ[s]}
       IN IF \E s \in Sids : Open(s) /\ (TooLarge(moved[s]) \/ moved[s] < -(MaxWin + 1))
          THEN Closes
          ELSE /\ initWin' = v /\ win' = moved /\ out' = out + 1
               /\ inSendQ' = [s \in Sids |-> inSendQ[s] \/ s \in woken]
               /\ \E low \in Orders({s \in woken : Urgency[s] = 0}),
                     high \in Orders({s \in woken : Urgency[s] = 1}) :
                    sendQ' = [u \in 0..1 |-> sendQ[u] \o (IF u = 0 THEN low ELSE high)]
               /\ BatchCalls(<< <<"pass">> >>)
               /\ UNCHANGED <<up, connWin, kicks, armed, phase, written, pending, wire, ended,
                              backedUp, cb, parked>>

-----------------------------------------------------------------------------
Hook ==
    /\ On("hook")
    /\ Then(HookCalls(Tail(stk), out))
    /\ UNCHANGED <<up, connWin, initWin, sendQ, kicks, out, armed, streamVars>>

\* flushOut: the socket takes some bytes, or none, and left stay: they are watched,
\* and refilled if they are below the mark, ...
FlushBlocks(left) ==
    /\ On("flush") /\ Top[3] = "write" /\ left \in 1..out
    /\ armed' = TRUE /\ out' = left
    /\ Then(IF left < HighWater THEN << <<"pass">>, <<"flush", Top[2], "leave">> >> ELSE <<>>)
    /\ UNCHANGED <<up, connWin, initWin, sendQ, kicks, streamVars>>

\* ... or it takes all: refill, and go on while there is something, for some rounds.
FlushDrained ==
    /\ On("flush") /\ Top[3] = "write"
    /\ armed' = FALSE /\ out' = 0
    /\ Then(<< <<"pass">>, <<"flush", Top[2], "refilled">> >>)
    /\ UNCHANGED <<up, connWin, initWin, sendQ, kicks, streamVars>>

FlushRefilled ==
    /\ On("flush") /\ Top[3] = "refilled"
    /\ armed' = (armed \/ (out > 0 /\ Top[2] + 1 >= Rounds))
    /\ Then(IF out = 0 \/ Top[2] + 1 >= Rounds THEN <<>>
            ELSE << <<"flush", Top[2] + 1, "write">> >>)
    /\ UNCHANGED <<up, connWin, initWin, sendQ, kicks, out, streamVars>>

FlushLeaves ==
    /\ On("flush") /\ Top[3] = "leave" /\ Returns
    /\ UNCHANGED <<up, connWin, initWin, sendQ, kicks, out, armed, streamVars>>

Writable ==
    /\ stk = <<>> /\ up /\ armed
    /\ stk' = << <<"flush", 0, "write">> >>
    /\ UNCHANGED <<up, connWin, initWin, sendQ, kicks, out, armed, streamVars>>

\* runDrainKicks: a pass for each registration, the scan suppressed, ...
RunDrainKicks ==
    /\ stk = <<>> /\ kicks /= {}
    /\ stk' = << <<"kicks", kicks>> >> /\ kicks' = {}
    /\ UNCHANGED <<up, connWin, initWin, sendQ, out, armed, streamVars>>

NextKick(s) ==
    /\ On("kicks") /\ s \in Top[2]
    /\ Then((IF Open(s) /\ cb[s] THEN << <<"pass">>, <<"kick", s, out>> >> ELSE <<>>)
            \o (IF Top[2] = {s} THEN <<>> ELSE << <<"kicks", Top[2] \ {s}>> >>))
    /\ UNCHANGED <<up, connWin, initWin, sendQ, kicks, out, armed, streamVars>>

\* ... then the callback, if nothing at all is queued (h2DrainKick).
KickEnds ==
    /\ On("kick")
    /\ LET s == Top[2]
           fire == Open(s) /\ backedUp[s] /\ cb[s] /\ pending[s] = <<>> /\ out = 0
       IN /\ backedUp' = [backedUp EXCEPT ![s] = @ /\ ~fire]
          /\ cb' = [cb EXCEPT ![s] = @ /\ ~fire]
          /\ parked' = [parked EXCEPT ![s] = @ /\ ~fire]
          /\ Then((IF out > Top[3] THEN HookCalls(Tail(stk), out) ELSE <<>>)
                  \o (IF fire THEN << <<"cb", s>> >> ELSE <<>>))
    /\ UNCHANGED <<up, connWin, initWin, sendQ, kicks, out, armed, phase, win, written,
                   pending, wire, ended, inSendQ>>

-----------------------------------------------------------------------------
\* What the loop does once it has begun: the only way on is the stack's.
LoopStep ==
    \/ EndBatch \/ Emit \/ PassEnds \/ ScanEnds \/ CallProducer
    \/ ProducerReturns \/ WriteEnds \/ Hook \/ KickEnds
    \/ FlushDrained \/ FlushRefilled \/ FlushLeaves
    \/ \E left \in 1..out : FlushBlocks(left)
    \/ \E s \in Sids : ScanNext(s) \/ NextKick(s)

ProducerActs(s) ==
    \/ SendHead(s) \/ OnDrain(s) \/ Finish(s) \/ Abort(s)
    \/ \E n \in Sizes : Write(s, n)

PeerSends ==
    \/ \E s \in Sids : HeadersIn(s) \/ RstIn(s) \/ \E inc \in Grants : WindowUpdate(s, inc)
    \/ \E inc \in Grants : ConnUpdate(inc)
    \/ \E v \in InitWins : Settings(v)

Next ==
    \/ LoopStep \/ Writable \/ RunDrainKicks \/ Close
    \/ PeerSends \/ \E s \in Sids : ProducerActs(s)

Spec == Init /\ [][Next]_vars

-----------------------------------------------------------------------------
Numbers(n) == [i \in 1..n |-> i]

\* Shape of the state: the windows are in the range of int32, and an open stream
\* is in the ready-queue exactly when it is flagged, once and on its level.
TypeOK ==
    /\ \A s \in Sids : win[s] \in -(MaxWin + 1)..MaxWin
    /\ connWin \in Int /\ connWin <= MaxWin /\ initWin \in InitWins
    /\ \A s \in Sids : Open(s) => \A u \in 0..1 :
        /\ (\E i \in 1..Len(sendQ[u]) : sendQ[u][i] = s) <=> inSendQ[s] /\ u = Urgency[s]
        /\ \A i, j \in 1..Len(sendQ[u]) : sendQ[u][i] = s /\ sendQ[u][j] = s => i = j

\* The bytes of a response leave in the order they were written, none twice and
\* none skipped, whether a write goes out directly or through the backlog; and
\* END_STREAM follows the last of them.
BodyInOrder ==
    \A s \in Sids :
        /\ phase[s] /= "gone" => wire[s] \o pending[s] = Numbers(written[s])
        /\ wire[s] = Numbers(Len(wire[s])) /\ Len(wire[s]) <= written[s]
        /\ ended[s] => Len(wire[s]) = written[s]

\* No DATA goes out past the stream's or the connection's window, the ones the
\* peer shrank with SETTINGS included, nor after END_STREAM.  Whichever of a
\* direct write, a pass or a refill adds it, the write buffer then holds less
\* than respHighWater and a frame: a client that stops reading cannot make it
\* grow by granting windows.
FlowControlled ==
    [][\A s \in Sids : Len(wire'[s]) > Len(wire[s]) =>
        /\ Len(wire'[s]) - Len(wire[s]) <= win[s]
        /\ Len(wire'[s]) - Len(wire[s]) <= connWin
        /\ ~ended[s]
        /\ out' < HighWater + MaxFrame]_vars

\* When the loop waits, a backlog that could be sent is either behind bytes that
\* are still in the write buffer or behind a window the peer has to open.
NoIdleBacklog ==
    stk = <<>> => \A s \in Sids :
        (Open(s) /\ (pending[s] /= <<>> \/ phase[s] = "finished")) =>
            out > 0 \/ win[s] <= 0 \/ connWin <= 0

\* A producer that waits for its drain callback is known to whoever will call
\* it: the callback is set and the stream marked ("an onDrain nothing will fire"),
\* or its call is under way; and when the loop waits with nothing of the stream
\* queued, a kick is owed or the write buffer's next flush is.
NoParkedForgotten ==
    \A s \in Sids : parked[s] =>
        /\ \/ cb[s] /\ backedUp[s] /\ Open(s)
           \/ \E i \in DOMAIN stk : stk[i] = <<"call", s>>
        /\ stk = <<>> => s \in kicks \/ out > 0 \/ pending[s] /= <<>>
=============================================================================
