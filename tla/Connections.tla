---------------------------- MODULE Connections ----------------------------
(***************************************************************************)
(* The HTTP/1 connections of one event loop (eventloop.nim, connection.nim *)
(* and the response paths of request.nim): slots recycled by fd and        *)
(* generation, pipelined requests named by a per-slot serial, pins held by *)
(* worker tasks, deferred closes, the half-close that ends a connection,   *)
(* and the graceful drain.                                                 *)
(*                                                                         *)
(* The loop thread runs one handler at a time.  A handler that goes on to  *)
(* another procedure (read, then process, then flush) leaves the rest of   *)
(* its work in agenda; until agenda is empty the loop starts nothing else, *)
(* while workers and other threads keep pushing to the outbox.             *)
(*                                                                         *)
(* HTTP bytes are abstracted to whole requests and whole responses, each   *)
(* response being the serial of the request it answers.                    *)
(***************************************************************************)
EXTENDS Naturals, Sequences, FiniteSets

CONSTANTS
    Fds,            \* file descriptors, the indices of the connection table
    MaxGen,         \* bound: generations (connections) per slot
    MaxReq,         \* bound: requests a slot receives over its life
    MaxTask,        \* bound: worker tasks accepted by the pool
    MaxOff,         \* bound: pushes by threads that hold no pin
    AnswerAndWork,  \* may a handler answer inline and leave a task running
    PeerHalfCloses, \* may the peer close its write side
    MayDrain        \* may a stop be requested

ASSUME ConnAssumption ==
    /\ MaxGen \in Nat /\ MaxReq \in Nat /\ MaxTask \in Nat /\ MaxOff \in Nat
    /\ AnswerAndWork \in BOOLEAN
    /\ PeerHalfCloses \in BOOLEAN
    /\ MayDrain \in BOOLEAN

\* PinKind, the two kinds an HTTP/1 request body takes: a sync blocking: body,
\* whose first response releases the pin, and an awaitable req.blocking, whose
\* completion message does.
Kind == {"blocking", "await"}
NoPin == "none"

VARIABLES
    conn,     \* the connection table
    tasks,    \* worker tasks accepted and not finished
    outbox,   \* messages pushed and not applied
    handles,  \* every Request/Response handle ever given to a handler
    taskIds,  \* number of tasks accepted so far
    offIds,   \* number of pin-less pushes so far
    agenda,   \* what the loop thread still has to do for the current handler
    draining, \* Loop.draining
    marking,  \* slots beginDrain has yet to mark
    graceOver,\* the grace deadline has passed
    exited    \* run() has returned

vars == <<conn, tasks, outbox, handles, taskIds, offIds, agenda, draining,
          marking, graceOver, exited>>
drainVars == <<draining, marking, graceOver, exited>>
workVars  == <<tasks, outbox, handles, taskIds, offIds>>

FreeSlot == [
    state |-> "free", gen |-> 0, serial |-> 0, received |-> 0,
    pins |-> [k \in Kind |-> 0],
    unread |-> 0,              \* complete requests in rbuf behind the current
    parsed |-> FALSE,          \* ppComplete: the parser has the whole request
    malformed |-> FALSE,       \* ppError: the parser has refused the input
    keepAlive |-> FALSE,       \* parser.keepAlive of the current request
    awaiting |-> FALSE,        \* awaitingResponse
    responded |-> FALSE,       \* rs.responded
    closeAfterFlush |-> FALSE, closeRequested |-> FALSE, eof |-> FALSE,
    registered |-> FALSE, writeArmed |-> FALSE, deadline |-> "none",
    out |-> <<>>,              \* wbuf: responses not yet handed to the kernel
    wire |-> <<>>,             \* history: responses handed to the kernel
    seen |-> <<>>,             \* history: requests taken up by processInput
    dead |-> FALSE,            \* the socket failed: every later send does too
    shut |-> 0]                \* history: half-closes of this connection

Init ==
    /\ conn = [fd \in Fds |-> FreeSlot]
    /\ tasks = {}
    /\ outbox = <<>>
    /\ handles = {}
    /\ taskIds = 0
    /\ offIds = 0
    /\ agenda = <<>>
    /\ draining = FALSE
    /\ marking = {}
    /\ graceOver = FALSE
    /\ exited = FALSE

-----------------------------------------------------------------------------
(* What the procedures do to one connection, as functions of its record.   *)

TotalPins(c) == c.pins["blocking"] + c.pins["await"]

\* acquirePin.
Pin(c, k) == [c EXCEPT !.pins[k] = @ + 1]

\* Mutant: the release is charged to the blocking kind whatever its own.
UnpinBlocking(c, k) == [c EXCEPT !.pins["blocking"] = @ - 1]

\* releasePin's counter.
Unpin(c, k) == [c EXCEPT !.pins[k] = @ - 1]

\* A slot given back: the generation moves on and the buffers go.  The other
\* fields of a free slot are read by nobody; clear() resets them at the next
\* accept.
Freed(c) == [FreeSlot EXCEPT !.gen = c.gen + 1, !.serial = c.serial]

\* Mutant: the slot is freed although a worker still pins it.
CloseConnPinned(c) == Freed(c)

\* closeConn: a pinned slot is only marked and taken out of the selector.
CloseConn(c) ==
    IF TotalPins(c) > 0
    THEN [c EXCEPT !.registered = FALSE, !.deadline = "none",
                   !.closeRequested = TRUE, !.state = "closing"]
    ELSE Freed(c)

\* beginLingerClose: shutdown(SHUT_WR), then wait for the peer's FIN.
BeginLingerClose(c) ==
    [c EXCEPT !.state = "draining", !.registered = TRUE, !.writeArmed = FALSE,
              !.deadline = "drain", !.shut = @ + 1]

\* disarmWrite, then the linger close if one is due.
Flushed(c) ==
    LET d == [c EXCEPT !.wire = @ \o c.out, !.out = <<>>, !.writeArmed = FALSE]
    IN  IF c.closeAfterFlush THEN BeginLingerClose(d) ELSE d

\* A send, or a recv, failed for good.
SocketDied(c) == CloseConn([c EXCEPT !.dead = TRUE])

\* flushOut, every outcome: nothing to send; all of it sent; EAGAIN after some
\* of it, with write interest armed; a dead socket.  After SHUT_WR a send can
\* only fail.
FlushOut(c) ==
    IF c.out = <<>> THEN {Flushed(c)}
    ELSE IF c.dead \/ c.shut > 0 THEN {SocketDied(c)}
    ELSE {Flushed(c), SocketDied(c)} \union
         {[c EXCEPT !.wire = @ \o SubSeq(c.out, 1, n),
                    !.out = SubSeq(@, n + 1, Len(@)),
                    !.writeArmed = TRUE, !.registered = TRUE]
            : n \in 0..(Len(c.out) - 1)}

\* applyResponse: the first answer wins; a response without keep-alive closes.
ApplyResponse(c, serial) ==
    IF c.responded THEN c
    ELSE [c EXCEPT !.responded = TRUE, !.out = Append(@, serial),
                   !.closeAfterFlush = @ \/ ~c.keepAlive]

\* respondError answers the current request on the loop's own account (a
\* malformed request, a handler that raised, a response timeout) and closes.
RespondError(c) ==
    [c EXCEPT !.out = Append(@, c.serial), !.responded = TRUE,
              !.closeAfterFlush = TRUE, !.state = "closing"]

\* resetForNextRequest: consumed bytes are dropped and the serial moves on.
ResetForNextRequest(c) ==
    [c EXCEPT !.parsed = FALSE, !.awaiting = FALSE, !.responded = FALSE,
              !.serial = @ + 1]

\* Mutant: a kept handle resolves whatever request the slot is now serving.
LiveReqAnySerial(c, h) == c.state /= "free" /\ c.gen = h.gen

\* conn() then liveConn(): the slot still holds this connection, and this very
\* request.
Live(c, h)    == c.state /= "free" /\ c.gen = h.gen
LiveReq(c, h) == c.state /= "free" /\ c.gen = h.gen /\ c.serial = h.serial

\* c.rlen > 0: bytes of the current request, or of later ones, are buffered.
Buffered(c) == c.parsed \/ c.malformed \/ c.unread > 0

-----------------------------------------------------------------------------
(* The loop thread's agenda.                                               *)

Step(op, fd)    == [op |-> op, fd |-> fd]
Quiescent       == agenda = <<>> /\ marking = {} /\ ~exited
Becomes(fd, c)  == conn' = [conn EXCEPT ![fd] = c]
Doing(op)       == agenda /= <<>> /\ Head(agenda).op = op

\* resumeAfterRespond for HTTP/1: close after the flush, or flush and go on
\* with the pipelined requests.  `rest` is what the caller still has to do.
ResumeAfterRespond(fd, c, rest) ==
    IF c.closeAfterFlush
    THEN /\ \E d \in FlushOut([c EXCEPT !.state = "closing"]) : Becomes(fd, d)
         /\ agenda' = rest
    ELSE \E d \in FlushOut(ResetForNextRequest(c)) :
            /\ Becomes(fd, d)
            /\ agenda' = (IF d.state = "free" THEN <<>>
                          ELSE <<Step("process", fd), Step("idle", fd)>>) \o rest

-----------------------------------------------------------------------------
(* Accepting, reading and dispatching.                                     *)

\* handleAccept: clear() recycles the slot; a failed registration (or TLS
\* setup) gives it back at once.
Accept(fd) ==
    /\ Quiescent /\ ~draining
    /\ conn[fd].state = "free" /\ conn[fd].gen < MaxGen
    /\ LET c == [FreeSlot EXCEPT !.gen = conn[fd].gen,
                                 !.serial = conn[fd].serial + 1,
                                 !.state = "active", !.registered = TRUE,
                                 !.deadline = "idle"]
       IN  \/ Becomes(fd, c)
           \/ Becomes(fd, Freed(c))
    /\ UNCHANGED <<workVars, agenda, drainVars>>

\* handleRead: n whole requests and, perhaps, the peer's FIN arrive; then the
\* input is processed, the output flushed, and the half-close acted on.
HandleRead(fd, rest) ==
    \/ \E n \in 0..(MaxReq - conn[fd].received), fin \in BOOLEAN :
         /\ conn[fd].eof => n = 0 /\ fin
         /\ fin => PeerHalfCloses
         /\ Becomes(fd, [conn[fd] EXCEPT !.received = @ + n,
                                         !.unread = @ + n, !.eof = fin])
         /\ agenda' = <<Step("process", fd), Step("flush", fd),
                        Step("halfclose", fd)>> \o rest
    \/ Becomes(fd, SocketDied(conn[fd])) /\ agenda' = rest

\* A read event on a connection that is not half-closed.
Readable(fd) ==
    /\ Quiescent
    /\ conn[fd].state \in {"active", "closing"} /\ conn[fd].registered
    /\ HandleRead(fd, <<>>)
    /\ UNCHANGED <<workVars, drainVars>>

\* The read half of an event that was also a write event: the flush may have
\* half-closed the connection, and only a freed slot is skipped.
ReadAfterWrite ==
    /\ Doing("read")
    /\ HandleRead(Head(agenda).fd, Tail(agenda))
    /\ UNCHANGED <<workVars, drainVars>>

\* processInput finds nothing it may dispatch.
ProcessPaused ==
    /\ Doing("process")
    /\ LET c == conn[Head(agenda).fd]
       IN  c.state \in {"free", "closing"} \/ c.awaiting \/ ~Buffered(c)
    /\ agenda' = Tail(agenda)
    /\ UNCHANGED <<conn, workVars, drainVars>>

\* processInput on input the parser refuses.  No handler sees it; ppError is
\* final, so a later look at the same input refuses it again.
ProcessMalformed ==
    /\ Doing("process")
    /\ LET fd == Head(agenda).fd
           c  == conn[fd]
       IN  /\ c.state \in {"active", "draining"} /\ ~c.awaiting
           /\ c.malformed \/ (~c.parsed /\ c.unread > 0)
           /\ Becomes(fd, RespondError([c EXCEPT !.malformed = TRUE,
                             !.unread = IF c.malformed THEN @ ELSE @ - 1,
                             !.seen = Append(@, c.serial)]))
    /\ agenda' = Tail(agenda)
    /\ UNCHANGED <<workVars, drainVars>>

\* What the handler of one request did by the time it returned: it answered,
\* or not, or raised.  A pool that refuses a task is one of these too: a refused
\* blocking body is answered 503, a refused awaitable fails the handler's future.
AfterHandler(c, outcome) ==
    CASE outcome = "answer" -> ApplyResponse(c, c.serial)
      [] outcome = "raise" /\ ~c.responded -> RespondError(c)
      [] OTHER -> c

\* The end of processInput's turn for one request: pause, close, or reset and
\* go round again.
TakeUp(fd, c) ==
    LET d == ResetForNextRequest(c)
    IN  IF ~c.responded
        THEN /\ Becomes(fd, [c EXCEPT !.awaiting = TRUE,
                    !.deadline = IF TotalPins(c) = 0 THEN "response" ELSE @])
             /\ agenda' = Tail(agenda)
        ELSE IF c.closeAfterFlush
        THEN Becomes(fd, [c EXCEPT !.state = "closing"]) /\ agenda' = Tail(agenda)
        ELSE IF ~Buffered(d)
        THEN Becomes(fd, [d EXCEPT !.deadline = "idle"]) /\ agenda' = Tail(agenda)
        ELSE Becomes(fd, d) /\ UNCHANGED agenda

\* A task of kind k is accepted by the pool for request h.
AddTask(h, k) ==
    /\ taskIds < MaxTask
    /\ taskIds' = taskIds + 1
    /\ tasks' = tasks \union {[id |-> taskIds, fd |-> h.fd, gen |-> h.gen,
                               serial |-> h.serial, kind |-> k,
                               answered |-> FALSE]}

\* The parser completes a request, and the handler is about to see it.
TookUp(c, keep) ==
    [c EXCEPT !.parsed = TRUE, !.deadline = "none",
              !.unread = IF c.parsed THEN @ ELSE @ - 1,
              !.keepAlive = IF c.parsed THEN @ ELSE keep,
              !.seen = Append(@, c.serial)]

\* processInput takes up one complete request and runs its handler.
ProcessRequest ==
    /\ Doing("process")
    /\ LET fd == Head(agenda).fd
           c  == conn[fd]
           h  == [fd |-> fd, gen |-> c.gen, serial |-> c.serial]
       IN  /\ c.state \in {"active", "draining"} /\ ~c.awaiting
           /\ Buffered(c) /\ ~c.malformed
           /\ \E keep \in BOOLEAN, outcome \in {"answer", "defer", "raise"},
                 k \in Kind \union {NoPin} :
                LET r == TookUp(c, keep)
                IN  /\ c.parsed => keep
                    /\ handles' = handles \union {h}
                    /\ IF k = NoPin
                       THEN UNCHANGED <<tasks, taskIds>>
                            /\ TakeUp(fd, AfterHandler(r, outcome))
                       ELSE /\ AnswerAndWork \/ outcome = "defer"
                            /\ AddTask(h, k)
                            /\ TakeUp(fd, AfterHandler(Pin(r, k), outcome))
    /\ UNCHANGED <<outbox, offIds, drainVars>>

\* The flush after a read: pending output, or a close waiting for it.
FlushAfterRead ==
    /\ Doing("flush")
    /\ LET fd == Head(agenda).fd
           c  == conn[fd]
       IN  IF c.state /= "free" /\ (c.out /= <<>> \/ c.closeAfterFlush)
           THEN \E d \in FlushOut(c) : Becomes(fd, d)
           ELSE UNCHANGED conn
    /\ agenda' = Tail(agenda)
    /\ UNCHANGED <<workVars, drainVars>>

\* handleRead's tail: the peer sends no more requests.
HalfClose ==
    /\ Doing("halfclose")
    /\ LET fd == Head(agenda).fd
           c  == conn[fd]
       IN  IF ~(c.eof /\ c.state = "active") THEN UNCHANGED conn
           ELSE IF c.awaiting /\ c.out = <<>>
           THEN Becomes(fd, [c EXCEPT !.closeAfterFlush = TRUE,
                               !.registered = FALSE, !.writeArmed = FALSE])
           ELSE IF c.awaiting \/ c.out /= <<>>
           THEN Becomes(fd, [c EXCEPT !.closeAfterFlush = TRUE])
           ELSE Becomes(fd, BeginLingerClose(c))
    /\ agenda' = Tail(agenda)
    /\ UNCHANGED <<workVars, drainVars>>

\* Mutant: a response made by the resumed input stays in the buffer (#240).
FlushPendingSkipped ==
    /\ Doing("pending") \/ Doing("idle")
    /\ agenda' = Tail(agenda)
    /\ UNCHANGED <<conn, workVars, drainVars>>

\* The flush after resumed input (applyBlockingDone, resumeAfterRespond), and,
\* for the latter, the idle deadline of a connection with nothing to do.
FlushPending ==
    /\ Doing("pending") \/ Doing("idle")
    /\ LET fd == Head(agenda).fd
           c  == conn[fd]
           Idled(d) == IF /\ Doing("idle") /\ d.state = "active"
                          /\ ~Buffered(d) /\ ~d.awaiting
                       THEN [d EXCEPT !.deadline = "idle"] ELSE d
       IN  IF c.state = "free" THEN UNCHANGED conn
           ELSE \E d \in (IF c.out /= <<>> THEN FlushOut(c) ELSE {c}) :
                    Becomes(fd, Idled(d))
    /\ agenda' = Tail(agenda)
    /\ UNCHANGED <<workVars, drainVars>>

\* A write event on a connection that is still open for output; the same event
\* may report input as well.
Writable(fd) ==
    /\ Quiescent
    /\ conn[fd].state \in {"active", "closing"}
    /\ conn[fd].registered /\ conn[fd].writeArmed
    /\ \E d \in FlushOut(conn[fd]), read \in BOOLEAN :
         /\ Becomes(fd, d)
         /\ agenda' = IF read /\ d.state /= "free" THEN <<Step("read", fd)>>
                      ELSE <<>>
    /\ UNCHANGED <<workVars, drainVars>>

\* handleDrain: peer bytes are discarded until its FIN, or an error, closes.
HandleDrain(fd) ==
    /\ Quiescent
    /\ conn[fd].state = "draining" /\ conn[fd].registered
    /\ Becomes(fd, CloseConn(conn[fd]))
    /\ UNCHANGED <<workVars, agenda, drainVars>>

\* sweepTimeouts: a stalled write, a late response, or any other deadline.
SweepTimeouts(fd) ==
    LET c == conn[fd]
    IN  /\ Quiescent
        /\ c.state /= "free"
        /\ \/ /\ c.writeArmed /\ c.registered
              /\ Becomes(fd, CloseConn(c))
           \/ /\ c.deadline = "response" /\ ~c.responded /\ TotalPins(c) = 0
              /\ \E d \in FlushOut(RespondError(c)) : Becomes(fd, d)
           \/ /\ c.deadline /= "none"
              /\ ~(c.deadline = "response" /\ ~c.responded /\ TotalPins(c) = 0)
              /\ Becomes(fd, CloseConn(c))
        /\ UNCHANGED <<workVars, agenda, drainVars>>

-----------------------------------------------------------------------------
(* Responses and tasks made outside the dispatch call.                     *)

\* Without AnswerAndWork the application leaves a request to the one task or
\* message that is to answer it, and starts nothing for an answered one.
SameRequest(a, b) == <<a.fd, a.gen, a.serial>> = <<b.fd, b.gen, b.serial>>
MayUse(h) ==
    \/ AnswerAndWork
    \/ /\ LiveReq(conn[h.fd], h) => ~conn[h.fd].responded
       /\ \A t \in tasks : ~SameRequest(t, h)
       /\ \A i \in 1..Len(outbox) : ~SameRequest(outbox[i], h)

\* A send on the loop thread through a kept handle (applyOnLoop), and the kick
\* that resumes the connection unless it is closing already.
LoopSend(h) ==
    LET c == conn[h.fd]
        d == ApplyResponse(c, h.serial)
    IN  /\ Quiescent /\ LiveReq(c, h) /\ ~c.responded /\ MayUse(h)
        /\ IF c.awaiting /\ ~c.closeRequested /\ c.state /= "draining"
           THEN ResumeAfterRespond(h.fd, d, <<>>)
           ELSE Becomes(h.fd, d) /\ UNCHANGED agenda
        /\ UNCHANGED <<workVars, drainVars>>

\* dispatchBlocking* from an async continuation: acquireDispatchPin refuses a
\* request that is over and a connection that is being torn down.
Dispatch(h, k) ==
    /\ Quiescent /\ LiveReq(conn[h.fd], h) /\ MayUse(h)
    /\ ~conn[h.fd].closeRequested
    /\ AddTask(h, k)
    /\ Becomes(h.fd, Pin(conn[h.fd], k))
    /\ UNCHANGED <<outbox, handles, offIds, agenda, drainVars>>

Message(h, what, release) ==
    [fd |-> h.fd, gen |-> h.gen, serial |-> h.serial, what |-> what,
     release |-> release]

\* sendRaw on a thread the application owns: the handle may be long stale.
OffLoopSend(h) ==
    /\ ~exited /\ offIds < MaxOff /\ MayUse(h)
    /\ offIds' = offIds + 1
    /\ outbox' = Append(outbox, Message(h, "http", NoPin))
    /\ UNCHANGED <<conn, tasks, handles, taskIds, agenda, drainVars>>

\* An awaitable body answers its own handle, once (the worker latch).
WorkerAnswers(t) ==
    /\ t.kind = "await" /\ ~t.answered
    /\ tasks' = (tasks \ {t}) \union {[t EXCEPT !.answered = TRUE]}
    /\ outbox' = Append(outbox, Message(t, "http", NoPin))
    /\ UNCHANGED <<conn, handles, taskIds, offIds, agenda, drainVars>>

\* Mutant: a body that answers and then raises pushes a second releasing 500.
WorkerFinishesTwice(t) ==
    LET m == IF t.kind = "await" THEN Message(t, "done", "await")
             ELSE Message(t, "http", "blocking")
    IN  /\ tasks' = tasks \ {t}
        /\ outbox' = outbox \o <<m, m>>
        /\ UNCHANGED <<conn, handles, taskIds, offIds, agenda, drainVars>>

\* The message that releases the task's pin: a blocking: body's one response
\* (the fallback 500 included), or an awaitable body's completion.
WorkerFinishes(t) ==
    LET m == IF t.kind = "await" THEN Message(t, "done", "await")
             ELSE Message(t, "http", "blocking")
    IN  /\ tasks' = tasks \ {t}
        /\ outbox' = Append(outbox, m)
        /\ UNCHANGED <<conn, handles, taskIds, offIds, agenda, drainVars>>

\* staleConn: a message of an earlier occupant touches no pin.
Releases(c, m) == m.release /= NoPin /\ Live(c, m)

\* releasePin's input resume.
ResumesInput(c) == TotalPins(c) = 0 /\ Buffered(c)

\* Mutant: a released pin does not run the close deferred behind it.
OwesCloseNever(c) == FALSE

\* releasePin, applyOutboxConn: the close deferred while the task ran is due.
OwesClose(c) == c.closeRequested

\* processOutbox, one message.  A released pin may run a deferred close, or
\* resume buffered input before the response itself is applied.
ApplyMessage ==
    /\ Quiescent /\ outbox /= <<>>
    /\ outbox' = Tail(outbox)
    /\ LET m == Head(outbox)
           c == IF Releases(conn[m.fd], m) THEN Unpin(conn[m.fd], m.release)
                ELSE conn[m.fd]
           tail == IF m.what = "done" THEN Step("pending", m.fd)
                   ELSE [op |-> "apply", fd |-> m.fd, serial |-> m.serial,
                         stale |-> c.serial /= m.serial]
       IN  IF ~Live(c, m) THEN Becomes(m.fd, c) /\ UNCHANGED agenda
           ELSE IF OwesClose(c)
           THEN Becomes(m.fd, CloseConn(c)) /\ UNCHANGED agenda
           ELSE /\ Becomes(m.fd, c)
                /\ agenda' = IF m.release /= NoPin /\ ResumesInput(c)
                             THEN <<Step("process", m.fd), tail>>
                             ELSE <<tail>>
    /\ UNCHANGED <<tasks, handles, taskIds, offIds, drainVars>>

\* The rest of applyOutboxConn for a response: a message whose request was
\* already over before the release is dropped.
ApplyHttp ==
    /\ Doing("apply")
    /\ LET a == Head(agenda)
           c == conn[a.fd]
       IN  IF c.state = "free" \/ a.stale
           THEN UNCHANGED conn /\ agenda' = Tail(agenda)
           ELSE ResumeAfterRespond(a.fd, ApplyResponse(c, a.serial), Tail(agenda))
    /\ UNCHANGED <<workVars, drainVars>>

-----------------------------------------------------------------------------
(* The graceful drain.                                                     *)

\* The loop top sees the stop flag: the listener closes, every slot is marked.
BeginDrain ==
    /\ Quiescent /\ MayDrain /\ ~draining
    /\ draining' = TRUE
    /\ marking' = Fds
    /\ UNCHANGED <<conn, workVars, agenda, graceOver, exited>>

\* markDrain: a pinned connection is left to its worker.
MarkDrain(fd) ==
    LET c == conn[fd]
    IN  /\ fd \in marking
        /\ marking' = marking \ {fd}
        /\ IF c.state /= "active" \/ TotalPins(c) > 0 THEN UNCHANGED conn
           ELSE IF c.awaiting \/ c.out /= <<>>
           THEN \E d \in FlushOut([c EXCEPT !.keepAlive = FALSE,
                                            !.closeAfterFlush = TRUE]) :
                    Becomes(fd, d)
           ELSE Becomes(fd, CloseConn(c))
        /\ UNCHANGED <<workVars, agenda, draining, graceOver, exited>>

GraceExpires ==
    /\ draining /\ ~graceOver /\ ~exited
    /\ graceOver' = TRUE
    /\ UNCHANGED <<conn, workVars, agenda, draining, marking, exited>>

\* drainSweep closes what has become idle.
DrainSwept(c) ==
    IF /\ c.state = "active" /\ TotalPins(c) = 0
       /\ ~c.awaiting /\ c.out = <<>>
    THEN CloseConn(c) ELSE c

\* Mutant: the end of the grace closes nothing.
ForceNothing(c) == c

\* forceCloseAll, once the grace is over.
ForceClosed(c) == IF c.state = "free" THEN c ELSE CloseConn(c)

\* drainDone: connCount is 0.
DrainDone(slots) == \A fd \in Fds : slots[fd].state = "free"

\* The tail of a loop iteration while draining: sweep, force the rest closed
\* when the grace is over, and leave once no connection is left.
IterationEnd ==
    /\ Quiescent /\ draining
    /\ conn' = [fd \in Fds |-> IF graceOver THEN ForceClosed(DrainSwept(conn[fd]))
                               ELSE DrainSwept(conn[fd])]
    /\ exited' = DrainDone(conn')
    /\ UNCHANGED <<workVars, agenda, draining, marking, graceOver>>

-----------------------------------------------------------------------------

LoopStep ==
    \/ ReadAfterWrite \/ ProcessPaused \/ ProcessMalformed
    \/ ProcessRequest \/ FlushAfterRead \/ HalfClose \/ FlushPending \/ ApplyHttp
    \/ \E fd \in Fds : MarkDrain(fd)

Next ==
    \/ LoopStep
    \/ \E fd \in Fds : \/ Accept(fd) \/ Readable(fd) \/ Writable(fd)
                       \/ HandleDrain(fd) \/ SweepTimeouts(fd)
    \/ \E h \in handles : \/ LoopSend(h) \/ OffLoopSend(h)
                          \/ \E k \in Kind : Dispatch(h, k)
    \/ \E t \in tasks : WorkerAnswers(t) \/ WorkerFinishes(t)
    \/ ApplyMessage
    \/ BeginDrain \/ GraceExpires \/ IterationEnd

SafetySpec == Init /\ [][Next]_vars

\* The loop thread finishes what it started.  Every iteration serves each ready
\* descriptor once, then ticks and reaches its tail, so however many events keep
\* arriving in between, the outbox, the drain deadline (a constant of the loop)
\* and the drain's tail get their turn: strong fairness.  The bodies that
\* workers run return, and the grace period ends.
Fairness ==
    /\ WF_vars(LoopStep)
    /\ SF_vars(ApplyMessage)
    /\ SF_vars(IterationEnd)
    /\ WF_vars(GraceExpires)
    /\ WF_vars(\E t \in tasks : WorkerFinishes(t))
    /\ \A fd \in Fds : SF_vars(conn[fd].deadline = "drain" /\ SweepTimeouts(fd))

Spec == SafetySpec /\ Fairness

-----------------------------------------------------------------------------
(* Properties.                                                             *)

\* A request handle, and the records made from one.
Handle == [fd : Fds, gen : Nat, serial : Nat]
Task == [id : Nat, fd : Fds, gen : Nat, serial : Nat, kind : Kind, answered : BOOLEAN]
Msg == [fd : Fds, gen : Nat, serial : Nat, what : {"http", "done"},
        release : Kind \union {NoPin}]

\* A well-formed slot: no pin counter below zero, and no more input buffered
\* than was received.
IsSlot(c) ==
    /\ DOMAIN c = DOMAIN FreeSlot
    /\ c.state \in {"free", "active", "closing", "draining"}
    /\ c.gen \in Nat /\ c.serial \in Nat /\ c.shut \in Nat
    /\ c.pins \in [Kind -> Nat]
    /\ c.received \in 0..MaxReq /\ c.unread \in 0..c.received
    /\ c.parsed \in BOOLEAN /\ c.malformed \in BOOLEAN /\ c.keepAlive \in BOOLEAN
    /\ c.awaiting \in BOOLEAN /\ c.responded \in BOOLEAN
    /\ c.closeAfterFlush \in BOOLEAN /\ c.closeRequested \in BOOLEAN
    /\ c.eof \in BOOLEAN /\ c.registered \in BOOLEAN /\ c.writeArmed \in BOOLEAN
    /\ c.dead \in BOOLEAN /\ c.deadline \in {"none", "idle", "response", "drain"}
    /\ c.out \in Seq(Nat) /\ c.wire \in Seq(Nat) /\ c.seen \in Seq(Nat)

\* Every slot, task, message and handle is well formed; a message releases a
\* kind of pin that exists.
TypeOK ==
    /\ DOMAIN conn = Fds /\ \A fd \in Fds : IsSlot(conn[fd])
    /\ tasks \subseteq Task /\ outbox \in Seq(Msg) /\ handles \subseteq Handle
    /\ taskIds \in 0..MaxTask /\ offIds \in 0..MaxOff
    /\ marking \subseteq Fds
    /\ {draining, graceOver, exited} \subseteq BOOLEAN

\* Tasks and releasing messages that still hold a pin of kind k on fd's slot.
Holders(fd, k) ==
    Cardinality({t \in tasks : t.fd = fd /\ t.kind = k})
    + Cardinality({i \in 1..Len(outbox) :
                        outbox[i].fd = fd /\ outbox[i].release = k})

\* The pin counters of a slot are exactly the worker tasks that have not been
\* released yet, kind by kind: no release is lost (a slot pinned for ever) and
\* none is counted twice (a slot freed under a running worker).
PinsBalanced ==
    \A fd \in Fds, k \in Kind : conn[fd].pins[k] = Holders(fd, k)

\* While a task runs, or its release is in the outbox, the slot keeps the
\* connection the task was dispatched for: the fd number is not reused and the
\* generation does not move (closeConn's deferral), and the loop has not left
\* its drain (drainDone).
PinnedSlotHeld ==
    /\ \A t \in tasks : Live(conn[t.fd], t)
    /\ \A i \in 1..Len(outbox) :
        outbox[i].release /= NoPin => Live(conn[outbox[i].fd], outbox[i])
    /\ exited => /\ tasks = {}
                 /\ \A i \in 1..Len(outbox) : outbox[i].release = NoPin

\* What a client reads is, in order, one response per request it sent, each
\* the response of that request: no late send lands in the next request of a
\* keep-alive connection (#407) and no pipelined response overtakes another.
ResponsesMatchRequests ==
    \A fd \in Fds :
        LET sent == conn[fd].wire \o conn[fd].out
        IN  /\ Len(sent) <= Len(conn[fd].seen)
            /\ \A i \in 1..Len(sent) : sent[i] = conn[fd].seen[i]

\* Once the loop is between events no request is both answered and waiting to
\* be answered: whoever made the response resumed the connection (#412).
NoStrandedResponse ==
    Quiescent => \A fd \in Fds :
        ~(conn[fd].state = "active" /\ conn[fd].awaiting /\ conn[fd].responded)

\* Between events, output a connection may still write (its write side is open
\* and no close is pending) has write interest armed: nothing waits in the
\* buffer for an unrelated event (#240, #403).
NoStrandedOutput ==
    Quiescent => \A fd \in Fds :
        (/\ conn[fd].out /= <<>>
         /\ conn[fd].state \in {"active", "closing"}
         /\ ~conn[fd].closeRequested /\ conn[fd].shut = 0)
            => conn[fd].registered /\ conn[fd].writeArmed

\* Between events, a buffered request waits only for the response ahead of it:
\* a connection with no response outstanding has no request in its buffer, for
\* no event would make the loop look there again (#167).
NoStrandedInput ==
    Quiescent => \A fd \in Fds :
        conn[fd].state = "active" /\ ~conn[fd].awaiting => ~Buffered(conn[fd])

\* A deferred close is owed by somebody: the slot is pinned, and is out of the
\* selector so that nothing but the release of its pins touches it (#403).
DeferredCloseOwed ==
    Quiescent => \A fd \in Fds :
        conn[fd].closeRequested => TotalPins(conn[fd]) > 0 /\ ~conn[fd].registered

\* When the loop goes back to its selector nothing is stranded that no event
\* will bring up: no response, output, input or close.
NothingStranded ==
    NoStrandedResponse /\ NoStrandedOutput /\ NoStrandedInput /\ DeferredCloseOwed

\* A close deferred behind a worker does happen once the worker is done.
DeferredCloseHappens ==
    \A fd \in Fds : conn[fd].closeRequested ~> ~conn[fd].closeRequested

\* A loop asked to drain leaves, however the clients behave.
DrainEnds == draining ~> exited

\* A half-closed connection is never processed as HTTP: no handler is run for
\* it after SHUT_WR.
NoDispatchAfterHalfClose ==
    [][\A fd \in Fds : conn[fd].state = "draining" /\ ~conn[fd].malformed =>
          Len(conn'[fd].seen) <= Len(conn[fd].seen)]_vars

\* A connection is half-closed only after the response in flight was made.
HalfCloseAfterResponse ==
    \A fd \in Fds : conn[fd].state = "draining" =>
        ~(conn[fd].awaiting /\ ~conn[fd].responded)
=============================================================================
