------------------------------- MODULE Outbox -------------------------------
(***************************************************************************)
(* The outbox of one event loop (connection.nim) and the part of the loop  *)
(* that drains it (eventloop.nim, run and processOutbox).                  *)
(*                                                                         *)
(* Any thread pushes: it appends under the outbox lock, and only the push  *)
(* that found the queue empty writes the wakeup descriptor, after it has   *)
(* released the lock.  The loop sleeps in its selector; woken, it first    *)
(* empties the descriptor (drainWake), then takes the whole queue in one   *)
(* swap (drain) and applies the messages one by one.  A stop request       *)
(* (server.nim, fire) shares the descriptor: it stores the stop flag, then *)
(* writes the wakeup.                                                      *)
(*                                                                         *)
(* The descriptor is an eventfd or a pipe; all that matters of it is       *)
(* whether it reads ready.  A push made by the loop thread itself (an      *)
(* inline task of a server without a pool) is a push whose two steps no    *)
(* loop step separates, so it is one of the behaviours below.              *)
(***************************************************************************)
EXTENDS Naturals, Sequences

CONSTANTS Producers,  \* threads that push: workers and application threads
          MaxPush     \* bound: pushes per producer

ASSUME OutboxAssumption == MaxPush \in Nat

VARIABLES
    msgs,           \* Outbox.msgs, guarded by Outbox.lock
    wake,           \* does the wakeup descriptor read ready
    sent,           \* per producer: how many messages it has pushed
    owesWake,       \* producers between unlocking and writing the wakeup
    stopStored,     \* the server's stop flag
    stopper,        \* the stop request: "idle", "stored" (flag set), "done"
    loopAt,         \* where the loop thread is in its iteration
    draining,       \* Loop.draining: the loop has seen the stop flag
    outboxScratch,  \* the batch the loop swapped out and has yet to apply
    pushed,         \* history: every message pushed, in lock order
    applied,        \* history: every message applied, in order
    raised          \* history: has applying a message raised

outboxVars == <<msgs, wake, sent, owesWake, stopStored, stopper, loopAt, draining,
                outboxScratch, pushed, applied, raised>>

producerVars == <<sent, owesWake, pushed>>
stopVars     == <<stopStored, stopper>>
loopVars     == <<loopAt, draining, outboxScratch, applied, raised>>

Message == [from : Producers, n : 1..MaxPush]

OutboxInit ==
    /\ msgs = <<>>
    /\ wake = FALSE
    /\ sent = [p \in Producers |-> 0]
    /\ owesWake = {}
    /\ stopStored = FALSE
    /\ stopper = "idle"
    /\ loopAt = "top"
    /\ draining = FALSE
    /\ outboxScratch = <<>>
    /\ pushed = <<>>
    /\ applied = <<>>
    /\ raised = FALSE

-----------------------------------------------------------------------------
(* Producers.                                                              *)

\* push, under the lock: append, and remember whether the queue was empty.
Push(p) ==
    /\ p \notin owesWake
    /\ sent[p] < MaxPush
    /\ LET m == [from |-> p, n |-> sent[p] + 1]
       IN  msgs' = Append(msgs, m) /\ pushed' = Append(pushed, m)
    /\ sent' = [sent EXCEPT ![p] = @ + 1]
    /\ owesWake' = IF msgs = <<>> THEN owesWake \union {p} ELSE owesWake
    /\ UNCHANGED <<wake, stopVars, loopVars>>

\* push, after the unlock: wakeLoopFd.
WakeLoopFd(p) ==
    /\ p \in owesWake
    /\ wake' = TRUE
    /\ owesWake' = owesWake \ {p}
    /\ UNCHANGED <<msgs, sent, pushed, stopVars, loopVars>>

-----------------------------------------------------------------------------
(* The stop request.                                                       *)

\* fire: the flag first ...
FireStore ==
    /\ stopper = "idle"
    /\ stopStored' = TRUE
    /\ stopper' = "stored"
    /\ UNCHANGED <<msgs, wake, producerVars, loopVars>>

\* ... then the wakeup.
FireWake ==
    /\ stopper = "stored"
    /\ wake' = TRUE
    /\ stopper' = "done"
    /\ UNCHANGED <<msgs, stopStored, producerVars, loopVars>>

-----------------------------------------------------------------------------
(* The loop thread.                                                        *)

\* Top of an iteration: the stop flag is read, then the selector is entered.
\* Leaving the loop once the drain is complete is not modelled here.
LoopTop ==
    /\ loopAt = "top"
    /\ draining' = (draining \/ stopStored)
    /\ loopAt' = "select"
    /\ UNCHANGED <<msgs, wake, producerVars, stopVars, outboxScratch, applied,
                   raised>>

\* The selector returns without the wakeup descriptor among its events: other
\* descriptors, a timeout or a signal.  The pass runs without touching the
\* outbox.
SelectOther ==
    /\ loopAt = "select"
    /\ loopAt' = "top"
    /\ UNCHANGED <<msgs, wake, producerVars, stopVars, draining, outboxScratch,
                   applied, raised>>

\* Mutant: a draining loop no longer watches the wakeup descriptor.
SelectWakeServing ==
    /\ loopAt = "select"
    /\ wake /\ ~draining
    /\ loopAt' = "drainWake"
    /\ UNCHANGED <<msgs, wake, producerVars, stopVars, draining, outboxScratch,
                   applied, raised>>

\* The selector reports the (level-triggered) wakeup descriptor.
SelectWake ==
    /\ loopAt = "select"
    /\ wake
    /\ loopAt' = "drainWake"
    /\ UNCHANGED <<msgs, wake, producerVars, stopVars, draining, outboxScratch,
                   applied, raised>>

\* drainWake empties the descriptor, before the queue is drained.
DrainWake ==
    /\ loopAt = "drainWake"
    /\ wake' = FALSE
    /\ loopAt' = "drain"
    /\ UNCHANGED <<msgs, producerVars, stopVars, draining, outboxScratch,
                   applied, raised>>

\* Mutant: the drain takes one message and leaves the rest queued.
DrainOne ==
    /\ loopAt = "drain"
    /\ IF msgs = <<>> THEN UNCHANGED <<msgs, outboxScratch>>
       ELSE outboxScratch' = <<Head(msgs)>> /\ msgs' = Tail(msgs)
    /\ loopAt' = "apply"
    /\ UNCHANGED <<wake, producerVars, stopVars, draining, applied, raised>>

\* Mutant: the drain copies the queue instead of swapping it out.
DrainCopy ==
    /\ loopAt = "drain"
    /\ outboxScratch' = msgs
    /\ loopAt' = "apply"
    /\ UNCHANGED <<msgs, wake, producerVars, stopVars, draining, applied, raised>>

\* drain swaps out the whole queue under the lock.
Drain ==
    /\ loopAt = "drain"
    /\ outboxScratch' = msgs
    /\ msgs' = <<>>
    /\ loopAt' = "apply"
    /\ UNCHANGED <<wake, producerVars, stopVars, draining, applied, raised>>

\* processOutbox applies the next message of the batch.
Apply ==
    /\ loopAt = "apply"
    /\ outboxScratch /= <<>>
    /\ applied' = Append(applied, Head(outboxScratch))
    /\ outboxScratch' = Tail(outboxScratch)
    /\ UNCHANGED <<msgs, wake, producerVars, stopVars, loopAt, draining, raised>>

\* Applying a message runs user code that raises: run's guard discards the
\* exception, and with it the rest of the batch.
ApplyRaises ==
    /\ loopAt = "apply"
    /\ outboxScratch /= <<>>
    /\ applied' = Append(applied, Head(outboxScratch))
    /\ outboxScratch' = <<>>
    /\ loopAt' = "top"
    /\ raised' = TRUE
    /\ UNCHANGED <<msgs, wake, producerVars, stopVars, draining>>

\* The batch is done: the rest of the pass, and the next iteration.
EndBatch ==
    /\ loopAt = "apply"
    /\ outboxScratch = <<>>
    /\ loopAt' = "top"
    /\ UNCHANGED <<msgs, wake, producerVars, stopVars, draining, outboxScratch,
                   applied, raised>>

-----------------------------------------------------------------------------
OutboxNext ==
    \/ \E p \in Producers : Push(p) \/ WakeLoopFd(p)
    \/ FireStore
    \/ FireWake
    \/ LoopTop
    \/ SelectOther
    \/ SelectWake
    \/ DrainWake
    \/ Drain
    \/ Apply
    \/ ApplyRaises
    \/ EndBatch

OutboxSafety == OutboxInit /\ [][OutboxNext]_outboxVars

(* A thread that has unlocked goes on to its write(); the loop thread keeps *)
(* running; and a descriptor that stays ready is reported by one of the     *)
(* next selector calls, even when more descriptors are ready than one call  *)
(* returns (strong fairness of SelectWake).                                 *)
OutboxFairness ==
    /\ \A p \in Producers : WF_outboxVars(WakeLoopFd(p))
    /\ WF_outboxVars(FireWake)
    /\ WF_outboxVars(LoopTop)
    /\ WF_outboxVars(SelectOther)
    /\ SF_outboxVars(SelectWake)
    /\ WF_outboxVars(DrainWake)
    /\ WF_outboxVars(Drain)
    /\ WF_outboxVars(Apply)
    /\ WF_outboxVars(EndBatch)

OutboxSpec == OutboxSafety /\ OutboxFairness

-----------------------------------------------------------------------------
(* Properties.                                                             *)

\* Every variable has its type; in particular only pushed messages are queued.
OutboxTypeOK ==
    /\ msgs \in Seq(Message)
    /\ wake \in BOOLEAN
    /\ sent \in [Producers -> 0..MaxPush]
    /\ owesWake \subseteq Producers
    /\ stopStored \in BOOLEAN
    /\ stopper \in {"idle", "stored", "done"}
    /\ loopAt \in {"top", "select", "drainWake", "drain", "apply"}
    /\ draining \in BOOLEAN
    /\ outboxScratch \in Seq(Message)
    /\ pushed \in Seq(Message)
    /\ applied \in Seq(Message)
    /\ raised \in BOOLEAN

\* The loop never sleeps on a queued message (the argument in push's comment,
\* connection.nim): while the queue is not empty, either the descriptor reads
\* ready, or a pusher is about to write it, or the loop has emptied it and is
\* about to drain the queue.
NoLostWakeup ==
    msgs /= <<>> => wake \/ owesWake /= {} \/ loopAt = "drain"

\* A loop that has not noticed a stored stop flag is never left asleep in its
\* selector: the wakeup is pending or the stop request is about to write it
\* (fire stores the flag before it wakes, and the flag is read between any
\* drainWake and the next selector call).
NeverSleepsPastStop ==
    (stopStored /\ ~draining /\ loopAt = "select") => wake \/ stopper = "stored"

\* As long as no application has raised, each pushed message is in exactly one
\* place (applied, in the batch, or still queued) and the three, in that order,
\* are the messages in push order: nothing is lost, duplicated or reordered
\* (processOutbox and drain).
ExactlyOnceInOrder == ~raised => applied \o outboxScratch \o msgs = pushed

\* The outbox implements the channel it is documented to be, delivery included.
Chan == INSTANCE Channel WITH queue <- outboxScratch \o msgs
ImplementsChannel == Chan!ChanSpec
=============================================================================
