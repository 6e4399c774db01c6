---------------------------- MODULE HandoffProofs ----------------------------
(***************************************************************************)
(* Proofs about the two queues between an event loop and other threads.    *)
(*                                                                         *)
(* The outbox, for any set of producers and any number of pushes: its      *)
(* type, that no wakeup and no stop request is lost, that delivery is      *)
(* exactly once and in order while no application raises, and that it      *)
(* implements the safety part of the abstract channel.                     *)
(*                                                                         *)
(* The worker pool, for any finite sets of workers and loops, any tasks    *)
(* and any backlog cap: its type, the order of tasks, that no worker       *)
(* sleeps past work or past a stop, that the live-thread counter is exact, *)
(* and that nothing is freed under a running thread.                       *)
(***************************************************************************)
EXTENDS Outbox, WorkerPool, TLAPS

-----------------------------------------------------------------------------
(* A queue as a pair "taken \o waiting": what a push at the tail and a take *)
(* at the head do to the concatenation.                                     *)

\* Appending an element stays within the sequences over S and adds it last.
LEMMA AppendIsSeq ==
    ASSUME NEW S, NEW s \in Seq(S), NEW x \in S
    PROVE  /\ Append(s, x) \in Seq(S)
           /\ Len(Append(s, x)) = Len(s) + 1
           /\ \A i \in 1..Len(s) : Append(s, x)[i] = s[i]
           /\ Append(s, x)[Len(s) + 1] = x
  OBVIOUS

\* The elements of a sequence over S, and how many they are.
LEMMA SeqElements ==
    ASSUME NEW S, NEW s \in Seq(S)
    PROVE  /\ Len(s) \in Nat /\ DOMAIN s = 1..Len(s)
           /\ \A i \in 1..Len(s) : s[i] \in S
           /\ <<>> \in Seq(S) /\ Len(<<>>) = 0
           /\ s /= <<>> => Len(s) \in Nat \ {0}
  OBVIOUS

\* The head of a sequence over S, and the rest of it one place further on.
LEMMA TailIsSeq ==
    ASSUME NEW S, NEW s \in Seq(S), s /= <<>>
    PROVE  /\ Head(s) \in S /\ Head(s) = s[1]
           /\ Tail(s) \in Seq(S) /\ Len(Tail(s)) = Len(s) - 1
           /\ \A i \in 1..(Len(s) - 1) : Tail(s)[i] = s[i + 1]
  OBVIOUS

\* The length of a concatenation.
LEMMA ConcatIsSeq ==
    ASSUME NEW S, NEW s \in Seq(S), NEW t \in Seq(S)
    PROVE  s \o t \in Seq(S) /\ Len(s \o t) = Len(s) + Len(t)
  OBVIOUS

\* The empty sequence adds nothing.
LEMMA ConcatEmpty ==
    ASSUME NEW S, NEW s \in Seq(S)
    PROVE  s \o <<>> = s /\ <<>> \o s = s
  OBVIOUS

\* A push at the tail of the waiting part is a push at the tail of the whole.
LEMMA ConcatAppend ==
    ASSUME NEW S, NEW s \in Seq(S), NEW t \in Seq(S), NEW x \in S
    PROVE  s \o Append(t, x) = Append(s \o t, x)
  OBVIOUS

\* Taking the head of the waiting part moves it behind the taken part and
\* leaves the whole unchanged.
LEMMA TakeHead ==
    ASSUME NEW S, NEW s \in Seq(S), NEW t \in Seq(S), t /= <<>>
    PROVE  /\ Append(s, Head(t)) \in Seq(S)
           /\ Tail(t) \in Seq(S)
           /\ Append(s, Head(t)) \o Tail(t) = s \o t
  OBVIOUS

\* A queue whose front part is not empty is taken from its front part.
LEMMA FrontHead ==
    ASSUME NEW S, NEW t \in Seq(S), NEW u \in Seq(S), t /= <<>>
    PROVE  /\ t \o u /= <<>>
           /\ Head(t \o u) = Head(t)
           /\ Tail(t \o u) = Tail(t) \o u
  OBVIOUS

\* Dropping the whole front part of a queue leaves its back part.
LEMMA DropFront ==
    ASSUME NEW S, NEW t \in Seq(S), NEW u \in Seq(S)
    PROVE  SubSeq(t \o u, Len(t) + 1, Len(t \o u)) = u
  OBVIOUS

-----------------------------------------------------------------------------
(* The outbox.                                                              *)

\* A push leaves the message it queued well typed and counts it.
LEMMA PushedMessage ==
    ASSUME OutboxTypeOK, NEW p \in Producers, sent[p] < MaxPush
    PROVE  /\ [from |-> p, n |-> sent[p] + 1] \in Message
           /\ sent[p] + 1 \in 0..MaxPush
  BY OutboxAssumption DEF OutboxTypeOK, Message

\* Every step of a producer, of a stop request and of the loop keeps the type.
LEMMA OutboxTypeStep == OutboxTypeOK /\ [OutboxNext]_outboxVars => OutboxTypeOK'
<1> SUFFICES ASSUME OutboxTypeOK, [OutboxNext]_outboxVars PROVE OutboxTypeOK'
  BY Zenon
<1> USE DEF OutboxTypeOK, outboxVars, producerVars, stopVars, loopVars
<1>1. ASSUME NEW p \in Producers, Push(p) PROVE OutboxTypeOK'
  <2> DEFINE m == [from |-> p, n |-> sent[p] + 1]
  <2>1. m \in Message /\ sent[p] + 1 \in 0..MaxPush
    BY <1>1, PushedMessage, Zenon DEF Push
  <2>2. Append(msgs, m) \in Seq(Message) /\ Append(pushed, m) \in Seq(Message)
    BY <2>1, AppendIsSeq, Zenon
  <2> HIDE DEF m
  <2>3. msgs' = Append(msgs, m) /\ pushed' = Append(pushed, m)
    BY <1>1, Zenon DEF Push, m
  <2>4. sent' \in [Producers -> 0..MaxPush]
    BY <1>1, <2>1, Zenon DEF Push
  <2>5. owesWake' \subseteq Producers
    BY <1>1, Zenon DEF Push
  <2>6. QED
    BY <1>1, <2>2, <2>3, <2>4, <2>5, Zenon DEF Push
<1>2. ASSUME NEW p \in Producers, WakeLoopFd(p) PROVE OutboxTypeOK'
  BY <1>2, Zenon DEF WakeLoopFd
<1>3. CASE FireStore
  BY <1>3, Zenon DEF FireStore
<1>4. CASE FireWake
  BY <1>4, Zenon DEF FireWake
<1>5. CASE LoopTop
  BY <1>5, Zenon DEF LoopTop
<1>6. CASE SelectOther
  BY <1>6, Zenon DEF SelectOther
<1>7. CASE SelectWake
  BY <1>7, Zenon DEF SelectWake
<1>8. CASE DrainWake
  BY <1>8, Zenon DEF DrainWake
<1>9. CASE Drain
  BY <1>9, SeqElements, Zenon DEF Drain
<1>10. CASE Apply
  BY <1>10, TakeHead, Zenon DEF Apply
<1>11. CASE ApplyRaises
  BY <1>11, TakeHead, SeqElements, Zenon DEF ApplyRaises
<1>12. CASE EndBatch
  BY <1>12, Zenon DEF EndBatch
<1>13. CASE UNCHANGED outboxVars
  BY <1>13, Zenon
<1>14. QED
  BY <1>1, <1>2, <1>3, <1>4, <1>5, <1>6, <1>7, <1>8, <1>9, <1>10, <1>11,
     <1>12, <1>13, Zenon DEF OutboxNext

\* The outbox starts well typed: empty queue, empty batch, nothing sent.
LEMMA OutboxTypeInit == OutboxInit => OutboxTypeOK
<1>1. ASSUME OutboxInit PROVE <<>> \in Seq(Message)
  BY SeqElements
<1>2. ASSUME OutboxInit PROVE sent \in [Producers -> 0..MaxPush]
  BY <1>2, OutboxAssumption DEF OutboxInit
<1>3. QED
  BY <1>1, <1>2, Zenon DEF OutboxInit, OutboxTypeOK

\* Every reachable state of the outbox and its loop is well typed.
THEOREM OutboxTypeCorrect == OutboxSafety => []OutboxTypeOK
  BY OutboxTypeInit, OutboxTypeStep, PTL DEF OutboxSafety

-----------------------------------------------------------------------------
\* A queued message always has a wakeup pending, owed, or a drain about to
\* happen: the loop cannot sleep on it (push, drainWake, processOutbox).
THEOREM NoWakeupLost == OutboxSafety => []NoLostWakeup
<1>1. OutboxInit => NoLostWakeup
  BY Zenon DEF OutboxInit, NoLostWakeup
<1>2. OutboxTypeOK /\ NoLostWakeup /\ [OutboxNext]_outboxVars => NoLostWakeup'
  <2> SUFFICES ASSUME OutboxTypeOK, NoLostWakeup, [OutboxNext]_outboxVars PROVE NoLostWakeup'
    BY Zenon
  <2> USE DEF OutboxTypeOK, NoLostWakeup, outboxVars, producerVars, stopVars, loopVars
  <2>1. ASSUME NEW p \in Producers, Push(p) PROVE NoLostWakeup'
    BY <2>1, Zenon DEF Push
  <2>2. ASSUME NEW p \in Producers, WakeLoopFd(p) PROVE NoLostWakeup'
    BY <2>2, Zenon DEF WakeLoopFd
  <2>3. CASE FireStore \/ FireWake
    BY <2>3, Zenon DEF FireStore, FireWake
  <2>4. CASE LoopTop \/ SelectOther \/ SelectWake
    BY <2>4, Zenon DEF LoopTop, SelectOther, SelectWake
  <2>5. CASE DrainWake \/ Drain
    BY <2>5, Zenon DEF DrainWake, Drain
  <2>6. CASE Apply \/ ApplyRaises \/ EndBatch
    BY <2>6, Zenon DEF Apply, ApplyRaises, EndBatch
  <2>7. CASE UNCHANGED outboxVars
    BY <2>7, Zenon
  <2>8. QED
    BY <2>1, <2>2, <2>3, <2>4, <2>5, <2>6, <2>7, Zenon DEF OutboxNext
<1>3. QED
  BY <1>1, <1>2, OutboxTypeCorrect, PTL DEF OutboxSafety

\* A stop request is never slept through: a loop in its selector that has not
\* seen the stored flag has the wakeup pending or about to be written.
THEOREM NoStopLost == OutboxSafety => []NeverSleepsPastStop
<1>1. OutboxInit => NeverSleepsPastStop
  BY Zenon DEF OutboxInit, NeverSleepsPastStop
<1>2. OutboxTypeOK /\ NeverSleepsPastStop /\ [OutboxNext]_outboxVars => NeverSleepsPastStop'
  <2> SUFFICES ASSUME OutboxTypeOK, NeverSleepsPastStop, [OutboxNext]_outboxVars
               PROVE  NeverSleepsPastStop'
    BY Zenon
  <2> USE DEF OutboxTypeOK, NeverSleepsPastStop, outboxVars, producerVars, stopVars, loopVars
  <2>1. ASSUME NEW p \in Producers, Push(p) \/ WakeLoopFd(p)
        PROVE  NeverSleepsPastStop'
    BY <2>1, Zenon DEF Push, WakeLoopFd
  <2>2. CASE FireStore \/ FireWake
    BY <2>2, Zenon DEF FireStore, FireWake
  <2>3. CASE LoopTop
    BY <2>3, Zenon DEF LoopTop
  <2>4. CASE SelectOther \/ SelectWake \/ DrainWake \/ Drain
    BY <2>4, Zenon DEF SelectOther, SelectWake, DrainWake, Drain
  <2>5. CASE Apply \/ ApplyRaises \/ EndBatch
    BY <2>5, Zenon DEF Apply, ApplyRaises, EndBatch
  <2>6. CASE UNCHANGED outboxVars
    BY <2>6, Zenon
  <2>7. QED
    BY <2>1, <2>2, <2>3, <2>4, <2>5, <2>6, Zenon DEF OutboxNext
<1>3. QED
  BY <1>1, <1>2, OutboxTypeCorrect, PTL DEF OutboxSafety

-----------------------------------------------------------------------------
(* Exactly-once delivery.  The invariant needs, besides itself, that the    *)
(* batch is empty whenever the loop is not applying it, or the swap of      *)
(* drain would overwrite undelivered messages.                              *)

BatchInv ==
    /\ loopAt /= "apply" => outboxScratch = <<>>
    /\ ExactlyOnceInOrder

\* Every step keeps the batch empty outside processOutbox and, until something
\* raises, every message in exactly one place.
LEMMA BatchStep == OutboxTypeOK /\ BatchInv /\ [OutboxNext]_outboxVars => BatchInv'
<1> SUFFICES ASSUME OutboxTypeOK, BatchInv, [OutboxNext]_outboxVars PROVE BatchInv'
  BY Zenon
<1> USE DEF OutboxTypeOK, BatchInv, ExactlyOnceInOrder, outboxVars, producerVars, stopVars,
            loopVars
<1>1. ASSUME NEW p \in Producers, Push(p) PROVE BatchInv'
  <2> DEFINE m == [from |-> p, n |-> sent[p] + 1]
             front == applied \o outboxScratch
  <2>1. m \in Message
    BY <1>1, PushedMessage, Zenon DEF Push
  <2>2. front \in Seq(Message)
    BY ConcatIsSeq, Zenon
  <2> HIDE DEF m, front
  <2>3. front \o Append(msgs, m) = Append(front \o msgs, m)
    BY <2>1, <2>2, ConcatAppend
  <2>4. msgs' = Append(msgs, m) /\ pushed' = Append(pushed, m)
    BY <1>1, Zenon DEF Push, m
  <2>5. QED
    BY <1>1, <2>3, <2>4, Zenon DEF Push, front
<1>2. CASE Drain
  <2>1. applied \o <<>> = applied /\ (applied \o msgs) \o <<>> = applied \o msgs
    BY ConcatEmpty, ConcatIsSeq, Zenon
  <2>2. ~raised => applied \o msgs = pushed
    BY <1>2, <2>1, Zenon DEF Drain
  <2>3. QED
    BY <1>2, <2>1, <2>2, Zenon DEF Drain
<1>3. CASE Apply
  <2>1. Append(applied, Head(outboxScratch)) \o Tail(outboxScratch)
          = applied \o outboxScratch
    BY <1>3, TakeHead DEF Apply
  <2>2. QED
    BY <1>3, <2>1, Zenon DEF Apply
<1>4. CASE ApplyRaises
  BY <1>4, Zenon DEF ApplyRaises
<1>5. ASSUME NEW p \in Producers, WakeLoopFd(p) PROVE BatchInv'
  BY <1>5, Zenon DEF WakeLoopFd
<1>6. CASE FireStore \/ FireWake
  BY <1>6, Zenon DEF FireStore, FireWake
<1>7. CASE LoopTop \/ SelectOther \/ SelectWake \/ DrainWake \/ EndBatch
  BY <1>7, Zenon DEF LoopTop, SelectOther, SelectWake, DrainWake, EndBatch
<1>8. CASE UNCHANGED outboxVars
  BY <1>8, Zenon
<1>9. QED
  BY <1>1, <1>2, <1>3, <1>4, <1>5, <1>6, <1>7, <1>8, Zenon DEF OutboxNext

\* The batch invariant holds in every reachable state.
LEMMA BatchInvariant == OutboxSafety => []BatchInv
<1>1. OutboxInit => BatchInv
  <2>1. (<<>> \o <<>>) \o <<>> = <<>>
    BY ConcatEmpty, SeqElements
  <2>2. QED
    BY <2>1, Zenon DEF OutboxInit, BatchInv, ExactlyOnceInOrder
<1>2. QED
  BY <1>1, BatchStep, OutboxTypeCorrect, PTL DEF OutboxSafety

\* As long as no application has raised, every pushed message is in exactly one
\* of "applied", "in the batch" and "queued", and in push order (drain and
\* processOutbox).
THEOREM DeliveredExactlyOnce == OutboxSafety => []ExactlyOnceInOrder
<1>1. BatchInv => ExactlyOnceInOrder
  BY Zenon DEF BatchInv
<1>2. QED
  BY <1>1, BatchInvariant, PTL

-----------------------------------------------------------------------------
(* Refinement of the abstract channel.                                      *)

\* A push is a channel push, the application of a message is the channel's
\* next application, one that raises is a cut that drops the whole batch, and
\* every other step leaves the channel alone.
LEMMA ChannelStep ==
    OutboxTypeOK /\ BatchInv /\ [OutboxNext]_outboxVars => [Chan!ChanNext]_Chan!chanVars
<1> SUFFICES ASSUME OutboxTypeOK, BatchInv, [OutboxNext]_outboxVars
             PROVE  [Chan!ChanNext]_Chan!chanVars
  BY Zenon
<1> DEFINE rest == outboxScratch \o msgs
<1>1. /\ msgs \in Seq(Message) /\ outboxScratch \in Seq(Message)
      /\ applied \in Seq(Message)
  BY Zenon DEF OutboxTypeOK
<1>2. ASSUME NEW p \in Producers, Push(p) PROVE Chan!Push
  <2> DEFINE m == [from |-> p, n |-> sent[p] + 1]
  <2>1. m \in Message
    BY <1>2, PushedMessage, Zenon DEF Push
  <2>2. msgs' = Append(msgs, m) /\ UNCHANGED <<outboxScratch, applied>>
    BY <1>2, Zenon DEF Push, loopVars
  <2> HIDE DEF m
  <2>3. outboxScratch \o Append(msgs, m) = Append(rest, m)
    BY <1>1, <2>1, ConcatAppend
  <2>4. QED
    BY <2>1, <2>2, <2>3, Zenon DEF Chan!Push
<1>3. CASE Apply
  <2>1. /\ outboxScratch /= <<>>
        /\ applied' = Append(applied, Head(outboxScratch))
        /\ outboxScratch' = Tail(outboxScratch) /\ msgs' = msgs
    BY <1>3, Zenon DEF Apply
  <2>2. rest /= <<>> /\ Head(rest) = Head(outboxScratch)
        /\ Tail(rest) = Tail(outboxScratch) \o msgs
    BY <1>1, <2>1, FrontHead, Zenon
  <2>3. Chan!ApplyNext
    BY <2>1, <2>2, Zenon DEF Chan!ApplyNext
  <2>4. QED
    BY <2>3, Zenon DEF Chan!ChanNext
<1>4. CASE ApplyRaises
  <2>1. /\ outboxScratch /= <<>>
        /\ applied' = Append(applied, Head(outboxScratch))
        /\ outboxScratch' = <<>> /\ msgs' = msgs
    BY <1>4, Zenon DEF ApplyRaises
  <2>2. rest /= <<>> /\ Head(rest) = Head(outboxScratch)
    BY <1>1, <2>1, FrontHead, Zenon
  <2>3. Len(outboxScratch) \in 1..Len(rest)
    BY <1>1, <2>1, SeqElements, ConcatIsSeq
  <2>4. SubSeq(rest, Len(outboxScratch) + 1, Len(rest)) = msgs
    BY <1>1, DropFront, Zenon
  <2>5. <<>> \o msgs = msgs
    BY <1>1, ConcatEmpty, Zenon
  <2>6. (outboxScratch \o msgs)' = msgs
    BY <2>1, <2>5, Zenon
  <2>7. Chan!ApplyCut
    BY <2>1, <2>2, <2>3, <2>4, <2>6, Zenon DEF Chan!ApplyCut
  <2>8. QED
    BY <2>7, Zenon DEF Chan!ChanNext
<1>5. CASE Drain
  <2>1. <<>> \o msgs = msgs /\ msgs \o <<>> = msgs
    BY <1>1, ConcatEmpty, Zenon
  <2>2. outboxScratch = <<>> /\ outboxScratch' = msgs /\ msgs' = <<>>
        /\ applied' = applied
    BY <1>5, Zenon DEF Drain, BatchInv
  <2>3. QED
    BY <2>1, <2>2, Zenon DEF Chan!chanVars
<1>6. ASSUME NEW p \in Producers, WakeLoopFd(p) PROVE UNCHANGED Chan!chanVars
  BY <1>6, Zenon DEF WakeLoopFd, Chan!chanVars, loopVars
<1>7. CASE FireStore \/ FireWake
  BY <1>7, Zenon DEF FireStore, FireWake, Chan!chanVars, loopVars
<1>8. CASE LoopTop \/ SelectOther \/ SelectWake \/ DrainWake \/ EndBatch
  BY <1>8, Zenon DEF LoopTop, SelectOther, SelectWake, DrainWake, EndBatch, Chan!chanVars
<1>9. CASE UNCHANGED outboxVars
  BY <1>9, Zenon DEF outboxVars, Chan!chanVars
<1>10. QED
  BY <1>2, <1>3, <1>4, <1>5, <1>6, <1>7, <1>8, <1>9, Zenon DEF OutboxNext, Chan!ChanNext

\* The outbox with its loop implements the safety part of the channel: what
\* MCOutbox checks as ImplementsChannel, without its delivery guarantee.
THEOREM RefinesChannel == OutboxSafety => Chan!ChanSafety
<1>1. OutboxInit => Chan!ChanInit
  <2>1. <<>> \o <<>> = <<>>
    BY ConcatEmpty, SeqElements
  <2>2. QED
    BY <2>1, Zenon DEF OutboxInit, Chan!ChanInit
<1>2. QED
  BY <1>1, ChannelStep, OutboxTypeCorrect, BatchInvariant, PTL
  DEF OutboxSafety, Chan!ChanSafety

-----------------------------------------------------------------------------
(* The worker pool.  Its threads are counted, so the library's facts about  *)
(* finite sets come in here.                                                *)

INSTANCE FiniteSetTheorems

\* The pool starts well typed: no task, no thread, every thread counted.
LEMMA TypeInit == Init => TypeOK
<1> SUFFICES ASSUME Init PROVE TypeOK
  BY Zenon
<1>1. <<>> \in Seq(Task)
  BY SeqElements
<1>2. alive \in Int
  BY PoolAssumption, FS_CardinalityType DEF Init
<1>3. QED
  BY <1>1, <1>2, Zenon DEF Init, TypeOK, WorkerState

\* A submission, with or without a sleeper to signal, keeps the type.
LEMMA TypeAdd ==
    ASSUME TypeOK, NEW l \in Loops, NEW t \in Task, AddAndSignal(l, t)
    PROVE  /\ tasks' \in Seq(Task)
           /\ accepted' \in Seq(Task)
           /\ dispatched' \in [Task -> Loops \union {None}]
           /\ worker' \in [Workers -> WorkerState]
           /\ \A w \in Workers : worker'[w] = "running" => worker[w] = "running"
<1>1. tasks' \in Seq(Task) /\ accepted' \in Seq(Task)
  BY AppendIsSeq, Zenon DEF TypeOK, AddAndSignal
<1>2. dispatched' \in [Task -> Loops \union {None}]
  BY Zenon DEF TypeOK, AddAndSignal
<1>3. QED
  BY <1>1, <1>2, Zenon DEF TypeOK, WorkerState, AddAndSignal, Waiting

\* Every step of the owner, of a loop and of a worker keeps the type.
LEMMA TypeStep == TypeOK /\ [Next]_vars => TypeOK'
<1> SUFFICES ASSUME TypeOK, [Next]_vars PROVE TypeOK'
  BY Zenon
<1> USE DEF TypeOK, WorkerState, vars, poolVars
<1>1. ASSUME NEW w \in Workers,
             StartWorker(w) \/ WorkerWait(w) \/ SpuriousWakeup(w)
             \/ WorkerLeave(w)
      PROVE  TypeOK'
  BY <1>1, Zenon DEF StartWorker, WorkerWait, SpuriousWakeup, WorkerLeave
<1>2. ASSUME NEW w \in Workers, WorkerTake(w) PROVE TypeOK'
  <2>1. Head(tasks) \in Task
    BY <1>2, TailIsSeq, Zenon DEF WorkerTake
  <2>2. tasks' \in Seq(Task) /\ started' \in Seq(Task)
    BY <1>2, TakeHead, Zenon DEF WorkerTake
  <2>3. QED
    BY <1>2, <2>1, <2>2, Zenon DEF WorkerTake
<1>3. ASSUME NEW w \in Workers, WorkerFinish(w) PROVE TypeOK'
  BY <1>3, Zenon DEF WorkerFinish
<1>4. ASSUME NEW w \in Workers, WorkerExit(w) PROVE TypeOK'
  <2>1. alive' \in Int
    BY <1>4 DEF WorkerExit
  <2>2. QED
    BY <1>4, <2>1, Zenon DEF WorkerExit
<1>5. ASSUME NEW l \in Loops, StartLoop(l) \/ LoopLeave(l) \/ LoopExit(l)
      PROVE  TypeOK'
  <2>1. loop' \in [Loops -> {"absent", "running", "leaving", "exited"}]
    BY <1>5, Zenon DEF StartLoop, LoopLeave, LoopExit
  <2>2. alive' \in Int
    BY <1>5 DEF StartLoop, LoopLeave, LoopExit
  <2>3. QED
    BY <1>5, <2>1, <2>2, Zenon DEF StartLoop, LoopLeave, LoopExit
<1>6. ASSUME NEW l \in Loops, NEW t \in Task, TryEnqueue(l, t) \/ Enqueue(l, t)
      PROVE  TypeOK'
  <2>1. AddAndSignal(l, t)
    BY <1>6, Zenon DEF TryEnqueue, Enqueue
  <2>2. UNCHANGED <<stopping, job, loop, alive, stopFlag, owner, started, finished>>
    BY <1>6, Zenon DEF TryEnqueue, Enqueue
  <2>3. QED
    BY <2>1, <2>2, TypeAdd, Zenon
<1>7. CASE StartDone \/ StartFails \/ RequestStop \/ AllExited \/ Detach
           \/ UnwindJoined \/ ShutdownJoined \/ Returned
  BY <1>7, Zenon DEF StartDone, StartFails, RequestStop, AllExited, Detach,
              UnwindJoined, ShutdownJoined, Returned
<1>8. CASE SignalStop \/ ShutdownSignal
  BY <1>8, Zenon DEF SignalStop, ShutdownSignal, SignalStopAt, WakeAllSleepers
<1>9. CASE UNCHANGED vars
  BY <1>9, Zenon
<1>10. QED
  BY <1>1, <1>2, <1>3, <1>4, <1>5, <1>6, <1>7, <1>8, <1>9, Zenon DEF Next

\* Every reachable state of the pool and its owner is well typed; in particular
\* a running worker holds a task.
THEOREM TypeCorrect == SafetySpec => []TypeOK
  BY TypeInit, TypeStep, PTL DEF SafetySpec

-----------------------------------------------------------------------------
\* Workers take the accepted tasks in acceptance order, each once.
THEOREM TakenInOrder == SafetySpec => []TasksStartInOrder
<1>1. Init => TasksStartInOrder
  <2>1. <<>> \o <<>> = <<>>
    BY ConcatEmpty, SeqElements
  <2>2. QED
    BY <2>1, Zenon DEF Init, TasksStartInOrder
<1>2. TypeOK /\ TasksStartInOrder /\ [Next]_vars => TasksStartInOrder'
  <2> SUFFICES ASSUME TypeOK, TasksStartInOrder, [Next]_vars
               PROVE  TasksStartInOrder'
    BY Zenon
  <2> USE DEF TasksStartInOrder, vars, poolVars
  <2>1. ASSUME NEW l \in Loops, NEW t \in Task, TryEnqueue(l, t) \/ Enqueue(l, t)
        PROVE  TasksStartInOrder'
    <3>1. started \o Append(tasks, t) = Append(started \o tasks, t)
      BY ConcatAppend DEF TypeOK
    <3>2. QED
      BY <2>1, <3>1, Zenon DEF TryEnqueue, Enqueue, AddAndSignal
  <2>2. ASSUME NEW w \in Workers, WorkerTake(w) PROVE TasksStartInOrder'
    <3>1. Append(started, Head(tasks)) \o Tail(tasks) = started \o tasks
      BY <2>2, TakeHead, Zenon DEF WorkerTake, TypeOK
    <3>2. QED
      BY <2>2, <3>1, Zenon DEF WorkerTake
  <2>3. ASSUME NEW w \in Workers,
               StartWorker(w) \/ WorkerWait(w) \/ SpuriousWakeup(w)
               \/ WorkerFinish(w) \/ WorkerLeave(w) \/ WorkerExit(w)
        PROVE  TasksStartInOrder'
    BY <2>3, Zenon DEF StartWorker, WorkerWait, SpuriousWakeup, WorkerFinish,
                WorkerLeave, WorkerExit
  <2>4. ASSUME NEW l \in Loops, StartLoop(l) \/ LoopLeave(l) \/ LoopExit(l)
        PROVE  TasksStartInOrder'
    BY <2>4, Zenon DEF StartLoop, LoopLeave, LoopExit
  <2>5. CASE StartDone \/ StartFails \/ RequestStop \/ SignalStop \/ AllExited
             \/ Detach \/ UnwindJoined \/ ShutdownSignal \/ ShutdownJoined
             \/ Returned
    BY <2>5, Zenon DEF StartDone, StartFails, RequestStop, SignalStop, SignalStopAt,
                AllExited, Detach, UnwindJoined, ShutdownSignal,
                ShutdownJoined, Returned
  <2>6. CASE UNCHANGED vars
    BY <2>6, Zenon
  <2>7. QED
    BY <2>1, <2>2, <2>3, <2>4, <2>5, <2>6, Zenon DEF Next
<1>3. QED
  BY <1>1, <1>2, TypeCorrect, PTL DEF SafetySpec

-----------------------------------------------------------------------------
\* A stopping pool has no sleeping worker.
THEOREM NoneSleepsPastStop == SafetySpec => []NoSleepPastStop
<1>1. Init => NoSleepPastStop
  BY Zenon DEF Init, NoSleepPastStop
<1>2. TypeOK /\ NoSleepPastStop /\ [Next]_vars => NoSleepPastStop'
  <2> SUFFICES ASSUME TypeOK, NoSleepPastStop, [Next]_vars
               PROVE  NoSleepPastStop'
    BY Zenon
  <2> USE DEF TypeOK, NoSleepPastStop, Waiting, vars, poolVars
  <2>1. ASSUME NEW l \in Loops, NEW t \in Task, TryEnqueue(l, t) \/ Enqueue(l, t)
        PROVE  NoSleepPastStop'
    BY <2>1, Zenon DEF TryEnqueue, Enqueue, AddAndSignal
  <2>2. ASSUME NEW w \in Workers,
               StartWorker(w) \/ WorkerWait(w) \/ SpuriousWakeup(w)
               \/ WorkerTake(w) \/ WorkerFinish(w) \/ WorkerLeave(w)
               \/ WorkerExit(w)
        PROVE  NoSleepPastStop'
    BY <2>2, Zenon DEF StartWorker, WorkerWait, SpuriousWakeup, WorkerTake,
                WorkerFinish, WorkerLeave, WorkerExit
  <2>3. ASSUME NEW l \in Loops, StartLoop(l) \/ LoopLeave(l) \/ LoopExit(l)
        PROVE  NoSleepPastStop'
    BY <2>3, Zenon DEF StartLoop, LoopLeave, LoopExit
  <2>4. CASE SignalStop \/ ShutdownSignal
    BY <2>4, Zenon DEF SignalStop, ShutdownSignal, SignalStopAt, WakeAllSleepers
  <2>5. CASE StartDone \/ StartFails \/ RequestStop \/ AllExited \/ Detach
             \/ UnwindJoined \/ ShutdownJoined \/ Returned
    BY <2>5, Zenon DEF StartDone, StartFails, RequestStop, AllExited, Detach,
                UnwindJoined, ShutdownJoined, Returned
  <2>6. CASE UNCHANGED vars
    BY <2>6, Zenon
  <2>7. QED
    BY <2>1, <2>2, <2>3, <2>4, <2>5, <2>6, Zenon DEF Next
<1>3. QED
  BY <1>1, <1>2, TypeCorrect, PTL DEF SafetySpec

-----------------------------------------------------------------------------
(* The pool is work-conserving.                                             *)

\* One more awake worker, or one less, changes the count of awake workers by 1,
\* and only a worker that goes to sleep adds a sleeper.
LEMMA IdleCount ==
    ASSUME TypeOK, NEW w \in Workers, NEW v \in WorkerState,
           worker' = [worker EXCEPT ![w] = v]
    PROVE  /\ Cardinality(Idle) \in Nat /\ Cardinality(Idle') \in Nat
           /\ v = "idle" /\ worker[w] /= "idle"
                => Cardinality(Idle') = Cardinality(Idle) + 1
           /\ v /= "idle" /\ worker[w] = "idle"
                => Cardinality(Idle') = Cardinality(Idle) - 1
           /\ v /= "idle" /\ worker[w] /= "idle"
                => Cardinality(Idle') = Cardinality(Idle)
           /\ v /= "waiting" => (Waiting' /= {} => Waiting /= {})
<1>0. worker \in [Workers -> WorkerState]
  BY Zenon DEF TypeOK
<1>1. IsFiniteSet(Idle) /\ IsFiniteSet(Idle')
  BY PoolAssumption, FS_Subset, Zenon DEF Idle
<1>2. Cardinality(Idle) \in Nat /\ Cardinality(Idle') \in Nat
  BY <1>1, FS_CardinalityType, Zenon
<1>3. ASSUME v = "idle", worker[w] /= "idle"
      PROVE  Cardinality(Idle') = Cardinality(Idle) + 1
  <2>1. Idle' = Idle \union {w} /\ w \notin Idle
    BY <1>0, <1>3, Zenon DEF Idle
  <2>2. QED
    BY <1>1, <2>1, FS_AddElement, Zenon
<1>4. ASSUME v /= "idle", worker[w] = "idle"
      PROVE  Cardinality(Idle') = Cardinality(Idle) - 1
  <2>1. Idle' = Idle \ {w} /\ w \in Idle
    BY <1>0, <1>4, Zenon DEF Idle
  <2>2. QED
    BY <1>1, <2>1, FS_RemoveElement, Zenon
<1>5. ASSUME v /= "idle", worker[w] /= "idle"
      PROVE  Cardinality(Idle') = Cardinality(Idle)
  <2>1. Idle' = Idle
    BY <1>0, <1>5, Zenon DEF Idle
  <2>2. QED
    BY <2>1, Zenon
<1>6. v /= "waiting" => (Waiting' /= {} => Waiting /= {})
  BY <1>0, Zenon DEF Waiting
<1>7. QED
  BY <1>2, <1>3, <1>4, <1>5, <1>6, Zenon

\* No step lets a worker sleep while more tasks wait than workers are awake:
\* each submission wakes one sleeper, and a worker sleeps only on an empty queue.
LEMMA IdleStep == TypeOK /\ NoIdleSleep /\ [Next]_vars => NoIdleSleep'
<1> SUFFICES ASSUME TypeOK, NoIdleSleep, [Next]_vars PROVE NoIdleSleep'
  BY Zenon
<1> USE DEF vars, poolVars
<1>0. worker \in [Workers -> WorkerState] /\ Len(tasks) \in Nat /\ tasks \in Seq(Task)
  BY SeqElements, Zenon DEF TypeOK
<1>1. {"idle", "waiting", "running", "leaving", "exited"} \subseteq WorkerState
  BY Zenon DEF WorkerState
<1>2. ASSUME NEW l \in Loops, NEW t \in Task, TryEnqueue(l, t) \/ Enqueue(l, t)
      PROVE  NoIdleSleep'
  <2>1. AddAndSignal(l, t) /\ Len(tasks') = Len(tasks) + 1
    BY <1>0, <1>2, AppendIsSeq DEF TryEnqueue, Enqueue, AddAndSignal
  <2>2. CASE Waiting = {} /\ UNCHANGED worker
    BY <2>2, Zenon DEF NoIdleSleep, Waiting
  <2>3. ASSUME NEW w \in Waiting, worker' = [worker EXCEPT ![w] = "idle"]
        PROVE  NoIdleSleep'
    <3>1. w \in Workers /\ worker[w] = "waiting" /\ Waiting /= {}
      BY Zenon DEF Waiting
    <3>2. /\ Cardinality(Idle) \in Nat
          /\ Cardinality(Idle') = Cardinality(Idle) + 1
      BY <1>1, <2>3, <3>1, IdleCount, Zenon
    <3>3. QED
      BY <1>0, <2>1, <3>1, <3>2 DEF NoIdleSleep
  <2>4. QED
    BY <2>1, <2>2, <2>3, Zenon DEF AddAndSignal
<1>3. ASSUME NEW w \in Workers, StartWorker(w) \/ SpuriousWakeup(w) \/ WorkerFinish(w)
      PROVE  NoIdleSleep'
  <2>1. worker' = [worker EXCEPT ![w] = "idle"] /\ worker[w] /= "idle"
        /\ UNCHANGED tasks
    BY <1>3, Zenon DEF StartWorker, SpuriousWakeup, WorkerFinish
  <2>2. /\ Cardinality(Idle) \in Nat
        /\ Cardinality(Idle') = Cardinality(Idle) + 1
        /\ Waiting' /= {} => Waiting /= {}
    BY <1>1, <2>1, IdleCount, Zenon
  <2>3. QED
    BY <1>0, <2>1, <2>2 DEF NoIdleSleep
<1>4. ASSUME NEW w \in Workers, WorkerWait(w) \/ WorkerLeave(w)
      PROVE  NoIdleSleep'
  <2>1. Len(tasks') = 0
    BY <1>4 DEF WorkerWait, WorkerLeave
  <2>2. Cardinality(Idle') \in Nat
    BY <1>1, <1>4, IdleCount, Zenon DEF WorkerWait, WorkerLeave
  <2>3. QED
    BY <2>1, <2>2 DEF NoIdleSleep
<1>5. ASSUME NEW w \in Workers, WorkerTake(w)
      PROVE  NoIdleSleep'
  <2>1. Len(tasks') = Len(tasks) - 1
    BY <1>0, <1>5, TailIsSeq, Zenon DEF WorkerTake
  <2>2. worker' = [worker EXCEPT ![w] = "running"] /\ worker[w] = "idle"
    BY <1>5, Zenon DEF WorkerTake
  <2>3. /\ Cardinality(Idle) \in Nat
        /\ Cardinality(Idle') = Cardinality(Idle) - 1
        /\ Waiting' /= {} => Waiting /= {}
    BY <1>1, <2>2, IdleCount, Zenon
  <2>4. QED
    BY <1>0, <2>1, <2>3 DEF NoIdleSleep
<1>6. ASSUME NEW w \in Workers, WorkerExit(w)
      PROVE  NoIdleSleep'
  <2>1. worker' = [worker EXCEPT ![w] = "exited"] /\ worker[w] = "leaving"
        /\ UNCHANGED tasks
    BY <1>6, Zenon DEF WorkerExit
  <2>2. /\ Cardinality(Idle') = Cardinality(Idle)
        /\ Waiting' /= {} => Waiting /= {}
    BY <1>1, <2>1, IdleCount, Zenon
  <2>3. QED
    BY <2>1, <2>2, Zenon DEF NoIdleSleep
<1>7. CASE SignalStop \/ ShutdownSignal
  BY <1>7, Zenon DEF SignalStop, ShutdownSignal, SignalStopAt, WakeAllSleepers,
              NoIdleSleep, Waiting
<1>8. CASE UNCHANGED <<worker, tasks>>
  BY <1>8, Zenon DEF NoIdleSleep, Waiting, Idle
<1>9. ASSUME NEW l \in Loops, StartLoop(l) \/ LoopLeave(l) \/ LoopExit(l)
      PROVE  UNCHANGED <<worker, tasks>>
  BY <1>9, Zenon DEF StartLoop, LoopLeave, LoopExit
<1>10. CASE StartDone \/ StartFails \/ RequestStop \/ AllExited \/ Detach
            \/ UnwindJoined \/ ShutdownJoined \/ Returned
  BY <1>8, <1>10, Zenon DEF StartDone, StartFails, RequestStop, AllExited, Detach,
              UnwindJoined, ShutdownJoined, Returned
<1>11. QED
  BY <1>2, <1>3, <1>4, <1>5, <1>6, <1>7, <1>8, <1>9, <1>10, Zenon DEF Next

\* While a worker sleeps there is an awake worker for every queued task.
THEOREM WorkConserving == SafetySpec => []NoIdleSleep
<1>1. Init => NoIdleSleep
  BY Zenon DEF Init, NoIdleSleep, Waiting
<1>2. QED
  BY <1>1, IdleStep, TypeCorrect, PTL DEF SafetySpec

-----------------------------------------------------------------------------
(* Teardown.  The counter is exact: it counts the threads that have not     *)
(* exited, those still to be created included.  The owner has passed a join *)
(* of the loops from teardown on, and a join of the workers once it frees.  *)

LiveWorkers == {w \in Workers : worker[w] /= "exited"}
LiveLoops   == {l \in Loops : loop[l] /= "exited"}

TeardownInv ==
    /\ alive = Cardinality(LiveWorkers) + Cardinality(LiveLoops)
    /\ owner \in {"teardown", "joining", "freed"} => Gone(loop, Loops)
    /\ owner = "freed" => Gone(worker, Workers)

\* The threads that have not exited are finitely many, so they can be counted.
LEMMA LiveFinite ==
    /\ IsFiniteSet(LiveWorkers) /\ Cardinality(LiveWorkers) \in Nat
    /\ IsFiniteSet(LiveLoops) /\ Cardinality(LiveLoops) \in Nat
<1>1. IsFiniteSet(LiveWorkers) /\ IsFiniteSet(LiveLoops)
  BY PoolAssumption, FS_Subset, Zenon DEF LiveWorkers, LiveLoops
<1>2. QED
  BY <1>1, FS_CardinalityType, Zenon

\* Every thread's exit lowers the counter by one and the owner only frees what
\* no thread holds.
LEMMA TeardownStep == TypeOK /\ TeardownInv /\ [Next]_vars => TeardownInv'
<1> SUFFICES ASSUME TypeOK, TeardownInv, [Next]_vars PROVE TeardownInv'
  BY Zenon
<1> USE DEF vars, poolVars
<1>0. /\ worker \in [Workers -> WorkerState]
      /\ loop \in [Loops -> {"absent", "running", "leaving", "exited"}]
  BY Zenon DEF TypeOK
<1>1. ASSUME UNCHANGED alive, LiveWorkers' = LiveWorkers, LiveLoops' = LiveLoops
      PROVE  alive' = Cardinality(LiveWorkers') + Cardinality(LiveLoops')
  BY <1>1, Zenon DEF TeardownInv
<1>2. ASSUME NEW w \in Workers, WorkerExit(w) PROVE TeardownInv'
  <2>1. LiveWorkers' = LiveWorkers \ {w} /\ w \in LiveWorkers
    BY <1>0, <1>2, Zenon DEF WorkerExit, LiveWorkers
  <2>2. Cardinality(LiveWorkers') = Cardinality(LiveWorkers) - 1
    BY <2>1, LiveFinite, FS_RemoveElement, Zenon
  <2>3. LiveLoops' = LiveLoops
    BY <1>2, Zenon DEF WorkerExit, LiveLoops
  <2>4. alive' = Cardinality(LiveWorkers') + Cardinality(LiveLoops')
    BY <1>2, <2>2, <2>3, LiveFinite DEF WorkerExit, TeardownInv
  <2>5. QED
    BY <1>0, <1>2, <2>4, Zenon DEF WorkerExit, TeardownInv, Gone
<1>3. ASSUME NEW l \in Loops, LoopExit(l) PROVE TeardownInv'
  <2>1. LiveLoops' = LiveLoops \ {l} /\ l \in LiveLoops
    BY <1>0, <1>3, Zenon DEF LoopExit, LiveLoops
  <2>2. Cardinality(LiveLoops') = Cardinality(LiveLoops) - 1
    BY <2>1, LiveFinite, FS_RemoveElement, Zenon
  <2>3. LiveWorkers' = LiveWorkers
    BY <1>3, Zenon DEF LoopExit, LiveWorkers
  <2>4. alive' = Cardinality(LiveWorkers') + Cardinality(LiveLoops')
    BY <1>3, <2>2, <2>3, LiveFinite DEF LoopExit, TeardownInv
  <2>5. QED
    BY <1>0, <1>3, <2>4, Zenon DEF LoopExit, TeardownInv, Gone
<1>4. ASSUME NEW w \in Workers,
             StartWorker(w) \/ WorkerWait(w) \/ SpuriousWakeup(w)
             \/ WorkerTake(w) \/ WorkerFinish(w) \/ WorkerLeave(w)
      PROVE  TeardownInv'
  <2>1. LiveWorkers' = LiveWorkers
    BY <1>0, <1>4, Zenon DEF StartWorker, WorkerWait, SpuriousWakeup, WorkerTake,
                      WorkerFinish, WorkerLeave, LiveWorkers
  <2>2. UNCHANGED <<alive, loop, owner>> /\ LiveLoops' = LiveLoops
    BY <1>4, Zenon DEF StartWorker, WorkerWait, SpuriousWakeup, WorkerTake,
                WorkerFinish, WorkerLeave, LiveLoops
  <2>3. owner /= "freed" \/ UNCHANGED worker
    BY <1>0, <1>4, Zenon DEF StartWorker, WorkerWait, SpuriousWakeup, WorkerTake,
                WorkerFinish, WorkerLeave, TeardownInv, Gone
  <2>4. QED
    BY <1>1, <2>1, <2>2, <2>3, Zenon DEF TeardownInv, Gone
<1>5. ASSUME NEW l \in Loops, StartLoop(l) \/ LoopLeave(l) PROVE TeardownInv'
  <2>1. LiveLoops' = LiveLoops
    BY <1>0, <1>5, Zenon DEF StartLoop, LoopLeave, LiveLoops
  <2>2. UNCHANGED <<alive, worker, owner>> /\ LiveWorkers' = LiveWorkers
    BY <1>5, Zenon DEF StartLoop, LoopLeave, LiveWorkers
  <2>3. owner \notin {"teardown", "joining", "freed"}
    BY <1>0, <1>5, Zenon DEF StartLoop, LoopLeave, TeardownInv, Gone
  <2>4. QED
    BY <1>1, <2>1, <2>2, <2>3, Zenon DEF TeardownInv
<1>6. ASSUME NEW l \in Loops, NEW t \in Task, TryEnqueue(l, t) \/ Enqueue(l, t)
      PROVE  TeardownInv'
  <2>1. UNCHANGED <<alive, loop, owner>> /\ LiveLoops' = LiveLoops
    BY <1>6, Zenon DEF TryEnqueue, Enqueue, LiveLoops
  <2>2. owner \notin {"teardown", "joining", "freed"}
    BY <1>0, <1>6, Zenon DEF TryEnqueue, Enqueue, TeardownInv, Gone
  <2>3. LiveWorkers' = LiveWorkers
    BY <1>0, <1>6, Zenon DEF TryEnqueue, Enqueue, AddAndSignal, Waiting, LiveWorkers
  <2>4. QED
    BY <1>1, <2>1, <2>2, <2>3, Zenon DEF TeardownInv
<1>7. CASE SignalStop \/ ShutdownSignal
  <2>1. LiveWorkers' = LiveWorkers
    BY <1>0, <1>7, Zenon DEF SignalStop, ShutdownSignal, SignalStopAt,
                      WakeAllSleepers, LiveWorkers
  <2>2. UNCHANGED <<alive, loop>> /\ LiveLoops' = LiveLoops
    BY <1>7, Zenon DEF SignalStop, ShutdownSignal, SignalStopAt, LiveLoops
  <2>3. QED
    BY <1>1, <1>7, <2>1, <2>2, Zenon
    DEF SignalStop, ShutdownSignal, SignalStopAt, TeardownInv, Gone
<1>8. CASE StartDone \/ StartFails \/ RequestStop \/ AllExited \/ Detach
           \/ UnwindJoined \/ ShutdownJoined \/ Returned \/ UNCHANGED vars
  <2> USE DEF StartDone, StartFails, RequestStop, AllExited, Detach,
              UnwindJoined, ShutdownJoined, Returned
  <2>1. UNCHANGED <<alive, loop, worker>>
    BY <1>8, Zenon
  <2>2. LiveWorkers' = LiveWorkers /\ LiveLoops' = LiveLoops
    BY <2>1, Zenon DEF LiveWorkers, LiveLoops
  <2>3. QED
    BY <1>1, <1>8, <2>1, <2>2, Zenon DEF TeardownInv, Gone
<1>9. QED
  BY <1>2, <1>3, <1>4, <1>5, <1>6, <1>7, <1>8, Zenon DEF Next

\* The teardown invariant holds in every reachable state.
LEMMA TeardownInvariant == SafetySpec => []TeardownInv
<1>1. Init => TeardownInv
  <2> SUFFICES ASSUME Init PROVE TeardownInv
    BY Zenon
  <2>1. LiveWorkers = Workers /\ LiveLoops = Loops
    BY Zenon DEF Init, LiveWorkers, LiveLoops
  <2>2. Cardinality(Workers) \in Nat /\ Cardinality(Loops) \in Nat
    BY PoolAssumption, FS_CardinalityType, Zenon
  <2>3. QED
    BY <2>1, <2>2 DEF Init, TeardownInv
<1>2. QED
  BY <1>1, TeardownStep, TypeCorrect, PTL DEF SafetySpec

\* When waitFor reads the live-thread counter at 0, every thread has left.
THEOREM CounterExact == SafetySpec => []JoinNeverBlocks
<1>1. TeardownInv => JoinNeverBlocks
  <2> SUFFICES ASSUME TeardownInv, alive = 0
               PROVE  LiveWorkers = {} /\ LiveLoops = {}
    BY Zenon DEF JoinNeverBlocks, LiveWorkers, LiveLoops
  <2>1. Cardinality(LiveWorkers) = 0 /\ Cardinality(LiveLoops) = 0
    BY LiveFinite DEF TeardownInv
  <2>2. QED
    BY <2>1, LiveFinite, FS_EmptySet, Zenon
<1>2. QED
  BY <1>1, TeardownInvariant, PTL

\* The shared resources are freed only after every started thread has left,
\* after a clean stop as after a failed start.
THEOREM NoUseAfterFree == SafetySpec => []FreedAfterThreads
<1>1. TeardownInv => FreedAfterThreads
  BY Zenon DEF TeardownInv, FreedAfterThreads
<1>2. QED
  BY <1>1, TeardownInvariant, PTL
=============================================================================
