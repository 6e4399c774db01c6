------------------------- MODULE ConnectionsProofs -------------------------
(***************************************************************************)
(* Proofs about the HTTP/1 connections of an event loop, for any number of *)
(* descriptors, connections, requests, tasks and off-loop sends.           *)
(***************************************************************************)
EXTENDS ConnectionsSteps

-----------------------------------------------------------------------------
(* Tasks and messages.                                                      *)

\* A step that leaves the slots and the agenda alone keeps what is said of them.
LEMMA SlotsStay ==
    ASSUME IInv, NEW fd \in Fds, NEW d, Changes(fd, d), Core(d),
           Owed(d, Op(fd)', Then(fd)'),
           \A g \in Fds : g /= fd => /\ Op(g) = "none" /\ Then(g) = "none"
                                     /\ Op(g)' = "none" /\ Then(g)' = "none"
    PROVE  SlotsOK'
<1>1. conn'[fd] = d /\ \A g \in Fds : g /= fd => conn'[g] = conn[g]
  BY Zenon DEF Changes
<1>2. ASSUME NEW g \in Fds PROVE Core(conn'[g]) /\ Owed(conn'[g], Op(g)', Then(g)')
  <2>1. CASE g = fd
    BY <1>1, <2>1, Zenon
  <2>2. CASE g /= fd
    <3>1. Core(conn[g]) /\ Owed(conn[g], Op(g), Then(g))
      BY Zenon DEF IInv, AnswerInv, SlotsOK
    <3>2. conn'[g] = conn[g] /\ Op(g)' = Op(g) /\ Then(g)' = Then(g)
      BY <1>1, <2>2, Zenon
    <3> QED BY <3>1, <3>2, Zenon
  <2> QED BY <2>1, <2>2, Zenon
<1> QED BY <1>2, Zenon DEF SlotsOK

\* A slot that goes on with its connection keeps every handle known.
LEMMA KnownKept ==
    ASSUME IInv, NEW fd \in Fds, NEW d, IsSlot(d), Changes(fd, d),
           (conn[fd].state /= "free" /\ d.state /= "free") \/ conn[fd].state = d.state,
           d.gen = conn[fd].gen, Moved(conn[fd], d),
           NEW h \in handles
    PROVE  Known(conn'[h.fd], h)
<1> DEFINE c == conn[fd]
<1>1. h \in Handle /\ h.fd \in Fds /\ Known(conn[h.fd], h) /\ IsSlot(c)
  BY Zenon DEF IInv, PinInv, TypeOK, Handle, AnswerInv, HandlesOK
<1>2. conn'[fd] = d /\ \A g \in Fds : g /= fd => conn'[g] = conn[g]
  BY Zenon DEF Changes
<1>3. CASE h.fd /= fd
  BY <1>1, <1>2, <1>3, Zenon
<1>4. CASE h.fd = fd
  <2>1. c.gen \in Nat /\ c.serial \in Nat /\ d.serial \in Nat
        /\ h.gen \in Nat /\ h.serial \in Nat /\ Known(c, h)
    BY <1>1, <1>4, Zenon DEF IsSlot, Handle
  <2>2. CASE c.state /= "free" /\ d.state /= "free"
    <3>1. Known(d, h)
      BY <2>1, <2>2, SMTT(30) DEF Known, Moved
    <3> QED BY <1>2, <1>4, <3>1, Zenon
  <2>3. CASE c.state = "free" /\ d.state = "free"
    <3>1. Known(d, h)
      BY <2>1, <2>3 DEF Known
    <3> QED BY <1>2, <1>4, <3>1, Zenon
  <2> QED BY <2>2, <2>3, Zenon
<1> QED BY <1>3, <1>4, Zenon

\* A pin changes nothing else of its slot.
LEMMA PinFields ==
    ASSUME NEW c, IsSlot(c), NEW p \in [Kind -> Nat]
    PROVE  LET d == [c EXCEPT !.pins = p]
           IN  /\ IsSlot(d) /\ d.pins = p
               /\ d.wire = c.wire /\ d.out = c.out /\ d.state = c.state
               /\ d.serial = c.serial /\ d.gen = c.gen /\ d.keepAlive = c.keepAlive
               /\ d.parsed = c.parsed /\ d.unread = c.unread /\ d.malformed = c.malformed
               /\ d.awaiting = c.awaiting /\ d.responded = c.responded
               /\ d.closeAfterFlush = c.closeAfterFlush
               /\ d.closeRequested = c.closeRequested /\ d.seen = c.seen
               /\ d.deadline = c.deadline /\ d.shut = c.shut /\ d.dead = c.dead
               /\ d.registered = c.registered /\ d.writeArmed = c.writeArmed
<1> DEFINE d == [c EXCEPT !.pins = p]
<1>1. IsSlot(d)
  BY Zenon DEF IsSlot, FreeSlot
<1>2. /\ d.pins = p
      /\ d.wire = c.wire /\ d.out = c.out /\ d.state = c.state
      /\ d.serial = c.serial /\ d.gen = c.gen /\ d.keepAlive = c.keepAlive
      /\ d.parsed = c.parsed /\ d.unread = c.unread /\ d.malformed = c.malformed
      /\ d.awaiting = c.awaiting /\ d.responded = c.responded
      /\ d.closeAfterFlush = c.closeAfterFlush
      /\ d.closeRequested = c.closeRequested /\ d.seen = c.seen
      /\ d.deadline = c.deadline /\ d.shut = c.shut /\ d.dead = c.dead
      /\ d.registered = c.registered /\ d.writeArmed = c.writeArmed
  BY Zenon DEF IsSlot, FreeSlot
<1> QED BY <1>1, <1>2, Zenon

\* The new task names the request it was dispatched for.
LEMMA TaskOfHandle ==
    ASSUME IInv, NEW h \in Handle, NEW k, AddTask(h, k), h \in handles',
           handles \subseteq handles'
    PROVE  \A t \in tasks' : HandleOf(t) \in handles'
<1> DEFINE t == [id |-> taskIds, fd |-> h.fd, gen |-> h.gen, serial |-> h.serial,
                 kind |-> k, answered |-> FALSE]
<1>1. tasks' = tasks \union {t}
  BY Zenon DEF AddTask
<1>2. HandleOf(t) = h
  BY Zenon DEF HandleOf, Handle
<1>3. \A u \in tasks : HandleOf(u) \in handles
  BY Zenon DEF IInv, AnswerInv, HandlesOK
<1> QED BY <1>1, <1>2, <1>3, Zenon

\* processInput has taken up the request of slot c, which is now q.
Taken(c, q) ==
    /\ q.parsed /\ ~q.malformed /\ ~q.awaiting /\ q.seen = Append(c.seen, c.serial)
    /\ q.wire = c.wire /\ q.out = c.out /\ q.state = c.state /\ q.serial = c.serial
    /\ q.gen = c.gen /\ q.responded = c.responded /\ q.shut = c.shut
    /\ q.closeAfterFlush = c.closeAfterFlush /\ q.closeRequested = c.closeRequested
    /\ q.deadline = "none"

\* Its turn ends with slot d; `again` when there is another request to take up.
Turned(c, d, again) ==
    /\ Core(d) /\ d.state /= "free" /\ ~d.closeRequested /\ d.gen = c.gen /\ Moved(c, d)
    /\ \/ d.serial = c.serial /\ (d.awaiting \/ d.responded)
       \/ d.serial = c.serial + 1 /\ c.state = "active"
    /\ ~(d.deadline = "response" /\ ~d.responded /\ ~d.awaiting)
    /\ d.state \in {"active", "closing"} /\ d.shut = 0 => c.state = "active"
    /\ d.state = "active" /\ ~d.awaiting /\ Buffered(d) => again
    /\ again => c.state = "active"

TurnOf(a) ==
    LET e == ResetForNextRequest(a)
    IN  IF ~a.responded
        THEN [a EXCEPT !.awaiting = TRUE,
                       !.deadline = IF TotalPins(a) = 0 THEN "response" ELSE @]
        ELSE IF a.closeAfterFlush THEN [a EXCEPT !.state = "closing"]
        ELSE IF ~Buffered(e) THEN [e EXCEPT !.deadline = "idle"] ELSE e
Again(a) == a.responded /\ ~a.closeAfterFlush /\ Buffered(ResetForNextRequest(a))

\* A slot with other pins.
WithPins(c, p) == [c EXCEPT !.pins = p]

\* What the other threads leave alone.
LEMMA LoopUntouched ==
    ASSUME IInv, UNCHANGED <<conn, agenda, handles>>
    PROVE  SlotsOK' /\ ApplyOK' /\ \A h \in handles' : Known(conn'[h.fd], h)
<1>1. \A fd \in Fds : Op(fd)' = Op(fd) /\ Then(fd)' = Then(fd)
  BY Zenon DEF Op, Then
<1>2. SlotsOK'
  BY <1>1, Zenon DEF IInv, AnswerInv, SlotsOK
<1>3. ApplyOK'
  BY Zenon DEF IInv, AnswerInv, ApplyOK
<1>4. \A h \in handles' : Known(conn'[h.fd], h)
  BY Zenon DEF IInv, AnswerInv, HandlesOK
<1> QED BY <1>2, <1>3, <1>4, Zenon

\* A stop is requested, or its grace period is over.
LEMMA DrainPreserves ==
    ASSUME IInv, BeginDrain \/ GraceExpires
    PROVE  IInv'
<1>1. /\ UNCHANGED <<conn, agenda, exited>> /\ UNCHANGED workVars
      /\ marking' \subseteq Fds /\ {draining', graceOver'} \subseteq BOOLEAN
      /\ marking' = marking \/ (agenda = <<>> /\ ~exited)
  BY Zenon DEF BeginDrain, GraceExpires, Quiescent, IInv, PinInv, TypeOK
<1>2. UNCHANGED <<tasks, outbox, handles, taskIds, offIds>>
  BY <1>1, Zenon DEF workVars
<1>3. TypeOK'
  BY <1>1, <1>2, Zenon DEF IInv, PinInv, TypeOK
<1>4. AgendaOK'
  BY <1>1, Zenon DEF IInv, PinInv, AgendaOK
<1>5. TasksOK' /\ PinsBalanced' /\ PinnedSlotHeld'
  <2>1. TasksOK /\ PinsBalanced /\ PinnedSlotHeld
    BY Zenon DEF IInv, PinInv
  <2>2. TasksOK'
    BY <1>1, <1>2, <2>1, Zenon DEF TasksOK
  <2>3. PinsBalanced'
    BY <1>1, <1>2, <2>1, Zenon DEF PinsBalanced, Holders
  <2> QED BY <1>1, <1>2, <2>1, <2>2, <2>3, Zenon DEF PinnedSlotHeld
<1>6. HandlesOK'
  BY <1>1, <1>2, LoopUntouched, Zenon DEF HandlesOK, IInv, AnswerInv
<1> QED BY <1>1, <1>2, <1>3, <1>4, <1>5, <1>6, LoopUntouched, Zenon DEF IInv, PinInv, AnswerInv

\* A step that changes nothing keeps it.
LEMMA IInvStutters ==
    ASSUME IInv, UNCHANGED vars
    PROVE  IInv'
<1>1. TypeOK' /\ AgendaOK' /\ TasksOK'
  BY Zenon DEF IInv, PinInv, TypeOK, AgendaOK, TasksOK, vars
<1>2. PinsBalanced' /\ PinnedSlotHeld'
  BY Zenon DEF IInv, PinInv, PinsBalanced, Holders, PinnedSlotHeld, vars
<1>3. SlotsOK' /\ ApplyOK' /\ HandlesOK'
  BY Zenon DEF IInv, AnswerInv, SlotsOK, Op, Then, ApplyOK, HandlesOK, vars
<1> QED BY <1>1, <1>2, <1>3, Zenon DEF IInv, PinInv, AnswerInv

-----------------------------------------------------------------------------
(* Counting what holds a pin. The facts about finite sets that the counts    *)
(* rest on are collected in Counting. CountingHolds, at the end of the       *)
(* module, proves it from the library: bringing the library in here would    *)
(* make every proof below carry it.                                          *)

\* What is used of cardinalities: of the empty set, of a subset, of an interval, of a set
\* with one element more or less, and of two sets that correspond one to one.
Counting ==
    /\ IsFiniteSet({}) /\ Cardinality({}) = 0
    /\ \A n \in Nat : IsFiniteSet(1..n)
    /\ \A S : IsFiniteSet(S) =>
         /\ Cardinality(S) \in Nat /\ (Cardinality(S) = 0 => S = {})
         /\ \A T \in SUBSET S : IsFiniteSet(T)
         /\ \A x : /\ IsFiniteSet(S \union {x}) /\ IsFiniteSet(S \ {x})
                   /\ x \notin S => Cardinality(S \union {x}) = Cardinality(S) + 1
                   /\ x \in S => Cardinality(S \ {x}) = Cardinality(S) - 1
         /\ \A T, f : /\ f \in [S -> T] /\ \A a, b \in S : f[a] = f[b] => a = b
                      /\ \A y \in T : \E a \in S : f[a] = y
                      => Cardinality(T) = Cardinality(S)

\* A set with one element more.
LEMMA CountAdd ==
    ASSUME Counting, NEW S, IsFiniteSet(S), NEW x
    PROVE  /\ IsFiniteSet(S \union {x})
           /\ x \notin S => Cardinality(S \union {x}) = Cardinality(S) + 1
  BY Zenon DEF Counting

\* A set with one element less.
LEMMA CountRemove ==
    ASSUME Counting, NEW S, IsFiniteSet(S), NEW x
    PROVE  /\ IsFiniteSet(S \ {x})
           /\ x \in S => Cardinality(S \ {x}) = Cardinality(S) - 1
  BY Zenon DEF Counting

\* A subset of a finite set, and its size.
LEMMA CountSubset ==
    ASSUME Counting, NEW S, IsFiniteSet(S), NEW T \in SUBSET S
    PROVE  IsFiniteSet(T) /\ Cardinality(T) \in Nat /\ (Cardinality(T) = 0 => T = {})
  BY Zenon DEF Counting

\* Two sets that correspond one to one have as many elements.
LEMMA CountMatched ==
    ASSUME Counting, NEW S, IsFiniteSet(S), NEW T, NEW f \in [S -> T],
           \A a, b \in S : f[a] = f[b] => a = b, \A y \in T : \E a \in S : f[a] = y
    PROVE  Cardinality(T) = Cardinality(S)
<1>1. \A U, g : /\ g \in [S -> U] /\ \A a, b \in S : g[a] = g[b] => a = b
                /\ \A y \in U : \E a \in S : g[a] = y
                => Cardinality(U) = Cardinality(S)
  BY Zenon DEF Counting
<1> QED BY <1>1, Zenon

Releasing(q, fd, k) == {i \in 1..Len(q) : q[i].fd = fd /\ q[i].release = k}
Running(ts, fd, k) == {t \in ts : t.fd = fd /\ t.kind = k}
Matches(m, fd, k) == m.fd = fd /\ m.release = k

\* A queue holds finitely many releases, so they can be counted.
LEMMA ReleasingFinite ==
    ASSUME Counting, NEW q \in Seq(Msg), NEW fd, NEW k
    PROVE  IsFiniteSet(Releasing(q, fd, k)) /\ Cardinality(Releasing(q, fd, k)) \in Nat
<1>1. Len(q) \in Nat
  BY SeqElements, Zenon
<1>2. IsFiniteSet(1..Len(q))
  BY <1>1, Zenon DEF Counting
<1>3. Releasing(q, fd, k) \in SUBSET (1..Len(q))
  BY Zenon DEF Releasing
<1>4. IsFiniteSet(Releasing(q, fd, k))
  BY <1>2, <1>3, CountSubset, Zenon
<1> QED BY <1>4, Zenon DEF Counting

\* A pushed message adds its own release.
LEMMA ReleasingAppend ==
    ASSUME Counting, NEW q \in Seq(Msg), NEW m \in Msg, NEW fd, NEW k
    PROVE  Cardinality(Releasing(Append(q, m), fd, k)) =
             IF Matches(m, fd, k) THEN Cardinality(Releasing(q, fd, k)) + 1
             ELSE Cardinality(Releasing(q, fd, k))
<1> DEFINE S == Releasing(q, fd, k)  n == Len(q)  p == Append(q, m)
<1>1. /\ n \in Nat /\ Len(p) = n + 1 /\ p[n + 1] = m
      /\ \A i \in 1..n : p[i] = q[i]
  BY AppendIsSeq, SeqElements, SMTT(30)
<1>2. Releasing(p, fd, k) = {i \in 1..(n + 1) : p[i].fd = fd /\ p[i].release = k}
  BY <1>1, Zenon DEF Releasing
<1> HIDE DEF p
<1>3. n + 1 \notin S
  BY <1>1, SMTT(30) DEF Releasing
<1>4. CASE Matches(m, fd, k)
  <2>1. Releasing(p, fd, k) = S \union {n + 1}
    BY <1>1, <1>2, <1>4, SMTT(30) DEF Releasing, Matches
  <2> QED BY <1>3, <1>4, <2>1, ReleasingFinite, CountAdd, Zenon DEF p
<1>5. CASE ~Matches(m, fd, k)
  <2>1. Releasing(p, fd, k) = S
    BY <1>1, <1>2, <1>5, SMTT(30) DEF Releasing, Matches
  <2> QED BY <1>5, <2>1, Zenon DEF p
<1> QED BY <1>4, <1>5, Zenon

\* A message taken from the front takes its release with it.
LEMMA ReleasingTail ==
    ASSUME Counting, NEW q \in Seq(Msg), q /= <<>>, NEW fd, NEW k
    PROVE  Cardinality(Releasing(Tail(q), fd, k)) =
             IF Matches(Head(q), fd, k) THEN Cardinality(Releasing(q, fd, k)) - 1
             ELSE Cardinality(Releasing(q, fd, k))
<1> DEFINE S == Releasing(q, fd, k) \ {1}  n == Len(q)  r == Tail(q)
           T == Releasing(r, fd, k)
           f == [i \in T |-> i + 1]
<1>1. /\ n \in Nat \ {0} /\ Len(r) = n - 1 /\ Head(q) = q[1] /\ r \in Seq(Msg)
      /\ \A i \in 1..(n - 1) : r[i] = q[i + 1]
  BY TailIsSeq, SeqElements, Zenon
<1>2. T = {i \in 1..(n - 1) : q[i + 1].fd = fd /\ q[i + 1].release = k}
  BY <1>1, Zenon DEF Releasing
<1>3. S = {j \in 2..n : q[j].fd = fd /\ q[j].release = k}
  BY <1>1, SMTT(30) DEF Releasing
<1>4. IsFiniteSet(T)
  BY <1>1, ReleasingFinite, Zenon
<1> HIDE DEF r, S, T, n
<1>5. f \in [T -> S]
  BY <1>1, <1>2, <1>3, SMTT(30)
<1>6. \A a, b \in T : f[a] = f[b] => a = b
  BY <1>1, <1>2, SMTT(30)
<1>7. ASSUME NEW j \in S PROVE \E i \in T : f[i] = j
  <2>1. j - 1 \in T /\ (j - 1) + 1 = j
    BY <1>1, <1>2, <1>3, SMTT(30)
  <2> QED BY <2>1, Zenon
<1> HIDE DEF f
<1>8. Cardinality(S) = Cardinality(T)
  BY <1>4, <1>5, <1>6, <1>7, CountMatched, Zenon
<1>9. Cardinality(S) = IF 1 \in Releasing(q, fd, k) THEN Cardinality(Releasing(q, fd, k)) - 1
                        ELSE Cardinality(Releasing(q, fd, k))
  BY ReleasingFinite, CountRemove, Zenon DEF S
<1>10. 1 \in Releasing(q, fd, k) <=> Matches(Head(q), fd, k)
  BY <1>1 DEF Releasing, Matches, n
<1> QED BY <1>8, <1>9, <1>10, Zenon DEF T, r

\* Finitely many tasks hold a pin.
LEMMA RunningFinite ==
    ASSUME Counting, NEW ts, IsFiniteSet(ts), NEW fd, NEW k
    PROVE  IsFiniteSet(Running(ts, fd, k)) /\ Cardinality(Running(ts, fd, k)) \in Nat
<1>1. Running(ts, fd, k) \in SUBSET ts
  BY Zenon DEF Running
<1>2. IsFiniteSet(Running(ts, fd, k))
  BY <1>1, CountSubset, Zenon
<1> QED BY <1>2, Zenon DEF Counting

\* A new task is one more holder of its kind of pin on its slot, and of no other.
LEMMA RunningAdd ==
    ASSUME Counting, NEW ts, IsFiniteSet(ts), NEW t, t \notin ts, NEW fd, NEW k
    PROVE  Cardinality(Running(ts \union {t}, fd, k)) =
             IF t.fd = fd /\ t.kind = k THEN Cardinality(Running(ts, fd, k)) + 1
             ELSE Cardinality(Running(ts, fd, k))
<1> DEFINE S == Running(ts, fd, k)
<1>1. CASE t.fd = fd /\ t.kind = k
  <2>1. Running(ts \union {t}, fd, k) = S \union {t} /\ t \notin S
    BY <1>1, Zenon DEF Running
  <2>2. IsFiniteSet(S)
    BY RunningFinite, Zenon
  <2> HIDE DEF S
  <2>3. Cardinality(S \union {t}) = Cardinality(S) + 1
    BY <2>1, <2>2, CountAdd, Zenon
  <2> QED BY <1>1, <2>1, <2>3, Zenon DEF S
<1>2. CASE ~(t.fd = fd /\ t.kind = k)
  <2>1. Running(ts \union {t}, fd, k) = S
    BY <1>2, Zenon DEF Running
  <2> QED BY <1>2, <2>1, Zenon
<1> QED BY <1>1, <1>2, Zenon

\* A task that finished is one holder less.
LEMMA RunningRemove ==
    ASSUME Counting, NEW ts, IsFiniteSet(ts), NEW t \in ts, NEW fd, NEW k
    PROVE  Cardinality(Running(ts \ {t}, fd, k)) =
             IF t.fd = fd /\ t.kind = k THEN Cardinality(Running(ts, fd, k)) - 1
             ELSE Cardinality(Running(ts, fd, k))
<1> DEFINE S == Running(ts, fd, k)
<1>1. CASE t.fd = fd /\ t.kind = k
  <2>1. Running(ts \ {t}, fd, k) = S \ {t} /\ t \in S
    BY <1>1, Zenon DEF Running
  <2> QED BY <1>1, <2>1, RunningFinite, CountRemove, Zenon
<1>2. CASE ~(t.fd = fd /\ t.kind = k)
  <2>1. Running(ts \ {t}, fd, k) = S
    BY <1>2, Zenon DEF Running
  <2> QED BY <1>2, <2>1, Zenon
<1> QED BY <1>1, <1>2, Zenon

\* Whoever holds a pin on a slot keeps its counters above zero.
LEMMA HeldIsPinned ==
    ASSUME Counting, PinInv, NEW fd \in Fds
    PROVE  /\ (\E t \in tasks : t.fd = fd) => TotalPins(conn[fd]) > 0
           /\ (\E i \in 1..Len(outbox) : outbox[i].fd = fd /\ outbox[i].release /= NoPin)
                => TotalPins(conn[fd]) > 0
<1> DEFINE p == conn[fd].pins
<1>1. /\ p["blocking"] \in Nat /\ p["await"] \in Nat
      /\ TotalPins(conn[fd]) = p["blocking"] + p["await"]
  BY Zenon DEF PinInv, TypeOK, IsSlot, TotalPins, Kind
<1>2. \A k \in Kind : p[k] = Cardinality(Running(tasks, fd, k))
                               + Cardinality(Releasing(outbox, fd, k))
  BY Zenon DEF PinInv, PinsBalanced, Holders, Running, Releasing
<1>3. \A k \in Kind : /\ IsFiniteSet(Running(tasks, fd, k))
                      /\ Cardinality(Running(tasks, fd, k)) \in Nat
                      /\ IsFiniteSet(Releasing(outbox, fd, k))
                      /\ Cardinality(Releasing(outbox, fd, k)) \in Nat
  BY RunningFinite, ReleasingFinite, Zenon DEF PinInv, TasksOK, TypeOK
<1>4. ASSUME NEW k \in Kind, Running(tasks, fd, k) /= {} \/ Releasing(outbox, fd, k) /= {}
      PROVE  TotalPins(conn[fd]) > 0
  <2> DEFINE a == Cardinality(Running(tasks, fd, k))  b == Cardinality(Releasing(outbox, fd, k))
  <2>1. a \in Nat /\ b \in Nat /\ (a /= 0 \/ b /= 0) /\ p[k] = a + b
    BY <1>2, <1>3, <1>4, Zenon DEF Counting
  <2> HIDE DEF a, b, p
  <2>2. p[k] > 0
    BY <2>1
  <2> QED BY <1>1, <2>2, SMTT(30) DEF Kind
<1>5. (\E t \in tasks : t.fd = fd) => \E k \in Kind : Running(tasks, fd, k) /= {}
  BY Zenon DEF PinInv, TypeOK, Task, Running
<1>6. (\E i \in 1..Len(outbox) : outbox[i].fd = fd /\ outbox[i].release /= NoPin)
        => \E k \in Kind : Releasing(outbox, fd, k) /= {}
  <2> SUFFICES ASSUME NEW i \in 1..Len(outbox), outbox[i].fd = fd, outbox[i].release /= NoPin
               PROVE  \E k \in Kind : Releasing(outbox, fd, k) /= {}
    BY Zenon
  <2>1. outbox[i] \in Msg
    BY SeqElements, Zenon DEF PinInv, TypeOK
  <2>2. outbox[i].release \in Kind
    BY <2>1, Zenon DEF Msg
  <2>3. i \in Releasing(outbox, fd, outbox[i].release)
    BY Zenon DEF Releasing
  <2> QED BY <2>2, <2>3, Zenon
<1> QED BY <1>4, <1>5, <1>6, Zenon

\* The pins stay balanced, and held, when slots go on or are given back.
LEMMA SlotsKeepPins ==
    ASSUME Counting, PinInv, DOMAIN conn' = Fds, \A g \in Fds : IsSlot(conn'[g]),
           \A g \in Fds : Same(conn[g], conn'[g]) \/ Recycled(conn[g], conn'[g]),
           UNCHANGED <<tasks, outbox>>,
           exited' => exited \/ \A g \in Fds : conn'[g].state = "free"
    PROVE  PinsBalanced' /\ PinnedSlotHeld'
<1>1. /\ \A g \in Fds : IsSlot(conn[g])
      /\ tasks \subseteq Task /\ outbox \in Seq(Msg)
  BY Zenon DEF PinInv, TypeOK
<1>2. ASSUME NEW c, IsSlot(c), NEW d, Same(c, d) \/ Recycled(c, d)
      PROVE  d.pins = c.pins /\ (TotalPins(c) > 0 => Same(c, d))
  <2>1. CASE Same(c, d)
    BY <2>1, Zenon DEF Same
  <2>2. CASE Recycled(c, d)
    <3>1. PICK n \in Nat : d = Emptied(c.gen + 1, n)
      BY <2>2, Zenon DEF Recycled
    <3>2. d.pins = [k \in Kind |-> 0]
      BY <3>1, Zenon DEF Emptied, FreeSlot
    <3>3. c.pins["blocking"] + c.pins["await"] = 0 /\ TotalPins(c) = 0
      BY <2>2, Zenon DEF Recycled, TotalPins
    <3>4. c.pins \in [Kind -> Nat]
      BY <1>2, Zenon DEF IsSlot
    <3>5. c.pins["blocking"] \in Nat /\ c.pins["await"] \in Nat
      BY <3>4, Zenon DEF Kind
    <3>6. c.pins["blocking"] = 0 /\ c.pins["await"] = 0
      BY <3>3, <3>5, SMTT(30)
    <3>7. d.pins = c.pins
      BY <3>2, <3>4, <3>6, Zenon DEF Kind
    <3> QED BY <3>3, <3>7, SMTT(30)
  <2> QED BY <1>2, <2>1, <2>2, Zenon
<1>3. \A g \in Fds : /\ conn'[g].pins = conn[g].pins
                     /\ TotalPins(conn[g]) > 0 => Same(conn[g], conn'[g])
  BY <1>1, <1>2, Zenon
<1>4. PinsBalanced'
  BY <1>3, SMTT(30) DEF PinInv, PinsBalanced, Holders
<1>5. ASSUME NEW x, x.fd \in Fds, Live(conn[x.fd], x), TotalPins(conn[x.fd]) > 0
      PROVE  Live(conn'[x.fd], x)
  BY <1>3, <1>5, Zenon DEF Same, Live
<1>6. ASSUME NEW t \in tasks PROVE t.fd \in Fds /\ Live(conn'[t.fd], t)
  <2>1. t.fd \in Fds /\ Live(conn[t.fd], t)
    BY <1>1, Zenon DEF Task, PinInv, PinnedSlotHeld
  <2>2. TotalPins(conn[t.fd]) > 0
    BY <2>1, HeldIsPinned, Zenon
  <2> QED BY <1>5, <2>1, <2>2, Zenon
<1>7. ASSUME NEW i \in 1..Len(outbox), outbox[i].release /= NoPin
      PROVE  outbox[i].fd \in Fds /\ Live(conn'[outbox[i].fd], outbox[i])
  <2>0. outbox[i] \in Msg
    BY <1>1, SeqElements, Zenon
  <2>1. outbox[i].fd \in Fds /\ Live(conn[outbox[i].fd], outbox[i])
    BY <1>7, <2>0, Zenon DEF Msg, PinInv, PinnedSlotHeld
  <2>2. TotalPins(conn[outbox[i].fd]) > 0
    BY <1>7, <2>1, HeldIsPinned, Zenon
  <2> QED BY <1>5, <2>1, <2>2, Zenon
<1>8. exited' => tasks = {} /\ \A i \in 1..Len(outbox) : outbox[i].release = NoPin
  <2>1. CASE exited
    BY <2>1, Zenon DEF PinInv, PinnedSlotHeld
  <2>2. CASE \A g \in Fds : conn'[g].state = "free"
    BY <1>6, <1>7, <2>2, Zenon DEF Live
  <2> QED BY <2>1, <2>2, Zenon
<1>9. PinnedSlotHeld'
  BY <1>6, <1>7, <1>8, Zenon DEF PinnedSlotHeld
<1> QED BY <1>4, <1>9, Zenon

\* The pins stay balanced and held when one slot goes on or is given back.
LEMMA SlotKeepsPins ==
    ASSUME Counting, PinInv, NEW fd \in Fds, NEW d, IsSlot(d), Changes(fd, d),
           Same(conn[fd], d) \/ Recycled(conn[fd], d),
           UNCHANGED <<tasks, outbox, exited>>
    PROVE  /\ DOMAIN conn' = Fds /\ \A g \in Fds : IsSlot(conn'[g])
           /\ PinsBalanced' /\ PinnedSlotHeld'
<1>1. DOMAIN conn' = Fds /\ conn'[fd] = d /\ \A g \in Fds : g /= fd => conn'[g] = conn[g]
  BY Zenon DEF Changes
<1>2. \A g \in Fds : IsSlot(conn'[g])
  BY <1>1, Zenon DEF PinInv, TypeOK
<1>3. \A g \in Fds : Same(conn[g], conn'[g]) \/ Recycled(conn[g], conn'[g])
  BY <1>1, Zenon DEF Same
<1> QED BY <1>1, <1>2, <1>3, SlotsKeepPins, Zenon

\* The pins stay balanced and held in a step that keeps the rest.
LEMMA KeptPreserves ==
    ASSUME Counting, IInv, Kept
    PROVE  IInv'
<1>1. TypeOK' /\ AgendaOK' /\ TasksOK' /\ AnswerInv'
  BY Zenon DEF Kept
<1>2. DOMAIN conn' = Fds /\ \A g \in Fds : IsSlot(conn'[g])
  BY <1>1, Zenon DEF TypeOK
<1>3. UNCHANGED <<tasks, outbox, exited>>
      /\ \A g \in Fds : Same(conn[g], conn'[g]) \/ Recycled(conn[g], conn'[g])
  BY Zenon DEF Kept
<1>4. PinsBalanced' /\ PinnedSlotHeld'
  BY <1>2, <1>3, SlotsKeepPins, Zenon DEF IInv
<1> QED BY <1>1, <1>4, Zenon DEF IInv, PinInv

\* An accepted task takes its pin.
LEMMA TaskTakesPin ==
    ASSUME Counting, PinInv, NEW fd \in Fds, NEW k \in Kind, NEW h \in Handle, h.fd = fd,
           h.gen = conn[fd].gen, AddTask(h, k), NEW d, IsSlot(d), Changes(fd, d),
           conn[fd].state /= "free", d.gen = conn[fd].gen, d.state /= "free",
           d.pins = [conn[fd].pins EXCEPT ![k] = conn[fd].pins[k] + 1],
           UNCHANGED <<outbox, exited>>, ~exited
    PROVE  /\ DOMAIN conn' = Fds /\ \A g \in Fds : IsSlot(conn'[g])
           /\ tasks' \subseteq Task /\ taskIds' \in 0..MaxTask
           /\ TasksOK' /\ PinsBalanced' /\ PinnedSlotHeld'
<1> DEFINE t == [id |-> taskIds, fd |-> h.fd, gen |-> h.gen, serial |-> h.serial,
                 kind |-> k, answered |-> FALSE]
<1>1. /\ DOMAIN conn = Fds /\ \A g \in Fds : IsSlot(conn[g])
      /\ tasks \subseteq Task /\ outbox \in Seq(Msg) /\ taskIds \in 0..MaxTask
      /\ IsFiniteSet(tasks) /\ \A u \in tasks : u.id < taskIds
      /\ \A u, v \in tasks : u.id = v.id => u = v
  BY Zenon DEF PinInv, TypeOK, TasksOK
<1>2. DOMAIN conn' = Fds /\ conn'[fd] = d /\ \A g \in Fds : g /= fd => conn'[g] = conn[g]
  BY Zenon DEF Changes
<1>3. taskIds < MaxTask /\ taskIds' = taskIds + 1 /\ tasks' = tasks \union {t}
  BY Zenon DEF AddTask
<1>4. t \in Task /\ t.id = taskIds /\ t.fd = fd /\ t.kind = k /\ t.gen = h.gen
  BY <1>1, ConnAssumption DEF Task, Handle
<1> HIDE DEF t
<1>5. taskIds \in Nat /\ taskIds' \in 0..MaxTask /\ tasks' \subseteq Task
  BY <1>1, <1>3, <1>4, ConnAssumption
<1>6. t \notin tasks
  BY <1>1, <1>4, <1>5, SMTT(30)
<1>7. TasksOK'
  <2>1. IsFiniteSet(tasks')
    BY <1>1, <1>3, CountAdd, Zenon
  <2>2. \A u \in tasks' : u.id < taskIds'
    <3>1. \A u \in tasks : u.id \in Nat
      BY <1>1, Zenon DEF Task
    <3> QED BY <1>1, <1>3, <1>4, <1>5, <3>1
  <2>3. \A u, v \in tasks' : u.id = v.id => u = v
    BY <1>1, <1>3, <1>4, <1>5
  <2> QED BY <2>1, <2>2, <2>3, Zenon DEF TasksOK
<1>8. PinsBalanced'
  <2> SUFFICES ASSUME NEW g \in Fds, NEW j \in Kind
               PROVE  conn'[g].pins[j] = Cardinality(Running(tasks', g, j))
                                           + Cardinality(Releasing(outbox', g, j))
    BY Zenon DEF PinsBalanced, Holders, Running, Releasing
  <2> DEFINE x == Cardinality(Running(tasks, g, j))  y == Cardinality(Releasing(outbox, g, j))
             z == Cardinality(Running(tasks', g, j))  p == conn[g].pins
  <2>1. p[j] = x + y
    BY Zenon DEF PinInv, PinsBalanced, Holders, Running, Releasing
  <2>2. x \in Nat /\ y \in Nat
    BY <1>1, RunningFinite, ReleasingFinite, Zenon
  <2>3. z = IF t.fd = g /\ t.kind = j THEN x + 1 ELSE x
    BY <1>1, <1>3, <1>6, RunningAdd
  <2>4. conn'[g].pins[j] = IF t.fd = g /\ t.kind = j THEN p[j] + 1 ELSE p[j]
    <3>1. conn[fd].pins \in [Kind -> Nat]
      BY <1>1, Zenon DEF IsSlot
    <3> QED BY <1>2, <1>4, <3>1
  <2>5. Cardinality(Releasing(outbox', g, j)) = y
    BY Zenon
  <2> HIDE DEF x, y, z, p
  <2>6. conn'[g].pins[j] = z + y
    BY <2>1, <2>2, <2>3, <2>4, SMTT(30)
  <2> QED BY <2>5, <2>6, Zenon DEF z
<1>9. PinnedSlotHeld'
  <2>1. ASSUME NEW x, x.fd \in Fds, Live(conn[x.fd], x) PROVE Live(conn'[x.fd], x)
    BY <1>2, <2>1, Zenon DEF Live
  <2>2. ASSUME NEW u \in tasks' PROVE Live(conn'[u.fd], u)
    <3>1. CASE u = t
      BY <1>2, <1>4, <3>1, Zenon DEF Live
    <3>2. CASE u \in tasks
      <4>1. u.fd \in Fds /\ Live(conn[u.fd], u)
        BY <1>1, <3>2, Zenon DEF Task, PinInv, PinnedSlotHeld
      <4> QED BY <2>1, <4>1, Zenon
    <3> QED BY <1>3, <3>1, <3>2, Zenon
  <2>3. ASSUME NEW i \in 1..Len(outbox), outbox[i].release /= NoPin
        PROVE  Live(conn'[outbox[i].fd], outbox[i])
    <3>1. outbox[i] \in Msg
      BY <1>1, SeqElements, Zenon
    <3>2. outbox[i].fd \in Fds /\ Live(conn[outbox[i].fd], outbox[i])
      BY <2>3, <3>1, Zenon DEF Msg, PinInv, PinnedSlotHeld
    <3> QED BY <2>1, <3>2, Zenon
  <2> QED BY <2>2, <2>3, Zenon DEF PinnedSlotHeld
<1>10. \A g \in Fds : IsSlot(conn'[g])
  BY <1>1, <1>2, Zenon
<1> QED BY <1>2, <1>5, <1>7, <1>8, <1>9, <1>10, Zenon

\* A handle's owner hands a body to the workers.
LEMMA DispatchPreserves ==
    ASSUME Counting, IInv, NEW h \in handles, NEW k \in Kind, Dispatch(h, k)
    PROVE  IInv'
<1>1. h \in Handle /\ h.fd \in Fds
  BY Zenon DEF IInv, PinInv, TypeOK, Handle
<1>2. PICK fd \in Fds : h.fd = fd
  BY <1>1, Zenon
<1> DEFINE c == conn[fd]  p == [c.pins EXCEPT ![k] = c.pins[k] + 1]
           d == [c EXCEPT !.pins = p]
<1>3. /\ agenda = <<>> /\ marking = {} /\ ~exited /\ AddTask(h, k)
      /\ UNCHANGED <<outbox, handles, offIds, agenda, drainVars>>
      /\ c.state /= "free" /\ c.gen = h.gen /\ ~c.closeRequested /\ Becomes(fd, Pin(c, k))
  BY <1>2, Zenon DEF Dispatch, Quiescent, LiveReq
<1>4. IsSlot(c) /\ Core(c) /\ Owed(c, "none", "none") /\ TypeOK
  BY <1>3, SlotFacts, Zenon
<1>5. Pin(c, k) = d /\ p \in [Kind -> Nat]
  BY <1>4, SMTT(30) DEF Pin, IsSlot, FreeSlot
<1> HIDE DEF p
<1>6. /\ IsSlot(d) /\ d.pins = p
      /\ d.wire = c.wire /\ d.out = c.out /\ d.state = c.state
      /\ d.serial = c.serial /\ d.gen = c.gen
      /\ d.parsed = c.parsed /\ d.unread = c.unread /\ d.malformed = c.malformed
      /\ d.awaiting = c.awaiting /\ d.responded = c.responded
      /\ d.closeAfterFlush = c.closeAfterFlush
      /\ d.closeRequested = c.closeRequested /\ d.seen = c.seen
      /\ d.deadline = c.deadline /\ d.shut = c.shut /\ d.dead = c.dead
      /\ d.registered = c.registered /\ d.writeArmed = c.writeArmed
  BY <1>4, <1>5, PinFields
<1>7. Changes(fd, d)
  BY <1>3, <1>4, <1>5, BecomesChanges, Zenon
<1> HIDE DEF d
<1>8. Sent(d) = Sent(c)
  BY <1>6, Zenon DEF Sent
<1>9. Core(d)
  BY <1>3, <1>4, <1>6, <1>8, SameAnswers, Zenon DEF Core, Answers, Stages, States
<1>10. Owed(d, "none", "none")
  BY <1>4, <1>6, Zenon DEF Owed, Unsent, Buffered
<1>11. Moved(c, d)
  BY <1>6, Zenon DEF Moved
<1>12. \A g \in Fds : Op(g) = "none" /\ Then(g) = "none" /\ Op(g)' = "none" /\ Then(g)' = "none"
  BY <1>3, Zenon DEF Op, Then
<1>13. SlotsOK'
  BY <1>7, <1>9, <1>10, <1>12, SlotsStay, Zenon
<1>14. /\ DOMAIN conn' = Fds /\ \A g \in Fds : IsSlot(conn'[g])
       /\ tasks' \subseteq Task /\ taskIds' \in 0..MaxTask
       /\ TasksOK' /\ PinsBalanced' /\ PinnedSlotHeld'
  BY <1>1, <1>2, <1>3, <1>6, <1>7, TaskTakesPin, Zenon DEF IInv, p, drainVars
<1>15. TypeOK'
  BY <1>3, <1>4, <1>14, Zenon DEF TypeOK, drainVars
<1>16. AgendaOK' /\ ApplyOK'
  BY <1>3, SMTT(30) DEF AgendaOK, ApplyOK, drainVars
<1>17. HandlesOK'
  <2>1. \A g \in handles : Known(conn'[g.fd], g)
    BY <1>3, <1>6, <1>7, <1>11, KnownKept, Zenon
  <2>2. \A t \in tasks' : HandleOf(t) \in handles'
    BY <1>1, <1>3, TaskOfHandle, Zenon
  <2> QED BY <1>3, <2>1, <2>2, Zenon DEF HandlesOK, IInv, AnswerInv
<1> QED BY <1>13, <1>14, <1>15, <1>16, <1>17, Zenon DEF IInv, PinInv, AnswerInv

\* A request is taken up: the history of the slot grows by its serial.
LEMMA ProcessRequestPreserves ==
    Counting /\ IInv /\ ProcessRequest => IInv'

\* Only the deadline of a slot becomes idle.
<1>IdleSlot.
      ASSUME NEW c, IsSlot(c)
      PROVE  LET d == [c EXCEPT !.deadline = "idle"]
             IN  /\ IsSlot(d) /\ d.deadline = "idle"
                 /\ d.wire = c.wire /\ d.out = c.out /\ d.state = c.state
                 /\ d.serial = c.serial /\ d.gen = c.gen /\ d.pins = c.pins
                 /\ d.parsed = c.parsed /\ d.unread = c.unread /\ d.malformed = c.malformed
                 /\ d.awaiting = c.awaiting
                 /\ d.responded = c.responded /\ d.closeAfterFlush = c.closeAfterFlush
                 /\ d.closeRequested = c.closeRequested /\ d.seen = c.seen /\ d.shut = c.shut
  <2> USE <1>IdleSlot
  <2> DEFINE d == [c EXCEPT !.deadline = "idle"]
  <2>1. IsSlot(d)
    BY Zenon DEF IsSlot, FreeSlot
  <2>2. /\ d.deadline = "idle"
        /\ d.wire = c.wire /\ d.out = c.out /\ d.state = c.state
        /\ d.serial = c.serial /\ d.gen = c.gen /\ d.pins = c.pins
        /\ d.parsed = c.parsed /\ d.unread = c.unread /\ d.malformed = c.malformed
        /\ d.awaiting = c.awaiting
        /\ d.responded = c.responded /\ d.closeAfterFlush = c.closeAfterFlush
        /\ d.closeRequested = c.closeRequested /\ d.seen = c.seen /\ d.shut = c.shut
    BY Zenon DEF IsSlot, FreeSlot
  <2> QED BY <2>1, <2>2, Zenon

\* TakeUp, by its effect on the slot and on the agenda.
<1>TakeUpTurn.
      ASSUME NEW fd, NEW a, TakeUp(fd, a)
      PROVE  Becomes(fd, TurnOf(a)) /\ agenda' = IF Again(a) THEN agenda ELSE Tail(agenda)
    BY <1>TakeUpTurn, Zenon DEF TakeUp, TurnOf, Again

\* The handler answered, whether by a response or by an error.
<1>TurnAnswered.
      ASSUME NEW c, IsSlot(c), c.state \in {"active", "draining"},
             c.state = "draining" => c.shut > 0,
             NEW a, IsSlot(a), Prefix(a), ~a.malformed, a.parsed,
             a.responded, ~a.awaiting, ~a.closeRequested, a.serial = c.serial, a.gen = c.gen,
             a.state \in {c.state, "closing"}, a.shut = c.shut, a.deadline = "none",
             ~a.closeAfterFlush => Even(a) /\ a.state = "active"
      PROVE  LET d == TurnOf(a)
             IN  IsSlot(d) /\ d.pins = a.pins /\ Turned(c, d, Again(a))
  <2> USE <1>TurnAnswered
  <2> DEFINE d == TurnOf(a)
  <2>0. c.serial \in Nat /\ c.shut \in Nat
    BY Zenon DEF IsSlot
  <2>1. CASE a.closeAfterFlush
    <3>1. d = [a EXCEPT !.state = "closing"] /\ ~Again(a)
      BY <2>1, Zenon DEF TurnOf, Again
    <3> HIDE DEF d
    <3>2. Stages(a)
      BY <2>1, Zenon DEF Stages
    <3>3. IsSlot(d) /\ Core(d)
      BY <2>1, <3>1, <3>2, ClosesAnswered, Zenon
    <3>4. /\ d.state = "closing" /\ d.serial = a.serial /\ d.gen = a.gen /\ d.pins = a.pins
          /\ d.responded = a.responded /\ d.closeRequested = a.closeRequested /\ d.shut = a.shut
      BY <3>1, ClosingSlot, Zenon
    <3>5. Turned(c, d, Again(a))
      BY <2>0, <3>1, <3>3, <3>4, SMTT(30) DEF Turned, Moved
    <3> QED BY <3>3, <3>4, <3>5, Zenon DEF d
  <2>2. CASE ~a.closeAfterFlush
    <3> DEFINE e == ResetForNextRequest(a)
    <3>1. /\ d = IF ~Buffered(e) THEN [e EXCEPT !.deadline = "idle"] ELSE e
          /\ Again(a) <=> Buffered(e)
      BY <2>2, Zenon DEF TurnOf, Again
    <3>2. /\ IsSlot(e) /\ Core(e)
      BY <2>2, ResetsAnswered, Zenon
    <3>3. /\ e.gen = a.gen /\ e.pins = a.pins /\ e.state = a.state
          /\ e.serial = a.serial + 1 /\ ~e.parsed /\ ~e.awaiting /\ ~e.responded
          /\ e.malformed = a.malformed /\ e.closeRequested = a.closeRequested
          /\ e.deadline = a.deadline /\ e.shut = a.shut
      BY ResetSlot, Zenon
    <3>4. a.state = "active" /\ c.state = "active"
      BY <2>2, Zenon
    <3> HIDE DEF d, e
    <3>5. CASE Buffered(e)
      <4>1. d = e
        BY <3>1, <3>5, Zenon
      <4>2. Turned(c, d, Again(a))
        BY <2>0, <3>1, <3>2, <3>3, <3>4, <3>5, <4>1, SMTT(30) DEF Turned, Moved
      <4> QED BY <3>2, <3>3, <4>1, <4>2, Zenon DEF d
    <3>6. CASE ~Buffered(e)
      <4>1. d = [e EXCEPT !.deadline = "idle"]
        BY <3>1, <3>6, Zenon
      <4>2. /\ IsSlot(d) /\ d.deadline = "idle"
            /\ d.wire = e.wire /\ d.out = e.out /\ d.state = e.state
            /\ d.serial = e.serial /\ d.gen = e.gen /\ d.pins = e.pins
            /\ d.parsed = e.parsed /\ d.unread = e.unread /\ d.malformed = e.malformed
            /\ d.awaiting = e.awaiting
            /\ d.responded = e.responded /\ d.closeAfterFlush = e.closeAfterFlush
            /\ d.closeRequested = e.closeRequested /\ d.seen = e.seen /\ d.shut = e.shut
        BY <3>2, <4>1, <1>IdleSlot, SMTT(30)
      <4>3. Sent(d) = Sent(e)
        BY <4>2, Zenon DEF Sent
      <4>4. Core(d)
        BY <3>2, <3>3, <3>4, <4>2, <4>3, SameAnswers, Zenon DEF Core, Answers, Stages, States
      <4>5. ~Buffered(d)
        BY <3>6, <4>2, Zenon DEF Buffered
      <4>6. Turned(c, d, Again(a))
        BY <2>0, <3>1, <3>3, <3>4, <3>6, <4>2, <4>4, <4>5, SMTT(30) DEF Turned, Moved
      <4> QED BY <3>3, <4>2, <4>6, Zenon DEF d
    <3> QED BY <3>5, <3>6, Zenon
  <2> QED BY <2>1, <2>2, Zenon

\* The handler has not answered: the request waits for its response.
<1>TurnDeferred.
      ASSUME NEW c, IsSlot(c), c.state \in {"active", "draining"},
             c.state = "draining" => c.shut > 0 /\ c.closeAfterFlush,
             NEW a, IsSlot(a), Behind(a), Taken(c, a), ~a.responded, ~a.closeRequested
      PROVE  LET d == TurnOf(a)
             IN  IsSlot(d) /\ d.pins = a.pins /\ Turned(c, d, Again(a))
  <2> USE <1>TurnDeferred
  <2> DEFINE l == IF TotalPins(a) = 0 THEN "response" ELSE a.deadline
             d == [a EXCEPT !.awaiting = TRUE, !.deadline = l]
  <2>1. ~Again(a)
    BY Zenon DEF Again
  <2>8. l \in {"none", "idle", "response", "drain"}
    BY Zenon DEF IsSlot
  <2>2. TurnOf(a) = d
    BY Zenon DEF TurnOf, IsSlot, FreeSlot
  <2> HIDE DEF l
  <2>0. d = [a EXCEPT !.awaiting = TRUE, !.deadline = l]
    BY Zenon
  <2> HIDE DEF d
  <2>9. IsSlot(d)
    BY ONLY IsSlot(a), <2>0, <2>8, Zenon DEF IsSlot, FreeSlot
  <2>3. /\ d.awaiting
        /\ d.wire = a.wire /\ d.out = a.out /\ d.state = a.state
        /\ d.serial = a.serial /\ d.gen = a.gen /\ d.pins = a.pins
        /\ d.parsed = a.parsed /\ d.unread = a.unread /\ d.malformed = a.malformed
        /\ d.responded = a.responded /\ d.closeAfterFlush = a.closeAfterFlush
        /\ d.closeRequested = a.closeRequested /\ d.seen = a.seen /\ d.shut = a.shut
    BY ONLY IsSlot(a), <2>0, Zenon DEF IsSlot, FreeSlot
  <2>4. Sent(d) = Sent(a) /\ Prefix(a)
    BY <2>3, Zenon DEF Sent, Behind
  <2>5. Core(d)
    BY <2>3, <2>4, SameAnswers, Zenon DEF Core, Answers, Stages, States, Taken
  <2>6. c.shut \in Nat /\ c.serial \in Nat
    BY Zenon DEF IsSlot
  <2>7. Turned(c, d, Again(a))
    BY <2>1, <2>3, <2>5, <2>6, Zenon DEF Turned, Moved, Taken
  <2> QED BY <2>2, <2>3, <2>7, <2>9, Zenon

\* Whatever the handler did, the slot left behind is as Turned says.
<1>TurnEnds.
      ASSUME NEW c, IsSlot(c), Core(c), c.state \in {"active", "draining"}, ~c.awaiting,
             Buffered(c), ~c.malformed, NEW q, IsSlot(q), Taken(c, q), NEW outcome
      PROVE  LET a == AfterHandler(q, outcome)
                 d == TurnOf(a)
             IN  IsSlot(d) /\ d.pins = q.pins /\ Turned(c, d, Again(a))
  <2> USE <1>TurnEnds
  <2> DEFINE a == AfterHandler(q, outcome)
  <2>1. ~c.closeRequested /\ (c.state = "draining" => c.shut > 0) /\ Prefix(c)
    BY Zenon DEF Core, States, Answers
  <2>2. Sent(q) = Sent(c) /\ q.seen = Append(c.seen, c.serial) /\ q.serial = c.serial
    BY Zenon DEF Sent, Taken
  <2>3. Prefix(q) /\ (Even(c) => Behind(q))
    BY <2>1, <2>2, TakesUp, Zenon
  <2>4. CASE c.parsed
    <3>1. c.responded /\ c.closeAfterFlush
      BY <2>4, Zenon DEF Core, Stages
    <3>2. a = q
      BY <3>1, Zenon DEF AfterHandler, ApplyResponse, Taken
    <3> HIDE DEF a
    <3>3. /\ ~q.malformed /\ q.parsed /\ q.responded /\ ~q.awaiting /\ ~q.closeRequested
          /\ q.gen = c.gen /\ q.state = c.state /\ q.shut = c.shut /\ q.deadline = "none"
          /\ q.closeAfterFlush
      BY <2>1, <3>1, Zenon DEF Taken
    <3>4. IsSlot(TurnOf(q)) /\ TurnOf(q).pins = q.pins /\ Turned(c, TurnOf(q), Again(q))
      BY <2>1, <2>2, <2>3, <3>3, <1>TurnAnswered, Zenon
    <3> QED BY <3>2, <3>4, Zenon DEF a
  <2>5. CASE ~c.parsed
    <3>1. ~c.responded /\ Even(c) /\ (c.state = "draining" => c.closeAfterFlush)
      BY <2>5, SMTT(30) DEF Core, Answers, Stages, States, Buffered, IsSlot
    <3>2. /\ Behind(q) /\ ~q.responded /\ ~q.closeRequested /\ q.parsed /\ ~q.malformed
          /\ ~q.awaiting /\ q.gen = c.gen /\ q.state = c.state /\ q.shut = c.shut
          /\ q.deadline = "none" /\ q.closeAfterFlush = c.closeAfterFlush
      BY <2>1, <2>3, <3>1, Zenon DEF Taken
    <3>3. CASE outcome = "answer"
      <4>1. a = ApplyResponse(q, q.serial)
        BY <3>3, Zenon DEF AfterHandler
      <4> HIDE DEF a
      <4>2. /\ IsSlot(a) /\ a.wire = q.wire /\ a.out = Append(q.out, q.serial)
            /\ a.state = q.state /\ a.serial = q.serial /\ a.gen = q.gen
            /\ a.pins = q.pins /\ a.parsed = q.parsed
            /\ a.malformed = q.malformed /\ a.awaiting = q.awaiting
            /\ a.responded /\ a.closeAfterFlush = (q.closeAfterFlush \/ ~q.keepAlive)
            /\ a.closeRequested = q.closeRequested /\ a.seen = q.seen
            /\ a.deadline = q.deadline /\ a.shut = q.shut
        BY <3>2, <4>1, ApplyResponseSlot, Zenon
      <4>3. Even(a) /\ Prefix(a)
        BY <3>2, <4>2, TakesAnswer, Zenon DEF Even
      <4>4. ~a.closeAfterFlush => a.state = "active"
        BY <3>1, <3>2, <4>2, Zenon
      <4>5. IsSlot(TurnOf(a)) /\ TurnOf(a).pins = a.pins /\ Turned(c, TurnOf(a), Again(a))
        BY <2>1, <2>2, <3>2, <4>2, <4>3, <4>4, <1>TurnAnswered, Zenon
      <4> QED BY <4>2, <4>5, Zenon DEF a
    <3>4. CASE outcome = "raise"
      <4>1. a = RespondError(q)
        BY <3>2, <3>4, Zenon DEF AfterHandler
      <4> HIDE DEF a
      <4>2. /\ IsSlot(a) /\ a.state = "closing" /\ a.serial = q.serial /\ a.gen = q.gen
            /\ a.pins = q.pins /\ a.parsed = q.parsed
            /\ a.malformed = q.malformed /\ a.awaiting = q.awaiting
            /\ a.responded /\ a.closeAfterFlush
            /\ a.closeRequested = q.closeRequested
            /\ a.deadline = q.deadline /\ a.shut = q.shut
        BY <4>1, RespondErrorSlot, Zenon
      <4>3. Even(a) /\ Prefix(a)
        BY <3>2, <4>1, RespondErrorCore, Zenon DEF Even
      <4>5. IsSlot(TurnOf(a)) /\ TurnOf(a).pins = a.pins /\ Turned(c, TurnOf(a), Again(a))
        BY <2>1, <2>2, <3>2, <4>2, <4>3, <1>TurnAnswered, Zenon
      <4> QED BY <4>2, <4>5, Zenon DEF a
    <3>5. CASE outcome \notin {"answer", "raise"}
      <4>1. a = q
        BY <3>5, Zenon DEF AfterHandler
      <4> HIDE DEF a
      <4>2. IsSlot(TurnOf(q)) /\ TurnOf(q).pins = q.pins /\ Turned(c, TurnOf(q), Again(q))
        BY <2>1, <3>1, <3>2, <1>TurnDeferred, Zenon
      <4> QED BY <4>1, <4>2, Zenon DEF a
    <3> QED BY <3>3, <3>4, <3>5, Zenon
  <2> QED BY <2>4, <2>5, Zenon

\* What the end of a turn leaves of the invariant, pins aside.
<1>TurnStep.
      ASSUME IInv, NEW fd \in Fds, agenda /= <<>>, agenda[1].fd = fd, Op(fd) = "process",
             conn[fd].state \in {"active", "draining"}, ~conn[fd].awaiting, Buffered(conn[fd]),
             NEW d, IsSlot(d), Changes(fd, d), NEW again \in BOOLEAN,
             Turned(conn[fd], d, again),
             agenda' = (IF again THEN agenda ELSE Tail(agenda)), UNCHANGED drainVars,
             handles' = handles \union
                  {[fd |-> fd, gen |-> conn[fd].gen, serial |-> conn[fd].serial]}
      PROVE  /\ AgendaOK' /\ SlotsOK' /\ ApplyOK' /\ handles' \subseteq Handle
             /\ \A h \in handles' : Known(conn'[h.fd], h)
  <2> USE <1>TurnStep
  <2> DEFINE c == conn[fd]  then == Then(fd)
             n == [fd |-> fd, gen |-> c.gen, serial |-> c.serial]
  <2>1. /\ TypeOK /\ AgendaOK /\ IsSlot(c) /\ Core(c) /\ Owed(c, "process", then)
        /\ UNCHANGED <<marking, exited>>
    BY SlotFacts, Zenon DEF drainVars
  <2>2. /\ agenda[1].op = "process" /\ Len(agenda) \in 1..3
        /\ \A g \in Fds : g /= fd => Op(g) = "none" /\ Then(g) = "none"
    BY <2>1, AtWork, Zenon DEF Op
  <2>3. /\ c.state = "active" => then \in {"flush", "idle"}
        /\ c.state = "draining" => c.shut > 0
    BY <2>1, Zenon DEF Owed, Core, States
  <2>4. conn'[fd] = d /\ \A g \in Fds : g /= fd => conn'[g] = conn[g]
    BY Zenon DEF Changes
  <2>5. then \in {"flush", "idle", "pending", "apply"} /\ then = agenda[2].op
        /\ Len(agenda) \in 2..3
    BY <2>1, <2>2, SMTT(30) DEF Then, AgendaOK
  <2>6. /\ Unsent(d) => c.state = "active"
        /\ d.state = "active" /\ ~d.awaiting /\ Buffered(d) => again
        /\ again => c.state = "active"
        /\ ~d.closeRequested /\ ~(d.deadline = "response" /\ ~d.responded /\ ~d.awaiting)
        /\ Core(d) /\ Moved(c, d) /\ d.gen = c.gen /\ d.state /= "free"
        /\ \/ d.serial = c.serial /\ (d.awaiting \/ d.responded)
           \/ d.serial = c.serial + 1 /\ c.state = "active"
    BY Zenon DEF Turned, Unsent
  <2>7. AgendaOK' /\ SlotsOK' /\ ApplyOK'
    <3>1. CASE again
      <4>1. agenda' = agenda /\ then \in {"flush", "idle"}
        BY <2>3, <2>6, <3>1, Zenon
      <4>2. AgendaOK'
        BY <2>1, <4>1, Zenon DEF AgendaOK
      <4>3. /\ Op(fd)' = "process" /\ Then(fd)' = then
            /\ \A g \in Fds : g /= fd => Op(g)' = "none" /\ Then(g)' = "none"
        BY <2>2, <4>1, Zenon DEF Op, Then
      <4>4. Owed(d, "process", then)
        BY <2>6, <4>1, Zenon DEF Owed
      <4>5. \A i \in 1..Len(agenda') : agenda'[i].op /= "apply"
        BY <2>1, <2>2, <2>5, <4>1 DEF AgendaOK
      <4> QED BY <2>2, <2>6, <4>2, <4>3, <4>4, <4>5, SlotsStay, Zenon DEF ApplyOK
    <3>2. CASE ~again
      <4>1. agenda' = Tail(agenda)
        BY <3>2, Zenon
      <4>2. /\ AgendaOK' /\ Op(fd)' = then /\ Then(fd)' = then
            /\ \A g \in Fds : g /= fd => Op(g)' = "none" /\ Then(g)' = "none"
            /\ Len(agenda') \in Nat /\ Len(agenda') < Len(agenda)
            /\ \A i \in 1..Len(agenda') : agenda'[i] = agenda[i + 1]
        BY <2>1, <2>2, <4>1, Popped, Zenon
      <4>3. Owed(d, then, then)
        BY <2>3, <2>5, <2>6, <3>2, Zenon DEF Owed
      <4>4. ApplyOK'
        <5> SUFFICES ASSUME NEW i \in 1..Len(agenda'), agenda'[i].op = "apply",
                            ~agenda'[i].stale
                     PROVE  LET e == conn'[agenda'[i].fd]
                            IN  e.serial = agenda'[i].serial /\ (e.awaiting \/ e.responded)
          BY Zenon DEF ApplyOK
        <5>1. i + 1 \in 1..Len(agenda) /\ agenda'[i] = agenda[i + 1] /\ i + 1 \in 2..3
          BY <2>2, <4>2
        <5>2. agenda[i + 1].fd = fd /\ agenda'[i].fd = fd
          BY <2>1, <5>1, Zenon DEF AgendaOK
        <5>3. then = "apply"
          <6>1. i + 1 = 2
            BY <2>1, <2>2, <5>1 DEF AgendaOK
          <6> QED BY <2>5, <5>1, <6>1, Zenon
        <5>4. c.serial = agenda[i + 1].serial
          BY <5>1, <5>2, Zenon DEF IInv, AnswerInv, ApplyOK
        <5> QED BY <2>3, <2>4, <2>6, <5>1, <5>2, <5>3, <5>4, Zenon
      <4> QED BY <2>2, <2>6, <4>2, <4>3, <4>4, SlotsStay, Zenon
    <3> QED BY <3>1, <3>2, Zenon
  <2>8. n \in Handle /\ n.fd = fd /\ n.gen = c.gen /\ n.serial = c.serial /\ c.serial \in Nat
        /\ c.gen \in Nat
    BY <2>1, Zenon DEF IsSlot, Handle
  <2>9. Known(d, n)
    BY <2>6, <2>8 DEF Known
  <2>10. handles' = handles \union {n} /\ handles \subseteq Handle
    BY <2>1, Zenon DEF TypeOK
  <2> HIDE DEF n
  <2>11. \A h \in handles : Known(conn'[h.fd], h)
    BY <2>6, KnownKept, Zenon
  <2> QED BY <2>4, <2>7, <2>8, <2>9, <2>10, <2>11, Zenon

\* The slot once its request was taken up, with the pin of its body.
<1>TakenSlot.
      ASSUME NEW c, IsSlot(c), ~c.awaiting, ~c.malformed, Buffered(c), NEW keep \in BOOLEAN,
             NEW p \in [Kind -> Nat]
      PROVE  LET r == TookUp(c, keep)
                 q == WithPins(r, p)
             IN  /\ IsSlot(r) /\ Taken(c, r) /\ r.pins = c.pins
                 /\ IsSlot(q) /\ Taken(c, q) /\ q.pins = p
  <2> USE <1>TakenSlot
  <2> DEFINE u == IF c.parsed THEN c.unread ELSE c.unread - 1
             v == IF c.parsed THEN c.keepAlive ELSE keep
             s == Append(c.seen, c.serial)
             r == [c EXCEPT !.parsed = TRUE, !.deadline = "none", !.unread = u,
                            !.keepAlive = v, !.seen = s]
             q == [r EXCEPT !.pins = p]
  <2>1. TookUp(c, keep) = r
    BY Zenon DEF IsSlot, FreeSlot, TookUp
  <2>2. u \in 0..c.received /\ v \in BOOLEAN /\ s \in Seq(Nat)
    BY AppendIsSeq DEF IsSlot, Buffered
  <2> HIDE DEF u, v, s
  <2>3. IsSlot(r)
    BY <2>2, Zenon DEF IsSlot, FreeSlot
  <2>4. /\ r.parsed /\ r.deadline = "none" /\ r.seen = s
        /\ r.wire = c.wire /\ r.out = c.out /\ r.state = c.state /\ r.serial = c.serial
        /\ r.gen = c.gen /\ r.responded = c.responded /\ r.shut = c.shut
        /\ r.closeAfterFlush = c.closeAfterFlush /\ r.closeRequested = c.closeRequested
        /\ r.malformed = c.malformed /\ r.awaiting = c.awaiting /\ r.pins = c.pins
    BY Zenon DEF IsSlot, FreeSlot
  <2>5. Taken(c, r)
    <3> HIDE DEF r
    <3> QED BY <2>4, Zenon DEF Taken, s
  <2> HIDE DEF r
  <2>6. /\ IsSlot(q) /\ q.pins = p
        /\ q.wire = r.wire /\ q.out = r.out /\ q.state = r.state
        /\ q.serial = r.serial /\ q.gen = r.gen
        /\ q.parsed = r.parsed /\ q.malformed = r.malformed
        /\ q.awaiting = r.awaiting /\ q.responded = r.responded
        /\ q.closeAfterFlush = r.closeAfterFlush
        /\ q.closeRequested = r.closeRequested /\ q.seen = r.seen
        /\ q.deadline = r.deadline /\ q.shut = r.shut
    BY <2>3, PinFields
  <2>8. q = WithPins(r, p)
    BY Zenon DEF WithPins
  <2> HIDE DEF q
  <2>7. Taken(c, q)
    BY <2>5, <2>6, Zenon DEF Taken
  <2> QED BY <2>1, <2>3, <2>4, <2>5, <2>6, <2>7, <2>8, Zenon

<1>Step.
      ASSUME Counting, IInv, ProcessRequest
      PROVE  IInv'
  <2> USE <1>Step
  <2>1. Doing("process") /\ UNCHANGED <<outbox, offIds, drainVars>>
    BY Zenon DEF ProcessRequest
  <2>2. PICK fd \in Fds : agenda[1].fd = fd /\ Op(fd) = "process"
    BY <2>1, DoingFacts, Zenon
  <2> DEFINE c == conn[fd]  h == [fd |-> fd, gen |-> c.gen, serial |-> c.serial]
  <2>3. /\ IsSlot(c) /\ Core(c) /\ TypeOK /\ AgendaOK
        /\ agenda /= <<>> /\ Head(agenda) = agenda[1] /\ ~exited
    BY <2>1, <2>2, DoingFacts, SlotFacts, AtWork, Zenon
  <2>4. /\ c.state \in {"active", "draining"} /\ ~c.awaiting /\ Buffered(c) /\ ~c.malformed
        /\ handles' = handles \union {h}
    BY <2>2, <2>3, Zenon DEF ProcessRequest
  <2>5. PICK keep \in BOOLEAN, outcome \in {"answer", "defer", "raise"},
             k \in Kind \union {NoPin} :
          LET g == Head(agenda).fd
              r == TookUp(conn[g], keep)
          IN  IF k = NoPin
              THEN UNCHANGED <<tasks, taskIds>> /\ TakeUp(g, AfterHandler(r, outcome))
              ELSE /\ AddTask([fd |-> g, gen |-> conn[g].gen, serial |-> conn[g].serial], k)
                   /\ TakeUp(g, AfterHandler(Pin(r, k), outcome))
    BY Zenon DEF ProcessRequest
  <2> DEFINE r == TookUp(c, keep)
             p == IF k = NoPin THEN c.pins ELSE [c.pins EXCEPT ![k] = c.pins[k] + 1]
             q == IF k = NoPin THEN r ELSE WithPins(r, p)
             a == AfterHandler(q, outcome)  d == TurnOf(a)
  <2>6. c.pins \in [Kind -> Nat] /\ p \in [Kind -> Nat]
    BY <2>3 DEF IsSlot
  <2>7. /\ IsSlot(r) /\ Taken(c, r) /\ r.pins = c.pins
        /\ IsSlot(WithPins(r, p)) /\ Taken(c, WithPins(r, p)) /\ WithPins(r, p).pins = p
    <3> HIDE DEF p
    <3> QED BY <2>3, <2>4, <2>6, <1>TakenSlot
  <2> HIDE DEF r
  <2>8. k /= NoPin => Pin(r, k) = WithPins(r, p)
    BY <2>7, Zenon DEF Pin, WithPins, IsSlot, FreeSlot
  <2> HIDE DEF p
  <2>9. IsSlot(q) /\ Taken(c, q) /\ q.pins = p
    BY <2>7, Zenon DEF p
  <2>10. TakeUp(fd, a) /\ (IF k = NoPin THEN UNCHANGED <<tasks, taskIds>> ELSE AddTask(h, k))
    BY <2>2, <2>3, <2>5, <2>8, Zenon DEF r
  <2> HIDE DEF q
  <2>11. IsSlot(d) /\ d.pins = q.pins /\ Turned(c, d, Again(a))
    BY <2>3, <2>4, <2>9, <1>TurnEnds, Zenon
  <2> HIDE DEF a
  <2>12. Becomes(fd, d) /\ agenda' = IF Again(a) THEN agenda ELSE Tail(agenda)
    BY <2>10, <1>TakeUpTurn, Zenon
  <2>13. Again(a) \in BOOLEAN
    BY Zenon DEF Again
  <2> DEFINE again == Again(a)
  <2> HIDE DEF d, again
  <2>14. Changes(fd, d)
    BY <2>3, <2>12, BecomesChanges, Zenon
  <2>15. Turned(c, d, again) /\ again \in BOOLEAN /\ agenda' = IF again THEN agenda ELSE Tail(agenda)
    BY <2>11, <2>12, <2>13, Zenon DEF again
  <2>16. /\ AgendaOK' /\ SlotsOK' /\ ApplyOK' /\ handles' \subseteq Handle
         /\ \A x \in handles' : Known(conn'[x.fd], x)
    BY <2>1, <2>2, <2>3, <2>4, <2>11, <2>14, <2>15, <1>TurnStep, Zenon
  <2>17. d.gen = c.gen /\ d.state /= "free" /\ c.state /= "free"
    BY <2>4, <2>15, Zenon DEF Turned
  <2>18. h \in Handle /\ h.fd = fd /\ h.gen = c.gen /\ h \in handles' /\ handles \subseteq handles'
    BY <2>3, <2>4, Zenon DEF IsSlot, Handle
  <2> HIDE DEF h
  <2>19. outbox' = outbox /\ offIds' = offIds /\ exited' = exited
         /\ draining' = draining /\ graceOver' = graceOver /\ marking' = marking
    BY <2>1, Zenon DEF drainVars
  <2>20. \A i \in 1..Len(outbox) : HandleOf(outbox[i]) \in handles'
    BY <2>18, Zenon DEF IInv, AnswerInv, HandlesOK
  <2>21. CASE k = NoPin
    <3>1. UNCHANGED <<tasks, taskIds>>
      BY <2>10, <2>21, Zenon
    <3>2. Same(c, d)
      BY <2>9, <2>11, <2>17, <2>21, Zenon DEF Same, p
    <3>3. /\ DOMAIN conn' = Fds /\ \A g \in Fds : IsSlot(conn'[g])
          /\ PinsBalanced' /\ PinnedSlotHeld'
      BY <2>11, <2>14, <2>19, <3>1, <3>2, SlotKeepsPins, Zenon DEF IInv
    <3>4. TypeOK'
      BY <2>3, <2>16, <2>19, <3>1, <3>3, Zenon DEF TypeOK
    <3>5. TasksOK'
      BY <3>1, Zenon DEF IInv, PinInv, TasksOK
    <3>6. HandlesOK'
      BY <2>16, <2>18, <2>19, <2>20, <3>1, Zenon DEF IInv, AnswerInv, HandlesOK
    <3> QED BY <2>16, <3>3, <3>4, <3>5, <3>6, Zenon DEF IInv, PinInv, AnswerInv
  <2>22. CASE k /= NoPin
    <3>1. AddTask(h, k) /\ k \in Kind
      BY <2>10, <2>22, Zenon
    <3>2. d.pins = [c.pins EXCEPT ![k] = c.pins[k] + 1]
      BY <2>9, <2>11, <2>22, Zenon DEF p
    <3>3. /\ DOMAIN conn' = Fds /\ \A g \in Fds : IsSlot(conn'[g])
          /\ tasks' \subseteq Task /\ taskIds' \in 0..MaxTask
          /\ TasksOK' /\ PinsBalanced' /\ PinnedSlotHeld'
      BY <2>3, <2>11, <2>14, <2>17, <2>18, <2>19, <3>1, <3>2, TaskTakesPin, Zenon DEF IInv
    <3>4. TypeOK'
      BY <2>3, <2>16, <2>19, <3>3, Zenon DEF TypeOK
    <3>5. \A t \in tasks' : HandleOf(t) \in handles'
      BY <2>18, <3>1, TaskOfHandle, Zenon
    <3>6. HandlesOK'
      BY <2>16, <2>19, <2>20, <3>5, Zenon DEF HandlesOK
    <3> QED BY <2>16, <3>3, <3>4, <3>6, Zenon DEF IInv, PinInv, AnswerInv
  <2> QED BY <2>21, <2>22, Zenon
<1> QED BY <1>Step, Zenon

\* Pins in terms of what holds them.
LEMMA Balance ==
    ASSUME Counting, IInv, NEW fd \in Fds, NEW k \in Kind
    PROVE  LET x == Cardinality(Running(tasks, fd, k))
               y == Cardinality(Releasing(outbox, fd, k))
           IN  conn[fd].pins[k] = x + y /\ x \in Nat /\ y \in Nat
<1>1. outbox \in Seq(Msg) /\ IsFiniteSet(tasks)
  BY Zenon DEF IInv, PinInv, TypeOK, TasksOK
<1>2. conn[fd].pins[k] = Cardinality(Running(tasks, fd, k))
                           + Cardinality(Releasing(outbox, fd, k))
  BY Zenon DEF IInv, PinInv, PinsBalanced, Holders, Running, Releasing
<1> QED BY <1>1, <1>2, RunningFinite, ReleasingFinite, Zenon

\* The steps off the loop: a handle sends, a worker answers or finishes.
LEMMA WorkerPreserves ==
    /\ Counting /\ IInv
    /\ \/ \E h \in handles : OffLoopSend(h)
       \/ \E t \in tasks : WorkerAnswers(t) \/ WorkerFinishes(t)
    => IInv'

\* A message pushed for a known request, with a pin to release only where the slot
\* is still held for it.
<1>Pushed.
      ASSUME IInv, NEW m \in Msg, outbox' = Append(outbox, m), HandleOf(m) \in handles,
             m.release /= NoPin => Live(conn[m.fd], m)
      PROVE  /\ outbox' \in Seq(Msg)
             /\ \A i \in 1..Len(outbox') : HandleOf(outbox'[i]) \in handles
             /\ \A i \in 1..Len(outbox') :
                  outbox'[i].release /= NoPin => Live(conn[outbox'[i].fd], outbox'[i])
  <2> USE <1>Pushed
  <2>1. /\ outbox \in Seq(Msg) /\ \A i \in 1..Len(outbox) : HandleOf(outbox[i]) \in handles
        /\ \A i \in 1..Len(outbox) :
              outbox[i].release /= NoPin => Live(conn[outbox[i].fd], outbox[i])
    BY Zenon DEF IInv, PinInv, TypeOK, PinnedSlotHeld, AnswerInv, HandlesOK
  <2>2. /\ outbox' \in Seq(Msg) /\ Len(outbox') = Len(outbox) + 1 /\ Len(outbox) \in Nat
        /\ outbox'[Len(outbox) + 1] = m /\ \A i \in 1..Len(outbox) : outbox'[i] = outbox[i]
    BY <2>1, AppendIsSeq, SeqElements, SMTT(30)
  <2>3. ASSUME NEW i \in 1..Len(outbox')
        PROVE  /\ HandleOf(outbox'[i]) \in handles
               /\ outbox'[i].release /= NoPin => Live(conn[outbox'[i].fd], outbox'[i])
    <3>1. CASE i \in 1..Len(outbox)
      BY <2>1, <2>2, <3>1, Zenon
    <3>2. CASE i = Len(outbox) + 1
      BY <2>2, <3>2, Zenon
    <3> QED BY <2>2, <3>1, <3>2, SMTT(30)
  <2> QED BY <2>2, <2>3, Zenon

\* A task at work: its slot is held, and the loop has not left.
<1>TaskFacts.
      ASSUME IInv, NEW t \in tasks
      PROVE  /\ TypeOK /\ t \in Task /\ t.fd \in Fds /\ t.kind \in Kind /\ ~exited
             /\ Live(conn[t.fd], t) /\ HandleOf(t) \in handles
             /\ IsFiniteSet(tasks) /\ \A u \in tasks : u.id < taskIds
             /\ \A u, v \in tasks : u.id = v.id => u = v
    BY <1>TaskFacts, Zenon DEF IInv, PinInv, TypeOK, TasksOK, PinnedSlotHeld, AnswerInv, HandlesOK, Task

\* A thread that holds no pin pushes a response.
<1>OffLoopSendPreserves.
      ASSUME Counting, IInv, NEW h \in handles, OffLoopSend(h)
      PROVE  IInv'
  <2> USE <1>OffLoopSendPreserves
  <2> DEFINE m == Message(h, "http", NoPin)
  <2>1. h \in Handle /\ h.fd \in Fds /\ TypeOK
    BY Zenon DEF IInv, PinInv, TypeOK, Handle
  <2>2. /\ ~exited /\ offIds < MaxOff /\ offIds' = offIds + 1 /\ outbox' = Append(outbox, m)
        /\ UNCHANGED <<conn, tasks, handles, taskIds, agenda>> /\ UNCHANGED drainVars
    BY Zenon DEF OffLoopSend
  <2>3. m \in Msg /\ m.release = NoPin
    BY <2>1, Zenon DEF Message, Msg, Handle
  <2>4. HandleOf(m) \in handles
    <3>1. HandleOf(m) = h
      BY <2>1, Zenon DEF HandleOf, Message, Handle
    <3> QED BY <3>1, Zenon
  <2> HIDE DEF m
  <2>5. /\ outbox' \in Seq(Msg)
        /\ \A i \in 1..Len(outbox') : HandleOf(outbox'[i]) \in handles
        /\ \A i \in 1..Len(outbox') :
              outbox'[i].release /= NoPin => Live(conn[outbox'[i].fd], outbox'[i])
    BY <2>2, <2>3, <2>4, <1>Pushed, Zenon
  <2>6. TypeOK'
    BY <2>1, <2>2, <2>5, ConnAssumption DEF TypeOK, drainVars
  <2>7. AgendaOK' /\ TasksOK'
    BY <2>2, Zenon DEF IInv, PinInv, AgendaOK, TasksOK, drainVars
  <2>8. PinsBalanced'
    <3> SUFFICES ASSUME NEW g \in Fds, NEW k \in Kind
                 PROVE  conn'[g].pins[k] = Cardinality(Running(tasks', g, k))
                                             + Cardinality(Releasing(outbox', g, k))
      BY Zenon DEF PinsBalanced, Holders, Running, Releasing
    <3>1. ~Matches(m, g, k)
      BY <2>3, Zenon DEF Matches, Kind, NoPin
    <3>2. Cardinality(Releasing(outbox', g, k)) = Cardinality(Releasing(outbox, g, k))
      BY <2>1, <2>2, <2>3, <3>1, ReleasingAppend, Zenon DEF TypeOK
    <3> QED BY <2>2, <3>2, Balance, Zenon
  <2>9. PinnedSlotHeld'
    BY <2>2, <2>5, Zenon DEF IInv, PinInv, PinnedSlotHeld, drainVars
  <2>10. HandlesOK'
    BY <2>2, <2>5, LoopUntouched, Zenon DEF HandlesOK, IInv, AnswerInv
  <2> QED BY <2>2, <2>6, <2>7, <2>8, <2>9, <2>10, LoopUntouched, Zenon DEF IInv, PinInv, AnswerInv

\* A body returns: its message takes over the pin of the task.
<1>WorkerFinishesPreserves.
      ASSUME Counting, IInv, NEW t \in tasks, WorkerFinishes(t)
      PROVE  IInv'
  <2> USE <1>WorkerFinishesPreserves
  <2> DEFINE m == IF t.kind = "await" THEN Message(t, "done", "await")
                  ELSE Message(t, "http", "blocking")
  <2>1. /\ TypeOK /\ t \in Task /\ t.fd \in Fds /\ t.kind \in Kind /\ ~exited
        /\ Live(conn[t.fd], t) /\ HandleOf(t) \in handles
        /\ IsFiniteSet(tasks) /\ \A u \in tasks : u.id < taskIds
        /\ \A u, v \in tasks : u.id = v.id => u = v
    BY <1>TaskFacts, Zenon
  <2>2. /\ tasks' = tasks \ {t} /\ outbox' = Append(outbox, m)
        /\ UNCHANGED <<conn, handles, taskIds, offIds, agenda>> /\ UNCHANGED drainVars
    BY Zenon DEF WorkerFinishes
  <2>3. m \in Msg /\ m.release = t.kind /\ m.fd = t.fd /\ m.gen = t.gen
    BY <2>1, Zenon DEF Message, Msg, Task, Kind
  <2>4. HandleOf(m) \in handles
    <3>1. HandleOf(m) = HandleOf(t)
      BY Zenon DEF HandleOf, Message
    <3> QED BY <2>1, <3>1, Zenon
  <2> HIDE DEF m
  <2>5. Live(conn[m.fd], m)
    BY <2>1, <2>3, Zenon DEF Live
  <2>6. /\ outbox' \in Seq(Msg)
        /\ \A i \in 1..Len(outbox') : HandleOf(outbox'[i]) \in handles
        /\ \A i \in 1..Len(outbox') :
              outbox'[i].release /= NoPin => Live(conn[outbox'[i].fd], outbox'[i])
    BY <2>2, <2>3, <2>4, <2>5, <1>Pushed, Zenon
  <2>7. TypeOK'
    BY <2>1, <2>2, <2>6, Zenon DEF TypeOK, drainVars
  <2>8. AgendaOK'
    BY <2>2, Zenon DEF IInv, PinInv, AgendaOK, drainVars
  <2>9. TasksOK'
    <3>1. IsFiniteSet(tasks')
      BY <2>1, <2>2, CountRemove, Zenon
    <3> QED BY <2>1, <2>2, <3>1, Zenon DEF TasksOK
  <2>10. PinsBalanced'
    <3> SUFFICES ASSUME NEW g \in Fds, NEW k \in Kind
                 PROVE  conn'[g].pins[k] = Cardinality(Running(tasks', g, k))
                                             + Cardinality(Releasing(outbox', g, k))
      BY Zenon DEF PinsBalanced, Holders, Running, Releasing
    <3> DEFINE x == Cardinality(Running(tasks, g, k))  y == Cardinality(Releasing(outbox, g, k))
               v == Cardinality(Running(tasks', g, k))
               w == Cardinality(Releasing(outbox', g, k))
    <3>1. conn[g].pins[k] = x + y /\ x \in Nat /\ y \in Nat
      BY Balance, Zenon
    <3>2. v = IF t.fd = g /\ t.kind = k THEN x - 1 ELSE x
      BY <2>1, <2>2, RunningRemove
    <3>3. w = IF t.fd = g /\ t.kind = k THEN y + 1 ELSE y
      BY <2>1, <2>2, <2>3, ReleasingAppend DEF TypeOK, Matches
    <3> HIDE DEF x, y, v, w
    <3>4. conn'[g].pins[k] = v + w
      BY <2>2, <3>1, <3>2, <3>3
    <3> QED BY <3>4, Zenon DEF v, w
  <2>11. PinnedSlotHeld'
    BY <2>1, <2>2, <2>6, Zenon DEF IInv, PinInv, PinnedSlotHeld, drainVars
  <2>12. HandlesOK'
    BY <2>2, <2>6, LoopUntouched, Zenon DEF HandlesOK, IInv, AnswerInv
  <2> QED BY <2>2, <2>7, <2>8, <2>9, <2>10, <2>11, <2>12, LoopUntouched, Zenon
          DEF IInv, PinInv, AnswerInv

\* An awaitable body answers: the same task, with its latch set.
<1>WorkerAnswersPreserves.
      ASSUME Counting, IInv, NEW t \in tasks, WorkerAnswers(t)
      PROVE  IInv'
  <2> USE <1>WorkerAnswersPreserves
  <2> DEFINE m == Message(t, "http", NoPin)  u == [t EXCEPT !.answered = TRUE]
             rest == tasks \ {t}
  <2>1. /\ TypeOK /\ t \in Task /\ t.fd \in Fds /\ t.kind \in Kind /\ ~exited
        /\ Live(conn[t.fd], t) /\ HandleOf(t) \in handles
        /\ IsFiniteSet(tasks) /\ \A v \in tasks : v.id < taskIds
        /\ \A v, w \in tasks : v.id = w.id => v = w
    BY <1>TaskFacts, Zenon
  <2>2. /\ tasks' = rest \union {u} /\ outbox' = Append(outbox, m)
        /\ UNCHANGED <<conn, handles, taskIds, offIds, agenda>> /\ UNCHANGED drainVars
    BY Zenon DEF WorkerAnswers
  <2>3. m \in Msg /\ m.release = NoPin
    BY <2>1, Zenon DEF Message, Msg, Task
  <2>4. HandleOf(m) \in handles
    <3>1. HandleOf(m) = HandleOf(t)
      BY Zenon DEF HandleOf, Message
    <3> QED BY <2>1, <3>1, Zenon
  <2>5. /\ u \in Task /\ u.fd = t.fd /\ u.kind = t.kind /\ u.gen = t.gen /\ u.id = t.id
        /\ u.serial = t.serial
    BY <2>1, Zenon DEF Task
  <2> HIDE DEF m, u
  <2>6. IsFiniteSet(rest) /\ u \notin rest /\ t \in tasks /\ rest \subseteq tasks
    BY <2>1, <2>5, CountRemove, Zenon
  <2>7. HandleOf(u) \in handles /\ Live(conn[u.fd], u)
    BY <2>1, <2>5, Zenon DEF HandleOf, Live
  <2>8. /\ outbox' \in Seq(Msg)
        /\ \A i \in 1..Len(outbox') : HandleOf(outbox'[i]) \in handles
        /\ \A i \in 1..Len(outbox') :
              outbox'[i].release /= NoPin => Live(conn[outbox'[i].fd], outbox'[i])
    BY <2>2, <2>3, <2>4, <1>Pushed, Zenon
  <2>9. TypeOK'
    BY <2>1, <2>2, <2>5, <2>8, Zenon DEF TypeOK, drainVars
  <2>10. AgendaOK'
    BY <2>2, Zenon DEF IInv, PinInv, AgendaOK, drainVars
  <2>11. TasksOK'
    <3>1. IsFiniteSet(tasks')
      BY <2>2, <2>6, CountAdd, Zenon
    <3>2. \A v \in tasks' : v.id < taskIds'
      BY <2>1, <2>2, <2>5, <2>6, Zenon
    <3>3. \A v, w \in tasks' : v.id = w.id => v = w
      <4>1. \A v \in rest : v.id /= t.id
        BY <2>1, <2>6, Zenon
      <4> QED BY <2>1, <2>2, <2>5, <2>6, <4>1, Zenon
    <3> QED BY <3>1, <3>2, <3>3, Zenon DEF TasksOK
  <2>12. PinsBalanced'
    <3> SUFFICES ASSUME NEW g \in Fds, NEW k \in Kind
                 PROVE  conn'[g].pins[k] = Cardinality(Running(tasks', g, k))
                                             + Cardinality(Releasing(outbox', g, k))
      BY Zenon DEF PinsBalanced, Holders, Running, Releasing
    <3> DEFINE x == Cardinality(Running(tasks, g, k))  y == Cardinality(Releasing(outbox, g, k))
               z == Cardinality(Running(rest, g, k))  v == Cardinality(Running(tasks', g, k))
               w == Cardinality(Releasing(outbox', g, k))
    <3>1. conn[g].pins[k] = x + y /\ x \in Nat /\ y \in Nat
      BY Balance, Zenon
    <3>2. z = IF t.fd = g /\ t.kind = k THEN x - 1 ELSE x
      BY <2>1, RunningRemove
    <3>3. v = IF u.fd = g /\ u.kind = k THEN z + 1 ELSE z
      BY <2>2, <2>6, RunningAdd
    <3>4. ~Matches(m, g, k)
      BY <2>3, Zenon DEF Matches, Kind, NoPin
    <3>5. w = y
      BY <2>1, <2>2, <2>3, <3>4, ReleasingAppend DEF TypeOK
    <3> HIDE DEF x, y, z, v, w
    <3>6. conn'[g].pins[k] = v + w
      BY <2>2, <2>5, <3>1, <3>2, <3>3, <3>5
    <3> QED BY <3>6, Zenon DEF v, w
  <2>13. PinnedSlotHeld'
    <3>1. \A v \in tasks' : Live(conn[v.fd], v)
      BY <2>2, <2>6, <2>7, Zenon DEF IInv, PinInv, PinnedSlotHeld
    <3> QED BY <2>1, <2>2, <2>8, <3>1, Zenon DEF PinnedSlotHeld, drainVars
  <2>14. HandlesOK'
    <3>1. \A v \in tasks' : HandleOf(v) \in handles
      BY <2>2, <2>6, <2>7, Zenon DEF IInv, AnswerInv, HandlesOK
    <3> QED BY <2>2, <2>8, <3>1, LoopUntouched, Zenon DEF HandlesOK
  <2> QED BY <2>2, <2>9, <2>10, <2>11, <2>12, <2>13, <2>14, LoopUntouched, Zenon
          DEF IInv, PinInv, AnswerInv

<1>Step.
      ASSUME Counting, IInv,
             \/ \E h \in handles : OffLoopSend(h)
             \/ \E t \in tasks : WorkerAnswers(t) \/ WorkerFinishes(t)
      PROVE  IInv'
    BY <1>Step, <1>OffLoopSendPreserves, <1>WorkerAnswersPreserves, <1>WorkerFinishesPreserves, Zenon
<1> QED BY <1>Step, Zenon

\* The tail of an iteration: the drain closes what is left, and may end.
LEMMA IterationEndPreserves ==
    ASSUME Counting, IInv, IterationEnd
    PROVE  IInv'
<1>1. /\ agenda = <<>> /\ agenda' = <<>> /\ marking = {} /\ marking' = {}
      /\ UNCHANGED workVars /\ UNCHANGED <<draining, graceOver>> /\ DOMAIN conn' = Fds
      /\ exited' = DrainDone(conn')
  BY Zenon DEF IterationEnd, Quiescent
<1>2. UNCHANGED <<tasks, outbox, handles, taskIds, offIds>>
  BY <1>1, Zenon DEF workVars
<1>3. ASSUME NEW g \in Fds
      PROVE  conn'[g] = conn[g] \/ conn'[g] = CloseConn(conn[g])
  <2> DEFINE c == conn[g]
  <2>1. conn'[g] = IF graceOver THEN ForceClosed(DrainSwept(c)) ELSE DrainSwept(c)
    BY Zenon DEF IterationEnd
  <2>2. CASE DrainSwept(c) = c
    BY <2>1, <2>2, Zenon DEF ForceClosed
  <2>3. CASE DrainSwept(c) /= c
    <3>1. DrainSwept(c) = CloseConn(c) /\ TotalPins(c) = 0
      BY <2>3, Zenon DEF DrainSwept
    <3>2. CloseConn(c) = Freed(c)
      BY <3>1 DEF CloseConn
    <3>3. Freed(c).state = "free"
      BY Zenon DEF Freed, FreeSlot
    <3> QED BY <2>1, <3>1, <3>2, <3>3, Zenon DEF ForceClosed
  <2> QED BY <2>2, <2>3, Zenon
<1>4. ASSUME NEW g \in Fds
      PROVE  /\ IsSlot(conn'[g]) /\ Core(conn'[g]) /\ Owed(conn'[g], "none", "none")
             /\ Same(conn[g], conn'[g]) \/ Recycled(conn[g], conn'[g])
             /\ Moved(conn[g], conn'[g])
  <2> DEFINE c == conn[g]  d == CloseConn(c)
  <2>1. IsSlot(c) /\ Core(c) /\ Owed(c, "none", "none")
    BY <1>1, SlotFacts, Zenon
  <2>2. CASE conn'[g] = c
    BY <2>1, <2>2, Zenon DEF Same, Moved
  <2>3. CASE conn'[g] = d
    <3>1. IsSlot(d) /\ (Same(c, d) \/ Recycled(c, d))
      BY <2>1, CloseConnSlot, Zenon
    <3>2. Core(d) /\ Moved(c, d) /\ Closed(d)
      BY <2>1, CloseConnCore, Zenon
    <3> HIDE DEF d
    <3>3. Owed(d, "none", "none")
      BY <3>1, <3>2, ClosedOwed, Zenon
    <3> QED BY <2>3, <3>1, <3>2, <3>3, Zenon
  <2> QED BY <1>3, <2>2, <2>3, Zenon
<1>5. exited' => \A g \in Fds : conn'[g].state = "free"
  BY <1>1, Zenon DEF DrainDone
<1>6. PinsBalanced' /\ PinnedSlotHeld'
  BY <1>1, <1>2, <1>4, <1>5, SlotsKeepPins, Zenon DEF IInv
<1>7. TypeOK'
  <2>1. exited' \in BOOLEAN
    BY <1>1, Zenon DEF DrainDone
  <2> QED BY <1>1, <1>2, <1>4, <2>1, Zenon DEF IInv, PinInv, TypeOK
<1>8. AgendaOK' /\ ApplyOK' /\ TasksOK'
  BY <1>1, <1>2 DEF IInv, PinInv, AgendaOK, ApplyOK, TasksOK
<1>9. SlotsOK'
  <2>1. \A g \in Fds : Op(g)' = "none" /\ Then(g)' = "none"
    BY <1>1, Zenon DEF Op, Then
  <2> QED BY <1>4, <2>1, Zenon DEF SlotsOK
<1>10. HandlesOK'
  <2>1. ASSUME NEW h \in handles PROVE Known(conn'[h.fd], h)
    <3>1. h \in Handle /\ h.fd \in Fds /\ Known(conn[h.fd], h) /\ IsSlot(conn[h.fd])
      BY Zenon DEF IInv, PinInv, TypeOK, Handle, AnswerInv, HandlesOK
    <3> QED BY <1>4, <3>1, StaysKnown, Zenon
  <2> QED BY <1>2, <2>1, Zenon DEF IInv, AnswerInv, HandlesOK
<1> QED BY <1>6, <1>7, <1>8, <1>9, <1>10, Zenon DEF IInv, PinInv, AnswerInv

\* Nothing holds a pin on the slot.
Unheld(ts, q, fd) ==
    \A k \in Kind : /\ Cardinality(Running(ts, fd, k)) = 0
                    /\ Cardinality(Releasing(q, fd, k)) = 0

\* d is what the message at the head leaves of the slot of fd: its pin is released, and
\* the slot is as before or, with no pin left, given back.
TakenOff(fd, d) ==
    /\ \A k \in Kind : d.pins[k] = IF Head(outbox).release = k THEN conn[fd].pins[k] - 1
                                   ELSE conn[fd].pins[k]
    /\ \/ /\ d.gen = conn[fd].gen /\ Moved(conn[fd], d)
          /\ (conn[fd].state /= "free" /\ d.state /= "free") \/ conn[fd].state = d.state
       \/ (\A k \in Kind : d.pins[k] = 0) /\ d.gen = conn[fd].gen + 1

\* The slot c is the slot b, but for the pin that message m releases.
Released(b, c, m) ==
    /\ IsSlot(c) /\ c.wire = b.wire /\ c.out = b.out /\ c.state = b.state
    /\ c.serial = b.serial /\ c.gen = b.gen /\ c.parsed = b.parsed /\ c.unread = b.unread
    /\ c.malformed = b.malformed /\ c.awaiting = b.awaiting /\ c.responded = b.responded
    /\ c.closeAfterFlush = b.closeAfterFlush /\ c.closeRequested = b.closeRequested
    /\ c.seen = b.seen /\ c.deadline = b.deadline /\ c.shut = b.shut /\ c.dead = b.dead
    /\ c.registered = b.registered /\ c.writeArmed = b.writeArmed
    /\ \A k \in Kind : c.pins[k] = IF m.release = k THEN b.pins[k] - 1 ELSE b.pins[k]
    /\ m.release /= NoPin => Live(b, m)
    /\ ~Live(b, m) => c = b

\* The loop takes a message from the outbox.
LEMMA ApplyMessagePreserves ==
    Counting /\ IInv /\ ApplyMessage => IInv'

\* Counters at zero mean that nobody holds a pin.
<1>NoHolders.
      ASSUME Counting, NEW ts, IsFiniteSet(ts), ts \subseteq Task, NEW q \in Seq(Msg), NEW fd,
             Unheld(ts, q, fd)
      PROVE  /\ \A t \in ts : t.fd /= fd
             /\ \A i \in 1..Len(q) : q[i].release /= NoPin => q[i].fd /= fd
  <2> USE <1>NoHolders
  <2>1. ASSUME NEW k \in Kind PROVE Running(ts, fd, k) = {} /\ Releasing(q, fd, k) = {}
    <3>1. /\ IsFiniteSet(Running(ts, fd, k)) /\ IsFiniteSet(Releasing(q, fd, k))
      BY RunningFinite, ReleasingFinite, Zenon
    <3> QED BY <3>1 DEF Unheld, Counting
  <2>2. \A t \in ts : t.fd /= fd
    <3>1. \A t \in ts : t.kind \in Kind
      BY Zenon DEF Task
    <3> QED BY <2>1, <3>1, Zenon DEF Running
  <2>3. ASSUME NEW i \in 1..Len(q), q[i].release /= NoPin, q[i].fd = fd PROVE FALSE
    <3>1. q[i] \in Msg
      BY SeqElements, Zenon
    <3>2. q[i].release \in Kind
      BY <2>3, <3>1, Zenon DEF Msg
    <3>3. i \in Releasing(q, fd, q[i].release)
      BY <2>3, Zenon DEF Releasing
    <3> QED BY <2>1, <3>2, <3>3, Zenon
  <2> QED BY <2>2, <2>3, Zenon

\* The message applied releases its pin.
<1>MessageReleasesPin.
      ASSUME Counting, IInv, NEW fd \in Fds, outbox /= <<>>, Head(outbox).fd = fd,
             NEW d, IsSlot(d), Changes(fd, d),
             \A k \in Kind : d.pins[k] = IF Head(outbox).release = k THEN conn[fd].pins[k] - 1
                                         ELSE conn[fd].pins[k],
             \/ d.gen = conn[fd].gen /\ (conn[fd].state /= "free" => d.state /= "free")
             \/ \A k \in Kind : d.pins[k] = 0,
             outbox' = Tail(outbox), UNCHANGED <<tasks, exited>>
      PROVE  /\ DOMAIN conn' = Fds /\ \A g \in Fds : IsSlot(conn'[g])
             /\ outbox' \in Seq(Msg) /\ PinsBalanced' /\ PinnedSlotHeld'
             /\ \A i \in 1..Len(outbox') : HandleOf(outbox'[i]) \in handles
  <2> USE <1>MessageReleasesPin
  <2>1. /\ \A g \in Fds : IsSlot(conn[g]) /\ outbox \in Seq(Msg)
        /\ tasks \subseteq Task /\ IsFiniteSet(tasks)
    BY Zenon DEF IInv, PinInv, TypeOK, TasksOK
  <2>2. DOMAIN conn' = Fds /\ conn'[fd] = d /\ \A g \in Fds : g /= fd => conn'[g] = conn[g]
    BY Zenon DEF Changes
  <2>3. /\ outbox' \in Seq(Msg) /\ Len(outbox') \in Nat /\ Len(outbox) = Len(outbox') + 1
        /\ \A i \in 1..Len(outbox') : outbox'[i] = outbox[i + 1]
    <3>1. outbox' \in Seq(Msg) /\ Len(outbox') = Len(outbox) - 1 /\ Len(outbox) \in Nat \ {0}
          /\ \A i \in 1..Len(outbox') : outbox'[i] = outbox[i + 1]
      BY <2>1, TailIsSeq, SeqElements
    <3> QED BY <3>1
  <2>4. \A i \in 1..Len(outbox') : i + 1 \in 1..Len(outbox)
    BY <2>3
  <2>5. ASSUME NEW g \in Fds, NEW k \in Kind
        PROVE  conn'[g].pins[k] = Cardinality(Running(tasks, g, k))
                                    + Cardinality(Releasing(outbox', g, k))
    <3> DEFINE x == Cardinality(Running(tasks, g, k))  y == Cardinality(Releasing(outbox, g, k))
               w == Cardinality(Releasing(outbox', g, k))
    <3>1. conn[g].pins[k] = x + y /\ x \in Nat /\ y \in Nat
      BY Balance, Zenon
    <3>2. w = IF Matches(Head(outbox), g, k) THEN y - 1 ELSE y
      BY <2>1, ReleasingTail
    <3> HIDE DEF x, y, w
    <3>3. conn'[g].pins[k] = IF Matches(Head(outbox), g, k) THEN conn[g].pins[k] - 1
                                       ELSE conn[g].pins[k]
      BY <2>2, Zenon DEF Matches
    <3>4. conn'[g].pins[k] = x + w
      BY ONLY <3>1, <3>2, <3>3
    <3> QED BY <3>4, Zenon DEF x, w
  <2>6. PinsBalanced'
    BY <2>5, Zenon DEF PinsBalanced, Holders, Running, Releasing
  <2>7. ASSUME NEW x, x.fd \in Fds, Live(conn[x.fd], x),
               x.fd = fd => ~ \A k \in Kind : d.pins[k] = 0
        PROVE  Live(conn'[x.fd], x)
    BY <2>2, <2>7, Zenon DEF Live
  <2>8. (\A k \in Kind : d.pins[k] = 0) =>
          /\ \A t \in tasks : t.fd /= fd
          /\ \A i \in 1..Len(outbox') : outbox'[i].release /= NoPin => outbox'[i].fd /= fd
    <3> SUFFICES ASSUME \A k \in Kind : d.pins[k] = 0
                 PROVE  /\ \A t \in tasks : t.fd /= fd
                        /\ \A i \in 1..Len(outbox') :
                              outbox'[i].release /= NoPin => outbox'[i].fd /= fd
      BY Zenon
    <3> DEFINE q == outbox'
    <3>1. ASSUME NEW k \in Kind
          PROVE  Cardinality(Running(tasks, fd, k)) = 0 /\ Cardinality(Releasing(q, fd, k)) = 0
      <4> DEFINE x == Cardinality(Running(tasks, fd, k))  y == Cardinality(Releasing(q, fd, k))
      <4>1. x + y = 0
        BY <2>2, <2>5
      <4>2. x \in Nat /\ y \in Nat
        BY <2>1, <2>3, RunningFinite, ReleasingFinite, Zenon
      <4> HIDE DEF x, y
      <4>3. x = 0 /\ y = 0
        BY <4>1, <4>2
      <4> QED BY <4>3, Zenon DEF x, y
    <3>2. IsFiniteSet(tasks) /\ tasks \subseteq Task /\ q \in Seq(Msg) /\ Unheld(tasks, q, fd)
      BY <2>1, <2>3, <3>1, Zenon DEF Unheld
    <3>4. Counting
      BY Zenon
    <3> HIDE DEF q
    <3>3. /\ \A t \in tasks : t.fd /= fd
          /\ \A i \in 1..Len(q) : q[i].release /= NoPin => q[i].fd /= fd
      BY ONLY <3>2, <3>4, <1>NoHolders, Zenon
    <3> QED BY <3>3, Zenon DEF q
  <2>9. ASSUME NEW t \in tasks PROVE Live(conn'[t.fd], t)
    <3>1. t.fd \in Fds /\ Live(conn[t.fd], t)
      BY <2>1, Zenon DEF Task, IInv, PinInv, PinnedSlotHeld
    <3> QED BY <2>7, <2>8, <3>1, Zenon
  <2>10. ASSUME NEW i \in 1..Len(outbox'), outbox'[i].release /= NoPin
         PROVE  Live(conn'[outbox'[i].fd], outbox'[i])
    <3>1. outbox'[i] \in Msg
      BY <2>3, SeqElements, Zenon
    <3>2. outbox'[i].fd \in Fds /\ Live(conn[outbox'[i].fd], outbox'[i])
      BY <2>3, <2>4, <2>10, <3>1 DEF Msg, IInv, PinInv, PinnedSlotHeld
    <3> QED BY <2>7, <2>8, <2>10, <3>2, Zenon
  <2>11. PinnedSlotHeld'
    BY <2>3, <2>4, <2>9, <2>10 DEF IInv, PinInv, PinnedSlotHeld
  <2>12. \A i \in 1..Len(outbox') : HandleOf(outbox'[i]) \in handles
    BY <2>3, <2>4, Zenon DEF IInv, AnswerInv, HandlesOK
  <2>13. \A g \in Fds : IsSlot(conn'[g])
    BY <2>1, <2>2, Zenon
  <2> QED BY <2>2, <2>3, <2>6, <2>11, <2>12, <2>13, Zenon

\* What is left of the invariant when one slot changes and a message is taken off.
<1>MessageStep.
      ASSUME Counting, IInv, NEW fd \in Fds, outbox /= <<>>, Head(outbox).fd = fd,
             NEW d, IsSlot(d), Changes(fd, d), Core(d), Owed(d, Op(fd)', Then(fd)'),
             TakenOff(fd, d), agenda = <<>>, AgendaOK', ApplyOK',
             \A g \in Fds : g /= fd => Op(g)' = "none" /\ Then(g)' = "none",
             outbox' = Tail(outbox), UNCHANGED <<tasks, handles, taskIds, offIds, drainVars>>
      PROVE  IInv'
  <2> USE <1>MessageStep
  <2>1. UNCHANGED <<draining, marking, graceOver, exited>>
    BY Zenon DEF drainVars
  <2>2. /\ DOMAIN conn' = Fds /\ \A g \in Fds : IsSlot(conn'[g])
        /\ outbox' \in Seq(Msg) /\ PinsBalanced' /\ PinnedSlotHeld'
        /\ \A i \in 1..Len(outbox') : HandleOf(outbox'[i]) \in handles
    <3>1. \/ d.gen = conn[fd].gen /\ (conn[fd].state /= "free" => d.state /= "free")
          \/ \A k \in Kind : d.pins[k] = 0
      BY Zenon DEF TakenOff
    <3>2. \A k \in Kind : d.pins[k] = IF Head(outbox).release = k THEN conn[fd].pins[k] - 1
                                      ELSE conn[fd].pins[k]
      BY Zenon DEF TakenOff
    <3> QED BY <2>1, <3>1, <3>2, <1>MessageReleasesPin, Zenon
  <2>3. TypeOK'
    BY <2>1, <2>2, Zenon DEF IInv, PinInv, TypeOK
  <2>4. TasksOK'
    BY Zenon DEF IInv, PinInv, TasksOK
  <2>5. SlotsOK'
    BY IdleLoop, SlotsStay, Zenon
  <2>6. ASSUME NEW h \in handles PROVE Known(conn'[h.fd], h)
    <3>1. CASE /\ d.gen = conn[fd].gen /\ Moved(conn[fd], d)
               /\ (conn[fd].state /= "free" /\ d.state /= "free") \/ conn[fd].state = d.state
      BY <3>1, KnownKept, Zenon
    <3>2. CASE d.gen = conn[fd].gen + 1
      <4>1. h \in Handle /\ h.fd \in Fds /\ Known(conn[h.fd], h) /\ IsSlot(conn[fd])
        BY Zenon DEF IInv, PinInv, TypeOK, Handle, AnswerInv, HandlesOK
      <4>2. CASE h.fd /= fd
        BY <4>1, <4>2, Zenon DEF Changes
      <4>3. CASE h.fd = fd
        <5>1. h.gen <= conn[fd].gen /\ h.gen \in Nat /\ conn[fd].gen \in Nat
          BY <4>1, <4>3, Zenon DEF Known, IsSlot, Handle
        <5>2. Known(d, h)
          BY <3>2, <5>1 DEF Known
        <5> QED BY <4>3, <5>2, Zenon DEF Changes
      <4> QED BY <4>2, <4>3, Zenon
    <3> QED BY <3>1, <3>2, Zenon DEF TakenOff
  <2>7. HandlesOK'
    BY <2>2, <2>6, Zenon DEF IInv, AnswerInv, HandlesOK
  <2> QED BY <2>2, <2>3, <2>4, <2>5, <2>7, Zenon DEF IInv, PinInv, AnswerInv

\* The slot after the message's release: as before, but for the pin.
<1>ReleasedSlot.
      ASSUME Counting, IInv, outbox /= <<>>, NEW fd \in Fds, Head(outbox).fd = fd, NEW c,
             c = IF Releases(conn[fd], Head(outbox)) THEN Unpin(conn[fd], Head(outbox).release)
                 ELSE conn[fd]
      PROVE  Released(conn[fd], c, Head(outbox))
  <2> USE <1>ReleasedSlot
  <2> DEFINE b == conn[fd]  m == Head(outbox)
  <2>1. IsSlot(b) /\ outbox \in Seq(Msg)
    BY Zenon DEF IInv, PinInv, TypeOK
  <2>2. m \in Msg /\ m = outbox[1] /\ 1 \in 1..Len(outbox)
    <3>1. m \in Msg /\ m = outbox[1] /\ Len(outbox) \in Nat \ {0}
      BY <2>1, TailIsSeq, SeqElements, Zenon
    <3>2. 1 \in 1..Len(outbox)
      BY ONLY <3>1
    <3> QED BY <3>1, <3>2, Zenon
  <2>3. m.release /= NoPin => Live(b, m)
    BY <2>2, Zenon DEF IInv, PinInv, PinnedSlotHeld
  <2>4. m.release \in Kind \union {NoPin}
    BY <2>2, Zenon DEF Msg
  <2>5. CASE m.release = NoPin
    <3>1. c = b /\ \A k \in Kind : m.release /= k
      BY <2>5, Zenon DEF Releases, Kind, NoPin
    <3> QED BY <2>1, <2>3, <3>1, Zenon DEF Released
  <2>6. CASE m.release /= NoPin
    <3> DEFINE k == m.release  p == [b.pins EXCEPT ![k] = b.pins[k] - 1]
    <3>1. k \in Kind /\ c = Unpin(b, k)
      BY <2>3, <2>4, <2>6, Zenon DEF Releases
    <3>2. b.pins \in [Kind -> Nat] /\ b.pins[k] - 1 \in Nat
      <4> DEFINE x == Cardinality(Running(tasks, fd, k))  y == Cardinality(Releasing(outbox, fd, k))
                 w == Cardinality(Releasing(Tail(outbox), fd, k))
      <4>1. b.pins[k] = x + y /\ x \in Nat /\ y \in Nat
        BY <3>1, Balance, Zenon
      <4>2. w = y - 1
        BY <2>1, ReleasingTail, Zenon DEF Matches
      <4>3. w \in Nat
        <5>1. Tail(outbox) \in Seq(Msg)
          BY <2>1, TailIsSeq, Zenon
        <5> QED BY <5>1, ReleasingFinite, Zenon
      <4> HIDE DEF x, y, w
      <4>4. b.pins[k] - 1 \in Nat
        BY <4>1, <4>2, <4>3
      <4> QED BY <2>1, <4>4, Zenon DEF IsSlot
    <3>3. p \in [Kind -> Nat] /\ \A j \in Kind : p[j] = IF k = j THEN b.pins[j] - 1 ELSE b.pins[j]
      BY <3>1, <3>2, Zenon
    <3>4. c = WithPins(b, p)
      BY <2>1, <3>1, Zenon DEF Unpin, WithPins, IsSlot, FreeSlot
    <3> HIDE DEF p
    <3> HIDE DEF k
    <3>5. IsSlot(c) /\ c.pins = p
      BY <2>1, <3>3, <3>4, ZenonT(30) DEF WithPins, IsSlot, FreeSlot
    <3>6. /\ c.wire = b.wire /\ c.out = b.out /\ c.state = b.state
          /\ c.serial = b.serial /\ c.gen = b.gen /\ c.parsed = b.parsed
          /\ c.unread = b.unread /\ c.malformed = b.malformed
          /\ c.awaiting = b.awaiting /\ c.responded = b.responded
          /\ c.closeAfterFlush = b.closeAfterFlush /\ c.closeRequested = b.closeRequested
          /\ c.seen = b.seen /\ c.deadline = b.deadline /\ c.shut = b.shut /\ c.dead = b.dead
          /\ c.registered = b.registered /\ c.writeArmed = b.writeArmed
      BY <2>1, <3>4, Zenon DEF WithPins, IsSlot, FreeSlot
    <3> USE DEF k
    <3> QED BY <2>3, <2>6, <3>3, <3>5, <3>6, Zenon DEF Released
  <2> QED BY <2>5, <2>6, Zenon

\* An empty agenda owes nothing.
<1>IdleAgenda.
      ASSUME agenda' = <<>>, UNCHANGED <<marking, exited>>, marking = {}
      PROVE  AgendaOK' /\ ApplyOK' /\ \A g \in Fds : Op(g)' = "none" /\ Then(g)' = "none"
  <2> USE <1>IdleAgenda
  <2>1. /\ agenda' \in Seq(Item) /\ Len(agenda') = 0
        /\ \A i \in 1..Len(agenda') : FALSE
    OBVIOUS
  <2>2. AgendaOK' /\ ApplyOK'
    <3>1. ApplyOK'
      BY <2>1, Zenon DEF ApplyOK
    <3>2. \A i \in 1..Len(agenda') : agenda'[i].fd = agenda'[1].fd
      BY <2>1, Zenon
    <3>3. AgendaOK'
      BY <2>1, <3>2, Zenon DEF AgendaOK
    <3> QED BY <3>1, <3>3, Zenon
  <2>3. ASSUME NEW g \in Fds PROVE Op(g)' = "none" /\ Then(g)' = "none"
    <3>1. Op(g)' = "none"
      BY Zenon DEF Op
    <3>2. "none" /= "process"
      BY Zenon
    <3> QED BY <3>1, <3>2, Zenon DEF Then
  <2> QED BY <2>2, <2>3, Zenon

<1>Step.
      ASSUME Counting, IInv, ApplyMessage
      PROVE  IInv'
  <2> USE <1>Step
  <2>1. /\ agenda = <<>> /\ marking = {} /\ ~exited /\ outbox /= <<>> /\ outbox' = Tail(outbox)
        /\ UNCHANGED <<tasks, handles, taskIds, offIds, drainVars>>
    BY Zenon DEF ApplyMessage, Quiescent
  <2>2. PICK m \in Msg : m = Head(outbox) /\ HandleOf(m) \in handles
    <3>1. Head(outbox) \in Msg /\ Head(outbox) = outbox[1] /\ 1 \in 1..Len(outbox)
      BY <2>1, TailIsSeq, SeqElements DEF IInv, PinInv, TypeOK
    <3> QED BY <3>1, Zenon DEF IInv, AnswerInv, HandlesOK
  <2>3. PICK fd \in Fds : m.fd = fd
    BY <2>2, Zenon DEF Msg
  <2> DEFINE b == conn[fd]
             c == IF Releases(b, m) THEN Unpin(b, m.release) ELSE b
             x == IF m.what = "done" THEN Step("pending", fd)
                  ELSE [op |-> "apply", fd |-> fd, serial |-> m.serial,
                        stale |-> c.serial /= m.serial]
  <2>4. /\ ~Live(c, m) => Becomes(fd, c) /\ agenda' = <<>>
        /\ Live(c, m) /\ c.closeRequested => Becomes(fd, CloseConn(c)) /\ agenda' = <<>>
        /\ Live(c, m) /\ ~c.closeRequested =>
              /\ Becomes(fd, c)
              /\ agenda' = <<Step("process", fd), x>> \/ agenda' = <<x>>
    BY <2>1, <2>2, <2>3, Zenon DEF ApplyMessage, OwesClose
  <2>5. IsSlot(b) /\ Core(b) /\ Owed(b, "none", "none") /\ TypeOK
    BY <2>1, SlotFacts, Zenon
  <2>6. /\ c = IF Releases(b, Head(outbox)) THEN Unpin(b, Head(outbox).release) ELSE b
        /\ Head(outbox).fd = fd
    BY <2>2, <2>3, Zenon
  <2>7. x = IF m.what = "done" THEN Step("pending", fd)
            ELSE [op |-> "apply", fd |-> fd, serial |-> m.serial, stale |-> c.serial /= m.serial]
    BY Zenon
  <2> HIDE DEF c, x
  <2>8. /\ IsSlot(c) /\ c.wire = b.wire /\ c.out = b.out /\ c.state = b.state
        /\ c.serial = b.serial /\ c.gen = b.gen /\ c.parsed = b.parsed /\ c.unread = b.unread
        /\ c.malformed = b.malformed /\ c.awaiting = b.awaiting /\ c.responded = b.responded
        /\ c.closeAfterFlush = b.closeAfterFlush /\ c.closeRequested = b.closeRequested
        /\ c.seen = b.seen /\ c.deadline = b.deadline /\ c.shut = b.shut /\ c.dead = b.dead
        /\ c.registered = b.registered /\ c.writeArmed = b.writeArmed
        /\ \A k \in Kind : c.pins[k] = IF m.release = k THEN b.pins[k] - 1 ELSE b.pins[k]
        /\ ~Live(b, m) => c = b
    <3>1. Released(b, c, Head(outbox))
      BY <2>1, <2>6, <1>ReleasedSlot, Zenon
    <3>2. Released(b, c, m)
      BY <2>2, <3>1, Zenon
    <3> QED BY <3>2, Zenon DEF Released
  <2>9. Live(c, m) <=> Live(b, m)
    BY <2>8, Zenon DEF Live
  <2>10. /\ Moved(b, c) /\ ((b.state /= "free" /\ c.state /= "free") \/ b.state = c.state)
         /\ \A k \in Kind : c.pins[k] = IF Head(outbox).release = k THEN b.pins[k] - 1
                                        ELSE b.pins[k]
         /\ TakenOff(fd, c) /\ IsSlot(c)
    <3>1. /\ Moved(b, c) /\ ((b.state /= "free" /\ c.state /= "free") \/ b.state = c.state)
          /\ \A k \in Kind : c.pins[k] = IF Head(outbox).release = k THEN b.pins[k] - 1
                                         ELSE b.pins[k]
      BY <2>2, <2>3, <2>8, Zenon DEF Moved
    <3> QED BY <2>8, <3>1, Zenon DEF TakenOff
  <2>11. CASE ~Live(c, m)
    <3>1. c = b /\ agenda' = <<>> /\ Becomes(fd, c)
      BY <2>4, <2>8, <2>9, <2>11, Zenon
    <3>2. Changes(fd, c)
      BY <2>5, <3>1, BecomesChanges, Zenon
    <3>3. Core(c) /\ Owed(c, "none", "none")
      BY <2>5, <3>1, Zenon
    <3>4. AgendaOK' /\ ApplyOK' /\ \A g \in Fds : Op(g)' = "none" /\ Then(g)' = "none"
      BY <2>1, <3>1, <1>IdleAgenda, Zenon DEF drainVars
    <3>5. Owed(c, Op(fd)', Then(fd)')
      BY <3>3, <3>4, Zenon
    <3> QED BY <2>1, <2>6, <2>10, <3>2, <3>3, <3>4, <3>5, <1>MessageStep, Zenon
  <2>12. CASE Live(c, m) /\ c.closeRequested
    <3> DEFINE d == CloseConn(c)
    <3>1. agenda' = <<>> /\ Becomes(fd, d)
      BY <2>4, <2>12, Zenon
    <3>2. AgendaOK' /\ ApplyOK' /\ \A g \in Fds : Op(g)' = "none" /\ Then(g)' = "none"
      BY <2>1, <3>1, <1>IdleAgenda, Zenon DEF drainVars
    <3>3. Changes(fd, d)
      BY <2>5, <3>1, BecomesChanges, Zenon
    <3>4. IsSlot(d) /\ (Same(c, d) \/ Recycled(c, d))
      BY <2>8, CloseConnSlot, Zenon
    <3>5. b.state /= "free" /\ c.state /= "free"
      BY <2>8, <2>12, Zenon DEF Live
    <3>6. CASE TotalPins(c) > 0
      <4>1. Sent(c) = Sent(b)
        BY <2>8, Zenon DEF Sent
      <4>2. Core(c)
        BY <2>5, <2>8, <3>5, <3>6, <4>1, SameAnswers, Zenon DEF Core, Answers, Stages, States
      <4>3. Core(d) /\ Moved(c, d) /\ Closed(d)
        BY <2>8, <4>2, CloseConnCore, Zenon
      <4> HIDE DEF d
      <4>4. Owed(d, "none", "none")
        BY <3>4, <4>3, ClosedOwed, Zenon
      <4>5. ~Recycled(c, d)
        <5>1. TotalPins(c) /= 0
          BY <3>6
        <5> QED BY <5>1, Zenon DEF Recycled
      <4>6. d.gen = b.gen /\ d.pins = c.pins /\ d.state /= "free"
        BY <2>8, <3>4, <3>5, <4>5, Zenon DEF Same
      <4>7. Moved(b, d)
        BY <2>8, <3>5, <4>3, Zenon DEF Moved
      <4>8. Owed(d, Op(fd)', Then(fd)')
        BY <3>2, <4>4, Zenon
      <4>9. TakenOff(fd, d)
        BY <2>10, <3>5, <4>6, <4>7, Zenon DEF TakenOff
      <4> QED BY <2>1, <2>6, <3>2, <3>3, <3>4, <4>3, <4>8, <4>9, <1>MessageStep, Zenon
    <3>7. CASE ~(TotalPins(c) > 0)
      <4> DEFINE g == c.gen + 1  n == c.serial
      <4>1. g \in Nat /\ n \in Nat /\ d = Emptied(g, n)
        <5>1. g \in Nat /\ n \in Nat
          BY <2>8 DEF IsSlot
        <5>2. d = Emptied(g, n)
          BY <3>7, Zenon DEF CloseConn, Freed, Emptied
        <5> QED BY <5>1, <5>2, Zenon
      <4>2. g = b.gen + 1
        BY <2>8, Zenon
      <4>3. \A k \in Kind : c.pins[k] = 0
        <5>1. c.pins["blocking"] \in Nat /\ c.pins["await"] \in Nat
          BY <2>8, Zenon DEF IsSlot, Kind
        <5>2. ~(c.pins["blocking"] + c.pins["await"] > 0)
          BY <3>7, Zenon DEF TotalPins
        <5>3. c.pins["blocking"] = 0 /\ c.pins["await"] = 0
          BY <5>1, <5>2
        <5> QED BY <5>3, Zenon DEF Kind
      <4> HIDE DEF g, n, d
      <4>4. Core(d) /\ d.gen = g /\ d.state = "free" /\ d.pins = [k \in Kind |-> 0]
        BY <4>1, FreeCore, FreedSlot, Zenon
      <4>5. \A k \in Kind : d.pins[k] = 0 /\ d.pins[k] = c.pins[k]
        BY <4>3, <4>4, Zenon
      <4>6. Owed(d, "none", "none")
        <5>1. ~d.closeRequested
          BY <4>1, FreedSlot, Zenon
        <5> QED BY <3>4, <4>4, <5>1, ClosedOwed, Zenon DEF Closed
      <4>7. Owed(d, Op(fd)', Then(fd)')
        BY <3>2, <4>6, Zenon
      <4>8. TakenOff(fd, d)
        BY <2>10, <4>2, <4>4, <4>5, Zenon DEF TakenOff
      <4> QED BY <2>1, <2>6, <3>2, <3>3, <3>4, <4>4, <4>7, <4>8, <1>MessageStep, Zenon
    <3> QED BY <3>6, <3>7, Zenon
  <2>13. CASE Live(c, m) /\ ~c.closeRequested
    <3>1. Becomes(fd, c) /\ (agenda' = <<Step("process", fd), x>> \/ agenda' = <<x>>)
      BY <2>4, <2>13, Zenon
    <3>2. Changes(fd, c)
      BY <2>5, <3>1, BecomesChanges, Zenon
    <3>3. b.state /= "free" /\ c.state /= "free" /\ m.gen = b.gen
      BY <2>8, <2>13, Zenon DEF Live
    <3>4. Sent(c) = Sent(b)
      BY <2>8, Zenon DEF Sent
    <3>5. Core(c)
      BY <2>5, <2>8, <2>13, <3>3, <3>4, SameAnswers, Zenon DEF Core, Answers, Stages, States
    <3>6. \A op \in {"process", "pending", "apply"}, then \in {"pending", "apply"} :
              Owed(c, op, then)
      BY <2>5, <2>8, <2>13, Zenon DEF Owed, Unsent, Buffered
    <3>7. x \in Item /\ x.fd = fd /\ x.op \in {"pending", "apply"}
      BY <2>2, <2>7, Zenon DEF Item, Step, Msg
    <3>8. x.op = "apply" /\ ~x.stale => c.serial = x.serial /\ (c.awaiting \/ c.responded)
      <4> SUFFICES ASSUME x.op = "apply", ~x.stale
                   PROVE  c.serial = x.serial /\ (c.awaiting \/ c.responded)
        BY Zenon
      <4>1. x.serial = m.serial /\ c.serial = m.serial
        BY <2>7, Zenon DEF Step
      <4>2. Known(b, HandleOf(m))
        BY <2>2, <2>3, Zenon DEF IInv, AnswerInv, HandlesOK, HandleOf
      <4>3. b.awaiting \/ b.responded
        BY <2>8, <3>3, <4>1, <4>2, Zenon DEF Known, HandleOf
      <4> QED BY <2>8, <4>1, <4>3, Zenon
    <3>9. marking' = {} /\ ~exited' /\ conn'[fd] = c
      BY <2>1, <3>2, Zenon DEF drainVars, Changes
    <3>10. CASE agenda' = <<x>>
      <4>1. /\ AgendaOK' /\ Op(fd)' = x.op /\ Then(fd)' = x.op
            /\ \A g \in Fds : g /= fd => Op(g)' = "none" /\ Then(g)' = "none"
        BY <3>7, <3>9, <3>10, StartOne, Zenon
      <4>2. ApplyOK'
        BY <3>7, <3>8, <3>9, <3>10 DEF ApplyOK
      <4>3. Owed(c, Op(fd)', Then(fd)')
        BY <3>6, <3>7, <4>1, Zenon
      <4> QED BY <2>1, <2>6, <2>10, <3>2, <3>5, <4>1, <4>2, <4>3, <1>MessageStep, Zenon
    <3>11. CASE agenda' = <<Step("process", fd), x>>
      <4>1. /\ AgendaOK' /\ Op(fd)' = "process" /\ Then(fd)' = x.op
            /\ \A g \in Fds : g /= fd => Op(g)' = "none" /\ Then(g)' = "none"
        BY <3>7, <3>9, <3>11, StartTwo, Zenon
      <4>2. ApplyOK'
        <5>1. Len(agenda') = 2 /\ agenda'[1].op = "process" /\ agenda'[2] = x
          BY <3>11, Zenon DEF Step
        <5> QED BY <3>7, <3>8, <3>9, <5>1 DEF ApplyOK
      <4>3. Owed(c, Op(fd)', Then(fd)')
        BY <3>6, <3>7, <4>1, Zenon
      <4> QED BY <2>1, <2>6, <2>10, <3>2, <3>5, <4>1, <4>2, <4>3, <1>MessageStep, Zenon
    <3> QED BY <3>1, <3>10, <3>11, Zenon
  <2> QED BY <2>11, <2>12, <2>13, Zenon
<1> QED BY <1>Step, Zenon

-----------------------------------------------------------------------------
(* The invariant holds, and what follows from it.                           *)

\* An empty connection table satisfies the invariant.
LEMMA IInvInit ==
    ASSUME Counting, Init
    PROVE  IInv
<1>1. /\ conn = [fd \in Fds |-> FreeSlot] /\ tasks = {} /\ outbox = <<>> /\ handles = {}
      /\ taskIds = 0 /\ offIds = 0 /\ agenda = <<>> /\ draining = FALSE /\ marking = {}
      /\ graceOver = FALSE /\ exited = FALSE
  BY Zenon DEF Init
<1>2. PICK g \in Nat, n \in Nat : g = 0 /\ n = 0
  BY Zenon
<1> DEFINE d == Emptied(g, n)
<1>3. /\ IsSlot(d) /\ d.state = "free" /\ d.pins = [k \in Kind |-> 0] /\ ~d.closeRequested
      /\ Core(d)
  BY FreedSlot, FreeCore, Zenon
<1>4. Owed(d, "none", "none")
  <2> HIDE DEF d
  <2> QED BY <1>3, ClosedOwed, Zenon DEF Closed
<1>5. \A fd \in Fds : conn[fd] = d
  <2>1. d = FreeSlot
    <3>1. DOMAIN d = DOMAIN FreeSlot
      BY Zenon DEF Emptied, FreeSlot
    <3>2. FreeSlot.gen = g /\ FreeSlot.serial = n
      BY <1>2, Zenon DEF FreeSlot
    <3>3. \A f \in DOMAIN FreeSlot : d[f] = FreeSlot[f]
      BY <3>2, Zenon DEF Emptied
    <3> QED BY <3>1, <3>3, Zenon DEF Emptied, FreeSlot
  <2> QED BY <1>1, <2>1, Zenon
<1> HIDE DEF d
<1>6. TypeOK
  <2>1. outbox \in Seq(Msg)
    BY <1>1
  <2>2. DOMAIN conn = Fds /\ \A fd \in Fds : IsSlot(conn[fd])
    BY <1>1, <1>3, <1>5, Zenon
  <2>3. taskIds \in 0..MaxTask /\ offIds \in 0..MaxOff
    BY <1>1, ConnAssumption
  <2> QED BY <1>1, <2>1, <2>2, <2>3, Zenon DEF TypeOK
<1>7. AgendaOK /\ ApplyOK
  BY <1>1 DEF AgendaOK, ApplyOK
<1>8. TasksOK
  BY <1>1, Zenon DEF TasksOK, Counting
<1>9. PinsBalanced
  <2> SUFFICES ASSUME NEW fd \in Fds, NEW k \in Kind PROVE conn[fd].pins[k] = Holders(fd, k)
    BY Zenon DEF PinsBalanced
  <2>1. {t \in tasks : t.fd = fd /\ t.kind = k} = {}
    BY <1>1, Zenon
  <2>2. {i \in 1..Len(outbox) : outbox[i].fd = fd /\ outbox[i].release = k} = {}
    BY <1>1
  <2>3. Holders(fd, k) = 0
    <3>1. Holders(fd, k) = 0 + 0
      BY <2>1, <2>2, Zenon DEF Holders, Counting
    <3> QED BY <3>1
  <2> QED BY <1>3, <1>5, <2>3, Zenon
<1>10. PinnedSlotHeld /\ HandlesOK
  BY <1>1 DEF PinnedSlotHeld, HandlesOK
<1>11. SlotsOK
  BY <1>1, <1>3, <1>4, <1>5, Zenon DEF SlotsOK, Op, Then
<1> QED BY <1>6, <1>7, <1>8, <1>9, <1>10, <1>11, Zenon DEF IInv, PinInv, AnswerInv

\* One step of the loop, of a worker or of a thread outside the server.
LEMMA IInvNext ==
    ASSUME Counting, IInv, [Next]_vars
    PROVE  IInv'
<1>1. CASE OneSlotStep
  BY <1>1, OneSlotPreserves, KeptPreserves, Zenon
<1>2. CASE ProcessRequest
  BY <1>2, ProcessRequestPreserves, Zenon
<1>3. ASSUME NEW h \in handles, NEW k \in Kind, Dispatch(h, k) PROVE IInv'
  BY <1>3, DispatchPreserves, Zenon
<1>4. CASE \/ \E h \in handles : OffLoopSend(h)
           \/ \E t \in tasks : WorkerAnswers(t) \/ WorkerFinishes(t)
  BY <1>4, WorkerPreserves, Zenon
<1>5. CASE ApplyMessage
  BY <1>5, ApplyMessagePreserves, Zenon
<1>6. CASE BeginDrain \/ GraceExpires
  BY <1>6, DrainPreserves, Zenon
<1>7. CASE IterationEnd
  BY <1>7, IterationEndPreserves, Zenon
<1>8. CASE UNCHANGED vars
  BY <1>8, IInvStutters, Zenon
<1> QED
  BY <1>1, <1>2, <1>3, <1>4, <1>5, <1>6, <1>7, <1>8, Zenon DEF Next, LoopStep, OneSlotStep

-----------------------------------------------------------------------------
(* The theorems. The library's facts about finite sets discharge Counting.  *)

INSTANCE FiniteSetTheorems

\* The facts about cardinalities hold.
LEMMA CountingHolds == Counting
<1>1. IsFiniteSet({}) /\ Cardinality({}) = 0
  BY FS_EmptySet, Zenon
<1>2. ASSUME NEW n \in Nat PROVE IsFiniteSet(1..n)
  BY FS_Interval
<1>3. ASSUME NEW S, IsFiniteSet(S)
      PROVE  Cardinality(S) \in Nat /\ (Cardinality(S) = 0 => S = {})
  BY <1>3, FS_CardinalityType, FS_EmptySet, Zenon
<1>4. ASSUME NEW S, IsFiniteSet(S), NEW T \in SUBSET S PROVE IsFiniteSet(T)
  BY <1>4, FS_Subset, Zenon
<1>5. ASSUME NEW S, IsFiniteSet(S), NEW x
      PROVE  /\ IsFiniteSet(S \union {x}) /\ IsFiniteSet(S \ {x})
             /\ x \notin S => Cardinality(S \union {x}) = Cardinality(S) + 1
             /\ x \in S => Cardinality(S \ {x}) = Cardinality(S) - 1
  BY <1>5, FS_AddElement, FS_RemoveElement, Zenon
<1>6. ASSUME NEW S, IsFiniteSet(S), NEW T, NEW f \in [S -> T],
             \A a, b \in S : f[a] = f[b] => a = b, \A y \in T : \E a \in S : f[a] = y
      PROVE  Cardinality(T) = Cardinality(S)
  <2>1. f \in Bijection(S, T)
    BY <1>6, Zenon DEF Bijection, Injection, Surjection, IsInjective
  <2>2. ExistsBijection(S, T)
    BY <2>1, Zenon DEF ExistsBijection
  <2> QED BY <1>6, <2>2, FS_Bijection, Zenon
<1> QED BY <1>1, <1>2, <1>3, <1>4, <1>5, <1>6, Zenon DEF Counting

\* The inductive invariant holds in every state the connections reach.
THEOREM IInvAlways == SafetySpec => []IInv
<1>1. Init => IInv
  BY CountingHolds, IInvInit, Zenon
<1>2. IInv /\ [Next]_vars => IInv'
  BY CountingHolds, IInvNext, Zenon
<1> QED BY <1>1, <1>2, PTL DEF SafetySpec

\* Whatever the sockets, the handlers and the workers do, every slot, task, message and
\* handle stays well formed: no pin counter goes below zero.
THEOREM WellFormed == SafetySpec => []TypeOK
<1>1. IInv => TypeOK
  BY Zenon DEF IInv, PinInv
<1> QED BY <1>1, IInvAlways, PTL

\* A slot's pin counters are exactly the tasks and queued messages that hold a pin:
\* closeConn's deferral neither leaks a slot nor lets it go early.
THEOREM PinsCounted == SafetySpec => []PinsBalanced
<1>1. IInv => PinsBalanced
  BY Zenon DEF IInv, PinInv
<1> QED BY <1>1, IInvAlways, PTL

\* A worker's slot keeps its connection until the worker's release is applied: the
\* descriptor is not reused, and the loop does not leave its drain.
THEOREM SlotsHeld == SafetySpec => []PinnedSlotHeld
<1>1. IInv => PinnedSlotHeld
  BY Zenon DEF IInv, PinInv
<1> QED BY <1>1, IInvAlways, PTL

\* What a client reads is one response per request, in the order of its requests,
\* whichever thread made each response and however late it was sent.
THEOREM AnsweredInOrder == SafetySpec => []ResponsesMatchRequests
<1>1. IInv => ResponsesMatchRequests
  <2> SUFFICES ASSUME IInv, NEW fd \in Fds PROVE Prefix(conn[fd])
    BY Zenon DEF ResponsesMatchRequests, Prefix, Sent
  <2>1. Core(conn[fd])
    BY SlotFacts, Zenon
  <2> QED BY <2>1, Zenon DEF Core, Answers
<1> QED BY <1>1, IInvAlways, PTL

\* When the loop goes back to its selector no response, output, input or deferred close
\* is left that no event will bring up.
THEOREM NoneStranded == SafetySpec => []NothingStranded
<1>1. IInv => NothingStranded
  <2> SUFFICES ASSUME IInv, Quiescent PROVE NothingStranded
    BY Zenon DEF NothingStranded, NoStrandedResponse, NoStrandedOutput, NoStrandedInput,
           DeferredCloseOwed
  <2>1. ASSUME NEW fd \in Fds
        PROVE  IsSlot(conn[fd]) /\ Core(conn[fd]) /\ Owed(conn[fd], "none", "none")
    BY SlotFacts, Zenon DEF Quiescent
  <2>2. NoStrandedResponse
    BY <2>1, Zenon DEF NoStrandedResponse, Core
  <2>3. NoStrandedOutput
    BY <2>1, Zenon DEF NoStrandedOutput, Owed, Unsent
  <2>4. NoStrandedInput
    BY <2>1, Zenon DEF NoStrandedInput, Owed
  <2>5. DeferredCloseOwed
    BY <2>1, Zenon DEF DeferredCloseOwed, Core, States
  <2> QED BY <2>2, <2>3, <2>4, <2>5, Zenon DEF NothingStranded
<1> QED BY <1>1, IInvAlways, PTL

=============================================================================
