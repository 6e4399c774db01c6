-------------------------- MODULE ConnectionsSteps --------------------------
(***************************************************************************)
(* The inductive invariant of the HTTP/1 connections of an event loop, and *)
(* the proofs that the loop's own steps keep it: accepting, reading,       *)
(* refusing, flushing, closing, sweeping and draining.  The steps that     *)
(* involve workers, tasks and the outbox are in ConnectionsProofs, with    *)
(* the theorems.                                                           *)
(***************************************************************************)
EXTENDS Connections, TLAPS

-----------------------------------------------------------------------------
(* Sequences.                                                               *)

\* Appending an element stays within the sequences over S and adds it last.
LEMMA AppendIsSeq ==
    ASSUME NEW S, NEW s \in Seq(S), NEW x \in S
    PROVE  /\ Append(s, x) \in Seq(S)
           /\ Len(Append(s, x)) = Len(s) + 1
           /\ \A i \in 1..Len(s) : Append(s, x)[i] = s[i]
           /\ Append(s, x)[Len(s) + 1] = x
  OBVIOUS

\* The elements of a sequence over S, and how many they are.
LEMMA SeqElements ==
    ASSUME NEW S, NEW s \in Seq(S)
    PROVE  /\ Len(s) \in Nat /\ DOMAIN s = 1..Len(s)
           /\ \A i \in 1..Len(s) : s[i] \in S
           /\ <<>> \in Seq(S) /\ Len(<<>>) = 0
           /\ s /= <<>> => Len(s) \in Nat \ {0}
  OBVIOUS

\* The head of a sequence over S, and the rest of it one place further on.
LEMMA TailIsSeq ==
    ASSUME NEW S, NEW s \in Seq(S), s /= <<>>
    PROVE  /\ Head(s) \in S /\ Head(s) = s[1]
           /\ Tail(s) \in Seq(S) /\ Len(Tail(s)) = Len(s) - 1
           /\ \A i \in 1..(Len(s) - 1) : Tail(s)[i] = s[i + 1]
  OBVIOUS

\* A concatenation, and the empty sequence in one.
LEMMA ConcatIsSeq ==
    ASSUME NEW S, NEW s \in Seq(S), NEW t \in Seq(S)
    PROVE  /\ s \o t \in Seq(S) /\ s \o <<>> = s /\ Len(s \o t) = Len(s) + Len(t)
           /\ \A i \in 1..Len(s) + Len(t) :
                (s \o t)[i] = IF i <= Len(s) THEN s[i] ELSE t[i - Len(s)]
  OBVIOUS

\* A push at the tail of the second part is a push at the tail of the whole.
LEMMA ConcatAppend ==
    ASSUME NEW S, NEW s \in Seq(S), NEW t \in Seq(S), NEW x \in S
    PROVE  s \o Append(t, x) = Append(s \o t, x)
  OBVIOUS

\* The output o behind what was sent, w, when the kernel has taken n of it.
Rejoined(w, o, n) == (w \o SubSeq(o, 1, n)) \o SubSeq(o, n + 1, Len(o))

-----------------------------------------------------------------------------
(* The inductive invariant, in two parts.  First the pins: who holds one,   *)
(* and what the loop still has to do.                                       *)

Item == [op : {"read", "process", "flush", "halfclose", "idle", "pending"}, fd : Fds]
        \union [op : {"apply"}, fd : Fds, serial : Nat, stale : BOOLEAN]

\* The loop works for one slot at a time, in one of the orders its handlers leave
\* behind.
AgendaOK ==
    /\ agenda \in Seq(Item)
    /\ \A i \in 1..Len(agenda) : agenda[i].fd = agenda[1].fd
    /\ \/ Len(agenda) = 0
       \/ /\ Len(agenda) = 1
          /\ agenda[1].op \in {"read", "halfclose", "idle", "pending", "apply"}
       \/ /\ Len(agenda) = 2 /\ agenda[1].op = "process"
          /\ agenda[2].op \in {"idle", "pending", "apply"}
       \/ Len(agenda) = 2 /\ agenda[1].op = "flush" /\ agenda[2].op = "halfclose"
       \/ /\ Len(agenda) = 3 /\ agenda[1].op = "process"
          /\ agenda[2].op = "flush" /\ agenda[3].op = "halfclose"
    /\ marking /= {} \/ exited => agenda = <<>>
    /\ exited => marking = {}

\* Tasks are told apart by their number.
TasksOK ==
    /\ IsFiniteSet(tasks)
    /\ \A t \in tasks : t.id < taskIds
    /\ \A t, u \in tasks : t.id = u.id => t = u

PinInv == TypeOK /\ AgendaOK /\ TasksOK /\ PinsBalanced /\ PinnedSlotHeld

-----------------------------------------------------------------------------
(* Second, what a slot owes its client.                                     *)

Sent(c) == c.wire \o c.out

\* The responses made are those of the requests taken up, in order: of all of them,
\* or of all but the current one.
Prefix(c) ==
    /\ Len(Sent(c)) <= Len(c.seen)
    /\ \A i \in 1..Len(Sent(c)) : Sent(c)[i] = c.seen[i]
Even(c) == Prefix(c) /\ Len(c.seen) = Len(Sent(c))
Behind(c) ==
    Prefix(c) /\ Len(c.seen) = Len(Sent(c)) + 1 /\ c.seen[Len(c.seen)] = c.serial

\* Which of these holds, by how far the current request is.
Answers(c) ==
    /\ Prefix(c)
    /\ ~c.responded /\ c.awaiting => Behind(c)
    /\ ~c.responded /\ ~c.awaiting => Even(c)
    /\ c.responded /\ ~c.closeAfterFlush => Even(c)
    /\ c.malformed => Even(c)

\* Which stages of a request go together.
Stages(c) ==
    /\ c.malformed => c.responded /\ c.closeAfterFlush /\ ~c.awaiting
    /\ c.awaiting => c.parsed
    /\ c.parsed /\ ~c.awaiting => c.responded /\ c.closeAfterFlush
    /\ c.responded => c.parsed \/ c.malformed

\* A free slot that keeps the generation and the serial it is at.
Emptied(g, n) == [FreeSlot EXCEPT !.gen = g, !.serial = n]

\* What the state of a slot says of the rest of it.
States(c) ==
    /\ c.state = "free" => c = Emptied(c.gen, c.serial)
    /\ c.state = "closing" => c.closeAfterFlush \/ c.closeRequested
    /\ c.state = "draining" =>
         c.shut > 0 /\ (c.closeAfterFlush \/ (~c.awaiting /\ ~c.responded /\ c.unread = 0))
    /\ c.closeRequested => /\ c.state = "closing" /\ c.deadline = "none"
                           /\ ~c.registered /\ TotalPins(c) > 0

\* An active slot is not left with an answered request.
Core(c) == Answers(c) /\ Stages(c) /\ States(c) /\ (c.state = "active" => ~c.responded)

\* Output that no write event will bring up.
Unsent(c) ==
    /\ c.out /= <<>> /\ c.state \in {"active", "closing"}
    /\ ~c.closeRequested /\ c.shut = 0
    /\ ~(c.registered /\ c.writeArmed)

\* What the loop does next for a slot, and what it does once it has processed input.
Op(fd) == IF agenda /= <<>> /\ agenda[1].fd = fd THEN agenda[1].op ELSE "none"
Then(fd) == IF Op(fd) = "process" THEN agenda[2].op ELSE Op(fd)

\* What may be left undone for a slot only because the loop is about to do it.
Owed(c, op, then) ==
    /\ Unsent(c) => then \in {"flush", "pending", "idle"}
    /\ c.state = "active" /\ ~c.awaiting /\ Buffered(c) =>
         op = "process" /\ then \in {"flush", "idle"}
    /\ c.closeRequested => \/ then \in {"none", "halfclose"}
                           \/ then \in {"read", "flush", "idle"} /\ c.dead /\ c.out /= <<>>
    /\ c.deadline = "response" /\ ~c.responded /\ ~c.awaiting =>
         c.state = "active" /\ then = "idle"
    /\ op = "read" => c.state /= "free" /\ (c.state = "draining" => c.closeAfterFlush)

\* A response about to be applied is that of the request the slot is serving.
ApplyOK ==
    \A i \in 1..Len(agenda) :
        agenda[i].op = "apply" /\ ~agenda[i].stale =>
            LET c == conn[agenda[i].fd]
            IN  c.state /= "free" =>
                    c.serial = agenda[i].serial /\ (c.awaiting \/ c.responded)

\* A handle names a request the slot has served, or is serving: never one to come.
Known(c, h) ==
    /\ h.gen <= c.gen
    /\ c.state = "free" => h.gen < c.gen
    /\ h.gen = c.gen => /\ h.serial <= c.serial
                        /\ h.serial = c.serial => c.awaiting \/ c.responded

HandleOf(x) == [fd |-> x.fd, gen |-> x.gen, serial |-> x.serial]

HandlesOK ==
    /\ \A h \in handles : Known(conn[h.fd], h)
    /\ \A t \in tasks : HandleOf(t) \in handles
    /\ \A i \in 1..Len(outbox) : HandleOf(outbox[i]) \in handles

SlotsOK == \A fd \in Fds : Core(conn[fd]) /\ Owed(conn[fd], Op(fd), Then(fd))

AnswerInv == SlotsOK /\ ApplyOK /\ HandlesOK

IInv == PinInv /\ AnswerInv

-----------------------------------------------------------------------------
(* What the procedures do to a slot.                                        *)

\* The slot goes on with the same connection.
Same(c, d) ==
    d.gen = c.gen /\ d.pins = c.pins /\ (c.state /= "free" => d.state /= "free")

\* The slot is given back, which no pin allows.
Recycled(c, d) ==
    TotalPins(c) = 0 /\ \E n \in Nat : d = Emptied(c.gen + 1, n)

\* A slot given back is a fresh one: no request, no output, no pin.
LEMMA FreedSlot ==
    ASSUME NEW g \in Nat, NEW n \in Nat
    PROVE  LET d == Emptied(g, n)
           IN  /\ IsSlot(d) /\ d.gen = g /\ d.serial = n /\ d.state = "free"
               /\ d.pins = [k \in Kind |-> 0] /\ d.unread = 0 /\ d.received = 0
               /\ ~d.parsed /\ ~d.malformed /\ ~d.awaiting /\ ~d.responded
               /\ ~d.closeAfterFlush /\ ~d.closeRequested /\ ~d.eof
               /\ ~d.registered /\ ~d.writeArmed /\ d.deadline = "none"
               /\ d.out = <<>> /\ d.wire = <<>> /\ d.seen = <<>> /\ ~d.dead /\ d.shut = 0
  BY ConnAssumption DEF Emptied, FreeSlot, IsSlot, Kind

\* closeConn keeps a pinned slot and gives back any other.
LEMMA CloseConnSlot ==
    ASSUME NEW c, IsSlot(c)
    PROVE  LET d == CloseConn(c)
           IN  IsSlot(d) /\ (Same(c, d) \/ Recycled(c, d))
<1>1. CASE TotalPins(c) > 0
  BY <1>1, Zenon DEF CloseConn, IsSlot, FreeSlot, Same
<1>2. CASE ~(TotalPins(c) > 0)
  <2>1. TotalPins(c) = 0 /\ c.gen \in Nat /\ c.serial \in Nat
    BY <1>2, SMTT(30) DEF TotalPins, IsSlot, Kind
  <2>2. CloseConn(c) = Emptied(c.gen + 1, c.serial)
    BY <1>2, Zenon DEF Emptied, CloseConn, Freed
  <2> DEFINE g == c.gen + 1
  <2>3. g \in Nat
    BY <2>1
  <2> HIDE DEF g
  <2>4. IsSlot(Emptied(g, c.serial))
    BY <2>1, <2>3, FreedSlot, Zenon
  <2> QED BY <2>1, <2>2, <2>4, Zenon DEF Recycled, g
<1> QED BY <1>1, <1>2, Zenon

\* resetForNextRequest forgets the request answered, and nothing behind it.
LEMMA ResetSlot ==
    ASSUME NEW c, IsSlot(c)
    PROVE  LET d == ResetForNextRequest(c)
           IN  /\ IsSlot(d) /\ d.gen = c.gen /\ d.pins = c.pins /\ d.state = c.state
               /\ d.serial = c.serial + 1
               /\ ~d.parsed /\ ~d.awaiting /\ ~d.responded
               /\ d.unread = c.unread /\ d.received = c.received /\ d.malformed = c.malformed
               /\ d.closeAfterFlush = c.closeAfterFlush /\ d.closeRequested = c.closeRequested
               /\ d.registered = c.registered /\ d.writeArmed = c.writeArmed
               /\ d.deadline = c.deadline /\ d.out = c.out /\ d.wire = c.wire
               /\ d.seen = c.seen /\ d.dead = c.dead /\ d.shut = c.shut
  BY DEF ResetForNextRequest, IsSlot, FreeSlot

-----------------------------------------------------------------------------
(* The agenda.                                                              *)

\* With an empty agenda the loop is at work for no slot.
LEMMA IdleLoop ==
    ASSUME agenda = <<>>
    PROVE  \A fd \in Fds : Op(fd) = "none" /\ Then(fd) = "none"
  BY Zenon DEF Op, Then

\* The loop is at work for the slot its agenda names, and for no other.
LEMMA AtWork ==
    ASSUME AgendaOK, agenda /= <<>>
    PROVE  /\ agenda[1] \in Item /\ Head(agenda) = agenda[1] /\ agenda[1].fd \in Fds
           /\ Len(agenda) \in 1..3 /\ marking = {} /\ ~exited
           /\ Op(agenda[1].fd) = agenda[1].op
           /\ \A fd \in Fds : fd /= agenda[1].fd => Op(fd) = "none" /\ Then(fd) = "none"
<1>1. Len(agenda) \in Nat \ {0}
  BY SeqElements, Zenon DEF AgendaOK
<1>2. agenda[1] \in Item /\ Head(agenda) = agenda[1]
  BY <1>1, SeqElements, TailIsSeq DEF AgendaOK
<1>3. agenda[1].fd \in Fds
  BY <1>2, Zenon DEF Item
<1>4. Len(agenda) \in 1..3 /\ marking = {} /\ ~exited
  BY <1>1 DEF AgendaOK
<1> QED BY <1>2, <1>3, <1>4, Zenon DEF Op, Then

\* The loop takes a step off its agenda.
LEMMA Popped ==
    ASSUME AgendaOK, agenda /= <<>>, agenda' = Tail(agenda), UNCHANGED <<marking, exited>>,
           NEW fd \in Fds, agenda[1].fd = fd
    PROVE  LET op == agenda[1].op
           IN  /\ AgendaOK'
               /\ \A g \in Fds : g /= fd => Op(g)' = "none" /\ Then(g)' = "none"
               /\ op = "process" => /\ Then(fd) \in {"flush", "idle", "pending", "apply"}
                                    /\ Op(fd)' = Then(fd) /\ Then(fd)' = Then(fd)
               /\ op = "flush" => Op(fd)' = "halfclose" /\ Then(fd)' = "halfclose"
               /\ op \notin {"process", "flush"} =>
                    agenda' = <<>> /\ Op(fd)' = "none" /\ Then(fd)' = "none"
               /\ Len(agenda') \in Nat /\ Len(agenda') < Len(agenda)
               /\ \A i \in 1..Len(agenda') : agenda'[i] = agenda[i + 1]
<1> DEFINE n == Len(agenda)
<1>1. n \in 1..3 /\ marking = {} /\ ~exited
  BY AtWork, Zenon
<1>2. /\ agenda' \in Seq(Item) /\ Len(agenda') = n - 1
      /\ \A i \in 1..(n - 1) : agenda'[i] = agenda[i + 1]
  BY <1>1, TailIsSeq, Zenon DEF AgendaOK
<1>3. \A i \in 1..n : agenda[i].fd = fd
  BY Zenon DEF AgendaOK
<1>4. agenda' = <<>> <=> n = 1
  BY <1>1, <1>2, SeqElements
<1>5. \/ n = 1 /\ agenda[1].op \in {"read", "halfclose", "idle", "pending", "apply"}
      \/ /\ n = 2 /\ agenda[1].op = "process"
         /\ agenda[2].op \in {"idle", "pending", "apply"}
      \/ n = 2 /\ agenda[1].op = "flush" /\ agenda[2].op = "halfclose"
      \/ /\ n = 3 /\ agenda[1].op = "process"
         /\ agenda[2].op = "flush" /\ agenda[3].op = "halfclose"
  BY <1>1 DEF AgendaOK
<1> HIDE DEF n
<1>6. AgendaOK'
  <2>1. \A i \in 1..(n - 1) : agenda'[i].fd = fd
    BY <1>1, <1>2, <1>3
  <2>2. \/ n - 1 = 0
        \/ n - 1 = 1 /\ agenda'[1].op \in {"read", "halfclose", "idle", "pending", "apply"}
        \/ n - 1 = 2 /\ agenda'[1].op = "flush" /\ agenda'[2].op = "halfclose"
    BY <1>1, <1>2, <1>5
  <2>3. ASSUME NEW i \in 1..(n - 1) PROVE agenda'[i].fd = agenda'[1].fd
    <3>1. 1 \in 1..(n - 1)
      BY <1>1
    <3>2. agenda'[i].fd = fd /\ agenda'[1].fd = fd
      BY <2>1, <3>1, Zenon
    <3> QED BY <3>2, Zenon
  <2>4. marking' = {} /\ ~exited'
    BY <1>1, Zenon
  <2> QED BY <1>2, <2>2, <2>3, <2>4, Zenon DEF AgendaOK
<1>7. \A g \in Fds : g /= fd => Op(g)' = "none" /\ Then(g)' = "none"
  BY <1>1, <1>2, <1>3, <1>4 DEF Op, Then
<1>8. agenda[1].op = "process" => /\ Then(fd) \in {"flush", "idle", "pending", "apply"}
                                  /\ Op(fd)' = Then(fd) /\ Then(fd)' = Then(fd)
  <2> SUFFICES ASSUME agenda[1].op = "process"
               PROVE  /\ Then(fd) \in {"flush", "idle", "pending", "apply"}
                      /\ Op(fd)' = Then(fd) /\ Then(fd)' = Then(fd)
    BY Zenon
  <2>1. Then(fd) = agenda[2].op /\ agenda[2].op \in {"flush", "idle", "pending", "apply"}
    BY <1>5, Zenon DEF Then, Op
  <2>2. agenda' /= <<>> /\ agenda'[1] = agenda[2] /\ agenda'[1].fd = fd
    BY <1>1, <1>2, <1>3, <1>4, <1>5
  <2> QED BY <2>1, <2>2, Zenon DEF Op, Then
<1>9. agenda[1].op = "flush" => Op(fd)' = "halfclose" /\ Then(fd)' = "halfclose"
  <2> SUFFICES ASSUME agenda[1].op = "flush"
               PROVE  Op(fd)' = "halfclose" /\ Then(fd)' = "halfclose"
    BY Zenon
  <2>1. agenda' /= <<>> /\ agenda'[1].op = "halfclose" /\ agenda'[1].fd = fd
    BY <1>1, <1>2, <1>3, <1>4, <1>5
  <2> QED BY <2>1, Zenon DEF Op, Then
<1>10. agenda[1].op \notin {"process", "flush"} =>
         agenda' = <<>> /\ Op(fd)' = "none" /\ Then(fd)' = "none"
  BY <1>4, <1>5, Zenon DEF Op, Then
<1>11. Len(agenda') \in Nat /\ Len(agenda') < Len(agenda)
  BY <1>1, <1>2 DEF n
<1> QED BY <1>1, <1>2, <1>6, <1>7, <1>8, <1>9, <1>10, <1>11, Zenon

\* The loop starts on one, two or three steps for a slot.
LEMMA StartOne ==
    ASSUME NEW fd \in Fds, NEW x \in Item, x.fd = fd,
           x.op \in {"read", "halfclose", "idle", "pending", "apply"},
           agenda' = <<x>>, marking' = {}, ~exited'
    PROVE  /\ AgendaOK' /\ Op(fd)' = x.op /\ Then(fd)' = x.op
           /\ \A g \in Fds : g /= fd => Op(g)' = "none" /\ Then(g)' = "none"
<1>1. agenda' \in Seq(Item) /\ Len(agenda') = 1 /\ agenda'[1] = x /\ agenda' /= <<>>
  OBVIOUS
<1>2. AgendaOK'
  BY <1>1 DEF AgendaOK
<1> QED BY <1>1, <1>2, Zenon DEF Op, Then

\* The same for a handler that leaves processing and one step after it,
LEMMA StartTwo ==
    ASSUME NEW fd \in Fds, NEW x \in Item, x.fd = fd,
           x.op \in {"idle", "pending", "apply"},
           agenda' = <<Step("process", fd), x>>, marking' = {}, ~exited'
    PROVE  /\ AgendaOK' /\ Op(fd)' = "process" /\ Then(fd)' = x.op
           /\ \A g \in Fds : g /= fd => Op(g)' = "none" /\ Then(g)' = "none"
<1>0. Step("process", fd) \in Item /\ Step("process", fd).fd = fd
      /\ Step("process", fd).op = "process"
  BY Zenon DEF Step, Item
<1>1. /\ agenda' \in Seq(Item) /\ Len(agenda') = 2 /\ agenda'[1] = Step("process", fd)
      /\ agenda'[2] = x /\ agenda' /= <<>>
  BY <1>0
<1>2. \A i \in 1..2 : agenda'[i].fd = fd
  BY <1>0, <1>1
<1>3. AgendaOK'
  BY <1>0, <1>1, <1>2, Zenon DEF AgendaOK
<1> QED BY <1>0, <1>1, <1>3, Zenon DEF Op, Then

-----------------------------------------------------------------------------
(* A step that changes one slot.                                            *)

\* The request served does not become one yet to be served.
Moved(c, d) ==
    c.state /= "free" /\ d.state /= "free" =>
        \/ d.serial > c.serial
        \/ /\ d.serial = c.serial
           /\ c.awaiting \/ c.responded => d.awaiting \/ d.responded

\* One slot becomes d.
Changes(fd, d) ==
    /\ DOMAIN conn' = Fds /\ conn'[fd] = d
    /\ \A g \in Fds : g /= fd => conn'[g] = conn[g]

\* What Becomes says, of each slot.
LEMMA BecomesChanges ==
    ASSUME TypeOK, NEW fd \in Fds
    PROVE  /\ \A d : Becomes(fd, d) => Changes(fd, d)
           /\ UNCHANGED conn => Changes(fd, conn[fd])
  BY Zenon DEF TypeOK, Becomes, Changes

\* The handles stay known.
LEMMA StaysKnown ==
    ASSUME NEW c, IsSlot(c), NEW d, IsSlot(d), Same(c, d) \/ Recycled(c, d),
           Moved(c, d), NEW h \in Handle, Known(c, h)
    PROVE  Known(d, h)
<1>0. c.gen \in Nat /\ c.serial \in Nat /\ d.serial \in Nat /\ h.gen \in Nat /\ h.serial \in Nat
  BY Zenon DEF IsSlot, Handle
<1>1. CASE Same(c, d) /\ c.state /= "free"
  BY <1>0, <1>1 DEF Same, Moved, Known
<1>2. CASE Same(c, d) /\ c.state = "free"
  BY <1>0, <1>2 DEF Same, Known
<1>3. CASE Recycled(c, d)
  <2>1. PICK n \in Nat : d = Emptied(c.gen + 1, n)
    BY <1>3, Zenon DEF Recycled
  <2>2. d.gen = c.gen + 1
    BY <2>1, Zenon DEF Emptied, FreeSlot
  <2>3. h.gen <= c.gen
    BY Zenon DEF Known
  <2> QED BY <1>0, <2>2, <2>3, SMTT(30) DEF Known
<1> QED BY <1>1, <1>2, <1>3, Zenon

\* The invariant but for the pins holds next, and every slot keeps its pins or is given
\* back without any.
Kept ==
    /\ TypeOK' /\ AgendaOK' /\ TasksOK' /\ AnswerInv'
    /\ UNCHANGED <<tasks, outbox, exited>>
    /\ \A g \in Fds : Same(conn[g], conn'[g]) \/ Recycled(conn[g], conn'[g])

-----------------------------------------------------------------------------
(* What the procedures do to the answers of a slot.                         *)

\* What was sent is a sequence, and as long as its two parts.
LEMMA SentIsSeq ==
    ASSUME NEW c, IsSlot(c)
    PROVE  Sent(c) \in Seq(Nat) /\ Len(Sent(c)) \in Nat /\ Len(c.seen) \in Nat
  BY ConcatIsSeq, SeqElements, Zenon DEF IsSlot, Sent

\* Moving output to the wire is nothing to the answers.
LEMMA SameAnswers ==
    ASSUME NEW c, NEW d, Sent(d) = Sent(c), d.seen = c.seen
    PROVE  /\ Prefix(d) <=> Prefix(c)
           /\ Even(d) <=> Even(c)
           /\ d.serial = c.serial => (Behind(d) <=> Behind(c))
  BY Zenon DEF Prefix, Even, Behind

\* A request is taken up.
LEMMA TakesUp ==
    ASSUME NEW c, IsSlot(c), NEW d, Sent(d) = Sent(c), d.seen = Append(c.seen, c.serial),
           d.serial = c.serial, Prefix(c)
    PROVE  Prefix(d) /\ (Even(c) => Behind(d))
<1> DEFINE x == Sent(c)  s == c.seen  t == d.seen  n == Len(x)  m == Len(s)
<1>1. s \in Seq(Nat) /\ c.serial \in Nat /\ n \in Nat /\ m \in Nat
  BY SentIsSeq, Zenon DEF IsSlot
<1>2. Len(t) = m + 1 /\ t[m + 1] = c.serial /\ \A i \in 1..m : t[i] = s[i]
  BY <1>1, AppendIsSeq
<1>3. n <= m /\ \A i \in 1..n : x[i] = s[i]
  BY Zenon DEF Prefix
<1>4. Sent(d) = x /\ d.seen = t
  BY Zenon
<1>5. Even(c) => m = n
  BY Zenon DEF Even
<1> HIDE DEF x, s, t, n, m
<1>6. n <= m + 1 /\ \A i \in 1..n : x[i] = t[i]
  BY <1>1, <1>2, <1>3
<1>7. Prefix(d)
  BY <1>2, <1>4, <1>6, Zenon DEF Prefix, n
<1> QED BY <1>2, <1>4, <1>5, <1>7, Zenon DEF Behind, n

\* The current request is answered.
LEMMA TakesAnswer ==
    ASSUME NEW c, IsSlot(c), NEW d, d.wire = c.wire, d.out = Append(c.out, c.serial),
           d.seen = c.seen, Behind(c)
    PROVE  Even(d)
<1> DEFINE x == Sent(c)  y == Sent(d)  s == c.seen  n == Len(x)  v == c.serial
<1>1. x \in Seq(Nat) /\ n \in Nat /\ v \in Nat
  BY SentIsSeq, Zenon DEF IsSlot
<1>2. y = Append(x, v)
  <2> DEFINE N == Nat  w == c.wire  o == c.out
  <2>1. w \in Seq(N) /\ o \in Seq(N) /\ v \in N
    BY Zenon DEF IsSlot
  <2> HIDE DEF N, v, w, o
  <2>2. w \o Append(o, v) = Append(w \o o, v)
    BY ONLY <2>1, ConcatAppend
  <2> QED BY <2>2, Zenon DEF Sent, v, w, o
<1>3. Len(y) = n + 1 /\ y[n + 1] = v /\ \A i \in 1..n : y[i] = x[i]
  BY <1>1, <1>2, AppendIsSeq
<1>4. Len(s) = n + 1 /\ s[n + 1] = v /\ \A i \in 1..n : x[i] = s[i]
  BY Zenon DEF Behind, Prefix
<1>5. d.seen = s
  BY Zenon
<1> HIDE DEF x, y, s, n, v
<1>6. \A i \in 1..(n + 1) : y[i] = s[i]
  BY <1>1, <1>3, <1>4
<1>7. Len(y) <= Len(s) /\ Len(s) = Len(y)
  BY <1>1, <1>3, <1>4
<1> QED BY <1>3, <1>5, <1>6, <1>7, Zenon DEF Even, Prefix, y

\* closeConn, in terms of the answers: the slot is free, or waits for its pins.
Closed(d) == d.state = "free" \/ d.closeRequested

\* A slot given back owes nothing.
LEMMA FreeCore ==
    ASSUME NEW g \in Nat, NEW n \in Nat
    PROVE  Core(Emptied(g, n))
<1> DEFINE d == Emptied(g, n)
<1>1. /\ d.gen = g /\ d.serial = n /\ d.state = "free"
      /\ ~d.parsed /\ ~d.malformed /\ ~d.awaiting /\ ~d.responded
      /\ ~d.closeRequested /\ d.out = <<>> /\ d.wire = <<>> /\ d.seen = <<>>
  BY FreedSlot, Zenon
<1>2. d = Emptied(d.gen, d.serial)
  BY <1>1, Zenon
<1> HIDE DEF d
<1>3. Sent(d) = <<>> /\ Len(Sent(d)) = 0 /\ Len(d.seen) = 0
  BY <1>1 DEF Sent
<1>4. Even(d) /\ Prefix(d)
  BY <1>3 DEF Even, Prefix
<1>5. Core(d)
  BY <1>1, <1>2, <1>4, Zenon DEF Core, Answers, Stages, States
<1> QED BY <1>5, Zenon DEF d

\* closeConn keeps the account of a slot's answers.
LEMMA CloseConnCore ==
    ASSUME NEW c, IsSlot(c), Core(c)
    PROVE  LET d == CloseConn(c)
           IN  /\ Core(d) /\ Moved(c, d) /\ Closed(d)
               /\ d.closeRequested => d.out = c.out /\ d.dead = c.dead
<1>1. CASE TotalPins(c) > 0
  <2> DEFINE d == CloseConn(c)
  <2>1. /\ d.pins = c.pins /\ d.state = "closing" /\ d.closeRequested /\ d.deadline = "none"
        /\ ~d.registered /\ d.serial = c.serial /\ d.parsed = c.parsed
        /\ d.malformed = c.malformed /\ d.awaiting = c.awaiting /\ d.responded = c.responded
        /\ d.closeAfterFlush = c.closeAfterFlush /\ d.out = c.out /\ d.wire = c.wire
        /\ d.seen = c.seen /\ d.dead = c.dead
    BY <1>1, Zenon DEF CloseConn, IsSlot, FreeSlot
  <2> HIDE DEF d
  <2>2. TotalPins(d) > 0 /\ Sent(d) = Sent(c)
    BY <1>1, <2>1, Zenon DEF TotalPins, Sent
  <2>3. Answers(d)
    BY <2>1, <2>2, SameAnswers, Zenon DEF Core, Answers
  <2>4. Stages(d) /\ States(d) /\ d.state /= "active"
    BY <2>1, <2>2, Zenon DEF Core, Stages, States
  <2>5. Moved(c, d) /\ Closed(d)
    BY <2>1, Zenon DEF Moved, Closed
  <2> QED BY <2>1, <2>3, <2>4, <2>5, Zenon DEF Core, d
<1>2. CASE ~(TotalPins(c) > 0)
  <2> DEFINE g == c.gen + 1  d == Emptied(g, c.serial)
  <2>1. g \in Nat /\ c.serial \in Nat
    BY SMTT(30) DEF IsSlot
  <2>2. CloseConn(c) = d
    BY <1>2, Zenon DEF Emptied, CloseConn, Freed
  <2> HIDE DEF g
  <2>3. Core(d) /\ d.state = "free" /\ ~d.closeRequested
    BY <2>1, FreeCore, FreedSlot, Zenon
  <2> HIDE DEF d
  <2> QED BY <2>2, <2>3, Zenon DEF Moved, Closed
<1> QED BY <1>1, <1>2, Zenon

\* The other outcome of a flush: all is sent, or a write event will bring up the rest.
FlushedTo(c, d) ==
    /\ ~d.closeRequested /\ (d.out = <<>> \/ (d.registered /\ d.writeArmed))
    /\ d.serial = c.serial /\ d.parsed = c.parsed /\ d.malformed = c.malformed
    /\ d.unread = c.unread /\ d.awaiting = c.awaiting /\ d.responded = c.responded
    /\ d.closeAfterFlush = c.closeAfterFlush
    /\ \/ d.state = c.state /\ d.deadline = c.deadline
       \/ c.closeAfterFlush /\ d.state = "draining" /\ d.deadline = "drain"

\* Nothing is owed to a slot that is free, or that waits for its pins.
LEMMA ClosedOwed ==
    ASSUME NEW d, IsSlot(d), Core(d), Closed(d), NEW op, NEW then,
           op = "read" => d.state /= "free",
           d.closeRequested => \/ then \in {"none", "halfclose"}
                               \/ then \in {"read", "flush", "idle"} /\ d.dead /\ d.out /= <<>>
    PROVE  Owed(d, op, then)
<1>1. CASE d.closeRequested
  BY <1>1, Zenon DEF Owed, Unsent, Core, States
<1>2. CASE d.state = "free"
  <2>1. PICK g \in Nat, n \in Nat : d = Emptied(g, n)
    BY <1>2, Zenon DEF Core, States, IsSlot
  <2>2. d.out = <<>> /\ ~d.closeRequested /\ d.deadline = "none"
    BY <2>1, FreedSlot, Zenon
  <2> QED BY <1>2, <2>2, Zenon DEF Owed, Unsent
<1> QED BY <1>1, <1>2, Zenon DEF Closed

-----------------------------------------------------------------------------
(* The steps, by what they do to the agenda.                                *)

\* The loop does what is first on its agenda.
Following(op, then) ==
    IF op = "process" THEN then ELSE IF op = "flush" THEN "halfclose" ELSE "none"

-----------------------------------------------------------------------------
(* Every action keeps the invariant.                                        *)

\* What the invariant says of one slot.
LEMMA SlotFacts ==
    ASSUME IInv, NEW fd \in Fds
    PROVE  /\ TypeOK /\ AgendaOK /\ IsSlot(conn[fd]) /\ Core(conn[fd])
           /\ Owed(conn[fd], Op(fd), Then(fd))
           /\ agenda = <<>> => Owed(conn[fd], "none", "none")
  BY IdleLoop, Zenon DEF IInv, PinInv, TypeOK, AnswerInv, SlotsOK

\* The slot and the step that the loop is at work on.
LEMMA DoingFacts ==
    ASSUME IInv, NEW op, Doing(op)
    PROVE  /\ AgendaOK /\ TypeOK /\ agenda /= <<>> /\ Head(agenda) = agenda[1]
           /\ agenda[1].op = op
           /\ \E fd \in Fds : agenda[1].fd = fd /\ Op(fd) = op
                              /\ (op /= "process" => Then(fd) = op)
<1>1. AgendaOK /\ TypeOK /\ agenda /= <<>> /\ Head(agenda) = agenda[1] /\ agenda[1].op = op
  BY AtWork, Zenon DEF IInv, PinInv, Doing
<1>2. agenda[1].fd \in Fds /\ Op(agenda[1].fd) = op
  BY <1>1, AtWork, Zenon
<1> QED BY <1>1, <1>2, Zenon DEF Then

\* respondError leaves the slot closing, and even if it was one answer behind.
LEMMA RespondErrorSlot ==
    ASSUME NEW c, IsSlot(c)
    PROVE  LET d == RespondError(c)
           IN  /\ IsSlot(d) /\ d.wire = c.wire /\ d.out = Append(c.out, c.serial)
               /\ d.state = "closing" /\ d.serial = c.serial /\ d.gen = c.gen
               /\ d.pins = c.pins /\ d.parsed = c.parsed /\ d.unread = c.unread
               /\ d.malformed = c.malformed /\ d.awaiting = c.awaiting
               /\ d.responded /\ d.closeAfterFlush
               /\ d.closeRequested = c.closeRequested /\ d.seen = c.seen
               /\ d.deadline = c.deadline /\ d.shut = c.shut /\ d.dead = c.dead
<1> DEFINE o == Append(c.out, c.serial)
           d == [c EXCEPT !.out = o, !.responded = TRUE,
                          !.closeAfterFlush = TRUE, !.state = "closing"]
<1>1. o \in Seq(Nat)
  BY AppendIsSeq, Zenon DEF IsSlot
<1>2. RespondError(c) = d
  BY Zenon DEF RespondError, IsSlot, FreeSlot
<1> HIDE DEF o
<1>3. IsSlot(d)
  BY <1>1, Zenon DEF IsSlot, FreeSlot
<1>4. /\ d.wire = c.wire /\ d.out = o
      /\ d.state = "closing" /\ d.serial = c.serial /\ d.gen = c.gen
      /\ d.pins = c.pins /\ d.parsed = c.parsed /\ d.unread = c.unread
      /\ d.malformed = c.malformed /\ d.awaiting = c.awaiting
      /\ d.responded /\ d.closeAfterFlush
      /\ d.closeRequested = c.closeRequested /\ d.seen = c.seen
      /\ d.deadline = c.deadline /\ d.shut = c.shut /\ d.dead = c.dead
  BY Zenon DEF IsSlot, FreeSlot
<1> HIDE DEF d
<1> QED BY <1>2, <1>3, <1>4, Zenon DEF o

\* respondError answers the current request, and closes after it.
LEMMA RespondErrorCore ==
    ASSUME NEW c, IsSlot(c), Behind(c), ~c.closeRequested, c.parsed \/ c.malformed,
           c.malformed => ~c.awaiting, c.awaiting => c.parsed
    PROVE  LET d == RespondError(c)
           IN  Core(d) /\ Even(d) /\ Same(c, d) /\ Moved(c, d)
<1> DEFINE d == RespondError(c)
<1>1. /\ IsSlot(d) /\ d.wire = c.wire /\ d.out = Append(c.out, c.serial)
      /\ d.state = "closing" /\ d.serial = c.serial /\ d.gen = c.gen
      /\ d.pins = c.pins /\ d.parsed = c.parsed
      /\ d.malformed = c.malformed /\ d.awaiting = c.awaiting
      /\ d.responded /\ d.closeAfterFlush
      /\ d.closeRequested = c.closeRequested /\ d.seen = c.seen
  BY RespondErrorSlot, Zenon
<1> HIDE DEF d
<1>2. Even(d)
  BY <1>1, TakesAnswer, Zenon
<1>3. Core(d)
  BY <1>1, <1>2, Zenon DEF Core, Answers, Stages, States, Even
<1>4. Same(c, d) /\ Moved(c, d)
  BY <1>1, Zenon DEF Same, Moved
<1> QED BY <1>2, <1>3, <1>4, Zenon DEF d

-----------------------------------------------------------------------------
(* Responses applied by the loop.                                           *)

\* applyResponse on a request that has no answer yet.
LEMMA ApplyResponseSlot ==
    ASSUME NEW c, IsSlot(c), ~c.responded
    PROVE  LET d == ApplyResponse(c, c.serial)
           IN  /\ IsSlot(d) /\ d.wire = c.wire /\ d.out = Append(c.out, c.serial)
               /\ d.state = c.state /\ d.serial = c.serial /\ d.gen = c.gen
               /\ d.pins = c.pins /\ d.parsed = c.parsed /\ d.unread = c.unread
               /\ d.malformed = c.malformed /\ d.awaiting = c.awaiting
               /\ d.responded /\ d.closeAfterFlush = (c.closeAfterFlush \/ ~c.keepAlive)
               /\ d.closeRequested = c.closeRequested /\ d.seen = c.seen
               /\ d.deadline = c.deadline /\ d.shut = c.shut /\ d.dead = c.dead
               /\ d.registered = c.registered /\ d.writeArmed = c.writeArmed
<1> DEFINE o == Append(c.out, c.serial)  f == c.closeAfterFlush \/ ~c.keepAlive
           d == [c EXCEPT !.responded = TRUE, !.out = o, !.closeAfterFlush = f]
<1>1. o \in Seq(Nat) /\ f \in BOOLEAN
  BY AppendIsSeq, Zenon DEF IsSlot
<1>2. ApplyResponse(c, c.serial) = d
  BY Zenon DEF ApplyResponse, IsSlot, FreeSlot
<1> HIDE DEF o, f
<1>3. IsSlot(d)
  <2>1. DOMAIN d = DOMAIN c
    BY Zenon
  <2> QED BY <1>1, <2>1, Zenon DEF IsSlot, FreeSlot
<1>4. /\ d.wire = c.wire /\ d.out = o
      /\ d.state = c.state /\ d.serial = c.serial /\ d.gen = c.gen
      /\ d.pins = c.pins /\ d.parsed = c.parsed /\ d.unread = c.unread
      /\ d.malformed = c.malformed /\ d.awaiting = c.awaiting
      /\ d.responded /\ d.closeAfterFlush = f
      /\ d.closeRequested = c.closeRequested /\ d.seen = c.seen
      /\ d.deadline = c.deadline /\ d.shut = c.shut /\ d.dead = c.dead
      /\ d.registered = c.registered /\ d.writeArmed = c.writeArmed
  BY Zenon DEF IsSlot, FreeSlot
<1> HIDE DEF d
<1> QED BY <1>2, <1>3, <1>4, Zenon DEF o, f

\* Only the state of a slot becomes closing.
LEMMA ClosingSlot ==
    ASSUME NEW c, IsSlot(c)
    PROVE  LET d == [c EXCEPT !.state = "closing"]
           IN  /\ IsSlot(d) /\ d.wire = c.wire /\ d.out = c.out
               /\ d.state = "closing" /\ d.serial = c.serial /\ d.gen = c.gen
               /\ d.pins = c.pins /\ d.parsed = c.parsed /\ d.unread = c.unread
               /\ d.malformed = c.malformed /\ d.awaiting = c.awaiting
               /\ d.responded = c.responded /\ d.closeAfterFlush = c.closeAfterFlush
               /\ d.closeRequested = c.closeRequested /\ d.seen = c.seen
               /\ d.deadline = c.deadline /\ d.shut = c.shut /\ d.dead = c.dead
<1> DEFINE d == [c EXCEPT !.state = "closing"]
<1>1. IsSlot(d)
  BY Zenon DEF IsSlot, FreeSlot
<1>2. /\ d.wire = c.wire /\ d.out = c.out
      /\ d.state = "closing" /\ d.serial = c.serial /\ d.gen = c.gen
      /\ d.pins = c.pins /\ d.parsed = c.parsed /\ d.unread = c.unread
      /\ d.malformed = c.malformed /\ d.awaiting = c.awaiting
      /\ d.responded = c.responded /\ d.closeAfterFlush = c.closeAfterFlush
      /\ d.closeRequested = c.closeRequested /\ d.seen = c.seen
      /\ d.deadline = c.deadline /\ d.shut = c.shut /\ d.dead = c.dead
  BY Zenon DEF IsSlot, FreeSlot
<1> QED BY <1>1, <1>2, Zenon

\* An answered request whose connection is to close: nothing more is dispatched.
LEMMA ClosesAnswered ==
    ASSUME NEW c, IsSlot(c), Prefix(c), c.malformed => Even(c), Stages(c),
           c.responded, c.closeAfterFlush, ~c.closeRequested
    PROVE  LET d == [c EXCEPT !.state = "closing"]
           IN  IsSlot(d) /\ Core(d) /\ Same(c, d) /\ Moved(c, d)
<1> DEFINE d == [c EXCEPT !.state = "closing"]
<1>1. /\ IsSlot(d) /\ d.wire = c.wire /\ d.out = c.out
      /\ d.state = "closing" /\ d.serial = c.serial /\ d.gen = c.gen
      /\ d.pins = c.pins /\ d.parsed = c.parsed
      /\ d.malformed = c.malformed /\ d.awaiting = c.awaiting
      /\ d.responded = c.responded /\ d.closeAfterFlush = c.closeAfterFlush
      /\ d.closeRequested = c.closeRequested /\ d.seen = c.seen
  BY ClosingSlot, Zenon
<1> HIDE DEF d
<1>2. Sent(d) = Sent(c)
  BY <1>1, Zenon DEF Sent
<1>3. Core(d)
  BY <1>1, <1>2, SameAnswers, Zenon DEF Core, Answers, Stages, States
<1> QED BY <1>1, <1>3, Zenon DEF Same, Moved, d

\* An answered request whose connection goes on: the slot is ready for the next.
LEMMA ResetsAnswered ==
    ASSUME NEW c, IsSlot(c), Even(c), c.state = "active", ~c.malformed, ~c.closeRequested
    PROVE  LET d == ResetForNextRequest(c)
           IN  IsSlot(d) /\ Core(d) /\ Same(c, d) /\ Moved(c, d)
<1> DEFINE d == ResetForNextRequest(c)
<1>1. /\ IsSlot(d) /\ d.gen = c.gen /\ d.pins = c.pins /\ d.state = c.state
      /\ d.serial = c.serial + 1
      /\ ~d.parsed /\ ~d.awaiting /\ ~d.responded /\ d.malformed = c.malformed
      /\ d.closeRequested = c.closeRequested
      /\ d.out = c.out /\ d.wire = c.wire /\ d.seen = c.seen
  BY ResetSlot, Zenon
<1>4. c.serial \in Nat
  BY Zenon DEF IsSlot
<1> HIDE DEF d
<1>2. Sent(d) = Sent(c)
  BY <1>1, Zenon DEF Sent
<1>3. Core(d)
  BY <1>1, <1>2, SameAnswers, Zenon DEF Core, Answers, Stages, States, Even
<1>5. d.serial > c.serial
  BY <1>1, <1>4, SMTT(30)
<1> QED BY <1>1, <1>3, <1>5, Zenon DEF Same, Moved, d

-----------------------------------------------------------------------------
\* The steps of the loop that touch neither a task nor a message.
OneSlotStep ==
    \/ ReadAfterWrite \/ ProcessPaused \/ ProcessMalformed \/ FlushAfterRead
    \/ HalfClose \/ FlushPending \/ ApplyHttp
    \/ \E fd \in Fds : \/ Accept(fd) \/ Readable(fd) \/ Writable(fd)
                       \/ HandleDrain(fd) \/ SweepTimeouts(fd) \/ MarkDrain(fd)
    \/ \E h \in handles : LoopSend(h)

\* Each of them keeps the answers in order and the agenda in shape.
LEMMA OneSlotPreserves ==
    IInv /\ OneSlotStep => Kept

\* The part of the output that the kernel took, and the rest of it.
<1>PartlySent.
      ASSUME NEW S, NEW w \in Seq(S), NEW o \in Seq(S), NEW n \in 0..(Len(o) - 1)
      PROVE  /\ w \o SubSeq(o, 1, n) \in Seq(S) /\ SubSeq(o, n + 1, Len(o)) \in Seq(S)
             /\ SubSeq(o, n + 1, Len(o)) /= <<>>
             /\ Rejoined(w, o, n) = w \o o
  <2> USE <1>PartlySent
  <2> DEFINE u == SubSeq(o, 1, n)  v == SubSeq(o, n + 1, Len(o))
             x == u \o v  lo == Len(o)
  <2>1. u \in Seq(S) /\ Len(u) = n /\ \A i \in 1..n : u[i] = o[i]
    OBVIOUS
  <2>2. v \in Seq(S) /\ Len(v) = Len(o) - n /\ \A i \in 1..(Len(o) - n) : v[i] = o[n + i]
    <3>1. Len(v) = Len(o) - n
      OBVIOUS
    <3>2. v \in Seq(S)
      OBVIOUS
    <3>3. \A i \in 1..(Len(o) - n) : v[i] = o[n + i]
      OBVIOUS
    <3> QED BY <3>1, <3>2, <3>3, Zenon
  <2> HIDE DEF u, v
  <2>3. /\ x \in Seq(S) /\ Len(x) = Len(u) + Len(v)
        /\ \A i \in 1..Len(u) + Len(v) : x[i] = IF i <= Len(u) THEN u[i] ELSE v[i - Len(u)]
    BY <2>1, <2>2, ConcatIsSeq, Zenon
  <2>4. lo \in Nat /\ n \in Nat /\ n < lo /\ Len(u) = n /\ Len(v) = lo - n
    BY <2>1, <2>2, SeqElements
  <2> HIDE DEF x, lo
  <2>5. Len(x) = lo /\ \A i \in 1..lo : x[i] = o[i]
    BY <2>1, <2>2, <2>3, <2>4, SMTT(30) DEF lo
  <2>6. x = o
    BY <2>3, <2>5, SMTT(30) DEF lo
  <2>7. (w \o u) \o v = w \o (u \o v)
    BY <2>1, <2>2, SMTT(30)
  <2>8. v /= <<>> /\ w \o u \in Seq(S)
    BY <2>1, <2>2, <2>4
  <2>9. (w \o u) \o v = w \o o
    BY <2>6, <2>7, Zenon DEF x
  <2> QED BY <2>2, <2>8, <2>9, Zenon DEF u, v, Rejoined

\* A failed write keeps a pinned slot and gives back any other.
<1>SocketDiedSlot.
      ASSUME NEW c, IsSlot(c)
      PROVE  LET d == SocketDied(c)
             IN  IsSlot(d) /\ (Same(c, d) \/ Recycled(c, d))
  <2> USE <1>SocketDiedSlot
  <2> DEFINE b == [c EXCEPT !.dead = TRUE]
  <2>1. IsSlot(b) /\ b.gen = c.gen /\ b.pins = c.pins /\ b.state = c.state
    BY Zenon DEF IsSlot, FreeSlot
  <2>2. TotalPins(b) = TotalPins(c)
    BY <2>1, Zenon DEF TotalPins
  <2>3. SocketDied(c) = CloseConn(b)
    BY Zenon DEF SocketDied
  <2> HIDE DEF b
  <2>4. Same(b, CloseConn(b)) => Same(c, CloseConn(b))
    BY <2>1, Zenon DEF Same
  <2>5. Recycled(b, CloseConn(b)) => Recycled(c, CloseConn(b))
    BY <2>1, <2>2, Zenon DEF Recycled
  <2> QED BY <2>1, <2>3, <2>4, <2>5, CloseConnSlot, Zenon

\* A flush that writes everything.
<1>FlushedSlot.
      ASSUME NEW c, IsSlot(c), c.state /= "free"
      PROVE  IsSlot(Flushed(c)) /\ Same(c, Flushed(c))
  <2> USE <1>FlushedSlot
  <2>1. c.wire \o c.out \in Seq(Nat) /\ <<>> \in Seq(Nat)
    BY ConcatIsSeq DEF IsSlot
  <2> DEFINE d == [c EXCEPT !.wire = c.wire \o c.out, !.out = <<>>, !.writeArmed = FALSE]
  <2>2. IsSlot(d) /\ Same(c, d)
    BY <2>1, Zenon DEF IsSlot, FreeSlot, Same
  <2>3. Flushed(c) = IF c.closeAfterFlush THEN BeginLingerClose(d) ELSE d
    BY Zenon DEF Flushed
  <2> HIDE DEF d
  <2>4. IsSlot(BeginLingerClose(d)) /\ Same(c, BeginLingerClose(d))
    BY <2>2, SMTT(30) DEF BeginLingerClose, IsSlot, FreeSlot, Same
  <2> QED BY <2>2, <2>3, <2>4, Zenon

\* A flush writes all, some or none of the output, or finds the socket dead.
<1>FlushOutSlot.
      ASSUME NEW c, IsSlot(c), c.state /= "free", NEW d \in FlushOut(c)
      PROVE  IsSlot(d) /\ (Same(c, d) \/ Recycled(c, d))
  <2> USE <1>FlushOutSlot
  <2>1. CASE d = Flushed(c)
    BY <2>1, <1>FlushedSlot, Zenon
  <2>2. CASE d = SocketDied(c)
    BY <2>2, <1>SocketDiedSlot, Zenon
  <2>3. ASSUME NEW n \in 0..(Len(c.out) - 1),
               d = [c EXCEPT !.wire = @ \o SubSeq(c.out, 1, n),
                             !.out = SubSeq(@, n + 1, Len(@)),
                             !.writeArmed = TRUE, !.registered = TRUE]
        PROVE  IsSlot(d) /\ Same(c, d)
    <3> DEFINE w == c.wire \o SubSeq(c.out, 1, n)  o == SubSeq(c.out, n + 1, Len(c.out))
    <3>1. w \in Seq(Nat) /\ o \in Seq(Nat)
      BY <1>PartlySent, Zenon DEF IsSlot
    <3>2. d = [c EXCEPT !.wire = w, !.out = o, !.writeArmed = TRUE, !.registered = TRUE]
      BY <2>3, Zenon DEF IsSlot, FreeSlot
    <3> HIDE DEF w, o
    <3> QED BY <3>1, <3>2, Zenon DEF IsSlot, FreeSlot, Same
  <2> QED BY <2>1, <2>2, <2>3, Zenon DEF FlushOut

\* A step that empties the agenda leaves the loop at work for no slot.
<1>EmptiesAgenda.
      ASSUME agenda' = <<>>, marking' = {}, ~exited'
      PROVE  /\ AgendaOK' /\ \A g \in Fds : Op(g)' = "none" /\ Then(g)' = "none"
             /\ \A i \in 1..Len(agenda') : agenda'[i].op /= "apply"
    BY <1>EmptiesAgenda DEF AgendaOK, Op, Then

\* and for one that leaves processing, a flush and the half-close.
<1>StartThree.
      ASSUME NEW fd \in Fds, marking' = {}, ~exited',
             agenda' = <<Step("process", fd), Step("flush", fd), Step("halfclose", fd)>>
      PROVE  /\ AgendaOK' /\ Op(fd)' = "process" /\ Then(fd)' = "flush"
             /\ \A i \in 1..Len(agenda') : agenda'[i].op /= "apply"
             /\ \A g \in Fds : g /= fd => Op(g)' = "none" /\ Then(g)' = "none"
  <2> USE <1>StartThree
  <2>0. \A op \in {"process", "flush", "halfclose"} :
          Step(op, fd) \in Item /\ Step(op, fd).fd = fd /\ Step(op, fd).op = op
    BY Zenon DEF Step, Item
  <2>1. /\ agenda' \in Seq(Item) /\ Len(agenda') = 3 /\ agenda'[1] = Step("process", fd)
        /\ agenda'[2] = Step("flush", fd) /\ agenda'[3] = Step("halfclose", fd) /\ agenda' /= <<>>
    BY <2>0
  <2>2. \A i \in 1..3 : agenda'[i].fd = fd /\ agenda'[i].op /= "apply"
    BY <2>0, <2>1
  <2>3. AgendaOK'
    BY <2>0, <2>1, <2>2, Zenon DEF AgendaOK
  <2> QED BY <2>0, <2>1, <2>2, <2>3, Zenon DEF Op, Then

\* A step that changes one slot keeps the invariant when the slot keeps its own, and
\* nothing is owed to it that is not on the agenda.
<1>SlotStep.
      ASSUME IInv, NEW fd \in Fds, NEW d, IsSlot(d), Changes(fd, d),
             Same(conn[fd], d) \/ Recycled(conn[fd], d),
             Core(d), Moved(conn[fd], d), Owed(d, Op(fd)', Then(fd)'),
             AgendaOK', ApplyOK',
             \A g \in Fds : g /= fd => /\ Op(g) = "none" /\ Then(g) = "none"
                                       /\ Op(g)' = "none" /\ Then(g)' = "none",
             UNCHANGED <<workVars, draining, graceOver, exited>>, marking' \subseteq marking
      PROVE  Kept
  <2> USE <1>SlotStep
  <2>0. UNCHANGED <<tasks, outbox, handles, taskIds, offIds>>
    BY Zenon DEF workVars
  <2>1. DOMAIN conn' = Fds /\ \A g \in Fds : IsSlot(conn'[g])
    BY Zenon DEF Changes, IInv, PinInv, TypeOK
  <2>2. TypeOK'
    BY <2>0, <2>1, Zenon DEF IInv, PinInv, TypeOK
  <2>3. TasksOK'
    BY <2>0, Zenon DEF IInv, PinInv, TasksOK
  <2>4. conn'[fd] = d /\ \A g \in Fds : g /= fd => conn'[g] = conn[g]
    BY Zenon DEF Changes
  <2>5. SlotsOK'
    <3> SUFFICES ASSUME NEW g \in Fds
                 PROVE  Core(conn'[g]) /\ Owed(conn'[g], Op(g)', Then(g)')
      BY Zenon DEF SlotsOK
    <3>1. CASE g = fd
      BY <2>4, <3>1, Zenon
    <3>2. CASE g /= fd
      <4>1. Core(conn[g]) /\ Owed(conn[g], Op(g), Then(g))
        BY Zenon DEF IInv, AnswerInv, SlotsOK
      <4>2. conn'[g] = conn[g] /\ Op(g)' = Op(g) /\ Then(g)' = Then(g)
        BY <2>4, <3>2, Zenon
      <4> QED BY <4>1, <4>2, Zenon
    <3> QED BY <3>1, <3>2, Zenon
  <2>6. HandlesOK'
    <3>1. ASSUME NEW h \in handles PROVE Known(conn'[h.fd], h)
      <4>1. h \in Handle /\ h.fd \in Fds /\ Known(conn[h.fd], h)
        BY Zenon DEF IInv, PinInv, TypeOK, Handle, AnswerInv, HandlesOK
      <4>2. CASE h.fd = fd
        <5>1. IsSlot(conn[fd])
          BY Zenon DEF IInv, PinInv, TypeOK
        <5>2. Known(d, h)
          BY <4>1, <4>2, <5>1, StaysKnown, Zenon
        <5> QED BY <2>4, <4>2, <5>2, Zenon
      <4>3. CASE h.fd /= fd
        BY <2>4, <4>1, <4>3, Zenon
      <4> QED BY <4>2, <4>3, Zenon
    <3> QED BY <2>0, <3>1, Zenon DEF IInv, AnswerInv, HandlesOK
  <2>7. \A g \in Fds : Same(conn[g], conn'[g]) \/ Recycled(conn[g], conn'[g])
    BY <2>4, Zenon DEF Same
  <2> QED BY <2>0, <2>2, <2>3, <2>5, <2>6, <2>7, Zenon DEF Kept, AnswerInv

\* So does a failed write.
<1>SocketDiedCore.
      ASSUME NEW c, IsSlot(c), Core(c), c.state /= "free"
      PROVE  LET d == SocketDied(c)
             IN  /\ Core(d) /\ Moved(c, d) /\ Closed(d)
                 /\ d.closeRequested => d.dead /\ d.out = c.out
  <2> USE <1>SocketDiedCore
  <2> DEFINE b == [c EXCEPT !.dead = TRUE]
  <2>1. /\ IsSlot(b) /\ b.gen = c.gen /\ b.pins = c.pins /\ b.state = c.state
        /\ b.serial = c.serial /\ b.parsed = c.parsed /\ b.unread = c.unread
        /\ b.malformed = c.malformed /\ b.awaiting = c.awaiting /\ b.responded = c.responded
        /\ b.closeAfterFlush = c.closeAfterFlush /\ b.closeRequested = c.closeRequested
        /\ b.out = c.out /\ b.wire = c.wire /\ b.seen = c.seen /\ b.dead = TRUE
        /\ b.deadline = c.deadline /\ b.registered = c.registered /\ b.shut = c.shut
    BY Zenon DEF IsSlot, FreeSlot
  <2>2. TotalPins(b) = TotalPins(c) /\ Sent(b) = Sent(c)
    BY <2>1, Zenon DEF TotalPins, Sent
  <2>3. SocketDied(c) = CloseConn(b)
    BY Zenon DEF SocketDied
  <2> HIDE DEF b
  <2>4. Core(b)
    BY <2>1, <2>2, SameAnswers, Zenon DEF Core, Answers, Stages, States
  <2>5. Moved(b, CloseConn(b)) => Moved(c, CloseConn(b))
    BY <2>1, Zenon DEF Moved
  <2> QED BY <2>1, <2>3, <2>4, <2>5, CloseConnCore, Zenon

\* So does a flush: the responses made are the same.
<1>FlushedCore.
      ASSUME NEW c, IsSlot(c), Core(c), c.state /= "free", ~c.closeRequested
      PROVE  Core(Flushed(c)) /\ FlushedTo(c, Flushed(c))
  <2> USE <1>FlushedCore
  <2> DEFINE b == [c EXCEPT !.wire = c.wire \o c.out, !.out = <<>>, !.writeArmed = FALSE]
             d == BeginLingerClose(b)
  <2>1. /\ DOMAIN b = DOMAIN FreeSlot /\ b.wire = c.wire \o c.out /\ b.out = <<>>
        /\ b.state = c.state /\ b.serial = c.serial /\ b.parsed = c.parsed
        /\ b.unread = c.unread /\ b.malformed = c.malformed /\ b.awaiting = c.awaiting
        /\ b.responded = c.responded /\ b.closeAfterFlush = c.closeAfterFlush
        /\ b.closeRequested = c.closeRequested /\ b.seen = c.seen /\ b.pins = c.pins
        /\ b.deadline = c.deadline /\ b.registered = c.registered /\ b.shut = c.shut
    BY Zenon DEF IsSlot, FreeSlot
  <2>2. Flushed(c) = IF c.closeAfterFlush THEN d ELSE b
    BY Zenon DEF Flushed
  <2>3. Sent(b) = Sent(c)
    <3>1. Sent(b) = (c.wire \o c.out) \o <<>>
      BY <2>1, Zenon DEF Sent
    <3>2. c.wire \o c.out \in Seq(Nat)
      BY SentIsSeq, Zenon DEF Sent
    <3> QED BY <3>1, <3>2, ConcatIsSeq, Zenon DEF Sent
  <2> HIDE DEF b
  <2>4. /\ d.wire = b.wire /\ d.out = b.out /\ d.state = "draining" /\ d.serial = b.serial
        /\ d.parsed = b.parsed /\ d.unread = b.unread /\ d.malformed = b.malformed
        /\ d.awaiting = b.awaiting /\ d.responded = b.responded
        /\ d.closeAfterFlush = b.closeAfterFlush /\ d.closeRequested = b.closeRequested
        /\ d.seen = b.seen /\ d.deadline = "drain" /\ d.shut = b.shut + 1
    BY <2>1, Zenon DEF BeginLingerClose, FreeSlot
  <2>5. d.shut > 0
    BY <2>1, <2>4 DEF IsSlot
  <2> HIDE DEF d
  <2>6. CASE ~c.closeAfterFlush
    <3>1. Core(b)
      BY <2>1, <2>3, SameAnswers, Zenon DEF Core, Answers, Stages, States
    <3> QED BY <2>1, <2>2, <2>6, <3>1, Zenon DEF FlushedTo
  <2>7. CASE c.closeAfterFlush
    <3>1. Sent(d) = Sent(c)
      BY <2>3, <2>4, Zenon DEF Sent
    <3>2. Answers(d)
      BY <2>1, <2>4, <3>1, SameAnswers, Zenon DEF Core, Answers
    <3>3. Stages(d) /\ States(d) /\ d.state /= "active"
      BY <2>1, <2>4, <2>5, <2>7, Zenon DEF Core, Stages, States
    <3> QED BY <2>1, <2>2, <2>4, <2>7, <3>2, <3>3, Zenon DEF Core, FlushedTo
  <2> QED BY <2>6, <2>7, Zenon

\* flushOut keeps the answers; it leaves nothing unsent that no event will bring up.
<1>FlushOutCore.
      ASSUME NEW c, IsSlot(c), Core(c), c.state /= "free",
             c.closeRequested => c.dead /\ c.out /= <<>>, NEW d \in FlushOut(c)
      PROVE  /\ Core(d) /\ Moved(c, d)
             /\ \/ Closed(d) /\ (d.closeRequested => d.dead /\ d.out /= <<>>)
                \/ ~c.closeRequested /\ FlushedTo(c, d)
  <2> USE <1>FlushOutCore
  <2>1. CASE d = SocketDied(c) /\ c.out /= <<>>
    BY <2>1, <1>SocketDiedCore, Zenon
  <2>2. CASE d = Flushed(c) /\ ~c.closeRequested
    <3>1. Core(d) /\ FlushedTo(c, d)
      BY <2>2, <1>FlushedCore, Zenon
    <3> QED BY <2>2, <3>1, Zenon DEF FlushedTo, Moved
  <2>3. ASSUME NEW n \in 0..(Len(c.out) - 1), ~c.closeRequested,
               d = [c EXCEPT !.wire = @ \o SubSeq(c.out, 1, n),
                             !.out = SubSeq(@, n + 1, Len(@)),
                             !.writeArmed = TRUE, !.registered = TRUE]
        PROVE  Core(d) /\ Moved(c, d) /\ FlushedTo(c, d)
    <3> DEFINE w == c.wire \o SubSeq(c.out, 1, n)  o == SubSeq(c.out, n + 1, Len(c.out))
    <3>1. w \o o = c.wire \o c.out
      <4>1. c.wire \in Seq(Nat) /\ c.out \in Seq(Nat)
        BY Zenon DEF IsSlot
      <4>2. Rejoined(c.wire, c.out, n) = c.wire \o c.out
        BY <2>3, <4>1, <1>PartlySent, Zenon
      <4> QED BY <4>2, Zenon DEF Rejoined
    <3>2. d = [c EXCEPT !.wire = w, !.out = o, !.writeArmed = TRUE, !.registered = TRUE]
      BY <2>3, Zenon DEF IsSlot, FreeSlot
    <3> HIDE DEF w, o
    <3>3. /\ d.wire = w /\ d.out = o /\ d.state = c.state /\ d.serial = c.serial
          /\ d.parsed = c.parsed /\ d.unread = c.unread /\ d.malformed = c.malformed
          /\ d.awaiting = c.awaiting /\ d.responded = c.responded
          /\ d.closeAfterFlush = c.closeAfterFlush /\ d.closeRequested = c.closeRequested
          /\ d.seen = c.seen /\ d.deadline = c.deadline /\ d.shut = c.shut /\ d.gen = c.gen
          /\ d.registered /\ d.writeArmed
      BY <3>2, Zenon DEF IsSlot, FreeSlot
    <3>4. Sent(d) = Sent(c)
      BY <3>1, <3>3, Zenon DEF Sent
    <3>5. Core(d)
      BY <2>3, <3>3, <3>4, SameAnswers, Zenon DEF Core, Answers, Stages, States
    <3> QED BY <2>3, <3>3, <3>5, Zenon DEF FlushedTo, Moved
  <2>4. CASE c.out = <<>>
    BY <2>2, <2>4, Zenon DEF FlushOut
  <2>5. CASE c.out /= <<>> /\ (c.dead \/ c.shut > 0)
    BY <2>1, <2>5, Zenon DEF FlushOut
  <2>6. CASE c.out /= <<>> /\ ~(c.dead \/ c.shut > 0)
    BY <2>1, <2>2, <2>3, <2>6, Zenon DEF FlushOut
  <2> QED BY <2>4, <2>5, <2>6, Zenon

\* What a flush leaves owed: nothing but what was owed to the slot before.
<1>FlushOwed.
      ASSUME NEW c, IsSlot(c), Core(c), c.state /= "free",
             c.closeRequested => c.dead /\ c.out /= <<>>, NEW d \in FlushOut(c),
             NEW op, NEW then \in {"none", "halfclose", "read", "flush", "idle"},
             op = "read" => d.state /= "free" /\ (c.state = "draining" => c.closeAfterFlush),
             c.state = "active" /\ ~c.awaiting /\ Buffered(c) =>
                 op = "process" /\ then \in {"flush", "idle"},
             c.deadline = "response" /\ ~c.responded /\ ~c.awaiting =>
                 c.state = "active" /\ then = "idle"
      PROVE  Core(d) /\ Moved(c, d) /\ Owed(d, op, then)
  <2> USE <1>FlushOwed
  <2>1. IsSlot(d)
    BY <1>FlushOutSlot, Zenon
  <2>2. Core(d) /\ Moved(c, d)
    BY <1>FlushOutCore, Zenon
  <2>3. CASE Closed(d) /\ (d.closeRequested => d.dead /\ d.out /= <<>>)
    BY <2>1, <2>2, <2>3, ClosedOwed, Zenon
  <2>4. CASE FlushedTo(c, d)
    <3>1. Buffered(d) <=> Buffered(c)
      BY <2>4, Zenon DEF FlushedTo, Buffered
    <3>2. ~Unsent(d)
      BY <2>4, Zenon DEF FlushedTo, Unsent
    <3> QED BY <2>2, <2>4, <3>1, <3>2, Zenon DEF FlushedTo, Owed
  <2> QED BY <2>3, <2>4, <1>FlushOutCore, Zenon

\* The loop has nothing to do before or after.
<1>QuietStep.
      ASSUME IInv, NEW fd \in Fds, NEW d, IsSlot(d), Changes(fd, d),
             Same(conn[fd], d) \/ Recycled(conn[fd], d),
             Core(d), Moved(conn[fd], d), Owed(d, "none", "none"),
             agenda = <<>>, agenda' = <<>>,
             UNCHANGED <<workVars, draining, graceOver, exited>>, marking' \subseteq marking
      PROVE  Kept
  <2> USE <1>QuietStep
  <2>1. AgendaOK'
    BY Zenon DEF AgendaOK, IInv, PinInv
  <2>2. ApplyOK'
    BY DEF ApplyOK
  <2>3. \A g \in Fds : Op(g) = "none" /\ Then(g) = "none" /\ Op(g)' = "none" /\ Then(g)' = "none"
    BY Zenon DEF Op, Then
  <2> QED BY <2>1, <2>2, <2>3, <1>SlotStep, Zenon

\* The loop starts work on one slot.
<1>StartStep.
      ASSUME IInv, NEW fd \in Fds, NEW d, IsSlot(d), Changes(fd, d),
             Same(conn[fd], d) \/ Recycled(conn[fd], d),
             Core(d), Moved(conn[fd], d), Owed(d, Op(fd)', Then(fd)'),
             \A g \in Fds : g /= fd => Op(g) = "none" /\ Then(g) = "none",
             \A g \in Fds : g /= fd => Op(g)' = "none" /\ Then(g)' = "none",
             AgendaOK', \A i \in 1..Len(agenda') : agenda'[i].op /= "apply",
             UNCHANGED <<workVars, drainVars>>
      PROVE  Kept
  <2> USE <1>StartStep
  <2>1. ApplyOK'
    BY Zenon DEF ApplyOK
  <2> QED BY <2>1, <1>SlotStep, Zenon DEF drainVars

\* A step that does the first thing on the agenda, for the slot it is about.
<1>PopStep.
      ASSUME IInv, NEW fd \in Fds, NEW d, IsSlot(d), Changes(fd, d),
             Same(conn[fd], d) \/ Recycled(conn[fd], d), Core(d), Moved(conn[fd], d),
             agenda /= <<>>, agenda[1].fd = fd, agenda' = Tail(agenda),
             Owed(d, Following(Op(fd), Then(fd)), Following(Op(fd), Then(fd))),
             Then(fd) = "apply" /\ d.state /= "free" =>
                 /\ conn[fd].state /= "free" /\ d.serial = conn[fd].serial
                 /\ conn[fd].awaiting \/ conn[fd].responded => d.awaiting \/ d.responded,
             UNCHANGED <<workVars, drainVars>>
      PROVE  Kept
  <2> USE <1>PopStep
  <2>0. AgendaOK /\ UNCHANGED <<marking, exited, draining, graceOver>> /\ marking' \subseteq marking
    BY Zenon DEF IInv, PinInv, drainVars
  <2>1. /\ Op(fd) = agenda[1].op
        /\ \A g \in Fds : g /= fd => Op(g) = "none" /\ Then(g) = "none"
        /\ Len(agenda) \in 1..3
    BY <2>0, AtWork, Zenon
  <2>2. /\ AgendaOK' /\ \A g \in Fds : g /= fd => Op(g)' = "none" /\ Then(g)' = "none"
        /\ Len(agenda') \in Nat /\ Len(agenda') < Len(agenda)
        /\ \A i \in 1..Len(agenda') : agenda'[i] = agenda[i + 1]
    BY <2>0, Popped, Zenon
  <2>3. Op(fd)' = Following(Op(fd), Then(fd)) /\ Then(fd)' = Following(Op(fd), Then(fd))
    BY <2>0, <2>1, Popped, Zenon DEF Following
  <2>4. ApplyOK'
    <3> SUFFICES ASSUME NEW i \in 1..Len(agenda'), agenda'[i].op = "apply", ~agenda'[i].stale,
                        conn'[agenda'[i].fd].state /= "free"
                 PROVE  LET c == conn'[agenda'[i].fd]
                        IN  c.serial = agenda'[i].serial /\ (c.awaiting \/ c.responded)
      BY Zenon DEF ApplyOK
    <3>1. i + 1 \in 1..Len(agenda) /\ agenda'[i] = agenda[i + 1] /\ i + 1 \in 2..3
      BY <2>1, <2>2, SMTT(30)
    <3>2. agenda[i + 1].fd = fd /\ agenda'[i].fd = fd
      BY <2>0, <3>1, Zenon DEF AgendaOK
    <3>3. Then(fd) = "apply"
      <4>1. agenda[1].op = "process" /\ i + 1 = 2
        BY <2>0, <3>1, SMTT(30) DEF AgendaOK
      <4> QED BY <2>1, <3>1, <4>1, Zenon DEF Then
    <3>4. conn'[fd] = d
      BY Zenon DEF Changes
    <3>5. conn[fd].serial = agenda[i + 1].serial /\ (conn[fd].awaiting \/ conn[fd].responded)
      BY <3>1, <3>2, <3>3, <3>4, Zenon DEF IInv, AnswerInv, ApplyOK
    <3> QED BY <3>1, <3>2, <3>3, <3>4, <3>5, Zenon
  <2> QED BY <2>0, <2>1, <2>2, <2>3, <2>4, <1>SlotStep, Zenon

\* A connection is accepted.
<1>AcceptPreserves.
      ASSUME IInv, NEW fd \in Fds, Accept(fd)
      PROVE  Kept
  <2> USE <1>AcceptPreserves
  <2> DEFINE b == conn[fd]
             c == [FreeSlot EXCEPT !.gen = b.gen, !.serial = b.serial + 1,
                                   !.state = "active", !.registered = TRUE,
                                   !.deadline = "idle"]
  <2>0. /\ agenda = <<>> /\ agenda' = <<>> /\ UNCHANGED <<workVars, draining, graceOver, exited>>
        /\ marking' \subseteq marking
    BY Zenon DEF Accept, Quiescent, drainVars
  <2>1. PICK g \in Nat, n \in Nat : b = Emptied(g, n)
    <3>1. b.state = "free"
      BY Zenon DEF Accept
    <3>2. IsSlot(b) /\ Core(b)
      BY SlotFacts, Zenon
    <3> HIDE DEF b
    <3> QED BY <3>1, <3>2, Zenon DEF Core, States, IsSlot
  <2>2. b.gen = g /\ b.serial = n /\ b.pins = [k \in Kind |-> 0] /\ b.state = "free"
    <3> HIDE DEF b
    <3> QED BY <2>1, FreedSlot, Zenon
  <2>3. TotalPins(b) = 0
    BY <2>2 DEF TotalPins, Kind
  <2>4. /\ IsSlot(c) /\ c.state = "active" /\ c.pins = [k \in Kind |-> 0] /\ c.gen = b.gen
        /\ c.serial = n + 1
        /\ ~c.parsed /\ ~c.malformed /\ ~c.awaiting /\ ~c.responded /\ c.unread = 0
        /\ ~c.closeRequested /\ c.out = <<>> /\ c.wire = <<>> /\ c.seen = <<>>
        /\ c.deadline = "idle"
    BY <2>2, ConnAssumption DEF IsSlot, FreeSlot, Kind
  <2>5. Freed(c) = Emptied(b.gen + 1, n + 1)
    BY <2>4, Zenon DEF Emptied, Freed
  <2>6. Becomes(fd, c) \/ Becomes(fd, Freed(c))
    BY Zenon DEF Accept
  <2> HIDE DEF c
  <2>7. CASE Becomes(fd, c)
    <3>1. Sent(c) = <<>> /\ Len(Sent(c)) = 0 /\ Len(c.seen) = 0
      BY <2>4 DEF Sent
    <3>2. Prefix(c) /\ Even(c)
      BY <3>1 DEF Prefix, Even
    <3>3. Core(c)
      BY <2>4, <3>2, Zenon DEF Core, Answers, Stages, States
    <3>4. Owed(c, "none", "none")
      BY <2>4 DEF Owed, Unsent, Buffered
    <3>5. Same(b, c) /\ Moved(b, c)
      BY <2>2, <2>4, Zenon DEF Same, Moved
    <3>6. Changes(fd, c)
      BY <2>7, SlotFacts, BecomesChanges, Zenon
    <3> QED BY <2>0, <2>4, <3>3, <3>4, <3>5, <3>6, <1>QuietStep, Zenon
  <2>8. CASE Becomes(fd, Freed(c))
    <3> DEFINE d == Freed(c)  h == b.gen + 1  m == n + 1
    <3>1. h \in Nat /\ m \in Nat /\ d = Emptied(h, m)
      BY <2>2, <2>5, SMTT(30)
    <3>2. Recycled(b, d)
      BY <2>3, <3>1, Zenon DEF Recycled
    <3> HIDE DEF h, m, d
    <3>3. IsSlot(d) /\ Core(d) /\ d.state = "free" /\ ~d.closeRequested
      <4>1. Core(d)
        BY <3>1, FreeCore, Zenon
      <4>2. IsSlot(d) /\ d.state = "free" /\ ~d.closeRequested
        <5>1. h \in Nat /\ m \in Nat
          BY <3>1, Zenon
        <5>2. /\ IsSlot(Emptied(h, m)) /\ Emptied(h, m).state = "free"
              /\ ~Emptied(h, m).closeRequested
          BY <5>1, FreedSlot, ZenonT(30)
        <5> QED BY <3>1, <5>2, Zenon
      <4> QED BY <4>1, <4>2, Zenon
    <3>4. Moved(b, d) /\ Owed(d, "none", "none")
      BY <3>3, ClosedOwed, Zenon DEF Moved, Closed
    <3>5. Changes(fd, d)
      BY <2>8, SlotFacts, BecomesChanges, Zenon DEF d
    <3> QED BY <2>0, <3>2, <3>3, <3>4, <3>5, <1>QuietStep, Zenon
  <2> QED BY <2>6, <2>7, <2>8, Zenon

\* handleRead, with nothing left to do after it.
<1>HandleReadPreserves.
      ASSUME IInv, NEW fd \in Fds, HandleRead(fd, <<>>), marking = {}, ~exited,
             conn[fd].state /= "free", conn[fd].state = "draining" => conn[fd].closeAfterFlush,
             conn[fd].closeRequested => conn[fd].dead /\ conn[fd].out /= <<>>,
             conn[fd].deadline = "response" /\ ~conn[fd].responded => conn[fd].awaiting,
             \A g \in Fds : g /= fd => Op(g) = "none" /\ Then(g) = "none",
             UNCHANGED <<workVars, drainVars>>
      PROVE  Kept
  <2> USE <1>HandleReadPreserves
  <2> DEFINE c == conn[fd]
  <2>0. IsSlot(c) /\ Core(c) /\ TypeOK /\ marking' = {} /\ ~exited'
    BY SlotFacts, Zenon DEF drainVars
  <2>1. ASSUME NEW n \in 0..(MaxReq - c.received), NEW fin \in BOOLEAN,
               Becomes(fd, [c EXCEPT !.received = @ + n, !.unread = @ + n, !.eof = fin]),
               agenda' = <<Step("process", fd), Step("flush", fd), Step("halfclose", fd)>>
        PROVE  Kept
    <3> DEFINE r == c.received + n  u == c.unread + n
               d == [c EXCEPT !.received = r, !.unread = u, !.eof = fin]
    <3>0. r \in 0..MaxReq /\ u \in 0..r
      <4>1. c.received \in 0..MaxReq /\ c.unread \in 0..c.received /\ MaxReq \in Nat
        BY <2>0, ConnAssumption, Zenon DEF IsSlot
      <4> QED BY <4>1, SMTT(30)
    <3>8. [c EXCEPT !.received = @ + n, !.unread = @ + n, !.eof = fin] = d
      BY <2>0, Zenon DEF IsSlot, FreeSlot
    <3> HIDE DEF r, u
    <3>1. /\ IsSlot(d) /\ d.state = c.state /\ d.gen = c.gen /\ d.serial = c.serial
          /\ d.pins = c.pins /\ d.parsed = c.parsed /\ d.malformed = c.malformed
          /\ d.awaiting = c.awaiting /\ d.responded = c.responded
          /\ d.closeAfterFlush = c.closeAfterFlush /\ d.closeRequested = c.closeRequested
          /\ d.out = c.out /\ d.wire = c.wire /\ d.seen = c.seen /\ d.dead = c.dead
          /\ d.deadline = c.deadline /\ d.registered = c.registered /\ d.shut = c.shut
      BY <2>0, <3>0, Zenon DEF IsSlot, FreeSlot
    <3>2. Changes(fd, d)
      BY <2>0, <2>1, <3>8, BecomesChanges, Zenon
    <3> HIDE DEF d
    <3>3. Sent(d) = Sent(c) /\ TotalPins(d) = TotalPins(c)
      BY <3>1, Zenon DEF Sent, TotalPins
    <3>4. Core(d)
      BY <2>0, <3>1, <3>3, SameAnswers, Zenon DEF Core, Answers, Stages, States
    <3>5. Same(c, d) /\ Moved(c, d)
      BY <3>1, Zenon DEF Same, Moved
    <3>6. /\ AgendaOK' /\ Op(fd)' = "process" /\ Then(fd)' = "flush"
          /\ \A i \in 1..Len(agenda') : agenda'[i].op /= "apply"
          /\ \A g \in Fds : g /= fd => Op(g)' = "none" /\ Then(g)' = "none"
      BY <2>0, <2>1, <1>StartThree, Zenon
    <3>7. Owed(d, "process", "flush")
      BY <3>1, Zenon DEF Owed
    <3> QED BY <3>1, <3>2, <3>4, <3>5, <3>6, <3>7, <1>StartStep, ZenonT(30)
  <2>2. CASE Becomes(fd, SocketDied(c)) /\ agenda' = <<>>
    <3> DEFINE d == SocketDied(c)
    <3>1. IsSlot(d) /\ (Same(c, d) \/ Recycled(c, d))
      BY <2>0, <1>SocketDiedSlot, Zenon
    <3>2. Core(d) /\ Moved(c, d) /\ Closed(d)
      BY <2>0, <1>SocketDiedCore, Zenon
    <3>3. Changes(fd, d)
      BY <2>0, <2>2, BecomesChanges, Zenon
    <3> HIDE DEF d
    <3>4. /\ AgendaOK' /\ \A g \in Fds : Op(g)' = "none" /\ Then(g)' = "none"
          /\ \A i \in 1..Len(agenda') : agenda'[i].op /= "apply"
      BY <2>0, <2>2, <1>EmptiesAgenda, Zenon
    <3>5. Owed(d, "none", "none")
      BY <3>1, <3>2, ClosedOwed, Zenon
    <3> QED BY <3>1, <3>2, <3>3, <3>4, <3>5, <1>StartStep, Zenon
  <2>3. /\ <<Step("process", fd), Step("flush", fd), Step("halfclose", fd)>> \o <<>>
             = <<Step("process", fd), Step("flush", fd), Step("halfclose", fd)>>
    OBVIOUS
  <2> QED BY <2>1, <2>2, <2>3, Zenon DEF HandleRead

\* The socket is readable, or is read again after a write.
<1>ReadPreserves.
      ASSUME IInv, (\E fd \in Fds : Readable(fd)) \/ ReadAfterWrite
      PROVE  Kept
  <2> USE <1>ReadPreserves
  <2>1. ASSUME NEW fd \in Fds, Readable(fd) PROVE Kept
    <3>1. /\ agenda = <<>> /\ marking = {} /\ ~exited /\ HandleRead(fd, <<>>)
          /\ UNCHANGED <<workVars, drainVars>> /\ conn[fd].state \in {"active", "closing"}
          /\ conn[fd].registered
      BY <2>1, Zenon DEF Readable, Quiescent
    <3>2. Core(conn[fd]) /\ Owed(conn[fd], "none", "none")
      BY <3>1, SlotFacts, Zenon
    <3>3. ~conn[fd].closeRequested
      BY <3>1, <3>2, Zenon DEF Core, States
    <3>4. conn[fd].deadline = "response" /\ ~conn[fd].responded => conn[fd].awaiting
      BY <3>2, Zenon DEF Owed
    <3> QED BY <3>1, <3>3, <3>4, IdleLoop, <1>HandleReadPreserves, Zenon
  <2>2. CASE ReadAfterWrite
    <3>0. AgendaOK
      BY Zenon DEF IInv, PinInv
    <3>1. agenda /= <<>> /\ Head(agenda) = agenda[1] /\ agenda[1].op = "read"
      BY <2>2, <3>0, AtWork, Zenon DEF ReadAfterWrite, Doing
    <3>2. PICK fd \in Fds : agenda[1].fd = fd
      BY <3>0, <3>1, AtWork, Zenon
    <3>3. marking = {} /\ ~exited /\ Op(fd) = "read" /\ Then(fd) = "read"
          /\ \A g \in Fds : g /= fd => Op(g) = "none" /\ Then(g) = "none"
      BY <3>0, <3>1, <3>2, AtWork, Zenon DEF Then
    <3>4. Tail(agenda) = <<>>
      BY <3>0, <3>1 DEF AgendaOK
    <3>5. HandleRead(fd, <<>>) /\ UNCHANGED <<workVars, drainVars>>
      BY <2>2, <3>1, <3>2, <3>4, Zenon DEF ReadAfterWrite
    <3>6. Owed(conn[fd], "read", "read")
      BY <3>3, SlotFacts, Zenon
    <3>7. /\ conn[fd].state /= "free" /\ (conn[fd].state = "draining" => conn[fd].closeAfterFlush)
          /\ conn[fd].closeRequested => conn[fd].dead /\ conn[fd].out /= <<>>
          /\ conn[fd].deadline = "response" /\ ~conn[fd].responded => conn[fd].awaiting
      BY <3>6, Zenon DEF Owed
    <3> QED BY <3>3, <3>5, <3>7, <1>HandleReadPreserves, Zenon
  <2> QED BY <2>1, <2>2, Zenon

\* Input is not processed: there is none, or a response is awaited.
<1>ProcessPausedPreserves.
      ASSUME IInv, ProcessPaused
      PROVE  Kept
  <2> USE <1>ProcessPausedPreserves
  <2>1. Doing("process") /\ agenda' = Tail(agenda) /\ UNCHANGED <<conn, workVars, drainVars>>
    BY Zenon DEF ProcessPaused
  <2>2. PICK fd \in Fds : agenda[1].fd = fd /\ Op(fd) = "process"
    BY <2>1, DoingFacts, Zenon
  <2> DEFINE c == conn[fd]
  <2>3. /\ IsSlot(c) /\ Core(c) /\ Owed(c, "process", Then(fd)) /\ TypeOK
        /\ agenda /= <<>> /\ Head(agenda) = agenda[1]
    BY <2>1, <2>2, DoingFacts, SlotFacts, Zenon
  <2>4. c.state \in {"free", "closing"} \/ c.awaiting \/ ~Buffered(c)
    BY <2>2, <2>3, Zenon DEF ProcessPaused
  <2>5. Owed(c, Then(fd), Then(fd))
    <3>1. Then(fd) /= "read"
      BY <2>1, <2>2, DoingFacts, Popped, Zenon DEF drainVars
    <3> QED BY <2>3, <2>4, <3>1, Zenon DEF Owed
  <2>6. Changes(fd, c) /\ Same(c, c) /\ Moved(c, c)
    BY <2>1, <2>3, BecomesChanges, Zenon DEF Same, Moved
  <2>7. Following(Op(fd), Then(fd)) = Then(fd)
    BY <2>2, Zenon DEF Following
  <2> QED BY <2>1, <2>2, <2>3, <2>5, <2>6, <2>7, <1>PopStep, Zenon

\* The flush after a read.
<1>FlushAfterReadPreserves.
      ASSUME IInv, FlushAfterRead
      PROVE  Kept
  <2> USE <1>FlushAfterReadPreserves
  <2>1. Doing("flush") /\ agenda' = Tail(agenda) /\ UNCHANGED <<workVars, drainVars>>
    BY Zenon DEF FlushAfterRead
  <2>2. PICK fd \in Fds : agenda[1].fd = fd /\ Op(fd) = "flush" /\ Then(fd) = "flush"
    BY <2>1, DoingFacts
  <2> DEFINE c == conn[fd]
  <2>3. /\ IsSlot(c) /\ Core(c) /\ Owed(c, "flush", "flush") /\ TypeOK
        /\ agenda /= <<>> /\ Head(agenda) = agenda[1]
    BY <2>1, <2>2, DoingFacts, SlotFacts, Zenon
  <2>4. Following(Op(fd), Then(fd)) = "halfclose"
    BY <2>2, Zenon DEF Following
  <2>5. CASE c.state /= "free" /\ (c.out /= <<>> \/ c.closeAfterFlush)
    <3>1. PICK d \in FlushOut(c) : Becomes(fd, d)
      BY <2>2, <2>3, <2>5, Zenon DEF FlushAfterRead
    <3>2. /\ c.closeRequested => c.dead /\ c.out /= <<>>
          /\ ~(c.state = "active" /\ ~c.awaiting /\ Buffered(c))
          /\ ~(c.deadline = "response" /\ ~c.responded /\ ~c.awaiting)
      BY <2>3, Zenon DEF Owed
    <3>3. Core(d) /\ Moved(c, d) /\ Owed(d, "halfclose", "halfclose")
      BY <2>3, <2>5, <3>2, <1>FlushOwed, Zenon
    <3>4. IsSlot(d) /\ (Same(c, d) \/ Recycled(c, d))
      BY <2>3, <2>5, <1>FlushOutSlot, Zenon
    <3>5. Changes(fd, d)
      BY <2>3, <3>1, BecomesChanges, Zenon
    <3> QED BY <2>1, <2>2, <2>3, <2>4, <3>3, <3>4, <3>5, <1>PopStep, Zenon
  <2>6. CASE ~(c.state /= "free" /\ (c.out /= <<>> \/ c.closeAfterFlush))
    <3>1. UNCHANGED conn
      BY <2>2, <2>3, <2>6, Zenon DEF FlushAfterRead
    <3>2. Changes(fd, c) /\ Same(c, c) /\ Moved(c, c)
      BY <2>3, <3>1, BecomesChanges, Zenon DEF Same, Moved
    <3>3. Owed(c, "halfclose", "halfclose")
      BY <2>3, <2>6, Zenon DEF Owed, Unsent
    <3> QED BY <2>1, <2>2, <2>3, <2>4, <3>2, <3>3, <1>PopStep, Zenon
  <2> QED BY <2>5, <2>6, Zenon

\* beginLingerClose leaves a well-formed slot.
<1>LingerSlot.
      ASSUME NEW c, IsSlot(c)
      PROVE  IsSlot(BeginLingerClose(c))
    BY <1>LingerSlot DEF BeginLingerClose, IsSlot, FreeSlot

\* The slot is to close once its output is flushed, and may leave the selector.
<1>ClosesLaterSlot.
      ASSUME NEW c, IsSlot(c), NEW d,
             \/ d = [c EXCEPT !.closeAfterFlush = TRUE]
             \/ d = [c EXCEPT !.closeAfterFlush = TRUE,
                              !.registered = FALSE, !.writeArmed = FALSE]
      PROVE  IsSlot(d)
  <2> USE <1>ClosesLaterSlot
  <2>1. CASE d = [c EXCEPT !.closeAfterFlush = TRUE]
    BY <2>1, Zenon DEF IsSlot, FreeSlot
  <2>2. CASE d = [c EXCEPT !.closeAfterFlush = TRUE,
                           !.registered = FALSE, !.writeArmed = FALSE]
    BY <2>2, Zenon DEF IsSlot, FreeSlot
  <2> QED BY <2>1, <2>2, Zenon

\* beginLingerClose on a slot with nothing to answer or to send.
<1>LingerIdle.
      ASSUME NEW c, IsSlot(c), Core(c), c.state = "active", ~c.awaiting, c.out = <<>>,
             ~Buffered(c)
      PROVE  LET d == BeginLingerClose(c)
             IN  /\ IsSlot(d) /\ Core(d) /\ Same(c, d) /\ Moved(c, d)
                 /\ Owed(d, "none", "none")
  <2> USE <1>LingerIdle
  <2> DEFINE d == BeginLingerClose(c)
  <2>0. IsSlot(d)
    BY <1>LingerSlot, Zenon
  <2>1. /\ d.wire = c.wire /\ d.out = c.out /\ d.state = "draining"
        /\ d.serial = c.serial /\ d.gen = c.gen /\ d.pins = c.pins
        /\ d.parsed = c.parsed /\ d.unread = c.unread /\ d.malformed = c.malformed
        /\ d.awaiting = c.awaiting /\ d.responded = c.responded
        /\ d.closeAfterFlush = c.closeAfterFlush /\ d.closeRequested = c.closeRequested
        /\ d.seen = c.seen /\ d.deadline = "drain" /\ d.shut = c.shut + 1 /\ c.shut \in Nat
    BY Zenon DEF BeginLingerClose, IsSlot, FreeSlot
  <2> HIDE DEF d
  <2>2. d.shut > 0 /\ Sent(d) = Sent(c) /\ c.unread = 0
    BY <2>1 DEF Sent, Buffered, IsSlot
  <2>3. Core(d)
    BY <2>1, <2>2, SameAnswers, Zenon DEF Core, Answers, Stages, States
  <2>4. Same(c, d) /\ Moved(c, d) /\ Owed(d, "none", "none")
    BY <2>1, <2>3, Zenon DEF Same, Moved, Owed, Unsent, Core, States
  <2> QED BY <2>0, <2>3, <2>4, Zenon DEF d

\* handleRead's tail, when the peer sends no more requests.
<1>HalfClosePreserves.
      ASSUME IInv, HalfClose
      PROVE  Kept
  <2> USE <1>HalfClosePreserves
  <2>1. Doing("halfclose") /\ agenda' = Tail(agenda) /\ UNCHANGED <<workVars, drainVars>>
    BY Zenon DEF HalfClose
  <2>2. PICK fd \in Fds : agenda[1].fd = fd /\ Op(fd) = "halfclose" /\ Then(fd) = "halfclose"
    BY <2>1, DoingFacts
  <2> DEFINE c == conn[fd]
  <2>3. /\ IsSlot(c) /\ Core(c) /\ Owed(c, "halfclose", "halfclose") /\ TypeOK
        /\ agenda /= <<>> /\ Head(agenda) = agenda[1]
    BY <2>1, <2>2, DoingFacts, SlotFacts, Zenon
  <2>4. Following(Op(fd), Then(fd)) = "none"
    BY <2>2, Zenon DEF Following
  <2>0. Owed(c, "none", "none")
    BY <2>3, Zenon DEF Owed
  <2>5. CASE ~(c.eof /\ c.state = "active")
    <3>1. UNCHANGED conn
      BY <2>2, <2>3, <2>5, Zenon DEF HalfClose
    <3>2. Changes(fd, c) /\ Same(c, c) /\ Moved(c, c)
      BY <2>3, <3>1, BecomesChanges, Zenon DEF Same, Moved
    <3> QED BY <2>0, <2>1, <2>2, <2>3, <2>4, <3>2, <1>PopStep, Zenon
  <2>6. CASE c.eof /\ c.state = "active" /\ (c.awaiting \/ c.out /= <<>>)
    <3>1. PICK d : /\ Becomes(fd, d)
                   /\ \/ d = [c EXCEPT !.closeAfterFlush = TRUE]
                      \/ /\ d = [c EXCEPT !.closeAfterFlush = TRUE,
                                          !.registered = FALSE, !.writeArmed = FALSE]
                         /\ c.out = <<>>
      BY <2>2, <2>3, <2>6, Zenon DEF HalfClose
    <3>0. IsSlot(d)
      BY <2>3, <3>1, <1>ClosesLaterSlot, Zenon
    <3>2. /\ d.wire = c.wire /\ d.out = c.out /\ d.state = c.state
          /\ d.serial = c.serial /\ d.gen = c.gen /\ d.pins = c.pins
          /\ d.parsed = c.parsed /\ d.unread = c.unread /\ d.malformed = c.malformed
          /\ d.awaiting = c.awaiting /\ d.responded = c.responded
          /\ d.closeRequested = c.closeRequested /\ d.closeAfterFlush
          /\ d.seen = c.seen /\ d.deadline = c.deadline /\ d.shut = c.shut /\ d.dead = c.dead
          /\ c.out = <<>> \/ (d.registered = c.registered /\ d.writeArmed = c.writeArmed)
      BY <2>3, <3>1, ZenonT(30) DEF IsSlot, FreeSlot
    <3>3. Sent(d) = Sent(c)
      BY <3>2, Zenon DEF Sent
    <3>4. Core(d)
      BY <2>3, <2>6, <3>2, <3>3, SameAnswers, Zenon DEF Core, Answers, Stages, States
    <3>5. Same(c, d) /\ Moved(c, d)
      BY <3>2, Zenon DEF Same, Moved
    <3>6. Owed(d, "none", "none")
      BY <2>0, <3>2, Zenon DEF Owed, Unsent, Buffered
    <3>7. Changes(fd, d)
      BY <2>3, <3>1, BecomesChanges, Zenon
    <3> QED BY <2>1, <2>2, <2>3, <2>4, <3>0, <3>4, <3>5, <3>6, <3>7, <1>PopStep, Zenon
  <2>7. CASE c.eof /\ c.state = "active" /\ ~(c.awaiting \/ c.out /= <<>>)
    <3> DEFINE d == BeginLingerClose(c)
    <3>1. Becomes(fd, d)
      BY <2>2, <2>3, <2>7, Zenon DEF HalfClose
    <3>2. ~Buffered(c)
      BY <2>0, <2>7, Zenon DEF Owed
    <3>3. /\ IsSlot(d) /\ Core(d) /\ Same(c, d) /\ Moved(c, d) /\ Owed(d, "none", "none")
      BY <2>3, <2>7, <3>2, <1>LingerIdle, Zenon
    <3>4. Changes(fd, d)
      BY <2>3, <3>1, BecomesChanges, Zenon
    <3> HIDE DEF d
    <3> QED BY <2>1, <2>2, <2>3, <2>4, <3>3, <3>4, <1>PopStep, Zenon
  <2> QED BY <2>5, <2>6, <2>7, Zenon

\* One change of a slot after another.
<1>OneThenOther.
      ASSUME NEW c, IsSlot(c), NEW b, IsSlot(b), NEW d, IsSlot(d),
             Same(c, b), Moved(c, b), Same(b, d) \/ Recycled(b, d), Moved(b, d)
      PROVE  (Same(c, d) \/ Recycled(c, d)) /\ Moved(c, d)
  <2> USE <1>OneThenOther
  <2>1. c.serial \in Nat /\ b.serial \in Nat /\ d.serial \in Nat
    BY Zenon DEF IsSlot
  <2>2. b.gen = c.gen /\ b.pins = c.pins /\ (c.state /= "free" => b.state /= "free")
    BY Zenon DEF Same
  <2>3. TotalPins(b) = TotalPins(c)
    BY <2>2, Zenon DEF TotalPins
  <2>4. Same(b, d) => Same(c, d)
    BY <2>2, Zenon DEF Same
  <2>5. Recycled(b, d) => Recycled(c, d)
    BY <2>2, <2>3, Zenon DEF Recycled
  <2>6. Moved(c, d)
    BY <2>1, <2>2 DEF Moved
  <2> QED BY <2>4, <2>5, <2>6, Zenon

\* The idle deadline of a connection with nothing to do.
<1>IdledOwed.
      ASSUME NEW c, IsSlot(c), Core(c), Owed(c, "idle", "idle"), ~Unsent(c), NEW e,
             e = IF c.state = "active" /\ ~Buffered(c) /\ ~c.awaiting
                 THEN [c EXCEPT !.deadline = "idle"] ELSE c
      PROVE  IsSlot(e) /\ Core(e) /\ Owed(e, "none", "none") /\ Same(c, e) /\ Moved(c, e)
  <2> USE <1>IdledOwed
  <2>1. CASE c.state = "active" /\ ~Buffered(c) /\ ~c.awaiting
    <3>1. e = [c EXCEPT !.deadline = "idle"]
      BY <2>1, Zenon
    <3>2. IsSlot(e)
      BY <3>1 DEF IsSlot, FreeSlot
    <3>3. /\ e.wire = c.wire /\ e.out = c.out /\ e.state = c.state /\ e.serial = c.serial
          /\ e.gen = c.gen /\ e.pins = c.pins /\ e.parsed = c.parsed /\ e.unread = c.unread
          /\ e.malformed = c.malformed /\ e.awaiting = c.awaiting
          /\ e.responded = c.responded /\ e.closeAfterFlush = c.closeAfterFlush
          /\ e.closeRequested = c.closeRequested /\ e.seen = c.seen /\ e.deadline = "idle"
          /\ e.shut = c.shut /\ e.dead = c.dead
          /\ e.registered = c.registered /\ e.writeArmed = c.writeArmed
      BY <3>1, Zenon DEF IsSlot, FreeSlot
    <3>4. Sent(e) = Sent(c)
      BY <3>3, Zenon DEF Sent
    <3>5. Core(e)
      BY <2>1, <3>3, <3>4, SameAnswers, Zenon DEF Core, Answers, Stages, States
    <3>6. Owed(e, "none", "none")
      BY <2>1, <3>3, <3>5 DEF Owed, Unsent, Buffered, Core, States
    <3> QED BY <3>2, <3>3, <3>5, <3>6, Zenon DEF Same, Moved
  <2>2. CASE ~(c.state = "active" /\ ~Buffered(c) /\ ~c.awaiting)
    <3>1. e = c
      BY <2>2, Zenon
    <3>2. Owed(c, "none", "none")
      BY <2>2, Zenon DEF Owed
    <3> QED BY <3>1, <3>2, Zenon DEF Same, Moved
  <2> QED BY <2>1, <2>2, Zenon

\* The flush after input was processed, and the idle deadline.
<1>FlushPendingPreserves.
      ASSUME IInv, FlushPending
      PROVE  Kept
  <2> USE <1>FlushPendingPreserves
  <2>1. /\ Doing("pending") \/ Doing("idle")
        /\ agenda' = Tail(agenda) /\ UNCHANGED <<workVars, drainVars>>
    BY Zenon DEF FlushPending
  <2>2. PICK op \in {"pending", "idle"} : Doing(op)
    BY <2>1, Zenon
  <2>3. PICK fd \in Fds : agenda[1].fd = fd /\ Op(fd) = op /\ Then(fd) = op
    BY <2>2, DoingFacts, Zenon
  <2> DEFINE c == conn[fd]
  <2>4. /\ IsSlot(c) /\ Core(c) /\ Owed(c, op, op) /\ TypeOK
        /\ agenda /= <<>> /\ Head(agenda) = agenda[1] /\ (Doing("idle") <=> op = "idle")
    BY <2>2, <2>3, DoingFacts, SlotFacts, Zenon DEF Doing
  <2>5. Following(Op(fd), Then(fd)) = "none" /\ Then(fd) /= "apply"
    BY <2>3, Zenon DEF Following
  <2>6. CASE c.state = "free"
    <3>1. UNCHANGED conn
      BY <2>3, <2>4, <2>6, Zenon DEF FlushPending
    <3>2. Changes(fd, c) /\ Same(c, c) /\ Moved(c, c)
      BY <2>4, <3>1, BecomesChanges, Zenon DEF Same, Moved
    <3>3. Owed(c, "none", "none")
      BY <2>4, <2>6, ClosedOwed, Zenon DEF Closed
    <3> QED BY <2>1, <2>3, <2>4, <2>5, <3>2, <3>3, <1>PopStep, Zenon
  <2>7. CASE c.state /= "free"
    <3>1. PICK d \in (IF c.out /= <<>> THEN FlushOut(c) ELSE {c}) :
              Becomes(fd, IF op = "idle" /\ d.state = "active" /\ ~Buffered(d) /\ ~d.awaiting
                          THEN [d EXCEPT !.deadline = "idle"] ELSE d)
      BY <2>3, <2>4, <2>7, Zenon DEF FlushPending
    <3> DEFINE e == IF op = "idle" /\ d.state = "active" /\ ~Buffered(d) /\ ~d.awaiting
                    THEN [d EXCEPT !.deadline = "idle"] ELSE d
               then == IF op = "idle" THEN "idle" ELSE "none"
    <3>2. /\ c.closeRequested => c.dead /\ c.out /= <<>>
          /\ ~(c.state = "active" /\ ~c.awaiting /\ Buffered(c))
          /\ c.deadline = "response" /\ ~c.responded /\ ~c.awaiting =>
                 c.state = "active" /\ op = "idle"
      BY <2>4, Zenon DEF Owed
    <3>3. /\ IsSlot(d) /\ (Same(c, d) \/ Recycled(c, d)) /\ Core(d) /\ Moved(c, d)
          /\ Owed(d, then, then) /\ ~Unsent(d)
      <4>1. CASE c.out /= <<>>
        <5>1. d \in FlushOut(c) /\ then \in {"none", "idle"} /\ (op = "idle" => then = "idle")
          BY <3>1, <4>1, Zenon
        <5> HIDE DEF then
        <5>2. Core(d) /\ Moved(c, d) /\ Owed(d, then, then)
          BY <2>4, <2>7, <3>2, <5>1, <1>FlushOwed, Zenon
        <5>3. IsSlot(d) /\ (Same(c, d) \/ Recycled(c, d))
          BY <2>4, <2>7, <5>1, <1>FlushOutSlot, Zenon
        <5>4. Closed(d) \/ FlushedTo(c, d)
          BY <2>4, <2>7, <3>2, <5>1, <1>FlushOutCore, ZenonT(30)
        <5>5. ~Unsent(d)
          BY <5>4, Zenon DEF Closed, FlushedTo, Unsent
        <5> QED BY <5>2, <5>3, <5>5, Zenon
      <4>2. CASE c.out = <<>>
        <5>1. d = c
          BY <3>1, <4>2, Zenon
        <5>2. ~Unsent(c)
          BY <4>2, Zenon DEF Unsent
        <5>3. Owed(c, then, then)
          BY <2>4, <3>2, <5>2, Zenon DEF Owed
        <5> QED BY <2>4, <5>1, <5>2, <5>3, Zenon DEF Same, Moved
      <4> QED BY <4>1, <4>2, Zenon
    <3>4. IsSlot(e) /\ Core(e) /\ Owed(e, "none", "none") /\ Same(d, e) /\ Moved(d, e)
      <4>1. CASE op = "idle"
        <5>1. /\ e = IF d.state = "active" /\ ~Buffered(d) /\ ~d.awaiting
                     THEN [d EXCEPT !.deadline = "idle"] ELSE d
              /\ Owed(d, "idle", "idle")
          BY <3>3, <4>1, Zenon
        <5> HIDE DEF e
        <5> QED BY <3>3, <5>1, <1>IdledOwed, Zenon
      <4>2. CASE op /= "idle"
        <5>1. e = d /\ Owed(d, "none", "none")
          BY <3>3, <4>2, Zenon
        <5> HIDE DEF e
        <5> QED BY <3>3, <5>1, Zenon DEF Same, Moved
      <4> QED BY <4>1, <4>2, Zenon
    <3>5. Becomes(fd, e)
      BY <3>1, Zenon
    <3> HIDE DEF e
    <3>6. Changes(fd, e)
      BY <2>4, <3>5, BecomesChanges, Zenon
    <3>7. (Same(c, e) \/ Recycled(c, e)) /\ Moved(c, e)
      <4>1. CASE Same(c, d)
        BY <2>4, <3>3, <3>4, <4>1, <1>OneThenOther, ZenonT(30)
      <4>2. CASE Recycled(c, d)
        <5>1. d.state = "free"
          BY <4>2, Zenon DEF Emptied, Recycled, FreeSlot
        <5>2. e = d
          BY <5>1, Zenon DEF e
        <5> QED BY <3>3, <5>2, Zenon
      <4> QED BY <3>3, <4>1, <4>2, Zenon
    <3> QED BY <2>1, <2>3, <2>4, <2>5, <3>4, <3>6, <3>7, <1>PopStep, Zenon
  <2> QED BY <2>6, <2>7, Zenon

\* The socket is writable.
<1>WritablePreserves.
      ASSUME IInv, NEW fd \in Fds, Writable(fd)
      PROVE  Kept
  <2> USE <1>WritablePreserves
  <2> DEFINE c == conn[fd]
  <2>1. /\ agenda = <<>> /\ marking = {} /\ ~exited
        /\ c.state \in {"active", "closing"} /\ c.registered
        /\ UNCHANGED <<workVars, drainVars>>
    BY Zenon DEF Writable, Quiescent
  <2>2. TypeOK /\ IsSlot(c) /\ Core(c) /\ Owed(c, "none", "none")
    BY <2>1, SlotFacts, Zenon
  <2>3. PICK d \in FlushOut(c), read \in BOOLEAN :
          /\ Becomes(fd, d)
          /\ agenda' = IF read /\ d.state /= "free" THEN <<Step("read", fd)>> ELSE <<>>
    BY Zenon DEF Writable
  <2>4. /\ IsSlot(d) /\ (Same(c, d) \/ Recycled(c, d)) /\ Changes(fd, d)
    BY <2>1, <2>2, <2>3, <1>FlushOutSlot, BecomesChanges, Zenon
  <2>5. /\ ~c.closeRequested
        /\ ~(c.state = "active" /\ ~c.awaiting /\ Buffered(c))
        /\ ~(c.deadline = "response" /\ ~c.responded /\ ~c.awaiting)
    BY <2>1, <2>2, Zenon DEF Owed, Core, States
  <2>6. CASE read /\ d.state /= "free"
    <3>1. Core(d) /\ Moved(c, d) /\ Owed(d, "read", "read")
      BY <2>1, <2>2, <2>5, <2>6, <1>FlushOwed, Zenon
    <3>2. agenda' = <<Step("read", fd)>> /\ marking' = {} /\ ~exited'
      BY <2>1, <2>3, <2>6, Zenon DEF drainVars
    <3>3. Step("read", fd) \in Item /\ Step("read", fd).fd = fd /\ Step("read", fd).op = "read"
      BY Zenon DEF Step, Item
    <3>4. /\ AgendaOK' /\ Op(fd)' = "read" /\ Then(fd)' = "read"
          /\ \A g \in Fds : g /= fd => Op(g)' = "none" /\ Then(g)' = "none"
      BY <3>2, <3>3, StartOne, Zenon
    <3>5. \A i \in 1..Len(agenda') : agenda'[i].op /= "apply"
      BY <3>2 DEF Step
    <3>6. \A g \in Fds : g /= fd => Op(g) = "none" /\ Then(g) = "none"
      BY <2>1, IdleLoop, Zenon
    <3> QED BY <2>1, <2>4, <3>1, <3>4, <3>5, <3>6, <1>StartStep, Zenon
  <2>7. CASE ~(read /\ d.state /= "free")
    <3>1. Core(d) /\ Moved(c, d) /\ Owed(d, "none", "none")
      BY <2>1, <2>2, <2>5, <1>FlushOwed, Zenon
    <3>2. agenda' = <<>>
      BY <2>3, <2>7, Zenon
    <3> QED BY <2>1, <2>4, <3>1, <3>2, <1>QuietStep, Zenon DEF drainVars
  <2> QED BY <2>6, <2>7, Zenon

\* A slot closed while the loop is between events.
<1>CloseQuietly.
      ASSUME IInv, NEW fd \in Fds, Becomes(fd, CloseConn(conn[fd])),
             agenda = <<>>, agenda' = <<>>,
             UNCHANGED <<workVars, draining, graceOver, exited>>, marking' \subseteq marking
      PROVE  Kept
  <2> USE <1>CloseQuietly
  <2> DEFINE c == conn[fd]  d == CloseConn(c)
  <2>1. TypeOK /\ IsSlot(c) /\ Core(c)
    BY SlotFacts, Zenon
  <2>2. IsSlot(d) /\ (Same(c, d) \/ Recycled(c, d))
    BY <2>1, CloseConnSlot, Zenon
  <2>3. Core(d) /\ Moved(c, d) /\ Closed(d)
    BY <2>1, CloseConnCore, Zenon
  <2>4. Changes(fd, d)
    BY <2>1, BecomesChanges, Zenon
  <2> HIDE DEF d
  <2>5. Owed(d, "none", "none")
    BY <2>2, <2>3, ClosedOwed, Zenon
  <2> QED BY <2>2, <2>3, <2>4, <2>5, <1>QuietStep, Zenon

\* A slot changed and then flushed while the loop is between events.
<1>FlushQuietly.
      ASSUME IInv, NEW fd \in Fds, NEW b, IsSlot(b), Core(b), b.state /= "free",
             ~b.closeRequested, ~(b.state = "active" /\ ~b.awaiting /\ Buffered(b)),
             ~(b.deadline = "response" /\ ~b.responded /\ ~b.awaiting),
             Same(conn[fd], b), Moved(conn[fd], b), NEW d \in FlushOut(b), Becomes(fd, d),
             agenda = <<>>, agenda' = <<>>,
             UNCHANGED <<workVars, draining, graceOver, exited>>, marking' \subseteq marking
      PROVE  Kept
  <2> USE <1>FlushQuietly
  <2>1. TypeOK /\ IsSlot(conn[fd])
    BY SlotFacts, Zenon
  <2>2. IsSlot(d) /\ (Same(b, d) \/ Recycled(b, d))
    BY <1>FlushOutSlot, Zenon
  <2>3. Core(d) /\ Moved(b, d) /\ Owed(d, "none", "none")
    BY <1>FlushOwed, Zenon
  <2>4. Changes(fd, d)
    BY <2>1, BecomesChanges, Zenon
  <2>5. (Same(conn[fd], d) \/ Recycled(conn[fd], d)) /\ Moved(conn[fd], d)
    BY <2>1, <2>2, <2>3, <1>OneThenOther, Zenon
  <2> QED BY <2>2, <2>3, <2>4, <2>5, <1>QuietStep, Zenon

\* A half-closed connection meets its end of input.
<1>HandleDrainPreserves.
      ASSUME IInv, NEW fd \in Fds, HandleDrain(fd)
      PROVE  Kept
    BY <1>HandleDrainPreserves, <1>CloseQuietly, Zenon DEF HandleDrain, Quiescent, drainVars

\* A deadline passes.
<1>SweepTimeoutsPreserves.
      ASSUME IInv, NEW fd \in Fds, SweepTimeouts(fd)
      PROVE  Kept
  <2> USE <1>SweepTimeoutsPreserves
  <2> DEFINE c == conn[fd]
  <2>1. /\ agenda = <<>> /\ agenda' = <<>> /\ UNCHANGED <<workVars, drainVars>>
        /\ c.state /= "free"
    BY Zenon DEF SweepTimeouts, Quiescent
  <2>2. CASE Becomes(fd, CloseConn(c))
    BY <2>1, <2>2, <1>CloseQuietly, Zenon DEF drainVars
  <2>3. CASE /\ c.deadline = "response" /\ ~c.responded
             /\ \E d \in FlushOut(RespondError(c)) : Becomes(fd, d)
    <3>1. PICK d \in FlushOut(RespondError(c)) : Becomes(fd, d)
      BY <2>3, Zenon
    <3>2. IsSlot(c) /\ Core(c) /\ Owed(c, "none", "none")
      BY <2>1, SlotFacts, Zenon
    <3>3. c.awaiting /\ Behind(c) /\ ~c.closeRequested /\ c.parsed /\ ~c.malformed
      BY <2>3, <3>2, Zenon DEF Owed, Core, Answers, Stages, States
    <3> DEFINE b == RespondError(c)
    <3>4. IsSlot(b) /\ b.state = "closing" /\ ~b.closeRequested /\ b.responded
      BY <3>2, <3>3, RespondErrorSlot, Zenon
    <3>5. Core(b) /\ Same(c, b) /\ Moved(c, b)
      BY <3>2, <3>3, RespondErrorCore, Zenon
    <3>6. d \in FlushOut(b)
      BY Zenon
    <3> HIDE DEF b
    <3> QED BY <2>1, <3>1, <3>4, <3>5, <3>6, <1>FlushQuietly, Zenon DEF drainVars
  <2> QED BY <2>2, <2>3, Zenon DEF SweepTimeouts

\* A connection marked by the drain: it closes after its response.
<1>DrainMarkSlot.
      ASSUME NEW c, IsSlot(c)
      PROVE  LET d == [c EXCEPT !.keepAlive = FALSE, !.closeAfterFlush = TRUE]
             IN  /\ IsSlot(d)
                 /\ d.wire = c.wire /\ d.out = c.out /\ d.state = c.state
                 /\ d.serial = c.serial /\ d.gen = c.gen /\ d.pins = c.pins
                 /\ d.parsed = c.parsed /\ d.unread = c.unread /\ d.malformed = c.malformed
                 /\ d.awaiting = c.awaiting /\ d.responded = c.responded /\ d.closeAfterFlush
                 /\ d.closeRequested = c.closeRequested /\ d.seen = c.seen
                 /\ d.deadline = c.deadline /\ d.shut = c.shut
  <2> USE <1>DrainMarkSlot
  <2> DEFINE d == [c EXCEPT !.keepAlive = FALSE, !.closeAfterFlush = TRUE]
  <2>1. IsSlot(d)
    BY Zenon DEF IsSlot, FreeSlot
  <2>2. /\ d.wire = c.wire /\ d.out = c.out /\ d.state = c.state
        /\ d.serial = c.serial /\ d.gen = c.gen /\ d.pins = c.pins
        /\ d.parsed = c.parsed /\ d.unread = c.unread /\ d.malformed = c.malformed
        /\ d.awaiting = c.awaiting /\ d.responded = c.responded /\ d.closeAfterFlush
        /\ d.closeRequested = c.closeRequested /\ d.seen = c.seen
        /\ d.deadline = c.deadline /\ d.shut = c.shut
    BY Zenon DEF IsSlot, FreeSlot
  <2> QED BY <2>1, <2>2, Zenon

\* A stop marks or closes a connection.
<1>MarkDrainPreserves.
      ASSUME IInv, NEW fd \in Fds, MarkDrain(fd)
      PROVE  Kept
  <2> USE <1>MarkDrainPreserves
  <2> DEFINE c == conn[fd]
  <2>1. /\ UNCHANGED <<workVars, draining, graceOver, exited>> /\ marking' \subseteq marking
        /\ agenda' = agenda /\ marking /= {}
    BY Zenon DEF MarkDrain
  <2>2. agenda = <<>> /\ TypeOK
    BY <2>1, Zenon DEF IInv, PinInv, AgendaOK
  <2>3. IsSlot(c) /\ Core(c) /\ Owed(c, "none", "none")
    BY <2>2, SlotFacts, Zenon
  <2>4. CASE UNCHANGED conn
    <3>1. Changes(fd, c) /\ Same(c, c) /\ Moved(c, c)
      BY <2>2, <2>4, BecomesChanges, Zenon DEF Same, Moved
    <3> QED BY <2>1, <2>2, <2>3, <3>1, <1>QuietStep, Zenon
  <2>5. CASE Becomes(fd, CloseConn(c))
    BY <2>1, <2>2, <2>5, <1>CloseQuietly, Zenon
  <2>6. CASE /\ c.state = "active"
             /\ \E d \in FlushOut([c EXCEPT !.keepAlive = FALSE, !.closeAfterFlush = TRUE]) :
                    Becomes(fd, d)
    <3> DEFINE b == [c EXCEPT !.keepAlive = FALSE, !.closeAfterFlush = TRUE]
    <3>1. PICK d \in FlushOut(b) : Becomes(fd, d)
      BY <2>6, Zenon
    <3>2. /\ IsSlot(b)
          /\ b.wire = c.wire /\ b.out = c.out /\ b.state = c.state
          /\ b.serial = c.serial /\ b.gen = c.gen /\ b.pins = c.pins
          /\ b.parsed = c.parsed /\ b.unread = c.unread /\ b.malformed = c.malformed
          /\ b.awaiting = c.awaiting /\ b.responded = c.responded /\ b.closeAfterFlush
          /\ b.closeRequested = c.closeRequested /\ b.seen = c.seen
          /\ b.deadline = c.deadline /\ b.shut = c.shut
      BY <2>3, <1>DrainMarkSlot, Zenon
    <3> HIDE DEF b
    <3>3. Sent(b) = Sent(c) /\ ~c.responded /\ ~c.closeRequested
      BY <2>3, <2>6, <3>2, Zenon DEF Sent, Core, States
    <3>4. Core(b)
      BY <2>3, <2>6, <3>2, <3>3, SameAnswers, Zenon DEF Core, Answers, Stages, States
    <3>5. Same(c, b) /\ Moved(c, b)
      BY <3>2, Zenon DEF Same, Moved
    <3>6. /\ ~(b.state = "active" /\ ~b.awaiting /\ Buffered(b))
          /\ ~(b.deadline = "response" /\ ~b.responded /\ ~b.awaiting)
      BY <2>3, <3>2, Zenon DEF Owed, Buffered
    <3> QED BY <2>1, <2>2, <2>6, <3>1, <3>2, <3>3, <3>4, <3>5, <3>6, <1>FlushQuietly, Zenon
  <2> QED BY <2>4, <2>5, <2>6, Zenon DEF MarkDrain

\* The parser has refused the input: an error response, and the connection closes.
<1>ProcessMalformedPreserves.
      ASSUME IInv, ProcessMalformed
      PROVE  Kept
  <2> USE <1>ProcessMalformedPreserves
  <2>1. Doing("process") /\ agenda' = Tail(agenda) /\ UNCHANGED <<workVars, drainVars>>
    BY Zenon DEF ProcessMalformed
  <2>2. PICK fd \in Fds : agenda[1].fd = fd /\ Op(fd) = "process"
    BY <2>1, DoingFacts, Zenon
  <2> DEFINE c == conn[fd]  then == Then(fd)
  <2>3. /\ IsSlot(c) /\ Core(c) /\ Owed(c, "process", then) /\ TypeOK /\ AgendaOK
        /\ agenda /= <<>> /\ Head(agenda) = agenda[1] /\ agenda[1].op = "process"
    BY <2>1, <2>2, DoingFacts, SlotFacts, Zenon
  <2>4. /\ then \in {"flush", "idle", "pending", "apply"}
        /\ Following(Op(fd), Then(fd)) = then
    BY <2>1, <2>2, <2>3, Popped, Zenon DEF drainVars, Following
  <2> DEFINE u == IF c.malformed THEN c.unread ELSE c.unread - 1
             s == Append(c.seen, c.serial)
             r == [c EXCEPT !.malformed = TRUE, !.unread = u, !.seen = s]
             d == RespondError(r)
  <2>5. /\ c.state \in {"active", "draining"} /\ ~c.awaiting
        /\ c.malformed \/ (~c.parsed /\ c.unread > 0)
    BY <2>2, <2>3, Zenon DEF ProcessMalformed
  <2>6. u \in 0..c.received /\ s \in Seq(Nat)
    BY <2>3, <2>5, AppendIsSeq, SMTT(30) DEF IsSlot
  <2>7. [c EXCEPT !.malformed = TRUE, !.unread = IF c.malformed THEN @ ELSE @ - 1,
                  !.seen = Append(@, c.serial)] = r
    BY <2>3, Zenon DEF IsSlot, FreeSlot
  <2>8. Becomes(fd, d)
    BY <2>2, <2>3, <2>7, Zenon DEF ProcessMalformed
  <2> HIDE DEF u, s
  <2>9. /\ IsSlot(r)
    BY <2>3, <2>6, Zenon DEF IsSlot, FreeSlot
  <2>10. /\ r.wire = c.wire /\ r.out = c.out /\ r.state = c.state /\ r.serial = c.serial
         /\ r.gen = c.gen /\ r.pins = c.pins /\ r.parsed = c.parsed /\ r.malformed
         /\ r.awaiting = c.awaiting /\ r.seen = s /\ r.shut = c.shut
         /\ r.closeRequested = c.closeRequested
    BY <2>3, Zenon DEF IsSlot, FreeSlot
  <2> HIDE DEF r
  <2>11. Even(c) /\ ~c.closeRequested /\ (c.state = "draining" => c.shut > 0)
    BY <2>3, <2>5, Zenon DEF Core, Answers, Stages, States
  <2>12. Behind(r)
    <3>1. Sent(r) = Sent(c) /\ r.seen = Append(c.seen, c.serial)
      BY <2>10, Zenon DEF Sent, s
    <3> QED BY <2>3, <2>10, <2>11, <3>1, TakesUp, Zenon DEF Even
  <2>13. Core(d) /\ Same(r, d) /\ Moved(r, d)
    BY <2>5, <2>9, <2>10, <2>11, <2>12, RespondErrorCore, ZenonT(30)
  <2>14. /\ IsSlot(d) /\ d.state = "closing" /\ d.responded /\ d.serial = c.serial
         /\ ~d.closeRequested /\ d.shut = c.shut
    BY <2>9, <2>10, <2>11, RespondErrorSlot, Zenon
  <2> HIDE DEF d
  <2>15. Same(c, d) /\ Moved(c, d) /\ Changes(fd, d)
    BY <2>3, <2>8, <2>10, <2>13, <2>14, BecomesChanges, Zenon DEF Same, Moved
  <2>16. Owed(d, then, then)
    <3>1. then = "apply" => c.shut > 0
      <4>1. c.state = "active" => then \in {"flush", "idle"}
        BY <2>3, <2>5, Zenon DEF Owed, Buffered
      <4>2. then \in {"flush", "idle"} => then /= "apply"
        BY Zenon
      <4>3. c.state = "active" \/ c.shut > 0
        BY <2>5, <2>11, Zenon
      <4> QED BY <4>1, <4>2, <4>3, Zenon
    <3>2. c.shut > 0 => d.shut /= 0
      <4>1. \A n : n > 0 => n /= 0
        OBVIOUS
      <4> QED BY <2>14, <4>1, Zenon
    <3> HIDE DEF then
    <3> QED BY <2>4, <2>14, <3>1, <3>2, Zenon DEF Owed, Unsent
  <2> QED BY <2>1, <2>2, <2>3, <2>4, <2>5, <2>13, <2>14, <2>15, <2>16, <1>PopStep, Zenon

\* Applying the answer of the current request brings the slot even.
<1>AnswersCurrent.
      ASSUME NEW c, IsSlot(c), Core(c), c.awaiting, ~c.responded
      PROVE  LET d == ApplyResponse(c, c.serial)
             IN  /\ IsSlot(d) /\ Even(d) /\ Stages(d) /\ d.responded /\ ~d.malformed
                 /\ d.state = c.state /\ d.closeRequested = c.closeRequested
                 /\ c.closeAfterFlush => d.closeAfterFlush
                 /\ d.deadline = c.deadline /\ Same(c, d) /\ Moved(c, d)
                 /\ (c.closeAfterFlush \/ c.closeRequested) /\ c.state /= "active" => Core(d)
  <2> USE <1>AnswersCurrent
  <2> DEFINE d == ApplyResponse(c, c.serial)
  <2>1. /\ IsSlot(d) /\ d.wire = c.wire /\ d.out = Append(c.out, c.serial)
        /\ d.state = c.state /\ d.serial = c.serial /\ d.gen = c.gen
        /\ d.pins = c.pins /\ d.parsed = c.parsed /\ d.unread = c.unread
        /\ d.malformed = c.malformed /\ d.awaiting = c.awaiting
        /\ d.responded /\ d.closeAfterFlush = (c.closeAfterFlush \/ ~c.keepAlive)
        /\ d.closeRequested = c.closeRequested /\ d.seen = c.seen
        /\ d.deadline = c.deadline /\ d.shut = c.shut
        /\ d.registered = c.registered
    BY ApplyResponseSlot, Zenon
  <2> HIDE DEF d
  <2>2. Behind(c) /\ c.parsed /\ ~c.malformed /\ c.state /= "free"
    <3>1. Behind(c) /\ c.parsed /\ ~c.malformed
      BY Zenon DEF Core, Answers, Stages
    <3>2. CASE c.state = "free"
      <4>1. c = Emptied(c.gen, c.serial)
        BY <3>2, Zenon DEF Core, States
      <4>2. PICK g \in Nat, n \in Nat : c = Emptied(g, n)
        BY <4>1, Zenon DEF IsSlot
      <4>3. ~c.awaiting
        BY <4>2, Zenon DEF Emptied, FreeSlot
      <4> QED BY <4>3, Zenon
    <3> QED BY <3>1, <3>2, Zenon
  <2>3. Even(d)
    BY <2>1, <2>2, TakesAnswer, Zenon
  <2>4. Stages(d)
    BY <2>1, <2>2, Zenon DEF Stages
  <2>5. TotalPins(d) = TotalPins(c)
    BY <2>1, Zenon DEF TotalPins
  <2>6. ASSUME c.closeAfterFlush \/ c.closeRequested, c.state /= "active" PROVE Core(d)
    BY <2>1, <2>2, <2>3, <2>4, <2>5, <2>6, Zenon DEF Core, Answers, States, Even
  <2> QED BY <2>1, <2>2, <2>3, <2>4, <2>6, Zenon DEF Same, Moved, d

\* resumeAfterRespond, from a send on the loop or from the outbox.
<1>ResumePreserves.
      ASSUME IInv, NEW fd \in Fds, conn[fd].state /= "free",
             conn[fd].awaiting \/ conn[fd].responded, ~conn[fd].closeRequested,
             ResumeAfterRespond(fd, ApplyResponse(conn[fd], conn[fd].serial), <<>>),
             marking = {}, ~exited,
             \A g \in Fds : g /= fd => Op(g) = "none" /\ Then(g) = "none",
             UNCHANGED <<workVars, drainVars>>
      PROVE  Kept
  <2> USE <1>ResumePreserves
  <2> DEFINE c == conn[fd]  a == ApplyResponse(c, c.serial)
  <2>0. IsSlot(c) /\ Core(c) /\ TypeOK /\ marking' = {} /\ ~exited'
    BY SlotFacts, Zenon DEF drainVars
  <2>1. /\ IsSlot(a) /\ Prefix(a) /\ (a.malformed => Even(a)) /\ Stages(a) /\ a.responded
        /\ ~a.closeRequested /\ a.state = c.state /\ Same(c, a) /\ Moved(c, a)
    <3>1. CASE c.responded
      <4>1. a = c
        BY <3>1, Zenon DEF ApplyResponse
      <4> QED BY <2>0, <3>1, <4>1, Zenon DEF Core, Answers, Same, Moved
    <3>2. CASE ~c.responded
      <4> HIDE DEF a
      <4>1. /\ IsSlot(a) /\ Even(a) /\ Stages(a) /\ a.responded /\ ~a.malformed
            /\ a.state = c.state /\ a.closeRequested = c.closeRequested
            /\ Same(c, a) /\ Moved(c, a)
        BY <2>0, <3>2, <1>AnswersCurrent, Zenon DEF a
      <4> QED BY <4>1, Zenon DEF Even
    <3> QED BY <3>1, <3>2, Zenon
  <2>2. ~a.closeAfterFlush => Even(a) /\ a.state = "active" /\ ~a.malformed
    <3>1. CASE c.responded
      <4>1. a = c
        BY <3>1, Zenon DEF ApplyResponse
      <4> QED BY <2>0, <3>1, <4>1, Zenon DEF Core, Answers, Stages, States, IsSlot
    <3>2. CASE ~c.responded
      <4> HIDE DEF a
      <4>1. /\ Even(a) /\ ~a.malformed /\ a.state = c.state
            /\ c.closeAfterFlush => a.closeAfterFlush
        BY <2>0, <3>2, <1>AnswersCurrent, Zenon DEF a
      <4>2. ~c.closeAfterFlush => c.state = "active"
        BY <2>0, <3>2, Zenon DEF Core, States, IsSlot
      <4> QED BY <4>1, <4>2, Zenon
    <3> QED BY <3>1, <3>2, Zenon
  <2>3. ResumeAfterRespond(fd, a, <<>>)
    BY Zenon
  <2> HIDE DEF a
  <2>4. CASE a.closeAfterFlush
    <3> DEFINE b == [a EXCEPT !.state = "closing"]
    <3>1. PICK d \in FlushOut(b) : Becomes(fd, d) /\ agenda' = <<>>
      BY <2>3, <2>4, Zenon DEF ResumeAfterRespond
    <3>2. IsSlot(b) /\ Core(b) /\ Same(a, b) /\ Moved(a, b)
      BY <2>1, <2>4, ClosesAnswered, Zenon
    <3>3. b.state = "closing" /\ b.responded = a.responded /\ b.closeRequested = a.closeRequested
      BY <2>1, ClosingSlot, Zenon
    <3> HIDE DEF b
    <3>4. IsSlot(d) /\ (Same(b, d) \/ Recycled(b, d))
      BY <3>2, <3>3, <1>FlushOutSlot, Zenon
    <3>5. Core(d) /\ Moved(b, d) /\ Owed(d, "none", "none")
      BY <2>1, <3>2, <3>3, <1>FlushOwed, Zenon
    <3>6. Same(c, b) /\ Moved(c, b)
      <4>1. (Same(c, b) \/ Recycled(c, b)) /\ Moved(c, b)
        BY <2>0, <2>1, <3>2, <1>OneThenOther, Zenon
      <4>2. Same(c, b)
        BY <2>1, <3>2, Zenon DEF Same
      <4> QED BY <4>1, <4>2, Zenon
    <3>7. (Same(c, d) \/ Recycled(c, d)) /\ Moved(c, d)
      BY <2>0, <3>2, <3>4, <3>5, <3>6, <1>OneThenOther, Zenon
    <3>8. Changes(fd, d)
      BY <2>0, <3>1, BecomesChanges, ZenonT(30)
    <3>9. /\ AgendaOK' /\ \A g \in Fds : Op(g)' = "none" /\ Then(g)' = "none"
          /\ \A i \in 1..Len(agenda') : agenda'[i].op /= "apply"
      BY <2>0, <3>1, <1>EmptiesAgenda, Zenon
    <3> QED BY <3>4, <3>5, <3>7, <3>8, <3>9, <1>StartStep, Zenon
  <2>5. CASE ~a.closeAfterFlush
    <3> DEFINE b == ResetForNextRequest(a)
    <3>1. PICK d \in FlushOut(b) :
            /\ Becomes(fd, d)
            /\ agenda' = (IF d.state = "free" THEN <<>>
                          ELSE <<Step("process", fd), Step("idle", fd)>>) \o <<>>
      BY <2>3, <2>5, Zenon DEF ResumeAfterRespond
    <3>2. IsSlot(b) /\ Core(b) /\ Same(a, b) /\ Moved(a, b)
      BY <2>1, <2>2, <2>5, ResetsAnswered, Zenon
    <3>3. b.state = "active" /\ ~b.closeRequested
      BY <2>1, <2>2, <2>5, ResetSlot, Zenon
    <3> HIDE DEF b
    <3>4. IsSlot(d) /\ (Same(b, d) \/ Recycled(b, d))
      BY <3>2, <3>3, <1>FlushOutSlot, Zenon
    <3>5. Core(d) /\ Moved(b, d) /\ Owed(d, "process", "idle")
      BY <3>2, <3>3, <1>FlushOwed, Zenon
    <3>6. Same(c, b) /\ Moved(c, b)
      <4>1. (Same(c, b) \/ Recycled(c, b)) /\ Moved(c, b)
        BY <2>0, <2>1, <3>2, <1>OneThenOther, Zenon
      <4>2. Same(c, b)
        BY <2>1, <3>2, Zenon DEF Same
      <4> QED BY <4>1, <4>2, Zenon
    <3>7. (Same(c, d) \/ Recycled(c, d)) /\ Moved(c, d)
      BY <2>0, <3>2, <3>4, <3>5, <3>6, <1>OneThenOther, Zenon
    <3>8. Changes(fd, d)
      BY <2>0, <3>1, BecomesChanges, Zenon
    <3>9. CASE d.state = "free"
      <4>1. agenda' = <<>>
        BY <3>1, <3>9, SMTT(30)
      <4>2. /\ AgendaOK' /\ \A g \in Fds : Op(g)' = "none" /\ Then(g)' = "none"
            /\ \A i \in 1..Len(agenda') : agenda'[i].op /= "apply"
        BY <2>0, <4>1, <1>EmptiesAgenda, Zenon
      <4>3. Owed(d, "none", "none")
        BY <3>4, <3>5, <3>9, ClosedOwed, ZenonT(30) DEF Closed
      <4> QED BY <3>4, <3>5, <3>7, <3>8, <4>2, <4>3, <1>StartStep, Zenon
    <3>10. CASE d.state /= "free"
      <4> DEFINE x == Step("idle", fd)
      <4>1. agenda' = <<Step("process", fd), x>>
        BY <3>1, <3>10, SMTT(30)
      <4>2. x \in Item /\ x.fd = fd /\ x.op = "idle"
        BY Zenon DEF Step, Item
      <4>3. \A i \in 1..Len(agenda') : agenda'[i].op /= "apply"
        BY <4>1, SMTT(30) DEF Step
      <4> HIDE DEF x
      <4>4. /\ AgendaOK' /\ Op(fd)' = "process" /\ Then(fd)' = "idle"
            /\ \A g \in Fds : g /= fd => Op(g)' = "none" /\ Then(g)' = "none"
        BY <2>0, <4>1, <4>2, StartTwo, Zenon
      <4> QED BY <3>4, <3>5, <3>7, <3>8, <4>3, <4>4, <1>StartStep, Zenon
    <3> QED BY <3>9, <3>10, Zenon
  <2> QED BY <2>4, <2>5, Zenon

\* A worker's response is applied.
<1>ApplyHttpPreserves.
      ASSUME IInv, ApplyHttp
      PROVE  Kept
  <2> USE <1>ApplyHttpPreserves
  <2>1. Doing("apply") /\ UNCHANGED <<workVars, drainVars>>
    BY Zenon DEF ApplyHttp
  <2>2. PICK fd \in Fds : agenda[1].fd = fd /\ Op(fd) = "apply" /\ Then(fd) = "apply"
    BY <2>1, DoingFacts
  <2> DEFINE c == conn[fd]
  <2>3. /\ IsSlot(c) /\ Core(c) /\ Owed(c, "apply", "apply") /\ TypeOK /\ AgendaOK
        /\ agenda /= <<>> /\ Head(agenda) = agenda[1] /\ agenda[1].op = "apply"
    BY <2>1, <2>2, DoingFacts, SlotFacts, Zenon
  <2>4. CASE c.state = "free" \/ agenda[1].stale
    <3>1. UNCHANGED conn /\ agenda' = Tail(agenda)
      BY <2>2, <2>3, <2>4, Zenon DEF ApplyHttp
    <3>2. Changes(fd, c) /\ Same(c, c) /\ Moved(c, c)
      BY <2>3, <3>1, BecomesChanges, Zenon DEF Same, Moved
    <3>3. Owed(c, "none", "none")
      BY <2>3, Zenon DEF Owed
    <3>4. Following(Op(fd), Then(fd)) = "none"
      BY <2>2, Zenon DEF Following
    <3> QED BY <2>1, <2>2, <2>3, <3>1, <3>2, <3>3, <3>4, <1>PopStep, Zenon
  <2>5. CASE ~(c.state = "free" \/ agenda[1].stale)
    <3>1. ResumeAfterRespond(fd, ApplyResponse(c, agenda[1].serial), Tail(agenda))
      BY <2>2, <2>3, <2>5, Zenon DEF ApplyHttp
    <3>2. Len(agenda) = 1 /\ Tail(agenda) = <<>>
      BY <2>3 DEF AgendaOK
    <3>3. 1 \in 1..Len(agenda)
      BY <3>2, SMTT(30)
    <3>4. c.serial = agenda[1].serial /\ (c.awaiting \/ c.responded)
      BY <2>2, <2>3, <2>5, <3>3, Zenon DEF IInv, AnswerInv, ApplyOK
    <3>5. ~c.closeRequested
      BY <2>3, Zenon DEF Owed
    <3>6. /\ marking = {} /\ ~exited
          /\ \A g \in Fds : g /= fd => Op(g) = "none" /\ Then(g) = "none"
      BY <2>2, <2>3, AtWork, Zenon
    <3>7. ResumeAfterRespond(fd, ApplyResponse(c, c.serial), <<>>)
      BY <3>1, <3>2, <3>4, Zenon
    <3> QED BY <2>1, <2>5, <3>4, <3>5, <3>6, <3>7, <1>ResumePreserves, Zenon
  <2> QED BY <2>4, <2>5, Zenon

\* A handler answers on the loop, after it returned.
<1>LoopSendPreserves.
      ASSUME IInv, NEW h \in handles, LoopSend(h)
      PROVE  Kept
  <2> USE <1>LoopSendPreserves
  <2>1. h \in Handle /\ h.fd \in Fds /\ Known(conn[h.fd], h)
    BY Zenon DEF IInv, PinInv, TypeOK, AnswerInv, HandlesOK, Handle
  <2>2. PICK fd \in Fds : h.fd = fd
    BY <2>1, Zenon
  <2> DEFINE c == conn[fd]  d == ApplyResponse(c, c.serial)
  <2>3. /\ agenda = <<>> /\ marking = {} /\ ~exited /\ UNCHANGED <<workVars, drainVars>>
        /\ c.state /= "free" /\ c.gen = h.gen /\ c.serial = h.serial /\ ~c.responded
    BY <2>2, Zenon DEF LoopSend, Quiescent, LiveReq
  <2>4. IsSlot(c) /\ Core(c) /\ Owed(c, "none", "none") /\ TypeOK
    BY <2>3, SlotFacts, Zenon
  <2>5. c.awaiting
    BY <2>1, <2>2, <2>3, <2>4, Zenon DEF Known, IsSlot
  <2>6. \A g \in Fds : Op(g) = "none" /\ Then(g) = "none"
    BY <2>3, IdleLoop, Zenon
  <2>7. CASE ~c.closeRequested /\ c.state /= "draining"
    <3>1. ResumeAfterRespond(fd, d, <<>>)
      BY <2>2, <2>3, <2>5, <2>7, Zenon DEF LoopSend
    <3> QED BY <2>3, <2>5, <2>6, <2>7, <3>1, <1>ResumePreserves, Zenon
  <2>8. CASE ~(~c.closeRequested /\ c.state /= "draining")
    <3>1. Becomes(fd, d) /\ agenda' = <<>>
      BY <2>2, <2>3, <2>8, Zenon DEF LoopSend
    <3>2. (c.closeAfterFlush \/ c.closeRequested) /\ c.state /= "active"
      BY <2>4, <2>5, <2>8, Zenon DEF Core, States
    <3> HIDE DEF d
    <3>3. /\ IsSlot(d) /\ d.responded /\ d.state = c.state /\ Core(d) /\ ~d.malformed
          /\ d.closeRequested = c.closeRequested /\ Same(c, d) /\ Moved(c, d)
      BY <2>3, <2>4, <2>5, <3>2, <1>AnswersCurrent, Zenon DEF d
    <3>4. Owed(d, "none", "none")
      BY <2>8, <3>2, <3>3, Zenon DEF Owed, Unsent
    <3>5. Changes(fd, d)
      BY <2>4, <3>1, BecomesChanges, Zenon
    <3> QED BY <2>3, <3>1, <3>3, <3>4, <3>5, <1>QuietStep, Zenon DEF drainVars
  <2> QED BY <2>7, <2>8, Zenon

<1>Step.
      ASSUME IInv, OneSlotStep
      PROVE  Kept
  <2> USE <1>Step
  <2>1. ASSUME NEW fd \in Fds, \/ Accept(fd) \/ Readable(fd) \/ Writable(fd)
                               \/ HandleDrain(fd) \/ SweepTimeouts(fd) \/ MarkDrain(fd)
        PROVE  Kept
    BY <2>1, <1>AcceptPreserves, <1>ReadPreserves, <1>WritablePreserves, <1>HandleDrainPreserves,
       <1>SweepTimeoutsPreserves, <1>MarkDrainPreserves, Zenon
  <2>2. ASSUME NEW h \in handles, LoopSend(h) PROVE Kept
    BY <2>2, <1>LoopSendPreserves, Zenon
  <2> QED
    BY <2>1, <2>2, <1>ReadPreserves, <1>ProcessPausedPreserves, <1>ProcessMalformedPreserves,
       <1>FlushAfterReadPreserves, <1>HalfClosePreserves, <1>FlushPendingPreserves, <1>ApplyHttpPreserves, Zenon
       DEF OneSlotStep
<1> QED BY <1>Step, Zenon
=============================================================================
