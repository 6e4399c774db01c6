---------------------------- MODULE H2SendProofs ----------------------------
(***************************************************************************)
(* What H2Send promises, proved for any number of streams, any windows,    *)
(* any frame size and high-water mark.                                     *)
(*                                                                         *)
(* The inductive invariant is H2Inv.  BodyInv: written bytes are on the    *)
(* wire or in the backlog, in order.  QueueInv: a stream that can send is  *)
(* queued, once, on its level.  StackInv: while one is queued, a pass is   *)
(* still owed by some frame of the call stack.  NestInv: how the frames    *)
(* can be nested.  ParkInv: a parked producer is on the kick list, behind  *)
(* a full buffer or backlog, or due in a scan on the stack.                *)
(***************************************************************************)
EXTENDS H2Send, TLAPS

Phases == {"idle", "none", "streaming", "finished", "gone"}

-----------------------------------------------------------------------------
(* The body of one response: p its phase, n the bytes written, q the        *)
(* backlog, x the bytes in DATA frames, e whether END_STREAM was sent.      *)

\* The bytes on the wire and then those of the backlog are the ones written, in order,
\* until the stream goes; it goes with END_STREAM only when all of them are out.
Body(p, n, q, x, e) ==
    /\ p \in Phases /\ n \in Nat /\ q \in Seq(Nat) /\ x \in Seq(Nat) /\ e \in BOOLEAN
    /\ \A i \in 1..Len(x) : x[i] = i
    /\ \A i \in 1..Len(q) : q[i] = Len(x) + i
    /\ Len(x) + Len(q) <= n
    /\ p /= "gone" => Len(x) + Len(q) = n /\ ~e
    /\ p = "gone" => q = <<>>
    /\ e => Len(x) = n
    /\ p \in {"idle", "none"} => n = 0

\* y is s, and behind it the k elements of t.
Joins(y, s, t, k) ==
    /\ y \in Seq(Nat) /\ Len(y) = Len(s) + k
    /\ \A i \in 1..Len(s) : y[i] = s[i]
    /\ \A i \in 1..k : y[Len(s) + i] = t[i]

\* What a concatenation is, by place.
LEMMA Cat ==
    ASSUME NEW s \in Seq(Nat), NEW t \in Seq(Nat)
    PROVE  Joins(s \o t, s, t, Len(t))
  BY DEF Joins

\* The body after a frame of k bytes of the backlog.
Framed(p, n, q, x, e, k) ==
    /\ Body(p, n, SubSeq(q, k + 1, Len(q)), x \o SubSeq(q, 1, k), e)
    /\ Len(x \o SubSeq(q, 1, k)) = Len(x) + k
    /\ SubSeq(q, k + 1, Len(q)) = <<>> => Body("gone", n, <<>>, x \o SubSeq(q, 1, k), TRUE)

\* b holds the m bytes that follow the n-th.
Numbered(b, n, m) == b = [i \in 1..m |-> n + i]

\* The body after a write of the m bytes b, k of them on the wire at once.
Wrote(n, q, x, e, m, k, b) ==
    /\ Body("streaming", n + m, q \o SubSeq(b, k + 1, m), x \o SubSeq(b, 1, k), e)
    /\ Len(x \o SubSeq(b, 1, k)) = Len(x) + k

-----------------------------------------------------------------------------
(* Smallest and largest, of the sizes that are compared.                    *)

\* m is the smallest of four integers.
Least(m, a, b, c, d) ==
    m \in Int /\ m \in {a, b, c, d} /\ m <= a /\ m <= b /\ m <= c /\ m <= d

\* The smallest of a few integers is one of them and at most each.
LEMMA MinOfFour ==
    ASSUME NEW a \in Int, NEW b \in Int, NEW c \in Int, NEW d \in Int
    PROVE  Least(Min({a, b, c, d}), a, b, c, d)
<1>1. \E x \in {a, b, c, d} : \A y \in {a, b, c, d} : x =< y
  OBVIOUS
<1> QED BY <1>1, Zenon DEF Min, Least

\* The larger of 0 and an integer.
LEMMA MaxOfTwo ==
    ASSUME NEW a \in Int
    PROVE  Max({0, a}) \in Nat /\ (Max({0, a}) = a \/ (Max({0, a}) = 0 /\ a <= 0))
<1>1. \E x \in {0, a} : \A y \in {0, a} : x >= y
  OBVIOUS
<1> QED BY <1>1 DEF Max

\* The level that a pass serves.
LEMMA FirstReady ==
    ASSUME Ready /= {}
    PROVE  Min(Ready) \in 0..1 /\ sendQ[Min(Ready)] /= <<>>
<1>1. \E x \in Ready : \A y \in Ready : x =< y
  <2>1. CASE 0 \in Ready
    BY <2>1 DEF Ready
  <2>2. CASE 0 \notin Ready
    BY <2>2 DEF Ready
  <2> QED BY <2>1, <2>2, Zenon
<1>2. Min(Ready) \in Ready
  BY <1>1, Zenon DEF Min
<1> QED BY <1>2, Zenon DEF Ready

-----------------------------------------------------------------------------
(* The bodies, the windows and the queue of every state.                    *)

Window == -(MaxWin + 1)..MaxWin

Shape ==
    /\ DOMAIN phase = Sids /\ DOMAIN written = Sids /\ DOMAIN pending = Sids
    /\ DOMAIN wire = Sids /\ DOMAIN ended = Sids /\ DOMAIN win = Sids
    /\ inSendQ \in [Sids -> BOOLEAN] /\ sendQ \in [0..1 -> Seq(Sids)]
    /\ connWin \in Int /\ connWin <= MaxWin /\ initWin \in InitWins /\ out \in Nat

Stream(s) == /\ Body(phase[s], written[s], pending[s], wire[s], ended[s])
             /\ win[s] \in Window

BodyInv == Shape /\ \A s \in Sids : Stream(s)

\* What FlowControlled says of a step, for one stream and for all.
Flow(s) ==
    Len(wire'[s]) > Len(wire[s]) =>
        /\ Len(wire'[s]) - Len(wire[s]) <= win[s]
        /\ Len(wire'[s]) - Len(wire[s]) <= connWin
        /\ ~ended[s]
        /\ out' < HighWater + MaxFrame

Flows == \A s \in Sids : Flow(s)

\* The streams but s are left alone.
Others(s) ==
    \A t \in Sids : t /= s =>
        /\ phase'[t] = phase[t] /\ written'[t] = written[t] /\ pending'[t] = pending[t]
        /\ wire'[t] = wire[t] /\ ended'[t] = ended[t] /\ win'[t] = win[t]

-----------------------------------------------------------------------------
\* The sets of streams can be counted (SidsCounted, at the end).
Counts == \A S \in SUBSET Sids : Cardinality(S) \in Nat

\* An order of a set of streams is a sequence that holds each of them once.
LEMMA OrderIsSeq ==
    ASSUME Counts, NEW S \in SUBSET Sids, NEW f \in Orders(S)
    PROVE  /\ f \in Seq(S) /\ f \in Seq(Sids)
           /\ \A t \in S : \E i \in 1..Len(f) : f[i] = t
           /\ \A i, j \in 1..Len(f) : f[i] = f[j] => i = j
<1> DEFINE n == Cardinality(S)
<1>1. n \in Nat
  BY Zenon DEF Counts
<1>2. f \in [1..n -> S]
  BY Zenon DEF Orders, Bijection, Injection
<1>3. \A t \in S : \E i \in 1..n : f[i] = t
  BY Zenon DEF Orders, Bijection, Surjection
<1>4. \A i, j \in 1..n : f[i] = f[j] => i = j
  BY <1>2, Zenon DEF Orders, Bijection, Injection, IsInjective
<1> HIDE DEF n
<1>5. f \in Seq(S) /\ Len(f) = n
  BY <1>1, <1>2
<1>6. f \in Seq(Sids)
  BY <1>1, <1>2
<1> QED BY <1>3, <1>4, <1>5, <1>6, Zenon

-----------------------------------------------------------------------------
\* As many frames as start below the mark stop less than a frame past it.
LEMMA FramesFit ==
    ASSUME NEW a \in Nat, NEW m \in Nat \ {0}
    PROVE  (a \div m + 1) * m <= a + m /\ (a \div m + 1) * m \in Nat
<1>1. a \div m \in Nat /\ m * (a \div m) <= a
  OBVIOUS
<1> DEFINE q == a \div m
<1> HIDE DEF q
<1>2. q \in Nat /\ m * q <= a
  BY <1>1, Zenon DEF q
<1>3. (q + 1) * m = m * q + m /\ (q + 1) * m \in Nat
  BY <1>2
<1> QED BY <1>2, <1>3 DEF q

\* What leaves at once fits both windows and the buffer, and nothing of the stream is
\* overtaken.
LEMMA DirectFits ==
    ASSUME BodyInv, NEW s \in Sids, NEW n \in Nat
    PROVE  /\ Direct(s, n) \in 0..n
           /\ Direct(s, n) > 0 => /\ pending[s] = <<>> /\ Ready = {}
                                  /\ Direct(s, n) <= win[s] /\ Direct(s, n) <= connWin
                                  /\ out + Direct(s, n) < HighWater + MaxFrame
<1> DEFINE frames == IF out >= HighWater THEN 0 ELSE (HighWater - out - 1) \div MaxFrame + 1
           room == frames * MaxFrame
           least == Min({n, win[s], connWin, room})
           k == Direct(s, n)
<1>1. /\ win[s] \in Int /\ connWin \in Int /\ out \in Nat /\ HighWater \in Nat \ {0}
      /\ MaxFrame \in Nat \ {0}
  BY H2Assumption DEF BodyInv, Shape, Stream, Window
<1>2. room \in Nat /\ (room > 0 => out + room < HighWater + MaxFrame)
  <2>1. CASE out >= HighWater
    <3>1. frames = 0
      BY <2>1, Zenon
    <3> HIDE DEF frames
    <3> QED BY <1>1, <3>1
  <2>2. CASE ~(out >= HighWater)
    <3> DEFINE a == HighWater - out - 1
    <3>1. a \in Nat /\ out + a + 1 = HighWater
      BY <1>1, <2>2
    <3>2. room = (a \div MaxFrame + 1) * MaxFrame
      BY <2>2, Zenon
    <3> HIDE DEF a, room
    <3>3. room <= a + MaxFrame /\ room \in Nat
      BY <1>1, <3>1, <3>2, FramesFit, Zenon
    <3> QED BY ONLY <1>1, <3>1, <3>3
  <2> QED BY <2>1, <2>2, Zenon
<1> HIDE DEF frames, room
<1>3. least \in Int /\ least <= n /\ least <= win[s] /\ least <= connWin /\ least <= room
  <2>1. n \in Int /\ room \in Int
    BY <1>2
  <2>2. Least(least, n, win[s], connWin, room)
    BY <1>1, <2>1, MinOfFour, Zenon
  <2> QED BY <2>2, Zenon DEF Least
<1>4. k = IF pending[s] /= <<>> \/ Ready /= {} THEN 0 ELSE Max({0, least})
  BY Zenon DEF Direct, room, frames
<1> HIDE DEF least, k
<1>5. Max({0, least}) \in Nat /\ (Max({0, least}) = least \/ Max({0, least}) = 0)
  BY <1>3, MaxOfTwo, Zenon
<1>6. k \in 0..n
  BY ONLY <1>3, <1>4, <1>5, n \in Nat
<1>7. ASSUME k > 0
      PROVE  /\ pending[s] = <<>> /\ Ready = {}
             /\ k <= win[s] /\ k <= connWin /\ out + k < HighWater + MaxFrame
  <2>1. pending[s] = <<>> /\ Ready = {} /\ k = Max({0, least})
    BY <1>4, <1>7
  <2>2. k = least /\ k \in Nat
    BY <1>5, <1>7, <2>1
  <2>3. k <= win[s] /\ k <= connWin /\ k <= room
    BY <1>3, <2>2, Zenon
  <2>4. out + k < HighWater + MaxFrame
    BY ONLY <1>1, <1>2, <1>7, <2>2, <2>3
  <2> QED BY <2>1, <2>3, <2>4, Zenon
<1> QED BY <1>6, <1>7, Zenon DEF k

-----------------------------------------------------------------------------
(* The three outcomes of a turn of the scheduler, for s at the front of     *)
(* level u.                                                                 *)

Dropped(u, s) ==
    /\ sendQ' = [sendQ EXCEPT ![u] = Tail(sendQ[u])]
    /\ inSendQ' = [inSendQ EXCEPT ![s] = ~Open(s) /\ @]

TurnEnds(u, s) ==
    /\ Open(s) /\ pending[s] = <<>> /\ phase[s] = "finished"
    /\ EmitEnd(s) /\ Dropped(u, s) /\ stk' = ThenCall(s) \o stk

TurnSends(u, s) ==
    /\ Open(s) /\ pending[s] /= <<>> /\ Chunk(s) > 0
    /\ EmitData(s, Chunk(s)) /\ Requeued(s, Tail(sendQ[u]), pending'[s], win'[s])
    /\ stk' = (IF phase'[s] = "gone" THEN ThenCall(s) ELSE <<>>) \o stk

TurnSkips(u, s) ==
    /\ ~(Open(s) /\ pending[s] = <<>> /\ phase[s] = "finished")
    /\ ~(Open(s) /\ pending[s] /= <<>> /\ Chunk(s) > 0)
    /\ Dropped(u, s)
    /\ UNCHANGED <<stk, phase, win, connWin, pending, wire, ended, backedUp, cb, out>>

\* A step of the scheduler is one of its three turns, for the stream it pops.
LEMMA EmitTurns ==
    ASSUME Shape, Emit
    PROVE  \E u \in 0..1, s \in Sids :
             /\ sendQ[u] /= <<>> /\ s = Head(sendQ[u])
             /\ TurnEnds(u, s) \/ TurnSends(u, s) \/ TurnSkips(u, s)
             /\ PassGoes /\ On("pass") /\ UNCHANGED <<up, initWin, kicks, armed, written, parked>>
<1> DEFINE u == Min(Ready)  s == Head(sendQ[u])
<1>1. PassGoes /\ On("pass") /\ UNCHANGED <<up, initWin, kicks, armed, written, parked>>
  BY Zenon DEF Emit
<1>2. u \in 0..1 /\ sendQ[u] /= <<>>
  BY <1>1, FirstReady, Zenon DEF PassGoes
<1> HIDE DEF u
<1>3. s \in Sids
  BY <1>2 DEF Shape
<1>4. TurnEnds(u, s) \/ TurnSends(u, s) \/ TurnSkips(u, s)
  BY Zenon DEF Emit, TurnEnds, TurnSends, TurnSkips, Dropped, u
<1> QED BY <1>1, <1>2, <1>3, <1>4, Zenon

\* A frame's size: what both windows, the peer's frame size and the backlog allow.
LEMMA ChunkFits ==
    ASSUME BodyInv, NEW s \in Sids
    PROVE  /\ Chunk(s) \in Int /\ Chunk(s) <= Len(pending[s]) /\ Chunk(s) <= MaxFrame
           /\ Chunk(s) <= win[s] /\ Chunk(s) <= connWin
           /\ Chunk(s) <= 0 => pending[s] = <<>> \/ win[s] <= 0 \/ connWin <= 0
<1>1. /\ win[s] \in Int /\ connWin \in Int /\ MaxFrame \in Int /\ MaxFrame > 0
      /\ pending[s] \in Seq(Nat) /\ Len(pending[s]) \in Int
  BY H2Assumption DEF BodyInv, Shape, Stream, Window, Body
<1>2. Least(Chunk(s), Len(pending[s]), MaxFrame, win[s], connWin)
  BY <1>1, MinOfFour, Zenon DEF Chunk
<1> QED BY <1>1, <1>2 DEF Least

-----------------------------------------------------------------------------
(* BodyInOrder and FlowControlled.                                          *)

\* The bodies at the start.
LEMMA BodyInit ==
    ASSUME Init
    PROVE  BodyInv
<1>1. Shape
  BY H2Assumption DEF Init, Shape
<1>2. ASSUME NEW s \in Sids PROVE Stream(s)
  <2>1. /\ phase[s] = "idle" /\ written[s] = 0 /\ pending[s] = <<>> /\ wire[s] = <<>>
        /\ ended[s] = FALSE /\ win[s] = 0
    BY Zenon DEF Init
  <2>2. Body("idle", 0, <<>>, <<>>, FALSE) /\ 0 \in Window
    BY H2Assumption DEF Body, Phases, Window
  <2> QED BY <2>1, <2>2, Zenon DEF Stream
<1> QED BY <1>1, <1>2, Zenon DEF BodyInv

\* Every step keeps the bodies in order and respects the windows.
LEMMA BodyStep ==
    Counts /\ BodyInv /\ Next => BodyInv' /\ Flows

\* A frame takes the front of the backlog.
<1>FrameBody.
      ASSUME NEW p, NEW n, NEW q, NEW x, NEW e, Body(p, n, q, x, e), p /= "gone",
             NEW k \in 0..Len(q)
      PROVE  Framed(p, n, q, x, e, k)
  <2> USE <1>FrameBody
  <2> DEFINE a == SubSeq(q, 1, k)  r == SubSeq(q, k + 1, Len(q))  y == x \o a
  <2>1. /\ q \in Seq(Nat) /\ x \in Seq(Nat) /\ n \in Nat /\ Len(x) \in Nat /\ Len(q) \in Nat
        /\ k \in Nat /\ k <= Len(q)
    BY DEF Body
  <2>2. a \in Seq(Nat) /\ Len(a) = k /\ \A i \in 1..k : a[i] = q[i]
    BY <2>1
  <2>3. r \in Seq(Nat) /\ Len(r) = Len(q) - k /\ \A i \in 1..Len(r) : r[i] = q[k + i]
    BY <2>1
  <2> HIDE DEF a, r
  <2>4. Joins(y, x, a, k)
    BY <2>1, <2>2, Cat, Zenon
  <2> HIDE DEF y
  <2> USE DEF Joins
  <2>5. ASSUME NEW i \in 1..Len(y) PROVE y[i] = i
    <3>1. CASE i \in 1..Len(x)
      BY <2>4, <3>1, Zenon DEF Body
    <3>2. CASE i - Len(x) \in 1..k
      <4>1. y[Len(x) + (i - Len(x))] = a[i - Len(x)] /\ a[i - Len(x)] = q[i - Len(x)]
        BY <2>2, <2>4, <3>2, Zenon
      <4>2. q[i - Len(x)] = Len(x) + (i - Len(x))
        <5>1. i - Len(x) \in 1..Len(q)
          BY <2>1, <3>2
        <5>2. \A j \in 1..Len(q) : q[j] = Len(x) + j
          BY Zenon DEF Body
        <5> QED BY <5>1, <5>2, Zenon
      <4> QED BY <2>1, <4>1, <4>2
    <3> QED BY <2>1, <2>4, <3>1, <3>2
  <2>6. \A i \in 1..Len(r) : r[i] = Len(y) + i
    BY <2>1, <2>3, <2>4 DEF Body
  <2>7. Len(y) + Len(r) = Len(x) + Len(q)
    BY <2>1, <2>3, <2>4
  <2>8. Body(p, n, r, y, e)
    BY <2>3, <2>4, <2>5, <2>6, <2>7, Zenon DEF Body
  <2>9. ASSUME r = <<>> PROVE Body("gone", n, <<>>, y, TRUE)
    <3>1. Len(y) = n
      <4>1. Len(r) = 0
        BY <2>9, Zenon
      <4>2. Len(y) \in Nat /\ Len(x) + Len(q) = n
        BY <2>4 DEF Body
      <4> QED BY ONLY <2>1, <2>7, <4>1, <4>2
    <3>2. Body(p, n, <<>>, y, e)
      BY <2>8, <2>9, Zenon
    <3> QED BY <3>1, <3>2, Zenon DEF Body, Phases
  <2> QED BY <2>4, <2>8, <2>9, Zenon DEF a, r, y, Framed

\* A write puts its first k bytes on the wire, which it may with no backlog, and the
\* rest behind the backlog.
<1>WriteBody.
      ASSUME NEW n, NEW q, NEW x, NEW e, Body("streaming", n, q, x, e), NEW m \in Nat,
             NEW k \in 0..m, k > 0 => q = <<>>, NEW b, Numbered(b, n, m)
      PROVE  Wrote(n, q, x, e, m, k, b)
  <2> USE <1>WriteBody
  <2> DEFINE a == SubSeq(b, 1, k)  r == SubSeq(b, k + 1, m)  y == x \o a  z == q \o r
  <2>1. /\ q \in Seq(Nat) /\ x \in Seq(Nat) /\ n \in Nat /\ Len(x) \in Nat /\ Len(q) \in Nat
        /\ k \in Nat /\ k <= m /\ Len(x) + Len(q) = n /\ ~e /\ e \in BOOLEAN
    BY DEF Body
  <2>2. b \in Seq(Nat) /\ Len(b) = m /\ \A i \in 1..m : b[i] = n + i
    BY <2>1 DEF Numbered
  <2>3. a \in Seq(Nat) /\ Len(a) = k /\ \A i \in 1..k : a[i] = n + i
    BY <2>1, <2>2
  <2>4. r \in Seq(Nat) /\ Len(r) = m - k /\ \A i \in 1..Len(r) : r[i] = n + k + i
    BY <2>1, <2>2
  <2> HIDE DEF a, r
  <2>5. Joins(y, x, a, k)
    BY <2>1, <2>3, Cat, Zenon
  <2>6. Joins(z, q, r, m - k)
    BY <2>1, <2>4, Cat, Zenon
  <2> HIDE DEF y, z
  <2> USE DEF Joins
  <2>7. k > 0 => Len(q) = 0
    OBVIOUS
  <2>8. ASSUME NEW i \in 1..Len(y) PROVE y[i] = i
    <3>1. CASE i \in 1..Len(x)
      BY <2>5, <3>1, Zenon DEF Body
    <3>2. CASE i - Len(x) \in 1..k
      <4>1. y[Len(x) + (i - Len(x))] = a[i - Len(x)] /\ a[i - Len(x)] = n + (i - Len(x))
        BY <2>3, <2>5, <3>2, Zenon
      <4>2. n = Len(x)
        BY <2>1, <2>7, <3>2
      <4> QED BY <2>1, <4>1, <4>2
    <3> QED BY <2>1, <2>5, <3>1, <3>2
  <2>9. ASSUME NEW i \in 1..Len(z) PROVE z[i] = Len(y) + i
    <3>1. CASE i \in 1..Len(q)
      <4>1. z[i] = q[i] /\ q[i] = Len(x) + i
        BY <2>6, <3>1, Zenon DEF Body
      <4>2. k = 0
        BY <2>1, <2>7, <3>1
      <4> QED BY <2>1, <2>5, <4>1, <4>2
    <3>2. CASE i - Len(q) \in 1..(m - k)
      <4>1. z[Len(q) + (i - Len(q))] = r[i - Len(q)] /\ r[i - Len(q)] = n + k + (i - Len(q))
        BY <2>4, <2>6, <3>2, Zenon
      <4>2. Len(y) = Len(x) + k
        BY <2>5, Zenon
      <4>3. Len(q) + (i - Len(q)) = i /\ n + k + (i - Len(q)) = (Len(x) + k) + i
        <5>1. i \in Int
          OBVIOUS
        <5>2. Len(x) \in Nat /\ Len(q) \in Nat /\ k \in Nat /\ n = Len(x) + Len(q)
          BY <2>1, Zenon
        <5> QED BY ONLY <5>1, <5>2
      <4> QED BY <4>1, <4>2, <4>3, Zenon
    <3> QED BY <2>1, <2>6, <3>1, <3>2
  <2>10. Len(y) + Len(z) = n + m /\ n + m \in Nat
    <3>1. Len(y) = Len(x) + k /\ Len(z) = Len(q) + (m - k)
      BY <2>5, <2>6, Zenon
    <3>2. m \in Nat
      BY Zenon
    <3> QED BY ONLY <2>1, <3>1, <3>2
  <2>11. Body("streaming", n + m, z, y, e)
    BY <2>1, <2>5, <2>6, <2>8, <2>9, <2>10 DEF Body, Phases
  <2> QED BY <2>5, <2>11, Zenon DEF a, r, y, z, Wrote

\* A step that concerns one stream.
<1>OneStream.
      ASSUME BodyInv, NEW s \in Sids, Others(s), Shape', Stream(s)', Flow(s)
      PROVE  BodyInv' /\ Flows
  <2> USE <1>OneStream
  <2>1. ASSUME NEW t \in Sids, t /= s PROVE Stream(t)' /\ wire'[t] = wire[t]
    BY <2>1, Zenon DEF BodyInv, Stream, Others
  <2>2. \A t \in Sids : Len(wire[t]) \in Nat
    BY DEF BodyInv, Stream, Body
  <2>3. BodyInv'
    BY <2>1, Zenon DEF BodyInv
  <2>4. ASSUME NEW t \in Sids, t /= s PROVE Flow(t)
    <3>1. wire'[t] = wire[t] /\ Len(wire[t]) \in Nat
      BY <2>1, <2>2, <2>4, Zenon
    <3> QED BY ONLY <3>1 DEF Flow
  <2>5. Flows
    BY <2>4, Zenon DEF Flows
  <2> QED BY <2>3, <2>5, Zenon

\* A step that sends no DATA.
<1>SameWire.
      ASSUME BodyInv, NEW s \in Sids, wire' = wire
      PROVE  Flow(s)
  <2> USE <1>SameWire
  <2>1. Len(wire[s]) \in Nat
    BY DEF BodyInv, Stream, Body
  <2> QED BY <2>1 DEF Flow

\* A step that concerns none.
<1>NoStream.
      ASSUME BodyInv, out' \in Nat,
             UNCHANGED <<connWin, initWin, sendQ, inSendQ, phase, win, written, pending, wire,
                         ended>>
      PROVE  BodyInv' /\ Flows
  <2> USE <1>NoStream
  <2>1. BodyInv'
    BY Zenon DEF BodyInv, Shape, Stream
  <2>2. \A t \in Sids : Len(wire[t]) \in Nat
    BY DEF BodyInv, Stream, Body
  <2>3. Flows
    BY <2>2 DEF Flows, Flow
  <2> QED BY <2>1, <2>3, Zenon

\* The loop's own steps but the emission of a frame, and those of the socket and of the
\* drain queue, send nothing.
<1>QuietBody.
      ASSUME BodyInv,
             \/ EndBatch \/ PassEnds \/ ScanEnds \/ CallProducer \/ ProducerReturns \/ WriteEnds
             \/ Hook \/ KickEnds \/ FlushDrained \/ FlushRefilled \/ FlushLeaves
             \/ \E left \in 1..out : FlushBlocks(left)
             \/ \E s \in Sids : ScanNext(s) \/ NextKick(s) \/ OnDrain(s)
             \/ Writable \/ RunDrainKicks
      PROVE  BodyInv' /\ Flows
  <2> USE <1>QuietBody
  <2>1. UNCHANGED <<connWin, initWin, sendQ, inSendQ, phase, win, written, pending, wire, ended>>
    BY Zenon DEF EndBatch, PassEnds, ScanEnds, CallProducer, ProducerReturns, WriteEnds, Hook,
       KickEnds, FlushDrained, FlushRefilled, FlushLeaves, FlushBlocks, ScanNext, NextKick,
       OnDrain, Writable, RunDrainKicks, streamVars
  <2>2. out' \in Nat
    <3>1. out \in Nat
      BY Zenon DEF BodyInv, Shape
    <3>2. out' = out \/ out' = 0 \/ \E left \in 1..out : out' = left
      BY Zenon DEF EndBatch, PassEnds, ScanEnds, CallProducer, ProducerReturns, WriteEnds,
         Hook, KickEnds, FlushDrained, FlushRefilled, FlushLeaves, FlushBlocks, ScanNext,
         NextKick, OnDrain, Writable, RunDrainKicks
    <3> QED BY <3>1, <3>2
  <2> QED BY <2>1, <2>2, <1>NoStream, Zenon

\* A response leaves the table, cut short.
<1>CutBody.
      ASSUME BodyInv, NEW s \in Sids, phase[s] /= "gone", Gone(s), Forgotten(s), out' \in Nat,
             UNCHANGED <<connWin, initWin, sendQ, inSendQ, ended>>
      PROVE  BodyInv' /\ Flows
  <2> USE <1>CutBody
  <2>1. Others(s)
    BY Zenon DEF BodyInv, Shape, Others, Gone, Forgotten
  <2>2. Shape'
    BY Zenon DEF BodyInv, Shape, Gone, Forgotten
  <2>3. /\ phase'[s] = "gone" /\ pending'[s] = <<>> /\ win'[s] = 0 /\ written'[s] = 0
        /\ wire'[s] = <<>> /\ ended'[s] = ended[s]
    BY Zenon DEF BodyInv, Shape, Gone, Forgotten
  <2>4. Body(phase[s], written[s], pending[s], wire[s], ended[s])
    BY Zenon DEF BodyInv, Stream
  <2>5. Stream(s)'
    BY <2>3, <2>4, H2Assumption DEF Stream, Body, Phases, Window
  <2>6. Flow(s)
    BY <2>3, <2>4 DEF Flow, Body
  <2> QED BY <2>1, <2>2, <2>5, <2>6, <1>OneStream, Zenon

\* Abort, RST_STREAM of the peer and a stream error cut a response short.
<1>ResetBody.
      ASSUME BodyInv, NEW s \in Sids, phase[s] /= "gone", Resets(s)
      PROVE  BodyInv' /\ Flows
  <2> USE <1>ResetBody
  <2>1. out' \in Nat
    BY DEF BodyInv, Shape, Resets
  <2> QED BY <2>1, <1>CutBody, Zenon DEF Resets

\* res.abort keeps the bodies.
<1>AbortBody.
      ASSUME BodyInv, NEW s \in Sids, Abort(s)
      PROVE  BodyInv' /\ Flows
  <2> USE <1>AbortBody
  <2>1. phase[s] /= "gone"
    BY Zenon DEF Abort
  <2> QED BY <2>1, <1>ResetBody, Zenon DEF Abort

\* A RST_STREAM keeps the bodies.
<1>RstInBody.
      ASSUME BodyInv, NEW s \in Sids, RstIn(s)
      PROVE  BodyInv' /\ Flows
  <2> USE <1>RstInBody
  <2>1. phase[s] /= "gone" /\ out' \in Nat
    BY Zenon DEF BodyInv, Shape, RstIn, Open
  <2> QED BY <2>1, <1>CutBody, Zenon DEF RstIn

\* The head of a response keeps the bodies.
<1>SendHeadBody.
      ASSUME BodyInv, NEW s \in Sids, SendHead(s)
      PROVE  BodyInv' /\ Flows
  <2> USE <1>SendHeadBody
  <2>1. Others(s)
    BY Zenon DEF BodyInv, Shape, Others, SendHead
  <2>2. Shape'
    BY DEF BodyInv, Shape, SendHead
  <2>3. Body(phase[s], written[s], pending[s], wire[s], ended[s]) /\ win[s] \in Window
    BY Zenon DEF BodyInv, Stream
  <2>4. phase[s] = "none" /\ phase'[s] = "streaming"
    BY Zenon DEF BodyInv, Shape, SendHead
  <2>5. Body("streaming", written[s], pending[s], wire[s], ended[s])
    BY <2>3, <2>4, Zenon DEF Body, Phases
  <2>6. Stream(s)'
    BY <2>3, <2>4, <2>5, Zenon DEF Stream, SendHead
  <2>7. Flow(s)
    BY <1>SameWire, Zenon DEF SendHead
  <2> QED BY <2>1, <2>2, <2>6, <2>7, <1>OneStream, Zenon

\* A new request keeps the bodies.
<1>HeadersInBody.
      ASSUME BodyInv, NEW s \in Sids, HeadersIn(s)
      PROVE  BodyInv' /\ Flows
  <2> USE <1>HeadersInBody
  <2>1. Others(s)
    BY Zenon DEF BodyInv, Shape, Others, HeadersIn
  <2>2. Shape'
    BY Zenon DEF BodyInv, Shape, HeadersIn
  <2>3. Body(phase[s], written[s], pending[s], wire[s], ended[s])
    BY Zenon DEF BodyInv, Stream
  <2>4. phase[s] = "idle" /\ phase'[s] = "none" /\ win'[s] = initWin
    BY Zenon DEF BodyInv, Shape, HeadersIn
  <2>5. Body("none", written[s], pending[s], wire[s], ended[s])
    BY <2>3, <2>4, Zenon DEF Body, Phases
  <2>6. initWin \in Window
    BY H2Assumption DEF BodyInv, Shape, Window
  <2>7. Stream(s)'
    BY <2>4, <2>5, <2>6, Zenon DEF Stream, HeadersIn
  <2>8. Flow(s)
    BY <1>SameWire, Zenon DEF HeadersIn
  <2> QED BY <2>1, <2>2, <2>7, <2>8, <1>OneStream, Zenon

\* h2Enqueue keeps the shape of the ready-queue.
<1>EnqueuedShape.
      ASSUME Shape, NEW s \in Sids, NEW bytes, NEW w, NEW fin, Enqueued(s, bytes, w, fin)
      PROVE  inSendQ' \in [Sids -> BOOLEAN] /\ sendQ' \in [0..1 -> Seq(Sids)]
  <2> USE <1>EnqueuedShape
  <2>1. Urgency[s] \in 0..1 /\ sendQ \in [0..1 -> Seq(Sids)] /\ inSendQ \in [Sids -> BOOLEAN]
    BY H2Assumption, Zenon DEF Shape
  <2>2. Append(sendQ[Urgency[s]], s) \in Seq(Sids)
    BY <2>1
  <2>3. CASE UNCHANGED <<inSendQ, sendQ>>
    BY <2>1, <2>3, Zenon
  <2>4. CASE /\ inSendQ' = [inSendQ EXCEPT ![s] = TRUE]
             /\ sendQ' = [sendQ EXCEPT ![Urgency[s]] = Append(@, s)]
    BY <2>1, <2>2, <2>4, Zenon
  <2> QED BY <2>3, <2>4, Zenon DEF Enqueued

\* A WINDOW_UPDATE of a stream keeps the bodies and the window's range.
<1>WindowUpdateBody.
      ASSUME BodyInv, NEW s \in Sids, NEW inc \in Grants, WindowUpdate(s, inc)
      PROVE  BodyInv' /\ Flows
  <2> USE <1>WindowUpdateBody
  <2>1. CASE TooLarge(win[s] + inc)
    <3>1. phase[s] /= "gone" /\ Resets(s)
      BY <2>1, Zenon DEF WindowUpdate, Open
    <3> QED BY <3>1, <1>ResetBody, Zenon
  <2>2. CASE ~TooLarge(win[s] + inc)
    <3>1. /\ win' = [win EXCEPT ![s] = @ + inc]
          /\ Enqueued(s, pending[s], win[s] + inc, phase[s] = "finished")
          /\ UNCHANGED <<connWin, initWin, out, phase, written, pending, wire, ended>>
      BY <2>2, Zenon DEF WindowUpdate
    <3>2. Shape
      BY Zenon DEF BodyInv
    <3>3. inSendQ' \in [Sids -> BOOLEAN] /\ sendQ' \in [0..1 -> Seq(Sids)]
      BY <3>1, <3>2, <1>EnqueuedShape, Zenon
    <3>4. Shape'
      BY <3>1, <3>2, <3>3, Zenon DEF Shape
    <3>5. Others(s)
      BY <3>1, <3>2, Zenon DEF Shape, Others
    <3>6. win[s] \in Window /\ win'[s] = win[s] + inc
      BY <3>1, Zenon DEF BodyInv, Shape, Stream
    <3>7. win'[s] \in Window
      BY <2>2, <3>6, H2Assumption DEF Window, TooLarge
    <3>8. Stream(s)'
      BY <3>1, <3>7, Zenon DEF BodyInv, Stream
    <3>9. Flow(s)
      BY <3>1, <1>SameWire, Zenon
    <3> QED BY <3>4, <3>5, <3>8, <3>9, <1>OneStream, Zenon
  <2> QED BY <2>1, <2>2, Zenon

\* A closed connection holds nothing.
<1>ClosesBody.
      ASSUME BodyInv, Closes
      PROVE  BodyInv' /\ Flows
  <2> USE <1>ClosesBody
  <2>1. (CHOOSE v \in InitWins : TRUE) \in InitWins
    BY H2Assumption, Zenon
  <2>2. Shape'
    BY <2>1, H2Assumption DEF Closes, Shape
  <2>3. ASSUME NEW s \in Sids PROVE Stream(s)' /\ Flow(s)
    <3>1. /\ phase'[s] = "gone" /\ pending'[s] = <<>> /\ win'[s] = 0 /\ written'[s] = 0
          /\ wire'[s] = <<>> /\ ended'[s] = FALSE
      BY Zenon DEF Closes
    <3>2. Stream(s)'
      <4>1. Body("gone", 0, <<>>, <<>>, FALSE) /\ 0 \in Window
        BY H2Assumption DEF Body, Phases, Window
      <4> QED BY <3>1, <4>1, Zenon DEF Stream
    <3>3. wire[s] \in Seq(Nat)
      BY Zenon DEF BodyInv, Stream, Body
    <3>4. Flow(s)
      BY ONLY <3>1, <3>3 DEF Flow
    <3> QED BY <3>2, <3>4, Zenon
  <2> QED BY <2>2, <2>3, Zenon DEF BodyInv, Flows

\* A WINDOW_UPDATE of the connection keeps the bodies and the window's range.
<1>ConnUpdateBody.
      ASSUME BodyInv, NEW inc \in Grants, ConnUpdate(inc)
      PROVE  BodyInv' /\ Flows
  <2> USE <1>ConnUpdateBody
  <2>1. CASE TooLarge(connWin + inc)
    BY <2>1, <1>ClosesBody, Zenon DEF ConnUpdate
  <2>2. CASE ~TooLarge(connWin + inc)
    <3>1. /\ connWin' = connWin + inc
          /\ UNCHANGED <<initWin, sendQ, out, streamVars>>
      BY <2>2, Zenon DEF ConnUpdate
    <3>2. Shape'
      BY <2>2, <3>1, H2Assumption DEF BodyInv, Shape, TooLarge, streamVars
    <3>3. ASSUME NEW s \in Sids PROVE Stream(s)' /\ Flow(s)
      <4>1. Stream(s)'
        BY <3>1, Zenon DEF BodyInv, Stream, streamVars
      <4>2. Flow(s)
        BY <3>1, <1>SameWire, Zenon DEF streamVars
      <4> QED BY <4>1, <4>2, Zenon
    <3> QED BY <3>2, <3>3, Zenon DEF BodyInv, Flows
  <2> QED BY <2>1, <2>2, Zenon

\* A SETTINGS keeps the bodies, and the windows it moves in range.
<1>SettingsBody.
      ASSUME BodyInv, Counts, NEW v \in InitWins, Settings(v)
      PROVE  BodyInv' /\ Flows
  <2> USE <1>SettingsBody
  <2> DEFINE moved == [s \in Sids |-> IF Open(s) THEN win[s] + (v - initWin) ELSE win[s]]
             woken == {s \in Sids : Open(s) /\ pending[s] /= <<>> /\ moved[s] > 0 /\ ~inSendQ[s]}
             wild == \E s \in Sids : Open(s) /\ (TooLarge(moved[s]) \/ moved[s] < -(MaxWin + 1))
  <2>1. CASE wild
    BY <2>1, <1>ClosesBody, Zenon DEF Settings
  <2>2. CASE ~wild
    <3>1. /\ initWin' = v /\ win' = moved /\ out' = out + 1
          /\ inSendQ' = [s \in Sids |-> inSendQ[s] \/ s \in woken]
          /\ \E low \in Orders({s \in woken : Urgency[s] = 0}),
                high \in Orders({s \in woken : Urgency[s] = 1}) :
               sendQ' = [u \in 0..1 |-> sendQ[u] \o (IF u = 0 THEN low ELSE high)]
          /\ UNCHANGED <<connWin, phase, written, pending, wire, ended>>
      BY <2>2, Zenon DEF Settings
    <3>2. PICK low \in Orders({s \in woken : Urgency[s] = 0}),
               high \in Orders({s \in woken : Urgency[s] = 1}) :
               sendQ' = [u \in 0..1 |-> sendQ[u] \o (IF u = 0 THEN low ELSE high)]
      BY <3>1, Zenon
    <3>3. low \in Seq(Sids) /\ high \in Seq(Sids)
      <4>1. /\ {s \in woken : Urgency[s] = 0} \in SUBSET Sids
            /\ {s \in woken : Urgency[s] = 1} \in SUBSET Sids
        BY Zenon
      <4> QED BY <4>1, OrderIsSeq, Zenon
    <3>4. sendQ' \in [0..1 -> Seq(Sids)]
      <4>1. sendQ \in [0..1 -> Seq(Sids)]
        BY Zenon DEF BodyInv, Shape
      <4> QED BY ONLY <3>2, <3>3, <4>1
    <3>5. inSendQ' \in [Sids -> BOOLEAN]
      BY <3>1, Zenon
    <3>6. Shape'
      BY <3>1, <3>4, <3>5 DEF BodyInv, Shape
    <3>7. ASSUME NEW s \in Sids PROVE Stream(s)' /\ Flow(s)
      <4>1. win'[s] \in Window
        <5>1. win[s] \in Int /\ win[s] \in Window /\ v \in Int /\ initWin \in Int /\ MaxWin \in Nat
          BY H2Assumption DEF BodyInv, Shape, Stream, Window
        <5>2. win'[s] = IF Open(s) THEN win[s] + (v - initWin) ELSE win[s]
          BY <3>1, Zenon
        <5>3. Open(s) => win'[s] <= MaxWin /\ win'[s] >= -(MaxWin + 1)
          BY <2>2, <3>1, <5>1 DEF TooLarge
        <5> QED BY <5>1, <5>2, <5>3 DEF Window
      <4>2. Stream(s)'
        BY <3>1, <4>1, Zenon DEF BodyInv, Stream
      <4>3. Flow(s)
        BY <3>1, <1>SameWire, Zenon
      <4> QED BY <4>2, <4>3, Zenon
    <3> QED BY <3>6, <3>7, Zenon DEF BodyInv, Flows
  <2> QED BY <2>1, <2>2, Zenon

\* res.finish with nothing in the backlog, and the end of a body that is out.
<1>EndBody.
      ASSUME BodyInv, NEW s \in Sids, phase[s] /= "gone", pending[s] = <<>>, EmitEnd(s),
             inSendQ' \in [Sids -> BOOLEAN], sendQ' \in [0..1 -> Seq(Sids)],
             UNCHANGED <<initWin, written>>
      PROVE  BodyInv' /\ Flows
  <2> USE <1>EndBody
  <2>1. Others(s)
    BY Zenon DEF BodyInv, Shape, Others, EmitEnd, Gone
  <2>2. Shape'
    <3>1. /\ DOMAIN phase' = Sids /\ DOMAIN written' = Sids /\ DOMAIN pending' = Sids
          /\ DOMAIN wire' = Sids /\ DOMAIN ended' = Sids /\ DOMAIN win' = Sids
      BY Zenon DEF BodyInv, Shape, EmitEnd, Gone
    <3>2. connWin' = connWin /\ initWin' = initWin /\ out' \in Nat
      BY DEF BodyInv, Shape, EmitEnd
    <3> QED BY <3>1, <3>2, Zenon DEF BodyInv, Shape
  <2>3. /\ phase'[s] = "gone" /\ pending'[s] = <<>> /\ win'[s] = 0 /\ ended'[s] = TRUE
        /\ written'[s] = written[s] /\ wire'[s] = wire[s]
    BY Zenon DEF BodyInv, Shape, EmitEnd, Gone
  <2>4. Body(phase[s], written[s], <<>>, wire[s], ended[s])
    BY Zenon DEF BodyInv, Stream
  <2>5. Body("gone", written[s], <<>>, wire[s], TRUE)
    BY <2>4 DEF Body, Phases
  <2>6. Stream(s)'
    <3>1. 0 \in Window
      BY H2Assumption DEF Window
    <3> QED BY <2>3, <2>5, <3>1, Zenon DEF Stream
  <2>7. Flow(s)
    BY <1>SameWire, Zenon DEF EmitEnd
  <2> QED BY <2>1, <2>2, <2>6, <2>7, <1>OneStream, Zenon

\* res.finish keeps the bodies.
<1>FinishBody.
      ASSUME BodyInv, NEW s \in Sids, Finish(s)
      PROVE  BodyInv' /\ Flows
  <2> USE <1>FinishBody
  <2>0. phase[s] = "streaming" /\ UNCHANGED <<initWin, written>> /\ Shape
    BY Zenon DEF Finish, BodyInv
  <2>1. CASE pending[s] = <<>>
    <3>1. EmitEnd(s) /\ UNCHANGED <<inSendQ, sendQ>>
      BY <2>1, Zenon DEF Finish
    <3>2. inSendQ' \in [Sids -> BOOLEAN] /\ sendQ' \in [0..1 -> Seq(Sids)]
      BY <3>1, Zenon DEF BodyInv, Shape
    <3> QED BY <2>0, <2>1, <3>1, <3>2, <1>EndBody, Zenon
  <2>2. CASE pending[s] /= <<>>
    <3>1. /\ phase' = [phase EXCEPT ![s] = "finished"]
          /\ Enqueued(s, pending[s], win[s], TRUE)
          /\ UNCHANGED <<pending, ended, out, win, connWin, wire>>
      BY <2>2, Zenon DEF Finish
    <3>2. inSendQ' \in [Sids -> BOOLEAN] /\ sendQ' \in [0..1 -> Seq(Sids)]
      BY <2>0, <3>1, <1>EnqueuedShape, Zenon
    <3>3. Shape'
      BY <2>0, <3>1, <3>2, Zenon DEF Shape
    <3>4. Others(s) /\ phase'[s] = "finished"
      BY <2>0, <3>1, Zenon DEF Shape, Others
    <3>5. Body("streaming", written[s], pending[s], wire[s], ended[s]) /\ win[s] \in Window
      BY <2>0, Zenon DEF BodyInv, Stream
    <3>6. Body("finished", written[s], pending[s], wire[s], ended[s])
      BY <3>5, Zenon DEF Body, Phases
    <3>7. Stream(s)'
      BY <2>0, <3>1, <3>4, <3>5, <3>6, Zenon DEF Stream
    <3>8. Flow(s)
      BY <3>1, <1>SameWire, Zenon
    <3> QED BY <3>3, <3>4, <3>7, <3>8, <1>OneStream, Zenon
  <2> QED BY <2>1, <2>2, Zenon

\* res.write keeps the bodies, and what it sends directly is inside the windows.
<1>WriteKeepsBody.
      ASSUME BodyInv, NEW s \in Sids, NEW n \in Sizes, Write(s, n)
      PROVE  BodyInv' /\ Flows
  <2> USE <1>WriteKeepsBody
  <2> DEFINE bytes == [i \in 1..n |-> written[s] + i]  k == Direct(s, n)
  <2>1. /\ phase[s] = "streaming"
        /\ written' = [written EXCEPT ![s] = @ + n]
        /\ wire' = [wire EXCEPT ![s] = @ \o SubSeq(bytes, 1, k)]
        /\ pending' = [pending EXCEPT ![s] = @ \o SubSeq(bytes, k + 1, n)]
        /\ win' = [win EXCEPT ![s] = @ - k]
        /\ connWin' = connWin - k /\ out' = out + k
        /\ Enqueued(s, pending'[s], win'[s], FALSE)
        /\ UNCHANGED <<initWin, phase, ended>>
    BY Zenon DEF Write
  <2>2. n \in Nat /\ Shape
    BY H2Assumption, Zenon DEF BodyInv
  <2>3. /\ k \in 0..n
        /\ k > 0 => /\ pending[s] = <<>> /\ k <= win[s] /\ k <= connWin
                    /\ out + k < HighWater + MaxFrame
    BY <2>2, DirectFits, Zenon
  <2>4. Numbered(bytes, written[s], n)
    BY Zenon DEF Numbered
  <2> HIDE DEF bytes, k
  <2>5. inSendQ' \in [Sids -> BOOLEAN] /\ sendQ' \in [0..1 -> Seq(Sids)]
    BY <2>1, <2>2, <1>EnqueuedShape, Zenon
  <2>6. connWin \in Int /\ connWin <= MaxWin /\ out \in Nat /\ win[s] \in Window /\ MaxWin \in Nat
    BY H2Assumption, Zenon DEF BodyInv, Shape, Stream
  <2>7. connWin' \in Int /\ connWin' <= MaxWin /\ out' \in Nat
    BY ONLY <2>1, <2>2, <2>3, <2>6
  <2>8. Shape'
    <3>1. /\ DOMAIN phase' = Sids /\ DOMAIN written' = Sids /\ DOMAIN pending' = Sids
          /\ DOMAIN wire' = Sids /\ DOMAIN ended' = Sids /\ DOMAIN win' = Sids
      BY <2>1, <2>2, Zenon DEF Shape
    <3> QED BY <2>1, <2>2, <2>5, <2>7, <3>1, Zenon DEF Shape
  <2>9. Others(s)
    BY <2>1, <2>2, Zenon DEF Shape, Others
  <2>10. /\ written'[s] = written[s] + n /\ wire'[s] = wire[s] \o SubSeq(bytes, 1, k)
         /\ pending'[s] = pending[s] \o SubSeq(bytes, k + 1, n) /\ win'[s] = win[s] - k
         /\ phase'[s] = "streaming" /\ ended'[s] = ended[s]
    BY <2>1, <2>2, Zenon DEF Shape
  <2>11. Body("streaming", written[s], pending[s], wire[s], ended[s])
    BY <2>1, Zenon DEF BodyInv, Stream
  <2>12. /\ Body("streaming", written'[s], pending'[s], wire'[s], ended'[s])
         /\ Len(wire'[s]) = Len(wire[s]) + k
    <3>1. Wrote(written[s], pending[s], wire[s], ended[s], n, k, bytes)
      <4>1. k > 0 => pending[s] = <<>>
        BY <2>3, Zenon
      <4> QED BY <2>2, <2>3, <2>4, <2>11, <4>1, <1>WriteBody, Zenon
    <3> QED BY <2>10, <3>1, Zenon DEF Wrote
  <2>13. win'[s] \in Window
    BY ONLY <2>2, <2>3, <2>6, <2>10 DEF Window
  <2>14. Stream(s)'
    BY <2>10, <2>12, <2>13, Zenon DEF Stream
  <2>15. Len(wire[s]) \in Nat /\ ~ended[s]
    BY <2>11 DEF Body
  <2>16. Flow(s)
    <3>1. out' = out + k /\ k \in Nat
      BY <2>1, <2>2, <2>3
    <3>2. Len(wire'[s]) = Len(wire[s]) + k
      BY <2>12, Zenon
    <3>3. Len(wire'[s]) > Len(wire[s]) => k > 0 /\ Len(wire'[s]) - Len(wire[s]) = k
      BY ONLY <2>15, <3>1, <3>2
    <3> QED BY <2>3, <2>15, <3>1, <3>3, Zenon DEF Flow
  <2> QED BY <2>8, <2>9, <2>14, <2>16, <1>OneStream, Zenon

\* The popped stream, and its queue without it or with it again, keep their shape.
<1>DroppedShape.
      ASSUME Shape, NEW u \in 0..1, NEW s \in Sids, sendQ[u] /= <<>>, Dropped(u, s)
      PROVE  inSendQ' \in [Sids -> BOOLEAN] /\ sendQ' \in [0..1 -> Seq(Sids)]
  <2> USE <1>DroppedShape
  <2>1. Tail(sendQ[u]) \in Seq(Sids) /\ (~Open(s) /\ inSendQ[s]) \in BOOLEAN
    BY DEF Shape
  <2> QED BY <2>1, Zenon DEF Shape, Dropped

\* The same when it goes back to its level.
<1>RequeuedShape.
      ASSUME Shape, NEW s \in Sids, NEW rest \in Seq(Sids), NEW b, NEW w \in Int,
             Requeued(s, rest, b, w)
      PROVE  inSendQ' \in [Sids -> BOOLEAN] /\ sendQ' \in [0..1 -> Seq(Sids)]
  <2> USE <1>RequeuedShape
  <2>1. Append(rest, s) \in Seq(Sids) /\ <<s>> \o rest \in Seq(Sids)
    OBVIOUS
  <2>2. Urgency[s] \in 0..1 /\ sendQ \in [0..1 -> Seq(Sids)] /\ inSendQ \in [Sids -> BOOLEAN]
    BY H2Assumption, Zenon DEF Shape
  <2>3. PICK q \in Seq(Sids) : sendQ' = [sendQ EXCEPT ![Urgency[s]] = q]
    BY <2>1, Zenon DEF Requeued
  <2>4. /\ inSendQ' = [inSendQ EXCEPT ![s] = Sendable(s, b, w, FALSE)]
        /\ Sendable(s, b, w, FALSE) \in BOOLEAN
    <3>1. inSendQ' = [inSendQ EXCEPT ![s] = Sendable(s, b, w, FALSE)]
      BY Zenon DEF Requeued
    <3>2. Sendable(s, b, w, FALSE) \in BOOLEAN
      <4>1. CASE b = <<>>
        BY <4>1, Zenon DEF Sendable
      <4>2. CASE b /= <<>>
        <5>1. Sendable(s, b, w, FALSE) = (w > 0)
          BY <4>2, Zenon DEF Sendable
        <5>2. (w > 0) \in BOOLEAN
          OBVIOUS
        <5> QED BY <5>1, <5>2, Zenon
      <4> QED BY <4>1, <4>2, Zenon
    <3> QED BY <3>1, <3>2, Zenon
  <2> QED BY <2>2, <2>3, <2>4, Zenon

\* A turn that sends keeps the bodies, and the frame is inside the windows.
<1>SendsBody.
      ASSUME BodyInv, NEW u \in 0..1, NEW s \in Sids, sendQ[u] /= <<>>, TurnSends(u, s), PassGoes,
             UNCHANGED <<initWin, written>>
      PROVE  BodyInv' /\ Flows
  <2> USE <1>SendsBody
  <2> DEFINE n == Chunk(s)  left == SubSeq(pending[s], n + 1, Len(pending[s]))
             y == wire[s] \o SubSeq(pending[s], 1, n)
  <2>1. /\ phase[s] /= "gone" /\ n > 0 /\ wire' = [wire EXCEPT ![s] = y]
        /\ connWin' = connWin - n /\ out' = out + n
        /\ \/ /\ left = <<>> /\ Gone(s) /\ ended' = [ended EXCEPT ![s] = TRUE]
           \/ /\ pending' = [pending EXCEPT ![s] = left] /\ win' = [win EXCEPT ![s] = @ - n]
              /\ UNCHANGED <<phase, ended>>
    BY Zenon DEF TurnSends, EmitData, Open, Left
  <2>2. /\ n \in Int /\ n <= Len(pending[s]) /\ n <= MaxFrame /\ n <= win[s] /\ n <= connWin
    BY ChunkFits, Zenon
  <2>3. Requeued(s, Tail(sendQ[u]), pending'[s], win'[s]) /\ Shape
    BY Zenon DEF TurnSends, BodyInv
  <2>4. Body(phase[s], written[s], pending[s], wire[s], ended[s]) /\ win[s] \in Window
    BY Zenon DEF BodyInv, Stream
  <2>5. /\ pending[s] \in Seq(Nat) /\ Len(pending[s]) \in Nat /\ Len(wire[s]) \in Nat /\ ~ended[s]
        /\ Len(wire[s]) + Len(pending[s]) = written[s] /\ written[s] \in Nat
    <3>1. phase[s] /= "gone"
      BY <2>1, Zenon
    <3>2. /\ pending[s] \in Seq(Nat) /\ wire[s] \in Seq(Nat) /\ ~ended[s]
          /\ Len(wire[s]) + Len(pending[s]) = written[s] /\ written[s] \in Nat
      BY <2>4, <3>1, Zenon DEF Body
    <3>3. Len(pending[s]) \in Nat /\ Len(wire[s]) \in Nat
      BY <3>2
    <3> QED BY <3>2, <3>3, Zenon
  <2> HIDE DEF n
  <2>6. n \in 0..Len(pending[s])
    BY ONLY <2>1, <2>2, <2>5
  <2>7. Framed(phase[s], written[s], pending[s], wire[s], ended[s], n)
    BY <2>1, <2>4, <2>6, <1>FrameBody, Zenon
  <2>8. /\ Body(phase[s], written[s], left, y, ended[s]) /\ Len(y) = Len(wire[s]) + n
        /\ left = <<>> => Body("gone", written[s], <<>>, y, TRUE)
    BY <2>7, Zenon DEF Framed
  <2> HIDE DEF left, y
  <2>9. written'[s] = written[s] /\ wire'[s] = y
    BY <2>1, <2>3, Zenon DEF Shape
  <2>10. Stream(s)'
    <3>1. CASE left = <<>> /\ Gone(s) /\ ended' = [ended EXCEPT ![s] = TRUE]
      <4>1. phase'[s] = "gone" /\ pending'[s] = <<>> /\ win'[s] = 0 /\ ended'[s] = TRUE
        BY <2>3, <3>1, Zenon DEF Shape, Gone
      <4>2. Body("gone", written[s], <<>>, y, TRUE) /\ 0 \in Window
        <5>1. 0 \in Window
          BY H2Assumption DEF Window
        <5> QED BY <2>8, <3>1, <5>1, Zenon
      <4> QED BY <2>9, <4>1, <4>2, Zenon DEF Stream
    <3>2. CASE /\ pending' = [pending EXCEPT ![s] = left] /\ win' = [win EXCEPT ![s] = @ - n]
               /\ UNCHANGED <<phase, ended>>
      <4>1. pending'[s] = left /\ win'[s] = win[s] - n /\ phase'[s] = phase[s]
            /\ ended'[s] = ended[s]
        BY <2>3, <3>2, Zenon DEF Shape
      <4>2. win[s] - n \in Window
        <5>1. MaxWin \in Nat
          BY H2Assumption, Zenon
        <5>2. n > 0
          BY <2>1, Zenon
        <5> QED BY ONLY <2>2, <2>4, <5>1, <5>2 DEF Window
      <4> QED BY <2>8, <2>9, <4>1, <4>2, Zenon DEF Stream
    <3> QED BY <2>1, <3>1, <3>2, Zenon
  <2>11. inSendQ' \in [Sids -> BOOLEAN] /\ sendQ' \in [0..1 -> Seq(Sids)]
    <3>1. Tail(sendQ[u]) \in Seq(Sids)
      BY <2>3 DEF Shape
    <3>2. win'[s] \in Int
      BY <2>10, H2Assumption DEF Stream, Window
    <3> QED BY <2>3, <3>1, <3>2, <1>RequeuedShape, Zenon
  <2>12. Shape' /\ Others(s)
    <3>1. /\ DOMAIN phase' = Sids /\ DOMAIN written' = Sids /\ DOMAIN pending' = Sids
          /\ DOMAIN wire' = Sids /\ DOMAIN ended' = Sids /\ DOMAIN win' = Sids
      BY <2>1, <2>3, Zenon DEF Shape, Gone
    <3>2. connWin' \in Int /\ connWin' <= MaxWin /\ out' \in Nat
      <4>1. connWin \in Int /\ connWin <= MaxWin /\ out \in Nat /\ MaxWin \in Nat
        BY <2>3, H2Assumption, Zenon DEF Shape
      <4>2. connWin' = connWin - n /\ out' = out + n /\ n > 0
        BY <2>1, Zenon
      <4> QED BY ONLY <2>2, <4>1, <4>2
    <3>3. Shape'
      BY <2>3, <2>11, <3>1, <3>2, Zenon DEF Shape
    <3>4. Others(s)
      BY <2>1, <2>3, Zenon DEF Shape, Gone, Others
    <3> QED BY <3>3, <3>4, Zenon
  <2>13. Flow(s)
    <3>1. Len(wire'[s]) - Len(wire[s]) = n
      BY ONLY <2>2, <2>5, <2>8, <2>9
    <3>2. out' < HighWater + MaxFrame
      <4>1. out \in Nat /\ HighWater \in Nat /\ MaxFrame \in Nat /\ out < HighWater
        BY <2>3, H2Assumption, Zenon DEF Shape, PassGoes
      <4>2. out' = out + n
        BY <2>1, Zenon
      <4> QED BY ONLY <2>2, <4>1, <4>2
    <3> QED BY <2>2, <2>5, <3>1, <3>2, Zenon DEF Flow
  <2> QED BY <2>10, <2>12, <2>13, <1>OneStream, Zenon

\* So does every turn.
<1>EmitKeepsBody.
      ASSUME BodyInv, Emit
      PROVE  BodyInv' /\ Flows
  <2> USE <1>EmitKeepsBody
  <2>0. Shape
    BY Zenon DEF BodyInv
  <2>1. PICK u \in 0..1, s \in Sids :
          /\ sendQ[u] /= <<>> /\ s = Head(sendQ[u])
          /\ TurnEnds(u, s) \/ TurnSends(u, s) \/ TurnSkips(u, s)
          /\ PassGoes /\ On("pass") /\ UNCHANGED <<up, initWin, kicks, armed, written, parked>>
    BY <2>0, EmitTurns, Zenon
  <2>2. CASE TurnEnds(u, s)
    <3>1. phase[s] /= "gone" /\ pending[s] = <<>> /\ EmitEnd(s) /\ Dropped(u, s)
      BY <2>2, Zenon DEF TurnEnds
    <3>2. inSendQ' \in [Sids -> BOOLEAN] /\ sendQ' \in [0..1 -> Seq(Sids)]
      BY <2>0, <2>1, <3>1, <1>DroppedShape, Zenon
    <3> QED BY <2>1, <3>1, <3>2, <1>EndBody, Zenon
  <2>3. CASE TurnSends(u, s)
    BY <2>1, <2>3, <1>SendsBody, Zenon
  <2>4. CASE TurnSkips(u, s)
    <3>1. /\ Dropped(u, s)
          /\ UNCHANGED <<initWin, connWin, out, phase, win, written, pending, wire, ended>>
      BY <2>1, <2>4, Zenon DEF TurnSkips
    <3>2. inSendQ' \in [Sids -> BOOLEAN] /\ sendQ' \in [0..1 -> Seq(Sids)]
      BY <2>0, <2>1, <3>1, <1>DroppedShape, Zenon
    <3>3. Shape'
      BY <2>0, <3>1, <3>2, Zenon DEF Shape
    <3>4. Others(s)
      BY <3>1, Zenon DEF Others
    <3>5. Stream(s)'
      BY <3>1, Zenon DEF BodyInv, Stream
    <3>6. Flow(s)
      BY <3>1, <1>SameWire, Zenon
    <3> QED BY <3>3, <3>4, <3>5, <3>6, <1>OneStream, Zenon
  <2> QED BY <2>1, <2>2, <2>3, <2>4, Zenon

<1>Step.
      ASSUME Counts, BodyInv, Next
      PROVE  BodyInv' /\ Flows
  <2> USE <1>Step
  <2>1. ASSUME LoopStep \/ Writable \/ RunDrainKicks PROVE BodyInv' /\ Flows
    <3>1. CASE Emit
      BY <3>1, <1>EmitKeepsBody, Zenon
    <3> QED BY <2>1, <3>1, <1>QuietBody, Zenon DEF LoopStep
  <2>2. ASSUME Close PROVE BodyInv' /\ Flows
    BY <2>2, <1>ClosesBody, Zenon DEF Close
  <2>3. ASSUME PeerSends PROVE BodyInv' /\ Flows
    BY <2>3, <1>HeadersInBody, <1>RstInBody, <1>WindowUpdateBody, <1>ConnUpdateBody,
       <1>SettingsBody, Zenon
       DEF PeerSends
  <2>4. ASSUME NEW s \in Sids, ProducerActs(s) PROVE BodyInv' /\ Flows
    <3>1. CASE OnDrain(s)
      BY <3>1, <1>QuietBody, Zenon
    <3> QED BY <2>4, <3>1, <1>SendHeadBody, <1>FinishBody, <1>AbortBody, <1>WriteKeepsBody, Zenon
            DEF ProducerActs
  <2> QED BY <2>1, <2>2, <2>3, <2>4, Zenon DEF Next
<1> QED BY <1>Step, Zenon

\* A sequence of the first numbers is Numbers.
LEMMA Counted ==
    ASSUME NEW y \in Seq(Nat), \A i \in 1..Len(y) : y[i] = i
    PROVE  y = Numbers(Len(y))
  BY DEF Numbers

\* The bodies are in order.
LEMMA BodyMeans ==
    ASSUME BodyInv
    PROVE  BodyInOrder
<1> SUFFICES ASSUME NEW s \in Sids
             PROVE  /\ phase[s] /= "gone" => wire[s] \o pending[s] = Numbers(written[s])
                    /\ wire[s] = Numbers(Len(wire[s])) /\ Len(wire[s]) <= written[s]
                    /\ ended[s] => Len(wire[s]) = written[s]
  BY Zenon DEF BodyInOrder
<1> DEFINE x == wire[s]  q == pending[s]  n == written[s]  y == x \o q
<1>1. Body(phase[s], n, q, x, ended[s])
  BY Zenon DEF BodyInv, Stream
<1>2. /\ n \in Nat /\ q \in Seq(Nat) /\ x \in Seq(Nat) /\ \A i \in 1..Len(x) : x[i] = i
      /\ \A i \in 1..Len(q) : q[i] = Len(x) + i
      /\ Len(x) + Len(q) <= n /\ (phase[s] /= "gone" => Len(x) + Len(q) = n)
      /\ ended[s] => Len(x) = n
  BY <1>1, Zenon DEF Body
<1>3. Len(x) \in Nat /\ Len(q) \in Nat
  BY <1>2
<1>4. x = Numbers(Len(x)) /\ Len(x) <= n
  <2>1. x = Numbers(Len(x))
    BY <1>2, Counted, Zenon
  <2>2. Len(x) <= n
    <3>1. n \in Nat /\ Len(x) + Len(q) <= n
      BY <1>2, Zenon
    <3> HIDE DEF x, q, n
    <3> QED BY ONLY <1>3, <3>1
  <2> QED BY <2>1, <2>2, Zenon
<1> HIDE DEF x, q, n
<1>5. Joins(y, x, q, Len(q))
  BY <1>2, Cat, Zenon
<1> HIDE DEF y
<1>6. ASSUME NEW i \in 1..Len(y) PROVE y[i] = i
  <2>1. y \in Seq(Nat) /\ Len(y) = Len(x) + Len(q)
    BY <1>5, Zenon DEF Joins
  <2>2. CASE i <= Len(x)
    <3>1. i \in 1..Len(x)
      BY ONLY <1>3, <2>1, <2>2, i \in 1..Len(y)
    <3> QED BY <1>2, <1>5, <3>1, Zenon DEF Joins
  <2>3. CASE ~(i <= Len(x))
    <3>1. i - Len(x) \in 1..Len(q) /\ Len(x) + (i - Len(x)) = i
      BY <1>3, <2>1, <2>3
    <3>2. y[Len(x) + (i - Len(x))] = q[i - Len(x)] /\ q[i - Len(x)] = Len(x) + (i - Len(x))
      BY <1>2, <1>5, <3>1, Zenon DEF Joins
    <3> QED BY <3>1, <3>2, Zenon
  <2> QED BY <2>2, <2>3, Zenon
<1>7. y = Numbers(Len(y)) /\ Len(y) = Len(x) + Len(q)
  BY <1>5, <1>6, Counted, Zenon DEF Joins
<1>8. phase[s] /= "gone" => y = Numbers(n)
  BY <1>2, <1>7, Zenon
<1> QED BY <1>2, <1>4, <1>8, Zenon DEF x, q, n, y

-----------------------------------------------------------------------------
(* One stream in one level of the ready-queue.                              *)

\* q holds s once if b, and not at all otherwise.
Once(q, s, b) ==
    /\ (\E i \in 1..Len(q) : q[i] = s) <=> b
    /\ \A i, j \in 1..Len(q) : q[i] = s /\ q[j] = s => i = j

-----------------------------------------------------------------------------
(* The call stack.                                                          *)

Frame ==
    {<<"batch">>, <<"pass">>, <<"hook">>}
    \union ({"cb", "call", "wrote", "verdict"} \X Sids)
    \union ({"scan", "kicks"} \X SUBSET Sids)
    \union ({"kick"} \X Sids \X Nat)
    \union ({"flush"} \X Nat \X {"write", "refilled", "leave"})

\* The frames there are.
LEMMA Frames ==
    /\ <<"batch">> \in Frame /\ <<"pass">> \in Frame /\ <<"hook">> \in Frame
    /\ \A x \in {"cb", "call", "wrote", "verdict"}, s \in Sids : <<x, s>> \in Frame
    /\ \A x \in {"scan", "kicks"}, S \in SUBSET Sids : <<x, S>> \in Frame
    /\ \A s \in Sids, n \in Nat : <<"kick", s, n>> \in Frame
    /\ \A n \in Nat, x \in {"write", "refilled", "leave"} : <<"flush", n, x>> \in Frame
  BY Zenon DEF Frame

\* What a frame holds.
LEMMA FrameHolds ==
    ASSUME NEW f \in Frame
    PROVE  /\ f[1] \in {"cb", "call", "wrote", "verdict"} => f[2] \in Sids /\ f = <<f[1], f[2]>>
           /\ f[1] \in {"scan", "kicks"} => f[2] \in SUBSET Sids
           /\ f[1] = "kick" => f[2] \in Sids /\ f[3] \in Nat
           /\ f[1] = "flush" => f[2] \in Nat
           /\ f[1] \in {"batch", "pass", "hook", "cb", "call", "wrote", "verdict", "scan",
                        "kicks", "kick", "flush"}
  BY DEF Frame

\* A frame of F is on the stack k.
Some(k, F) == \E i \in 1..Len(k) : k[i] \in F

\* Stacks of at most two frames.
LEMMA SomeFew ==
    ASSUME NEW F
    PROVE  /\ <<>> \in Seq(Frame) /\ ~Some(<<>>, F)
           /\ \A f \in Frame : <<f>> \in Seq(Frame) /\ (Some(<<f>>, F) <=> f \in F)
           /\ \A f, g \in Frame : <<f, g>> \in Seq(Frame)
                                  /\ (Some(<<f, g>>, F) <=> f \in F \/ g \in F)
<1>1. ASSUME NEW f \in Frame PROVE <<f>> \in Seq(Frame) /\ (Some(<<f>>, F) <=> f \in F)
  <2>1. Len(<<f>>) = 1 /\ <<f>>[1] = f /\ <<f>> \in Seq(Frame)
    OBVIOUS
  <2> QED BY <2>1 DEF Some
<1>2. ASSUME NEW f \in Frame, NEW g \in Frame
      PROVE  <<f, g>> \in Seq(Frame) /\ (Some(<<f, g>>, F) <=> f \in F \/ g \in F)
  <2>1. Len(<<f, g>>) = 2 /\ <<f, g>>[1] = f /\ <<f, g>>[2] = g /\ <<f, g>> \in Seq(Frame)
    OBVIOUS
  <2> QED BY <2>1 DEF Some
<1>3. <<>> \in Seq(Frame) /\ ~Some(<<>>, F)
  BY DEF Some
<1> QED BY <1>1, <1>2, <1>3, Zenon

\* Calls a on top of the stack k.
LEMMA SomeOn ==
    ASSUME NEW a \in Seq(Frame), NEW k \in Seq(Frame), NEW F
    PROVE  a \o k \in Seq(Frame) /\ (Some(a \o k, F) <=> Some(a, F) \/ Some(k, F))
<1> DEFINE r == a \o k
<1>1. /\ Len(r) = Len(a) + Len(k) /\ Len(a) \in Nat /\ Len(k) \in Nat /\ r \in Seq(Frame)
      /\ \A i \in 1..Len(a) : r[i] = a[i]
      /\ \A i \in 1..Len(k) : r[Len(a) + i] = k[i]
  OBVIOUS
<1> HIDE DEF r
<1>2. ASSUME NEW i \in 1..Len(r), r[i] \in F PROVE Some(a, F) \/ Some(k, F)
  <2>1. CASE i <= Len(a)
    BY <1>1, <1>2, <2>1 DEF Some
  <2>2. CASE ~(i <= Len(a))
    <3>1. i - Len(a) \in 1..Len(k) /\ Len(a) + (i - Len(a)) = i
      BY <1>1, <2>2
    <3>2. r[Len(a) + (i - Len(a))] = k[i - Len(a)]
      BY <1>1, <3>1, Zenon
    <3> QED BY <1>2, <3>1, <3>2, Zenon DEF Some
  <2> QED BY <2>1, <2>2, Zenon
<1>3. ASSUME NEW i \in 1..Len(a), a[i] \in F PROVE Some(r, F)
  <2>1. i \in 1..Len(r) /\ r[i] \in F
    BY <1>1, <1>3
  <2> QED BY <2>1, Zenon DEF Some
<1>4. ASSUME NEW i \in 1..Len(k), k[i] \in F PROVE Some(r, F)
  <2>1. Len(a) + i \in 1..Len(r) /\ r[Len(a) + i] \in F
    BY <1>1, <1>4
  <2> QED BY <2>1, Zenon DEF Some
<1> QED BY <1>1, <1>2, <1>3, <1>4, Zenon DEF Some, r

\* The top of the stack, and the rest.
LEMMA SomeTop ==
    ASSUME NEW k \in Seq(Frame), k /= <<>>, NEW F
    PROVE  /\ Head(k) \in Frame /\ Tail(k) \in Seq(Frame)
           /\ Some(k, F) <=> Head(k) \in F \/ Some(Tail(k), F)
<1>1. /\ Len(Tail(k)) = Len(k) - 1 /\ Len(k) \in Nat \ {0} /\ Head(k) = k[1]
      /\ \A i \in 1..(Len(k) - 1) : Tail(k)[i] = k[i + 1]
      /\ Head(k) \in Frame /\ Tail(k) \in Seq(Frame)
  OBVIOUS
<1>2. ASSUME NEW i \in 1..Len(k), k[i] \in F, i /= 1 PROVE Some(Tail(k), F)
  <2>1. i - 1 \in 1..Len(Tail(k)) /\ (i - 1) + 1 = i
    BY <1>1, <1>2
  <2>2. Tail(k)[i - 1] = k[(i - 1) + 1]
    BY <1>1, <2>1, Zenon
  <2> QED BY <1>2, <2>1, <2>2, Zenon DEF Some
<1>3. ASSUME NEW i \in 1..Len(Tail(k)), Tail(k)[i] \in F PROVE Some(k, F)
  <2>1. i + 1 \in 1..Len(k) /\ k[i + 1] \in F
    BY <1>1, <1>3
  <2> QED BY <2>1, Zenon DEF Some
<1>4. Head(k) \in F => Some(k, F)
  <2>1. 1 \in 1..Len(k)
    BY <1>1
  <2> QED BY <1>1, <2>1, Zenon DEF Some
<1> QED BY <1>1, <1>2, <1>3, <1>4, Zenon DEF Some

-----------------------------------------------------------------------------
(* The ready-queue.                                                         *)

\* A stream in the table is queued exactly when it is flagged, once and on its level, ...
Placed(s) ==
    phase[s] /= "gone" => \A u \in 0..1 : Once(sendQ[u], s, inSendQ[s] /\ u = Urgency[s])

\* ... and it is flagged when it can send, and never before its request.
Waits(s) ==
    /\ Open(s) /\ Sendable(s, pending[s], win[s], phase[s] = "finished") => inSendQ[s]
    /\ phase[s] = "idle" => ~inSendQ[s]

QueueInv == \A s \in Sids : Placed(s) /\ Waits(s)

\* What the queue sees of a stream stays as it is.
SameStream(s) == phase'[s] = phase[s] /\ pending'[s] = pending[s] /\ win'[s] = win[s]

\* The queue of every step.
LEMMA QueueStep ==
    Counts /\ BodyInv /\ QueueInv /\ Next => QueueInv'

\* Another stream at the end.
<1>OnceAppendOther.
      ASSUME NEW q \in Seq(Sids), NEW s \in Sids, NEW b \in BOOLEAN, Once(q, s, b), NEW t \in Sids,
             t /= s
      PROVE  Once(Append(q, t), s, b)
  <2> USE <1>OnceAppendOther
  <2>1. Len(Append(q, t)) = Len(q) + 1 /\ Append(q, t)[Len(q) + 1] = t
        /\ \A i \in 1..Len(q) : Append(q, t)[i] = q[i]
    OBVIOUS
  <2> QED BY <2>1 DEF Once

\* The stream itself at the end, where it was not queued.
<1>OnceAppend.
      ASSUME NEW q \in Seq(Sids), NEW s \in Sids, Once(q, s, FALSE)
      PROVE  Once(Append(q, s), s, TRUE)
  <2> USE <1>OnceAppend
  <2>1. Len(Append(q, s)) = Len(q) + 1 /\ Append(q, s)[Len(q) + 1] = s
        /\ \A i \in 1..Len(q) : Append(q, s)[i] = q[i]
    OBVIOUS
  <2> QED BY <2>1 DEF Once

\* The head of the queue is taken.
<1>OnceTail.
      ASSUME NEW q \in Seq(Sids), q /= <<>>, NEW s \in Sids, NEW b \in BOOLEAN, Once(q, s, b)
      PROVE  /\ Head(q) /= s => Once(Tail(q), s, b)
             /\ Head(q) = s => Once(Tail(q), s, FALSE)
  <2> USE <1>OnceTail
  <2>1. /\ Len(Tail(q)) = Len(q) - 1 /\ Len(q) \in Nat \ {0} /\ Head(q) = q[1]
        /\ \A i \in 1..(Len(q) - 1) : Tail(q)[i] = q[i + 1]
    OBVIOUS
  <2>2. ASSUME Head(q) /= s PROVE Once(Tail(q), s, b)
    <3>1. ASSUME NEW i \in 1..Len(q), q[i] = s PROVE i - 1 \in 1..(Len(q) - 1) /\ Tail(q)[i - 1] = s
      <4>1. i /= 1
        BY <2>1, <2>2, <3>1, Zenon
      <4>2. i - 1 \in 1..(Len(q) - 1) /\ (i - 1) + 1 = i
        BY <2>1, <4>1
      <4>3. Tail(q)[i - 1] = q[(i - 1) + 1]
        BY <2>1, <4>2, Zenon
      <4> QED BY <3>1, <4>2, <4>3, Zenon
    <3>2. ASSUME NEW i \in 1..Len(Tail(q)) PROVE i + 1 \in 1..Len(q) /\ Tail(q)[i] = q[i + 1]
      BY <2>1, <3>2
    <3>3. (\E i \in 1..Len(Tail(q)) : Tail(q)[i] = s) <=> (\E i \in 1..Len(q) : q[i] = s)
      BY <2>1, <3>1, <3>2, Zenon
    <3>4. ASSUME NEW i \in 1..Len(Tail(q)), NEW j \in 1..Len(Tail(q)), Tail(q)[i] = s, Tail(q)[j] = s
          PROVE  i = j
      <4>1. i + 1 = j + 1
        BY <3>2, <3>4, Zenon DEF Once
      <4> QED BY <4>1
    <3> QED BY <3>3, <3>4, Zenon DEF Once
  <2>3. ASSUME Head(q) = s PROVE Once(Tail(q), s, FALSE)
    <3>1. ASSUME NEW i \in 1..Len(Tail(q)) PROVE Tail(q)[i] /= s
      <4>1. i + 1 \in 1..Len(q) /\ Tail(q)[i] = q[i + 1] /\ 1 \in 1..Len(q) /\ i + 1 /= 1
        BY <2>1, <3>1
      <4> QED BY <2>1, <2>3, <4>1, Zenon DEF Once
    <3> QED BY <3>1, Zenon DEF Once
  <2> QED BY <2>2, <2>3, Zenon

\* A stream goes back to the front.
<1>OnceFront.
      ASSUME NEW q \in Seq(Sids), NEW s \in Sids, NEW b \in BOOLEAN, Once(q, s, b), NEW t \in Sids,
             t = s => ~b
      PROVE  Once(<<t>> \o q, s, b \/ t = s)
  <2> USE <1>OnceFront
  <2>1. /\ Len(<<t>> \o q) = Len(q) + 1 /\ (<<t>> \o q)[1] = t /\ Len(q) \in Nat
        /\ \A i \in 1..Len(q) : (<<t>> \o q)[i + 1] = q[i]
    OBVIOUS
  <2> DEFINE r == <<t>> \o q
  <2> HIDE DEF r
  <2>2. /\ Len(r) = Len(q) + 1 /\ r[1] = t /\ Len(q) \in Nat
        /\ \A i \in 1..Len(q) : r[i + 1] = q[i]
    BY <2>1, Zenon DEF r
  <2>3. ASSUME NEW i \in 1..Len(r), i /= 1 PROVE i - 1 \in 1..Len(q) /\ r[i] = q[i - 1]
    <3>1. i - 1 \in 1..Len(q) /\ (i - 1) + 1 = i
      BY <2>2, <2>3
    <3>2. r[(i - 1) + 1] = q[i - 1]
      BY <2>2, <3>1, Zenon
    <3> QED BY <3>1, <3>2, Zenon
  <2>4. (\E i \in 1..Len(r) : r[i] = s) <=> (b \/ t = s)
    <3>1. ASSUME NEW i \in 1..Len(r), r[i] = s PROVE b \/ t = s
      <4>1. CASE i = 1
        BY <2>2, <3>1, <4>1, Zenon
      <4>2. CASE i /= 1
        BY <2>3, <3>1, <4>2, Zenon DEF Once
      <4> QED BY <4>1, <4>2, Zenon
    <3>2. CASE t = s
      <4>1. 1 \in 1..Len(r) /\ r[1] = s
        BY <2>2, <3>2
      <4> QED BY <3>2, <4>1, Zenon
    <3>3. ASSUME b PROVE \E i \in 1..Len(r) : r[i] = s
      <4>1. PICK i \in 1..Len(q) : q[i] = s
        BY <3>3, Zenon DEF Once
      <4>2. i + 1 \in 1..Len(r) /\ r[i + 1] = s
        BY <2>2, <4>1
      <4> QED BY <4>2, Zenon
    <3> QED BY <3>1, <3>2, <3>3, Zenon
  <2>5. ASSUME NEW i \in 1..Len(r), NEW j \in 1..Len(r), r[i] = s, r[j] = s PROVE i = j
    <3>1. CASE i = 1 /\ j = 1
      BY <3>1, Zenon
    <3>2. CASE i /= 1 /\ j /= 1
      <4>1. i - 1 = j - 1
        BY <2>3, <2>5, <3>2, Zenon DEF Once
      <4> QED BY <4>1
    <3>3. CASE i = 1 /\ j /= 1
      BY <2>2, <2>3, <2>5, <3>3 DEF Once
    <3>4. CASE i /= 1 /\ j = 1
      BY <2>2, <2>3, <2>5, <3>4 DEF Once
    <3> QED BY <3>1, <3>2, <3>3, <3>4, Zenon
  <2> QED BY <2>4, <2>5, Zenon DEF Once, r

\* A level and, behind it, streams that it does not hold.
<1>OnceConcat.
      ASSUME NEW q \in Seq(Sids), NEW f \in Seq(Sids), NEW s \in Sids, NEW b \in BOOLEAN,
             NEW c \in BOOLEAN, Once(q, s, b), Once(f, s, c), ~(b /\ c)
      PROVE  Once(q \o f, s, b \/ c)
  <2> USE <1>OnceConcat
  <2> DEFINE r == q \o f
  <2>1. /\ Len(r) = Len(q) + Len(f) /\ Len(q) \in Nat /\ Len(f) \in Nat
        /\ \A i \in 1..Len(q) : r[i] = q[i]
        /\ \A i \in 1..Len(f) : r[Len(q) + i] = f[i]
    OBVIOUS
  <2> HIDE DEF r
  <2>2. ASSUME NEW i \in 1..Len(r)
        PROVE  \/ i \in 1..Len(q) /\ r[i] = q[i]
               \/ i - Len(q) \in 1..Len(f) /\ r[i] = f[i - Len(q)]
    <3>1. CASE i <= Len(q)
      BY <2>1, <3>1
    <3>2. CASE ~(i <= Len(q))
      <4>1. i - Len(q) \in 1..Len(f) /\ Len(q) + (i - Len(q)) = i
        BY <2>1, <3>2
      <4>2. r[Len(q) + (i - Len(q))] = f[i - Len(q)]
        BY <2>1, <4>1, Zenon
      <4> QED BY <4>1, <4>2, Zenon
    <3> QED BY <3>1, <3>2, Zenon
  <2>3. (\E i \in 1..Len(r) : r[i] = s) <=> (b \/ c)
    <3>1. ASSUME NEW i \in 1..Len(r), r[i] = s PROVE b \/ c
      BY <2>2, <3>1, Zenon DEF Once
    <3>2. ASSUME b PROVE \E i \in 1..Len(r) : r[i] = s
      <4>1. PICK i \in 1..Len(q) : q[i] = s
        BY <3>2, Zenon DEF Once
      <4>2. i \in 1..Len(r) /\ r[i] = s
        BY <2>1, <4>1
      <4> QED BY <4>2, Zenon
    <3>3. ASSUME c PROVE \E i \in 1..Len(r) : r[i] = s
      <4>1. PICK i \in 1..Len(f) : f[i] = s
        BY <3>3, Zenon DEF Once
      <4>2. Len(q) + i \in 1..Len(r) /\ r[Len(q) + i] = s
        BY <2>1, <4>1
      <4> QED BY <4>2, Zenon
    <3> QED BY <3>1, <3>2, <3>3, Zenon
  <2>4. ASSUME NEW i \in 1..Len(r), NEW j \in 1..Len(r), r[i] = s, r[j] = s PROVE i = j
    <3>1. \A k \in 1..Len(q) : q[k] = s => b
      BY Zenon DEF Once
    <3>2. \A k \in 1..Len(f) : f[k] = s => c
      BY Zenon DEF Once
    <3>3. CASE i \in 1..Len(q) /\ r[i] = q[i] /\ j \in 1..Len(q) /\ r[j] = q[j]
      BY <2>4, <3>3, Zenon DEF Once
    <3>4. CASE /\ i - Len(q) \in 1..Len(f) /\ r[i] = f[i - Len(q)]
               /\ j - Len(q) \in 1..Len(f) /\ r[j] = f[j - Len(q)]
      <4>1. i - Len(q) = j - Len(q)
        BY <2>4, <3>4, Zenon DEF Once
      <4> QED BY <2>1, <4>1
    <3>5. ~(\E k \in 1..Len(q) : q[k] = s) \/ ~(\E k \in 1..Len(f) : f[k] = s)
      BY <3>1, <3>2, Zenon
    <3> QED BY <2>2, <2>4, <3>3, <3>4, <3>5, Zenon
  <2> QED BY <2>3, <2>4, Zenon DEF Once, r

\* The queue stays, and the streams too or they leave the table.
<1>SameQueue.
      ASSUME QueueInv, UNCHANGED <<sendQ, inSendQ>>,
             \A s \in Sids : phase'[s] = "gone" \/ SameStream(s)
      PROVE  QueueInv'
  <2> USE <1>SameQueue
  <2> SUFFICES ASSUME NEW s \in Sids PROVE Placed(s)' /\ Waits(s)'
    BY Zenon DEF QueueInv
  <2>1. CASE phase'[s] = "gone"
    <3>1. phase'[s] \notin {"none", "streaming", "finished", "idle"}
      BY <2>1, Zenon
    <3> QED BY <2>1, <3>1, Zenon DEF Placed, Waits, Open
  <2>2. CASE SameStream(s)
    <3>1. Placed(s)'
      BY <2>2, Zenon DEF QueueInv, Placed, SameStream
    <3>2. Waits(s)'
      BY <2>2, Zenon DEF QueueInv, Waits, Open, Sendable, SameStream
    <3> QED BY <3>1, <3>2, Zenon
  <2> QED BY <2>1, <2>2, Zenon

\* h2Enqueue, for a stream that is in the table.
<1>EnqueuedQueue.
      ASSUME Shape, QueueInv, NEW s \in Sids, phase[s] /= "gone", NEW b, NEW w, NEW fin \in BOOLEAN,
             Enqueued(s, b, w, fin),
             pending'[s] = b, win'[s] = w, (phase'[s] = "finished") => fin,
             phase'[s] /= "idle",
             \A t \in Sids : t /= s => SameStream(t)
      PROVE  QueueInv'
  <2> USE <1>EnqueuedQueue
  <2>1. /\ Urgency[s] \in 0..1 /\ sendQ \in [0..1 -> Seq(Sids)] /\ inSendQ \in [Sids -> BOOLEAN]
    BY H2Assumption, Zenon DEF Shape
  <2>2. ASSUME NEW t \in Sids PROVE Placed(t)'
    <3>1. CASE UNCHANGED <<inSendQ, sendQ>>
      <4>1. phase'[t] /= "gone" => phase[t] /= "gone"
        BY Zenon DEF SameStream
      <4> QED BY <3>1, <4>1, Zenon DEF QueueInv, Placed
    <3>2. CASE /\ inSendQ' = [inSendQ EXCEPT ![s] = TRUE] /\ ~inSendQ[s]
               /\ sendQ' = [sendQ EXCEPT ![Urgency[s]] = Append(@, s)]
      <4> SUFFICES ASSUME phase[t] /= "gone", NEW u \in 0..1
                   PROVE  Once(sendQ'[u], t, inSendQ'[t] /\ u = Urgency[t])
        BY Zenon DEF Placed, SameStream
      <4>1. Once(sendQ[u], t, inSendQ[t] /\ u = Urgency[t])
        BY Zenon DEF QueueInv, Placed
      <4>2. sendQ[u] \in Seq(Sids) /\ inSendQ[t] \in BOOLEAN
        BY <2>1, Zenon
      <4>3. CASE u /= Urgency[s]
        <5>1. sendQ'[u] = sendQ[u] /\ (inSendQ'[t] /\ u = Urgency[t]) = (inSendQ[t] /\ u = Urgency[t])
          BY <2>1, <3>2, <4>3, Zenon
        <5> QED BY <4>1, <5>1, Zenon
      <4>4. CASE u = Urgency[s] /\ t = s
        <5>1. sendQ'[u] = Append(sendQ[u], s) /\ (inSendQ'[t] /\ u = Urgency[t]) = TRUE
          BY <2>1, <3>2, <4>4, Zenon
        <5>2. Once(sendQ[u], s, FALSE)
          <6>1. (inSendQ[t] /\ u = Urgency[t]) = FALSE
            BY <3>2, <4>4, Zenon
          <6> QED BY <4>1, <4>4, <6>1, Zenon
        <5> QED BY <4>2, <4>4, <5>1, <5>2, <1>OnceAppend, Zenon
      <4>5. CASE u = Urgency[s] /\ t /= s
        <5>1. /\ sendQ'[u] = Append(sendQ[u], s)
              /\ (inSendQ'[t] /\ u = Urgency[t]) = (inSendQ[t] /\ u = Urgency[t])
              /\ (inSendQ[t] /\ u = Urgency[t]) \in BOOLEAN
          BY <2>1, <3>2, <4>5, Zenon
        <5> QED BY <4>1, <4>2, <4>5, <5>1, <1>OnceAppendOther, Zenon
      <4> QED BY <4>3, <4>4, <4>5, Zenon
    <3> QED BY <3>1, <3>2, Zenon DEF Enqueued
  <2>3. ASSUME NEW t \in Sids PROVE Waits(t)'
    <3>1. inSendQ[t] => inSendQ'[t]
      BY <2>1, Zenon DEF Enqueued
    <3>2. CASE t /= s
      <4>1. inSendQ'[t] = inSendQ[t]
        BY <2>1, <3>2, Zenon DEF Enqueued
      <4> QED BY <3>2, <4>1, Zenon DEF QueueInv, Waits, Open, Sendable, SameStream
    <3>3. CASE t = s
      <4>1. Sendable(s, b, w, fin) => inSendQ'[s]
        BY <2>1, <3>1, <3>3, Zenon DEF Enqueued
      <4>2. Sendable(s, b, w, phase'[s] = "finished") => Sendable(s, b, w, fin)
        BY Zenon DEF Sendable
      <4>3. (Open(s)' /\ Sendable(s, b, w, phase'[s] = "finished") => inSendQ'[s]) => Waits(s)'
        BY Zenon DEF Waits, Sendable
      <4> QED BY <3>3, <4>1, <4>2, <4>3, Zenon
    <3> QED BY <3>2, <3>3, Zenon
  <2> QED BY <2>2, <2>3, Zenon DEF QueueInv

\* A stream comes off its level and stays off: it is gone, or it cannot send.
<1>DroppedQueue.
      ASSUME Shape, QueueInv, NEW u \in 0..1, NEW s \in Sids, sendQ[u] /= <<>>,
             s = Head(sendQ[u]), Dropped(u, s), phase[s] \in Phases,
             \A t \in Sids : t /= s => SameStream(t),
             \/ phase'[s] = "gone"
             \/ /\ SameStream(s)
                /\ Open(s) => ~Sendable(s, pending[s], win[s], phase[s] = "finished")
      PROVE  QueueInv'
  <2> USE <1>DroppedQueue
  <2>1. sendQ \in [0..1 -> Seq(Sids)] /\ inSendQ \in [Sids -> BOOLEAN] /\ sendQ[u] \in Seq(Sids)
    BY Zenon DEF Shape
  <2>2. /\ sendQ'[u] = Tail(sendQ[u]) /\ \A v \in 0..1 : v /= u => sendQ'[v] = sendQ[v]
        /\ inSendQ'[s] = (~Open(s) /\ inSendQ[s])
        /\ \A t \in Sids : t /= s => inSendQ'[t] = inSendQ[t]
    BY <2>1, Zenon DEF Dropped
  <2>3. ASSUME NEW t \in Sids, t /= s PROVE Placed(t)' /\ Waits(t)'
    <3>1. Waits(t)'
      BY <2>2, <2>3, Zenon DEF QueueInv, Waits, Open, Sendable, SameStream
    <3>2. ASSUME phase[t] /= "gone", NEW v \in 0..1
          PROVE  Once(sendQ'[v], t, inSendQ[t] /\ v = Urgency[t])
      <4>1. Once(sendQ[v], t, inSendQ[t] /\ v = Urgency[t])
        BY <3>2, Zenon DEF QueueInv, Placed
      <4>2. (inSendQ[t] /\ v = Urgency[t]) \in BOOLEAN
        BY Zenon
      <4>3. CASE v = u
        BY <2>1, <2>2, <2>3, <4>1, <4>2, <4>3, <1>OnceTail, Zenon
      <4>4. CASE v /= u
        BY <2>2, <4>1, <4>4, Zenon
      <4> QED BY <4>3, <4>4, Zenon
    <3>3. Placed(t)'
      BY <2>2, <2>3, <3>2, Zenon DEF Placed, SameStream
    <3> QED BY <3>1, <3>3, Zenon
  <2>4. CASE phase'[s] = "gone"
    <3>1. Placed(s)' /\ Waits(s)'
      <4>1. phase'[s] \notin {"none", "streaming", "finished", "idle"}
        BY <2>4, Zenon
      <4> QED BY <2>4, <4>1, Zenon DEF Placed, Waits, Open
    <3> QED BY <2>3, <3>1, Zenon DEF QueueInv
  <2>5. CASE /\ SameStream(s) /\ phase[s] /= "gone"
             /\ Open(s) => ~Sendable(s, pending[s], win[s], phase[s] = "finished")
    <3>1. \A v \in 0..1 : Once(sendQ[v], s, inSendQ[s] /\ v = Urgency[s])
      BY <2>5, Zenon DEF QueueInv, Placed
    <3>2. inSendQ[s] /\ u = Urgency[s]
      <4>1. 1 \in 1..Len(sendQ[u]) /\ sendQ[u][1] = s
        BY <2>1
      <4> QED BY <3>1, <4>1, Zenon DEF Once
    <3>3. Open(s) /\ inSendQ'[s] = FALSE
      <4>1. Open(s)
        BY <2>5, <3>2, Zenon DEF Phases, Open, QueueInv, Waits
      <4> QED BY <2>2, <4>1, Zenon
    <3>4. ASSUME NEW v \in 0..1 PROVE Once(sendQ'[v], s, FALSE)
      <4>1. Once(sendQ[v], s, inSendQ[s] /\ v = Urgency[s]) /\ (inSendQ[s] /\ v = Urgency[s]) \in BOOLEAN
        BY <3>1, Zenon
      <4>2. CASE v = u
        BY <2>1, <2>2, <4>1, <4>2, <1>OnceTail, Zenon
      <4>3. CASE v /= u
        <5>1. (inSendQ[s] /\ v = Urgency[s]) = FALSE
          BY <3>2, <4>3, Zenon
        <5> QED BY <2>2, <4>1, <4>3, <5>1, Zenon
      <4> QED BY <4>2, <4>3, Zenon
    <3>5. Placed(s)'
      <4>1. ASSUME NEW v \in 0..1 PROVE (inSendQ'[s] /\ v = Urgency[s]) = FALSE
        BY <3>3, Zenon
      <4> QED BY <3>4, <4>1, Zenon DEF Placed
    <3>6. Waits(s)'
      BY <2>5, <3>3, Zenon DEF Waits, Open, Sendable, SameStream
    <3> QED BY <2>3, <3>5, <3>6, Zenon DEF QueueInv
  <2> QED BY <2>4, <2>5, Zenon DEF SameStream

\* A stream comes off its level, and is put behind it or in front of it again while it
\* can send.
<1>RequeuedQueue.
      ASSUME Shape, QueueInv, NEW u \in 0..1, NEW s \in Sids, sendQ[u] /= <<>>,
             s = Head(sendQ[u]), Open(s), NEW b, NEW w \in Int, Requeued(s, Tail(sendQ[u]), b, w),
             \A t \in Sids : t /= s => SameStream(t),
             \/ phase'[s] = "gone"
             \/ /\ phase'[s] = phase[s] /\ pending'[s] = b /\ win'[s] = w
                /\ b = <<>> => phase[s] /= "finished"
      PROVE  QueueInv'
  <2> USE <1>RequeuedQueue
  <2> DEFINE again == Sendable(s, b, w, FALSE)  q == Tail(sendQ[u])
  <2>1. sendQ \in [0..1 -> Seq(Sids)] /\ inSendQ \in [Sids -> BOOLEAN] /\ sendQ[u] \in Seq(Sids)
    BY Zenon DEF Shape
  <2>2. phase[s] /= "gone" /\ phase[s] /= "idle"
    BY Zenon DEF Open
  <2>3. \A v \in 0..1 : Once(sendQ[v], s, inSendQ[s] /\ v = Urgency[s])
    BY <2>2, Zenon DEF QueueInv, Placed
  <2>4. inSendQ[s] /\ u = Urgency[s]
    <3>1. 1 \in 1..Len(sendQ[u]) /\ sendQ[u][1] = s
      BY <2>1
    <3> QED BY <2>3, <3>1, Zenon DEF Once
  <2>5. again \in BOOLEAN
    <3>1. CASE b = <<>>
      BY <3>1, Zenon DEF Sendable
    <3>2. CASE b /= <<>>
      <4>1. again = (w > 0)
        BY <3>2, Zenon DEF Sendable
      <4>2. (w > 0) \in BOOLEAN
        OBVIOUS
      <4> QED BY <4>1, <4>2, Zenon
    <3> QED BY <3>1, <3>2, Zenon
  <2> HIDE DEF again
  <2>6. /\ inSendQ' = [inSendQ EXCEPT ![s] = again]
        /\ sendQ' = [sendQ EXCEPT ![u] = CASE ~again -> q
                                          [] again /\ s \in Incremental -> Append(q, s)
                                          [] OTHER -> <<s>> \o q]
    BY <2>4, Zenon DEF Requeued, again
  <2>7. /\ inSendQ'[s] = again /\ \A t \in Sids : t /= s => inSendQ'[t] = inSendQ[t]
        /\ \A v \in 0..1 : v /= u => sendQ'[v] = sendQ[v]
        /\ q \in Seq(Sids)
    BY <2>1, <2>6
  <2>8. /\ ~again => sendQ'[u] = q
        /\ again => sendQ'[u] = Append(q, s) \/ sendQ'[u] = <<s>> \o q
    BY <2>1, <2>5, <2>6, Zenon
  <2> HIDE DEF q
  <2>9. ASSUME NEW t \in Sids, t /= s PROVE Placed(t)' /\ Waits(t)'
    <3>1. Waits(t)'
      BY <2>7, <2>9, Zenon DEF QueueInv, Waits, Open, Sendable, SameStream
    <3>2. ASSUME phase[t] /= "gone", NEW v \in 0..1
          PROVE  Once(sendQ'[v], t, inSendQ[t] /\ v = Urgency[t])
      <4> DEFINE c == inSendQ[t] /\ v = Urgency[t]
      <4>1. Once(sendQ[v], t, c)
        BY <3>2, Zenon DEF QueueInv, Placed
      <4>2. c \in BOOLEAN
        BY Zenon
      <4> HIDE DEF c
      <4>3. CASE v = u
        <5>1. Once(q, t, c)
          BY <2>1, <2>9, <4>1, <4>2, <4>3, <1>OnceTail, Zenon DEF q
        <5>2. Once(Append(q, s), t, c)
          BY <2>7, <2>9, <4>2, <5>1, <1>OnceAppendOther, Zenon
        <5>3. Once(<<s>> \o q, t, c)
          <6>1. Once(<<s>> \o q, t, c \/ s = t)
            BY <2>7, <2>9, <4>2, <5>1, <1>OnceFront, Zenon
          <6>2. (c \/ s = t) = c
            BY <2>9, <4>2, Zenon
          <6> QED BY <6>1, <6>2, Zenon
        <5> QED BY <2>5, <2>8, <4>3, <5>1, <5>2, <5>3, Zenon DEF c
      <4>4. CASE v /= u
        BY <2>7, <4>1, <4>4, Zenon DEF c
      <4> QED BY <4>3, <4>4, Zenon
    <3>3. Placed(t)'
      BY <2>7, <2>9, <3>2, Zenon DEF Placed, SameStream
    <3> QED BY <3>1, <3>3, Zenon
  <2>10. Placed(s)'
    <3>1. ASSUME NEW v \in 0..1 PROVE Once(sendQ'[v], s, again /\ v = Urgency[s])
      <4>1. Once(sendQ[v], s, inSendQ[s] /\ v = Urgency[s]) /\ (inSendQ[s] /\ v = Urgency[s]) \in BOOLEAN
        BY <2>3, Zenon
      <4>2. CASE v = u
        <5>1. Once(q, s, FALSE)
          BY <2>1, <4>1, <4>2, <1>OnceTail, Zenon DEF q
        <5>2. CASE ~again
          <6>1. (again /\ v = Urgency[s]) = FALSE
            BY <5>2, Zenon
          <6> QED BY <2>8, <4>2, <5>1, <5>2, <6>1, Zenon
        <5>3. CASE again
          <6>1. (again /\ v = Urgency[s]) = TRUE
            BY <2>4, <4>2, <5>3, Zenon
          <6>2. Once(Append(q, s), s, TRUE)
            BY <2>7, <5>1, <1>OnceAppend, Zenon
          <6>3. Once(<<s>> \o q, s, TRUE)
            <7>1. Once(<<s>> \o q, s, FALSE \/ s = s)
              BY <2>7, <5>1, <1>OnceFront, Zenon
            <7>2. (FALSE \/ s = s) = TRUE
              BY Zenon
            <7> QED BY <7>1, <7>2, Zenon
          <6> QED BY <2>8, <4>2, <5>3, <6>1, <6>2, <6>3, Zenon
        <5> QED BY <5>2, <5>3, Zenon
      <4>3. CASE v /= u
        <5>1. (inSendQ[s] /\ v = Urgency[s]) = FALSE /\ (again /\ v = Urgency[s]) = FALSE
          BY <2>4, <4>3, Zenon
        <5> QED BY <2>7, <4>1, <4>3, <5>1, Zenon
      <4> QED BY <4>2, <4>3, Zenon
    <3> QED BY <2>7, <3>1, Zenon DEF Placed
  <2>11. Waits(s)'
    <3>1. CASE phase'[s] = "gone"
      <4>1. phase'[s] \notin {"none", "streaming", "finished", "idle"}
        BY <3>1, Zenon
      <4> QED BY <4>1, Zenon DEF Waits, Open
    <3>2. CASE /\ phase'[s] = phase[s] /\ pending'[s] = b /\ win'[s] = w
               /\ b = <<>> => phase[s] /= "finished"
      <4>1. Sendable(s, b, w, phase[s] = "finished") => again
        BY <3>2, Zenon DEF Sendable, again
      <4> QED BY <2>2, <2>7, <3>2, <4>1, Zenon DEF Waits, Sendable
    <3> QED BY <3>1, <3>2, Zenon
  <2> QED BY <2>9, <2>10, <2>11, Zenon DEF QueueInv

\* Gone takes one stream out of the table.
<1>GoneStream.
      ASSUME Shape, NEW s \in Sids, Gone(s)
      PROVE  /\ phase'[s] = "gone" /\ \A t \in Sids : t /= s => SameStream(t)
    BY <1>GoneStream, Zenon DEF Shape, Gone, SameStream

\* A stream that leaves the table, with the queue kept.
<1>GoneQueue.
      ASSUME Shape, QueueInv, NEW s \in Sids, Gone(s), UNCHANGED <<sendQ, inSendQ>>
      PROVE  QueueInv'
  <2> USE <1>GoneQueue
  <2>1. /\ phase'[s] = "gone" /\ \A t \in Sids : t /= s => SameStream(t)
    BY <1>GoneStream, Zenon
  <2> QED BY <2>1, <1>SameQueue, Zenon

\* closeConn.
<1>ClosesQueue.
      ASSUME QueueInv, Closes
      PROVE  QueueInv'
  <2> USE <1>ClosesQueue
  <2> SUFFICES ASSUME NEW s \in Sids PROVE Placed(s)' /\ Waits(s)'
    BY Zenon DEF QueueInv
  <2>1. phase'[s] = "gone"
    BY Zenon DEF Closes
  <2> QED BY <2>1, Zenon DEF Placed, Waits, Open

\* The head of a response.
<1>SendHeadQueue.
      ASSUME Shape, QueueInv, NEW s \in Sids, SendHead(s)
      PROVE  QueueInv'
  <2> USE <1>SendHeadQueue
  <2>1. /\ phase[s] = "none" /\ phase' = [phase EXCEPT ![s] = "streaming"]
        /\ UNCHANGED <<sendQ, inSendQ, pending, win>>
    BY Zenon DEF SendHead
  <2>2. phase'[s] = "streaming" /\ \A t \in Sids : t /= s => phase'[t] = phase[t]
    BY <2>1, Zenon DEF Shape
  <2> SUFFICES ASSUME NEW t \in Sids PROVE Placed(t)' /\ Waits(t)'
    BY Zenon DEF QueueInv
  <2>3. phase'[t] /= "gone" => phase[t] /= "gone"
    BY <2>1, <2>2, Zenon
  <2>4. /\ Open(t)' => Open(t)
        /\ (phase'[t] = "finished") <=> (phase[t] = "finished")
        /\ phase'[t] = "idle" => phase[t] = "idle"
    BY <2>1, <2>2, Zenon DEF Open
  <2>5. Placed(t)'
    BY <2>1, <2>3, Zenon DEF QueueInv, Placed
  <2>6. Waits(t)'
    <3>1. Waits(t) /\ inSendQ'[t] = inSendQ[t] /\ pending'[t] = pending[t] /\ win'[t] = win[t]
      BY <2>1, Zenon DEF QueueInv
    <3>2. /\ (phase'[t] = "finished") = (phase[t] = "finished")
          /\ Open(t)' => Open(t)
          /\ phase'[t] = "idle" => phase[t] = "idle"
      BY <2>4, Zenon
    <3>3. Sendable(t, pending[t], win[t], phase'[t] = "finished")
            = Sendable(t, pending[t], win[t], phase[t] = "finished")
      BY <3>2, Zenon
    <3> QED BY <3>1, <3>2, <3>3, Zenon DEF Waits
  <2> QED BY <2>5, <2>6, Zenon

\* A new request, which has nothing to send.
<1>HeadersInQueue.
      ASSUME BodyInv, QueueInv, NEW s \in Sids, HeadersIn(s)
      PROVE  QueueInv'
  <2> USE <1>HeadersInQueue
  <2>1. /\ phase[s] = "idle" /\ phase' = [phase EXCEPT ![s] = "none"]
        /\ win' = [win EXCEPT ![s] = initWin] /\ UNCHANGED <<sendQ, inSendQ, pending>>
    BY Zenon DEF HeadersIn
  <2>2. /\ phase'[s] = "none" /\ \A t \in Sids : t /= s => SameStream(t)
    BY <2>1, Zenon DEF BodyInv, Shape, SameStream
  <2>3. pending[s] = <<>>
    <3>1. Body("idle", written[s], pending[s], wire[s], ended[s])
      BY <2>1, Zenon DEF BodyInv, Stream
    <3>2. "idle" /= "gone" /\ "idle" \in {"idle", "none"}
      BY Zenon
    <3>3. /\ pending[s] \in Seq(Nat) /\ wire[s] \in Seq(Nat) /\ written[s] = 0
          /\ Len(wire[s]) + Len(pending[s]) = 0
      BY <3>1, <3>2, Zenon DEF Body
    <3>4. \A x, q \in Seq(Nat) : Len(x) + Len(q) = 0 => q = <<>>
      OBVIOUS
    <3> QED BY <3>3, <3>4, Zenon
  <2>4. Placed(s)'
    BY <2>1, <2>2, Zenon DEF QueueInv, Placed
  <2>5. Waits(s)'
    <3>1. pending'[s] = <<>> /\ phase'[s] /= "finished" /\ phase'[s] /= "idle"
      BY <2>1, <2>2, <2>3, Zenon
    <3> QED BY <3>1, Zenon DEF Waits, Sendable
  <2>6. ASSUME NEW t \in Sids, t /= s PROVE Placed(t)' /\ Waits(t)'
    <3>1. Placed(t)'
      BY <2>1, <2>2, <2>6, Zenon DEF QueueInv, Placed, SameStream
    <3>2. Waits(t)'
      BY <2>1, <2>2, <2>6, Zenon DEF QueueInv, Waits, Open, Sendable, SameStream
    <3> QED BY <3>1, <3>2, Zenon
  <2> QED BY <2>4, <2>5, <2>6, Zenon DEF QueueInv

\* res.write: h2Enqueue for what it leaves in the backlog.
<1>WriteQueue.
      ASSUME Shape, QueueInv, NEW s \in Sids, NEW n \in Sizes, Write(s, n)
      PROVE  QueueInv'
  <2> USE <1>WriteQueue
  <2>1. /\ phase[s] = "streaming" /\ Enqueued(s, pending'[s], win'[s], FALSE) /\ phase' = phase
        /\ \E q : pending' = [pending EXCEPT ![s] = q]
        /\ \E w : win' = [win EXCEPT ![s] = w]
    BY Zenon DEF Write
  <2>2. phase'[s] = "streaming" /\ \A t \in Sids : t /= s => SameStream(t)
    BY <2>1, Zenon DEF Shape, SameStream
  <2>3. phase[s] /= "gone" /\ ((phase'[s] = "finished") => FALSE) /\ phase'[s] /= "idle"
    BY <2>1, <2>2, Zenon
  <2> QED BY <2>1, <2>2, <2>3, <1>EnqueuedQueue, Zenon

\* res.finish: h2Enqueue for the rest and its END_STREAM.
<1>FinishQueue.
      ASSUME Shape, QueueInv, NEW s \in Sids, Finish(s)
      PROVE  QueueInv'
  <2> USE <1>FinishQueue
  <2>1. CASE pending[s] = <<>>
    <3>1. Gone(s) /\ UNCHANGED <<inSendQ, sendQ>>
      BY <2>1, Zenon DEF Finish, EmitEnd
    <3> QED BY <3>1, <1>GoneQueue, Zenon
  <2>2. CASE pending[s] /= <<>>
    <3>1. /\ phase[s] = "streaming" /\ phase' = [phase EXCEPT ![s] = "finished"]
          /\ Enqueued(s, pending[s], win[s], TRUE) /\ UNCHANGED <<pending, win>>
      BY <2>2, Zenon DEF Finish
    <3>2. /\ phase[s] /= "gone" /\ phase'[s] /= "idle"
          /\ pending'[s] = pending[s] /\ win'[s] = win[s] /\ TRUE \in BOOLEAN
          /\ \A t \in Sids : t /= s => SameStream(t)
      BY <3>1, Zenon DEF Shape, SameStream
    <3> QED BY <3>1, <3>2, <1>EnqueuedQueue, Zenon
  <2> QED BY <2>1, <2>2, Zenon

\* A WINDOW_UPDATE of a stream: h2Enqueue for the new window.
<1>WindowUpdateQueue.
      ASSUME Shape, QueueInv, NEW s \in Sids, NEW inc \in Grants, WindowUpdate(s, inc)
      PROVE  QueueInv'
  <2> USE <1>WindowUpdateQueue
  <2>1. CASE TooLarge(win[s] + inc)
    <3>1. Gone(s) /\ UNCHANGED <<inSendQ, sendQ>>
      BY <2>1, Zenon DEF WindowUpdate, Resets
    <3> QED BY <3>1, <1>GoneQueue, Zenon
  <2>2. CASE ~TooLarge(win[s] + inc)
    <3>1. /\ Open(s) /\ win' = [win EXCEPT ![s] = @ + inc]
          /\ Enqueued(s, pending[s], win[s] + inc, phase[s] = "finished")
          /\ UNCHANGED <<phase, pending>>
      BY <2>2, Zenon DEF WindowUpdate
    <3>2. /\ phase[s] /= "gone" /\ phase'[s] /= "idle"
          /\ pending'[s] = pending[s] /\ win'[s] = win[s] + inc
          /\ (phase'[s] = "finished") => (phase[s] = "finished")
          /\ \A t \in Sids : t /= s => SameStream(t)
      BY <3>1, Zenon DEF Shape, SameStream, Open
    <3>3. (phase[s] = "finished") \in BOOLEAN
      BY Zenon
    <3> QED BY <3>1, <3>2, <3>3, <1>EnqueuedQueue, Zenon
  <2> QED BY <2>1, <2>2, Zenon

\* A turn of the scheduler: the stream is dropped, or goes back while it can send.
<1>EmitQueue.
      ASSUME BodyInv, QueueInv, Emit
      PROVE  QueueInv'
  <2> USE <1>EmitQueue
  <2>0. Shape
    BY Zenon DEF BodyInv
  <2>1. PICK u \in 0..1, s \in Sids :
          /\ sendQ[u] /= <<>> /\ s = Head(sendQ[u])
          /\ TurnEnds(u, s) \/ TurnSends(u, s) \/ TurnSkips(u, s)
          /\ PassGoes /\ On("pass") /\ UNCHANGED <<up, initWin, kicks, armed, written, parked>>
    BY <2>0, EmitTurns, Zenon
  <2>p. phase[s] \in Phases /\ win[s] \in Int
    <3>1. phase[s] \in Phases /\ win[s] \in Window
      BY Zenon DEF BodyInv, Stream, Body
    <3> QED BY <3>1, H2Assumption DEF Window
  <2>2. CASE TurnEnds(u, s)
    <3>1. Gone(s) /\ Dropped(u, s)
      BY <2>2, Zenon DEF TurnEnds, EmitEnd
    <3> QED BY <2>0, <2>1, <2>p, <3>1, <1>GoneStream, <1>DroppedQueue, Zenon
  <2>3. CASE TurnSends(u, s)
    <3> DEFINE b == pending'[s]  w == win'[s]
    <3>1. /\ Open(s) /\ Requeued(s, Tail(sendQ[u]), b, w) /\ EmitData(s, Chunk(s))
      BY <2>3, Zenon DEF TurnSends
    <3>2. Chunk(s) \in Int
      BY ChunkFits, Zenon
    <3>3. CASE Gone(s)
      <4>1. win'[s] \in Int
        BY <2>0, <3>3 DEF Shape, Gone
      <4> QED BY <2>0, <2>1, <3>1, <3>3, <4>1, <1>GoneStream, <1>RequeuedQueue, Zenon
    <3>4. CASE ~Gone(s)
      <4>1. /\ ~(Left(s, Chunk(s)) = <<>> /\ phase[s] = "finished")
            /\ pending' = [pending EXCEPT ![s] = Left(s, Chunk(s))]
            /\ win' = [win EXCEPT ![s] = @ - Chunk(s)] /\ phase' = phase
        BY <3>1, <3>4, Zenon DEF EmitData
      <4>2. /\ phase'[s] = phase[s] /\ b = Left(s, Chunk(s)) /\ w = win[s] - Chunk(s)
            /\ \A t \in Sids : t /= s => SameStream(t)
        BY <2>0, <4>1, Zenon DEF Shape, SameStream
      <4>3. w \in Int
        BY <2>p, <3>2, <4>2
      <4>4. b = <<>> => phase[s] /= "finished"
        BY <4>1, <4>2, Zenon
      <4> QED BY <2>0, <2>1, <3>1, <4>2, <4>3, <4>4, <1>RequeuedQueue, Zenon
    <3> QED BY <3>3, <3>4, Zenon
  <2>4. CASE TurnSkips(u, s)
    <3>1. Dropped(u, s) /\ UNCHANGED <<phase, pending, win>>
      BY <2>4, Zenon DEF TurnSkips
    <3>2. \A t \in Sids : SameStream(t)
      BY <3>1, Zenon DEF SameStream
    <3>3. Open(s) => ~Sendable(s, pending[s], win[s], phase[s] = "finished")
      <4>1. CASE pending[s] = <<>>
        BY <2>4, <4>1, Zenon DEF TurnSkips, Sendable
      <4>2. CASE pending[s] /= <<>> /\ Open(s)
        <5>1. ~(Chunk(s) > 0)
          BY <2>4, <4>2, Zenon DEF TurnSkips
        <5>2. /\ Chunk(s) \in Int
              /\ Chunk(s) <= 0 => pending[s] = <<>> \/ win[s] <= 0 \/ connWin <= 0
          BY ChunkFits, Zenon
        <5>3. connWin \in Int /\ connWin > 0
          BY <2>0, <2>1, Zenon DEF Shape, PassGoes
        <5>4. ~(win[s] > 0)
          BY ONLY <2>p, <4>2, <5>1, <5>2, <5>3
        <5> QED BY <4>2, <5>4, Zenon DEF Sendable
      <4> QED BY <4>1, <4>2, Zenon
    <3> QED BY <2>0, <2>1, <2>p, <3>1, <3>2, <3>3, <1>DroppedQueue, Zenon
  <2> QED BY <2>1, <2>2, <2>3, <2>4, Zenon

\* An order of a set of streams holds each of them once.
<1>OrderOnce.
      ASSUME Counts, NEW S \in SUBSET Sids, NEW f \in Orders(S), NEW t \in Sids
      PROVE  Once(f, t, t \in S)
  <2> USE <1>OrderOnce
  <2>1. /\ f \in Seq(S)
        /\ \A r \in S : \E i \in 1..Len(f) : f[i] = r
        /\ \A i, j \in 1..Len(f) : f[i] = f[j] => i = j
    BY OrderIsSeq, ZenonT(30)
  <2>2. \A i \in 1..Len(f) : f[i] \in S
    BY <2>1
  <2> QED BY <2>1, <2>2, Zenon DEF Once

\* What a SETTINGS puts on level u behind its queue.
<1>JoinsLevel.
      ASSUME Counts, NEW q \in Seq(Sids), NEW S \in SUBSET Sids, NEW f \in Orders(S),
             NEW t \in Sids, NEW b \in BOOLEAN, Once(q, t, b), b => t \notin S
      PROVE  Once(q \o f, t, b \/ t \in S)
  <2> USE <1>JoinsLevel
  <2>1. f \in Seq(Sids)
    BY OrderIsSeq, Zenon
  <2>2. Once(f, t, t \in S)
    BY <1>OrderOnce, Zenon
  <2> DEFINE c == t \in S
  <2> HIDE DEF c
  <2>a. c \in BOOLEAN
    BY DEF c
  <2>b. Once(f, t, c)
    BY <2>2, Zenon DEF c
  <2>3. c \in BOOLEAN /\ Once(f, t, c) /\ ~(b /\ c)
    BY <2>a, <2>b, Zenon DEF c
  <2>4. Once(q \o f, t, b \/ c)
    BY <2>1, <2>3, <1>OnceConcat, ZenonT(30)
  <2> QED BY <2>4, Zenon DEF c

\* A SETTINGS: every stream it wakes is queued once, on its level.
<1>SettingsQueue.
      ASSUME Counts, Shape, QueueInv, NEW v \in InitWins, Settings(v)
      PROVE  QueueInv'
  <2> USE <1>SettingsQueue
  <2> DEFINE moved == [s \in Sids |-> IF Open(s) THEN win[s] + (v - initWin) ELSE win[s]]
             woken == {s \in Sids : Open(s) /\ pending[s] /= <<>> /\ moved[s] > 0 /\ ~inSendQ[s]}
             wild == \E s \in Sids : Open(s) /\ (TooLarge(moved[s]) \/ moved[s] < -(MaxWin + 1))
             at(u) == {s \in woken : Urgency[s] = u}
  <2>1. CASE wild
    BY <2>1, <1>ClosesQueue, Zenon DEF Settings
  <2>2. CASE ~wild
    <3>1. /\ win' = moved /\ inSendQ' = [s \in Sids |-> inSendQ[s] \/ s \in woken]
          /\ \E low \in Orders(at(0)), high \in Orders(at(1)) :
               sendQ' = [u \in 0..1 |-> sendQ[u] \o (IF u = 0 THEN low ELSE high)]
          /\ UNCHANGED <<phase, pending>>
      BY <2>2, Zenon DEF Settings
    <3>2. PICK low \in Orders(at(0)), high \in Orders(at(1)) :
               sendQ' = [u \in 0..1 |-> sendQ[u] \o (IF u = 0 THEN low ELSE high)]
      BY <3>1, Zenon
    <3>3. ASSUME NEW t \in Sids PROVE Placed(t)'
      <4> SUFFICES ASSUME phase[t] /= "gone", NEW u \in 0..1
                   PROVE  Once(sendQ'[u], t, inSendQ'[t] /\ u = Urgency[t])
        BY <3>1, Zenon DEF Placed
      <4> DEFINE b == inSendQ[t] /\ u = Urgency[t]
      <4>1. Once(sendQ[u], t, b)
        BY Zenon DEF QueueInv, Placed
      <4>2. \E f \in Orders(at(u)) : sendQ'[u] = sendQ[u] \o f
        <5>1. CASE u = 0
          <6>1. sendQ'[u] = sendQ[u] \o low
            BY <3>2, <5>1, Zenon
          <6> QED BY <5>1, <6>1, Zenon
        <5>2. CASE u = 1
          <6>1. sendQ'[u] = sendQ[u] \o high
            BY <3>2, <5>2
          <6> QED BY <5>2, <6>1, Zenon
        <5>3. u = 0 \/ u = 1
          OBVIOUS
        <5> QED BY <5>1, <5>2, <5>3, Zenon
      <4>3. PICK f \in Orders(at(u)) : sendQ'[u] = sendQ[u] \o f
        BY <4>2, Zenon
      <4>4. /\ sendQ[u] \in Seq(Sids) /\ at(u) \in SUBSET Sids /\ b \in BOOLEAN
            /\ b => t \notin at(u)
        <5>1. sendQ[u] \in Seq(Sids)
          BY ONLY u \in 0..1, Shape, Zenon DEF Shape
        <5>2. at(u) \in SUBSET Sids /\ (b => t \notin at(u))
          BY Zenon
        <5> QED BY <5>1, <5>2, Zenon
      <4>5. (inSendQ'[t] /\ u = Urgency[t]) = (b \/ t \in at(u))
        BY <3>1, Zenon
      <4> HIDE DEF b, at
      <4>6. Once(sendQ[u] \o f, t, b \/ t \in at(u))
        BY <4>1, <4>4, <1>JoinsLevel, Zenon
      <4> QED BY <4>3, <4>5, <4>6, Zenon
    <3>4. ASSUME NEW t \in Sids PROVE Waits(t)'
      <4>1. /\ inSendQ'[t] = (inSendQ[t] \/ t \in woken) /\ win'[t] = moved[t]
            /\ phase'[t] = phase[t] /\ pending'[t] = pending[t]
        BY <3>1, Zenon
      <4>2. CASE pending[t] = <<>>
        BY <4>1, <4>2, Zenon DEF QueueInv, Waits, Open, Sendable
      <4>3. CASE pending[t] /= <<>>
        <5>1. phase[t] = "idle" => t \notin woken
          BY Zenon DEF Open
        <5>2. Open(t) /\ moved[t] > 0 => inSendQ[t] \/ t \in woken
          BY <4>3, Zenon
        <5> HIDE DEF woken, moved
        <5> QED BY <4>1, <4>3, <5>1, <5>2, Zenon DEF QueueInv, Waits, Open, Sendable
      <4> QED BY <4>2, <4>3, Zenon
    <3> QED BY <3>3, <3>4, Zenon DEF QueueInv
  <2> QED BY <2>1, <2>2, Zenon

\* The steps that touch neither the queue nor the streams.
<1>QuietQueue.
      ASSUME QueueInv,
             \/ EndBatch \/ PassEnds \/ ScanEnds \/ CallProducer \/ ProducerReturns \/ WriteEnds
             \/ Hook \/ KickEnds \/ FlushDrained \/ FlushRefilled \/ FlushLeaves
             \/ \E left \in 1..out : FlushBlocks(left)
             \/ \E s \in Sids : ScanNext(s) \/ NextKick(s) \/ OnDrain(s)
             \/ Writable \/ RunDrainKicks
      PROVE  QueueInv'
  <2> USE <1>QuietQueue
  <2>1. UNCHANGED <<sendQ, inSendQ, phase, win, pending>>
    BY Zenon DEF EndBatch, PassEnds, ScanEnds, CallProducer, ProducerReturns, WriteEnds, Hook,
       KickEnds, FlushDrained, FlushRefilled, FlushLeaves, FlushBlocks, ScanNext, NextKick,
       OnDrain, Writable, RunDrainKicks, streamVars
  <2>2. \A s \in Sids : SameStream(s)
    BY <2>1, Zenon DEF SameStream
  <2> QED BY <2>1, <2>2, <1>SameQueue, Zenon

<1>Step.
      ASSUME Counts, BodyInv, QueueInv, Next
      PROVE  QueueInv'
  <2> USE <1>Step
  <2>0. Shape
    BY Zenon DEF BodyInv
  <2>1. ASSUME LoopStep \/ Writable \/ RunDrainKicks PROVE QueueInv'
    <3>1. CASE Emit
      BY <3>1, <1>EmitQueue, Zenon
    <3> QED BY <2>1, <3>1, <1>QuietQueue, Zenon DEF LoopStep
  <2>2. ASSUME Close PROVE QueueInv'
    BY <2>2, <1>ClosesQueue, Zenon DEF Close
  <2>3. ASSUME PeerSends PROVE QueueInv'
    <3>1. ASSUME NEW s \in Sids, RstIn(s) PROVE QueueInv'
      BY <2>0, <3>1, <1>GoneQueue, Zenon DEF RstIn
    <3>2. ASSUME NEW inc \in Grants, ConnUpdate(inc) PROVE QueueInv'
      <4>1. CASE Closes
        BY <4>1, <1>ClosesQueue, Zenon
      <4>2. CASE UNCHANGED <<sendQ, streamVars>>
        <5>1. UNCHANGED <<sendQ, inSendQ>> /\ \A s \in Sids : SameStream(s)
          BY <4>2, Zenon DEF streamVars, SameStream
        <5> QED BY <5>1, <1>SameQueue, Zenon
      <4> QED BY <3>2, <4>1, <4>2, Zenon DEF ConnUpdate
    <3> QED BY <2>0, <2>3, <3>1, <3>2, <1>HeadersInQueue, <1>WindowUpdateQueue,
                   <1>SettingsQueue, Zenon
            DEF PeerSends
  <2>4. ASSUME NEW s \in Sids, ProducerActs(s) PROVE QueueInv'
    <3>1. CASE OnDrain(s)
      BY <3>1, <1>QuietQueue, Zenon
    <3>2. CASE Abort(s)
      BY <2>0, <3>2, <1>GoneQueue, Zenon DEF Abort, Resets
    <3> QED BY <2>0, <2>4, <3>1, <3>2, <1>SendHeadQueue, <1>FinishQueue, <1>WriteQueue, Zenon
            DEF ProducerActs
  <2> QED BY <2>1, <2>2, <2>3, <2>4, Zenon DEF Next
<1> QED BY <1>Step, Zenon

-----------------------------------------------------------------------------
(* What the steps do to the stack.                                          *)

\* The top frame gives way to the calls a.
Replaces(a) ==
    /\ stk \in Seq(Frame) /\ stk /= <<>> /\ Top \in Frame /\ Tail(stk) \in Seq(Frame)
    /\ stk' \in Seq(Frame) /\ a \in Seq(Frame) /\ stk' = a \o Tail(stk)
    /\ \A F \in SUBSET Frame : /\ Some(stk, F) <=> Top \in F \/ Some(Tail(stk), F)
                               /\ Some(stk', F) <=> Some(a, F) \/ Some(Tail(stk), F)

\* The calls a are made from where the loop is, or from a new batch.
Adds(a) ==
    /\ stk \in Seq(Frame) /\ stk' \in Seq(Frame) /\ a \in Seq(Frame)
    /\ \A F \in SUBSET Frame :
         <<"batch">> \notin F => (Some(stk', F) <=> Some(a, F) \/ Some(stk, F))

\* Then is such a step.
LEMMA ThenReplaces ==
    ASSUME stk \in Seq(Frame), stk /= <<>>, NEW a \in Seq(Frame), Then(a)
    PROVE  Replaces(a)
<1>1. stk' = a \o Tail(stk)
  BY Zenon DEF Then
<1>2. Head(stk) \in Frame /\ Tail(stk) \in Seq(Frame)
  BY SomeTop, Zenon
<1>3. ASSUME NEW F \in SUBSET Frame
      PROVE  /\ Some(stk, F) <=> Head(stk) \in F \/ Some(Tail(stk), F)
             /\ Some(a \o Tail(stk), F) <=> Some(a, F) \/ Some(Tail(stk), F)
             /\ a \o Tail(stk) \in Seq(Frame)
  <2>1. Some(stk, F) <=> Head(stk) \in F \/ Some(Tail(stk), F)
    BY SomeTop, Zenon
  <2>2. /\ Some(a \o Tail(stk), F) <=> Some(a, F) \/ Some(Tail(stk), F)
        /\ a \o Tail(stk) \in Seq(Frame)
    BY <1>2, SomeOn, Zenon
  <2> QED BY <2>1, <2>2, Zenon
<1>4. {} \in SUBSET Frame
  BY Zenon
<1>5. a \o Tail(stk) \in Seq(Frame)
  BY <1>3, <1>4, Zenon
<1> QED BY <1>1, <1>2, <1>3, <1>5, Zenon DEF Replaces, Top

\* And so is a return.
LEMMA ReturnReplaces ==
    ASSUME stk \in Seq(Frame), stk /= <<>>, Returns
    PROVE  Replaces(<<>>)
<1>1. Tail(stk) \in Seq(Frame)
  OBVIOUS
<1>2. <<>> \o Tail(stk) = Tail(stk)
  BY <1>1
<1>3. Then(<<>>)
  BY <1>2, Zenon DEF Returns, Then
<1>4. <<>> \in Seq(Frame)
  OBVIOUS
<1> QED BY <1>3, <1>4, ThenReplaces, Zenon

\* Calls on top of the stack, or of the batch that begins.
LEMMA CallsAdd ==
    ASSUME stk \in Seq(Frame), NEW a \in Seq(Frame), NEW k, k = stk \/ k = Batch,
           stk' = a \o k
    PROVE  Adds(a)
<1>1. <<"batch">> \in Frame
  BY Frames, Zenon
<1>2. k \in Seq(Frame)
  <2>1. << <<"batch">> >> \in Seq(Frame)
    BY <1>1
  <2> QED BY <2>1, Zenon DEF Batch
<1>3. ASSUME NEW F \in SUBSET Frame, <<"batch">> \notin F
      PROVE  /\ Some(stk', F) <=> Some(a, F) \/ Some(stk, F)
             /\ stk' \in Seq(Frame)
  <2>1. /\ Some(a \o k, F) <=> Some(a, F) \/ Some(k, F)
        /\ a \o k \in Seq(Frame)
    BY <1>2, SomeOn, Zenon
  <2>2. Some(k, F) <=> Some(stk, F)
    <3>1. CASE k = stk
      BY <3>1, Zenon
    <3>2. CASE stk = <<>> /\ k = << <<"batch">> >>
      <4>1. ~Some(stk, F)
        BY <3>2, SomeFew, Zenon
      <4>2. Some(<< <<"batch">> >>, F) <=> <<"batch">> \in F
        BY <1>1, SomeFew, Zenon
      <4> QED BY <1>3, <3>2, <4>1, <4>2, Zenon
    <3> QED BY <3>1, <3>2, Zenon DEF Batch
  <2> QED BY <2>1, <2>2, Zenon
<1>4. {} \in SUBSET Frame /\ <<"batch">> \notin {}
  BY Zenon
<1>5. stk' \in Seq(Frame)
  BY <1>3, <1>4, Zenon
<1> QED BY <1>3, <1>5, Zenon DEF Adds

\* The calls of a batch's item.
LEMMA BatchAdds ==
    ASSUME stk \in Seq(Frame), NEW a \in Seq(Frame), BatchCalls(a)
    PROVE  Adds(a)
  BY CallsAdd, Zenon DEF BatchCalls

\* The calls of the streaming API.
LEMMA ActAdds ==
    ASSUME stk \in Seq(Frame), NEW a \in Seq(Frame), ActCalls(a)
    PROVE  Adds(a)
<1>1. Caller = stk \/ Caller = Batch
  BY Zenon DEF Caller
<1> QED BY <1>1, CallsAdd, Zenon DEF ActCalls

FlushNow == << <<"flush", 0, "write">> >>

\* The calls that the steps make.
LEMMA CallsTyped ==
    /\ <<>> \in Seq(Frame) /\ FlushNow \in Seq(Frame) /\ << <<"pass">> >> \in Seq(Frame)
    /\ << <<"hook">> >> \in Seq(Frame)
    /\ \A s \in Sids : /\ << <<"call", s>> >> \in Seq(Frame) /\ << <<"cb", s>> >> \in Seq(Frame)
                       /\ << <<"pass">>, <<"wrote", s>> >> \in Seq(Frame)
                       /\ ThenCall(s) \in Seq(Frame)
                       /\ FlushNow \o << <<"cb", s>> >> \in Seq(Frame)
    /\ \A S \in SUBSET Sids : << <<"scan", S>> >> \in Seq(Frame)
    /\ \A k, n : HookCalls(k, n) = <<>> \/ HookCalls(k, n) = FlushNow
    /\ ResumeCalls = <<>> \/ ResumeCalls = << <<"scan", Resumable>> >>
    /\ Resumable \in SUBSET Sids
<1>1. \A f \in Frame : <<f>> \in Seq(Frame)
  OBVIOUS
<1>2. \A f, g \in Frame : <<f, g>> \in Seq(Frame)
  OBVIOUS
<1>3. \A a, b \in Seq(Frame) : a \o b \in Seq(Frame)
  OBVIOUS
<1>4. <<>> \in Seq(Frame)
  OBVIOUS
<1>5. FlushNow \in Seq(Frame) /\ << <<"pass">> >> \in Seq(Frame) /\ << <<"hook">> >> \in Seq(Frame)
  <2>1. <<"flush", 0, "write">> \in Frame
    <3>1. 0 \in Nat /\ "write" \in {"write", "refilled", "leave"}
      BY Zenon
    <3> QED BY <3>1, Frames, Zenon
  <2> QED BY <1>1, <2>1, Frames, Zenon DEF FlushNow
<1>6. ASSUME NEW s \in Sids
      PROVE  /\ << <<"call", s>> >> \in Seq(Frame) /\ << <<"cb", s>> >> \in Seq(Frame)
             /\ << <<"pass">>, <<"wrote", s>> >> \in Seq(Frame)
             /\ ThenCall(s) \in Seq(Frame)
             /\ FlushNow \o << <<"cb", s>> >> \in Seq(Frame)
  <2>1. <<"call", s>> \in Frame /\ <<"cb", s>> \in Frame /\ <<"wrote", s>> \in Frame
    BY Frames, Zenon
  <2>2. << <<"call", s>> >> \in Seq(Frame) /\ << <<"cb", s>> >> \in Seq(Frame)
        /\ << <<"pass">>, <<"wrote", s>> >> \in Seq(Frame)
    BY <1>1, <1>2, <2>1, Frames, Zenon
  <2>3. ThenCall(s) \in Seq(Frame)
    BY <1>4, <2>2, Zenon DEF ThenCall
  <2> QED BY <1>3, <1>5, <2>2, <2>3, Zenon
<1>7. \A S \in SUBSET Sids : << <<"scan", S>> >> \in Seq(Frame)
  BY <1>1, Frames, Zenon
<1>8. \A k, n : HookCalls(k, n) = <<>> \/ HookCalls(k, n) = FlushNow
  BY Zenon DEF HookCalls, FlushNow
<1>9. ResumeCalls = <<>> \/ ResumeCalls = << <<"scan", Resumable>> >>
  BY Zenon DEF ResumeCalls
<1>10. Resumable \in SUBSET Sids
  BY Zenon DEF Resumable
<1> QED BY <1>4, <1>5, <1>6, <1>7, <1>8, <1>9, <1>10, Zenon

\* The frames that owe a pass, and those that say who is to be called.
Owing == {f \in Frame : f[1] = "pass" \/ (f[1] = "flush" /\ f[3] = "write")}
Watching == {f \in Frame : f[1] \in {"call", "scan", "kick", "kicks"}}

\* Which frames they are.
LEMMA KindsOfFrames ==
    /\ Owing \in SUBSET Frame /\ Watching \in SUBSET Frame
    /\ <<"batch">> \notin Owing /\ <<"batch">> \notin Watching
    /\ \A f \in Frame : /\ f[1] = "pass" => f \in Owing
                        /\ f[1] = "flush" /\ f[3] = "write" => f \in Owing
                        /\ f[1] = "flush" /\ f[3] /= "write" => f \notin Owing
                        /\ f[1] \notin {"pass", "flush"} => f \notin Owing
                        /\ f[1] \in {"call", "scan", "kick", "kicks"} => f \in Watching
                        /\ f[1] \notin {"call", "scan", "kick", "kicks"} => f \notin Watching
  BY Zenon DEF Owing, Watching

\* A frame of fewer is a frame of more.
LEMMA SomeSub ==
    ASSUME NEW k, NEW F, NEW G, F \subseteq G, Some(k, F)
    PROVE  Some(k, G)
  BY Zenon DEF Some

\* A call at the end of others.
LEMMA SomeAppend ==
    ASSUME NEW a \in Seq(Frame), NEW f \in Frame, NEW F
    PROVE  Append(a, f) \in Seq(Frame) /\ (Some(Append(a, f), F) <=> Some(a, F) \/ f \in F)
<1>1. /\ Append(a, f) \in Seq(Frame) /\ Len(Append(a, f)) = Len(a) + 1 /\ Len(a) \in Nat
      /\ \A i \in 1..Len(a) : Append(a, f)[i] = a[i]
      /\ Append(a, f)[Len(a) + 1] = f
  OBVIOUS
<1> DEFINE b == Append(a, f)
<1> HIDE DEF b
<1>2. /\ b \in Seq(Frame) /\ Len(b) = Len(a) + 1 /\ Len(a) \in Nat
      /\ \A i \in 1..Len(a) : b[i] = a[i]
      /\ b[Len(a) + 1] = f
  BY <1>1, Zenon DEF b
<1>3. Some(b, F) <=> Some(a, F) \/ f \in F
  BY ONLY <1>2 DEF Some
<1> QED BY <1>2, <1>3, Zenon DEF b

\* A step that calls nobody and takes nobody's call away, and keeps the pass it owes.
Dull ==
    /\ stk' \in Seq(Frame)
    /\ \A F \in SUBSET Watching : Some(stk', F) <=> Some(stk, F)
    /\ Some(stk, Owing) => Some(stk', Owing)

\* The top frame gives way to calls that call nobody.
LEMMA DullReplaces ==
    ASSUME NEW a, Replaces(a), ~Some(a, Watching), Top \notin Watching,
           Top \notin Owing \/ Some(a, Owing)
    PROVE  Dull
<1>1. ASSUME NEW F \in SUBSET Watching PROVE Some(stk', F) <=> Some(stk, F)
  <2>1. F \in SUBSET Frame /\ F \subseteq Watching /\ Top \notin F
    BY KindsOfFrames, Zenon
  <2>2. ~Some(a, F)
    BY <2>1, SomeSub, Zenon
  <2> QED BY <2>1, <2>2, Zenon DEF Replaces
<1>2. Some(stk, Owing) => Some(stk', Owing)
  BY KindsOfFrames, Zenon DEF Replaces
<1> QED BY <1>1, <1>2, Zenon DEF Dull, Replaces

\* Calls that call nobody are made.
LEMMA DullAdds ==
    ASSUME NEW a, Adds(a), ~Some(a, Watching)
    PROVE  Dull
<1>1. ASSUME NEW F \in SUBSET Watching PROVE Some(stk', F) <=> Some(stk, F)
  <2>1. F \in SUBSET Frame /\ F \subseteq Watching /\ <<"batch">> \notin F
    BY KindsOfFrames, Zenon
  <2>2. ~Some(a, F)
    BY <2>1, SomeSub, Zenon
  <2> QED BY <2>1, <2>2, Zenon DEF Adds
<1>2. Some(stk, Owing) => Some(stk', Owing)
  BY KindsOfFrames, Zenon DEF Adds
<1> QED BY <1>1, <1>2, Zenon DEF Dull, Adds

\* The calls that call nobody.
LEMMA DullCalls ==
    /\ ~Some(<<>>, Watching) /\ ~Some(FlushNow, Watching) /\ ~Some(<< <<"pass">> >>, Watching)
    /\ ~Some(<< <<"hook">> >>, Watching)
    /\ Some(FlushNow, Owing) /\ Some(<< <<"pass">> >>, Owing)
    /\ \A k, n : ~Some(HookCalls(k, n), Watching)
    /\ \A s \in Sids : /\ ~Some(<< <<"cb", s>> >>, Watching)
                       /\ ~Some(<< <<"pass">>, <<"wrote", s>> >>, Watching)
                       /\ Some(<< <<"pass">>, <<"wrote", s>> >>, Owing)
<1>1. ~Some(<<>>, Watching)
  BY SomeFew, Zenon
<1>2. ~Some(FlushNow, Watching) /\ Some(FlushNow, Owing)
  <2> DEFINE f == <<"flush", 0, "write">>
  <2>1. f \in Frame
    <3>1. 0 \in Nat /\ "write" \in {"write", "refilled", "leave"}
      BY Zenon
    <3> QED BY <3>1, Frames, Zenon
  <2>2. f[1] = "flush" /\ f[3] = "write" /\ f[1] \notin {"call", "scan", "kick", "kicks"}
    BY Zenon
  <2> HIDE DEF f
  <2>3. f \in Owing /\ f \notin Watching
    BY <2>1, <2>2, KindsOfFrames, Zenon
  <2>4. ~Some(<<f>>, Watching) /\ Some(<<f>>, Owing)
    BY <2>1, <2>3, SomeFew, Zenon
  <2> QED BY <2>4, Zenon DEF FlushNow, f
<1>3. /\ <<"pass">> \in Frame /\ <<"pass">> \in Owing /\ <<"pass">> \notin Watching
      /\ <<"hook">> \in Frame /\ <<"hook">> \notin Watching
  <2>1. <<"pass">> \in Frame /\ <<"hook">> \in Frame
    BY Frames, Zenon
  <2> QED BY <2>1, Zenon DEF Owing, Watching
<1>4. ASSUME NEW s \in Sids
      PROVE  /\ ~Some(<< <<"cb", s>> >>, Watching)
             /\ ~Some(<< <<"pass">>, <<"wrote", s>> >>, Watching)
             /\ Some(<< <<"pass">>, <<"wrote", s>> >>, Owing)
  <2>1. <<"cb", s>> \in Frame /\ <<"wrote", s>> \in Frame
    BY Frames, Zenon
  <2>2. <<"cb", s>> \notin Watching /\ <<"wrote", s>> \notin Watching
    BY Zenon DEF Watching
  <2> QED BY <1>3, <2>1, <2>2, SomeFew, Zenon
<1>5. /\ ~Some(<< <<"pass">> >>, Watching) /\ Some(<< <<"pass">> >>, Owing)
      /\ ~Some(<< <<"hook">> >>, Watching)
  BY <1>3, SomeFew, Zenon
<1>6. \A k, n : ~Some(HookCalls(k, n), Watching)
  BY <1>1, <1>2, CallsTyped, Zenon
<1> QED BY <1>1, <1>2, <1>4, <1>5, <1>6, Zenon

\* The top frame, by its kind.
LEMMA TopKind ==
    ASSUME stk \in Seq(Frame), NEW x, On(x)
    PROVE  /\ stk /= <<>> /\ Top \in Frame /\ Top[1] = x
           /\ x \notin {"call", "scan", "kick", "kicks"} => Top \notin Watching
           /\ x \notin {"pass", "flush"} => Top \notin Owing
           /\ x = "flush" /\ Top[3] /= "write" => Top \notin Owing
<1>1. stk /= <<>> /\ Top[1] = x
  BY Zenon DEF On, Top
<1>2. Top \in Frame
  BY <1>1 DEF Top
<1> QED BY <1>1, <1>2, KindsOfFrames, Zenon

\* Most of the loop's steps.
LEMMA DullLoop ==
    ASSUME stk \in Seq(Frame),
           EndBatch \/ ProducerReturns \/ Hook \/ FlushLeaves
    PROVE  Dull
<1>1. CASE EndBatch
  <2>1. On("batch") /\ \E a \in {<<>>, FlushNow} : Then(a)
    BY <1>1, Zenon DEF EndBatch, FlushNow
  <2>2. PICK a \in {<<>>, FlushNow} : Then(a)
    BY <2>1, Zenon
  <2>3. stk /= <<>> /\ Top \notin Watching /\ Top \notin Owing
    BY <2>1, TopKind
  <2>4. a \in Seq(Frame) /\ ~Some(a, Watching)
    BY CallsTyped, DullCalls, Zenon
  <2> QED BY <2>2, <2>3, <2>4, ThenReplaces, DullReplaces, Zenon
<1>2. CASE ProducerReturns
  <2>1. On("cb") /\ Returns
    BY <1>2, Zenon DEF ProducerReturns
  <2>2. stk /= <<>> /\ Top \notin Watching /\ Top \notin Owing
    BY <2>1, TopKind
  <2> QED BY <2>1, <2>2, ReturnReplaces, DullCalls, DullReplaces, Zenon
<1>3. CASE Hook
  <2>1. On("hook") /\ Then(HookCalls(Tail(stk), out))
    BY <1>3, Zenon DEF Hook
  <2>2. stk /= <<>> /\ Top \notin Watching /\ Top \notin Owing
    BY <2>1, TopKind
  <2>3. HookCalls(Tail(stk), out) \in Seq(Frame) /\ ~Some(HookCalls(Tail(stk), out), Watching)
    BY CallsTyped, DullCalls, Zenon
  <2> QED BY <2>1, <2>2, <2>3, ThenReplaces, DullReplaces, Zenon
<1>4. CASE FlushLeaves
  <2>1. On("flush") /\ Top[3] = "leave" /\ Returns
    BY <1>4, Zenon DEF FlushLeaves
  <2>2. stk /= <<>> /\ Top \notin Watching /\ Top \notin Owing
    BY <2>1, TopKind
  <2> QED BY <2>1, <2>2, ReturnReplaces, DullCalls, DullReplaces, Zenon
<1> QED BY <1>1, <1>2, <1>3, <1>4, Zenon

\* The end of a write is dull.
LEMMA DullWriteEnds ==
    ASSUME stk \in Seq(Frame), WriteEnds
    PROVE  Dull
<1>1. PICK x \in {"wrote", "verdict"} : On(x)
  BY Zenon DEF WriteEnds
<1>2. /\ stk /= <<>> /\ Top \in Frame /\ Top[1] = x /\ Top \notin Watching /\ Top \notin Owing
  BY <1>1, TopKind, Zenon
<1>3. Top[2] \in Sids
  BY <1>1, <1>2, FrameHolds, Zenon
<1> DEFINE v == <<"verdict", Top[2]>>
           b == Append(FlushNow, v)
<1>4. v \in Frame /\ v \notin Watching
  <2>1. v \in Frame
    BY <1>3, Frames, Zenon
  <2> QED BY <2>1, Zenon DEF Watching
<1>5. FlushNow \in Seq(Frame) /\ ~Some(FlushNow, Watching)
  BY CallsTyped, DullCalls, Zenon
<1>6. b \in Seq(Frame) /\ ~Some(b, Watching)
  BY <1>4, <1>5, SomeAppend, Zenon
<1>7. Then(<<>>) \/ Then(b)
  <2>1. \E c \in {<<>>, FlushNow} : Then(IF c = <<>> THEN <<>> ELSE Append(c, <<"verdict", Top[2]>>))
    BY CallsTyped, Zenon DEF WriteEnds
  <2> QED BY <2>1, Zenon
<1> HIDE DEF b
<1>8. CASE Then(<<>>)
  BY <1>2, <1>8, CallsTyped, DullCalls, ThenReplaces, DullReplaces, Zenon
<1>9. CASE Then(b)
  BY <1>2, <1>6, <1>9, ThenReplaces, DullReplaces, Zenon
<1> QED BY <1>7, <1>8, <1>9, Zenon

\* flushOut, when it refills or goes on.
LEMMA DullFlush ==
    ASSUME stk \in Seq(Frame), FlushDrained \/ FlushRefilled
    PROVE  Dull
<1>1. On("flush")
  BY Zenon DEF FlushDrained, FlushRefilled
<1>2. /\ stk /= <<>> /\ Top \in Frame /\ Top \notin Watching
      /\ Top[3] /= "write" => Top \notin Owing
  BY <1>1, TopKind
<1>3. Top[2] \in Nat /\ Top[2] + 1 \in Nat
  <2>1. Top[2] \in Nat
    BY <1>1, <1>2, TopKind, FrameHolds, Zenon
  <2> QED BY <2>1
<1>4. \A n \in Nat, x \in {"write", "refilled", "leave"} :
        <<"flush", n, x>> \in Frame /\ <<"flush", n, x>> \notin Watching
  BY Zenon DEF Frame, Watching
<1>5. /\ <<"pass">> \in Frame /\ <<"pass">> \in Owing /\ <<"pass">> \notin Watching
  BY Zenon DEF Frame, Owing, Watching
<1>6. CASE FlushDrained
  <2> DEFINE f == <<"flush", Top[2], "refilled">>
  <2>1. f \in Frame /\ f \notin Watching
    BY <1>3, <1>4, Zenon
  <2>2. Then(<< <<"pass">>, f>>)
    BY <1>6, Zenon DEF FlushDrained
  <2> HIDE DEF f
  <2>3. /\ << <<"pass">>, f>> \in Seq(Frame) /\ ~Some(<< <<"pass">>, f>>, Watching)
        /\ Some(<< <<"pass">>, f>>, Owing)
    BY <1>5, <2>1, SomeFew, Zenon
  <2> QED BY <1>2, <2>2, <2>3, ThenReplaces, DullReplaces, Zenon
<1>7. CASE FlushRefilled
  <2> DEFINE f == <<"flush", Top[2] + 1, "write">>
  <2>1. f \in Frame /\ f \notin Watching
    BY <1>3, <1>4, Zenon
  <2>2. Top[3] = "refilled" /\ (Then(<<>>) \/ Then(<<f>>))
    BY <1>7, Zenon DEF FlushRefilled
  <2>3. Top \notin Owing
    BY <1>2, <2>2, Zenon
  <2> HIDE DEF f
  <2>4. <<f>> \in Seq(Frame) /\ ~Some(<<f>>, Watching)
    BY <2>1, SomeFew, Zenon
  <2>5. <<>> \in Seq(Frame) /\ ~Some(<<>>, Watching)
    BY CallsTyped, DullCalls, Zenon
  <2> QED BY <1>2, <2>2, <2>3, <2>4, <2>5, ThenReplaces, DullReplaces, Zenon
<1> QED BY <1>6, <1>7, Zenon

\* flushOut, when the socket is full: it refills, or is at the mark.
LEMMA DullBlocks ==
    ASSUME stk \in Seq(Frame), BodyInv, NEW left \in 1..out, FlushBlocks(left)
    PROVE  /\ stk' \in Seq(Frame) /\ out' = left /\ left \in Nat \ {0}
           /\ \A F \in SUBSET Watching : Some(stk', F) <=> Some(stk, F)
           /\ Some(stk', Owing) \/ out' >= HighWater
<1>1. On("flush") /\ Top[3] = "write" /\ out' = left
  BY Zenon DEF FlushBlocks
<1>2. /\ stk /= <<>> /\ Top \in Frame /\ Top \notin Watching
  BY <1>1, TopKind
<1>3. Top[2] \in Nat
  BY <1>1, <1>2, TopKind, FrameHolds, Zenon
<1> DEFINE f == <<"flush", Top[2], "leave">>
<1>4. f \in Frame /\ f \notin Watching
  BY <1>3, Zenon DEF Frame, Watching
<1>5. /\ <<"pass">> \in Frame /\ <<"pass">> \in Owing /\ <<"pass">> \notin Watching
  BY Zenon DEF Frame, Owing, Watching
<1>6. left \in Nat \ {0} /\ HighWater \in Nat
  BY H2Assumption DEF BodyInv, Shape
<1>7. CASE left < HighWater
  <2>1. Then(<< <<"pass">>, f>>)
    BY <1>7, Zenon DEF FlushBlocks
  <2> HIDE DEF f
  <2>2. /\ << <<"pass">>, f>> \in Seq(Frame) /\ ~Some(<< <<"pass">>, f>>, Watching)
        /\ Some(<< <<"pass">>, f>>, Owing)
    BY <1>4, <1>5, SomeFew, Zenon
  <2>3. Replaces(<< <<"pass">>, f>>)
    BY <1>2, <2>1, <2>2, ThenReplaces, Zenon
  <2>4. Dull
    BY <1>2, <2>2, <2>3, DullReplaces, Zenon
  <2>5. Some(stk', Owing)
    BY <2>2, <2>3, KindsOfFrames, Zenon DEF Replaces
  <2> QED BY <1>1, <1>6, <2>4, <2>5, Zenon DEF Dull
<1>8. CASE ~(left < HighWater)
  <2>1. Then(<<>>)
    BY <1>8, Zenon DEF FlushBlocks
  <2>2. Replaces(<<>>)
    BY <1>2, <2>1, CallsTyped, ThenReplaces, Zenon
  <2>3. ASSUME NEW F \in SUBSET Watching PROVE Some(stk', F) <=> Some(stk, F)
    <3>1. F \in SUBSET Frame /\ Top \notin F
      BY <1>2, KindsOfFrames, Zenon
    <3>2. ~Some(<<>>, F)
      BY SomeFew, Zenon
    <3> QED BY <2>2, <3>1, <3>2, Zenon DEF Replaces
  <2>4. stk' \in Seq(Frame)
    BY <2>2, Zenon DEF Replaces
  <2>5. out' >= HighWater
    BY <1>1, <1>6, <1>8
  <2> QED BY <1>1, <1>6, <2>3, <2>4, <2>5, Zenon
<1> QED BY <1>7, <1>8, Zenon

\* The calls of the peer's frames and of the streaming API that call nobody.
LEMMA DullActs ==
    ASSUME stk \in Seq(Frame),
           \/ \E s \in Sids : SendHead(s) \/ OnDrain(s) \/ HeadersIn(s)
           \/ Writable
    PROVE  Dull
<1>1. ASSUME NEW s \in Sids, SendHead(s) PROVE Dull
  <2>1. ActCalls(HookCalls(Caller, out + 1))
    BY <1>1, Zenon DEF SendHead
  <2>2. HookCalls(Caller, out + 1) \in Seq(Frame) /\ ~Some(HookCalls(Caller, out + 1), Watching)
    BY CallsTyped, DullCalls, Zenon
  <2> QED BY <2>1, <2>2, ActAdds, DullAdds, Zenon
<1>2. ASSUME NEW s \in Sids, OnDrain(s) PROVE Dull
  BY <1>2, CallsTyped, DullCalls, ActAdds, DullAdds, Zenon DEF OnDrain
<1>3. ASSUME NEW s \in Sids, HeadersIn(s) PROVE Dull
  BY <1>3, CallsTyped, DullCalls, BatchAdds, DullAdds, Zenon DEF HeadersIn
<1>4. ASSUME Writable PROVE Dull
  <2>1. stk = <<>> /\ stk' = FlushNow
    BY <1>4, Zenon DEF Writable, FlushNow
  <2>2. stk' = FlushNow \o stk
    <3>1. FlushNow \in Seq(Frame)
      BY CallsTyped, Zenon
    <3>2. FlushNow \o <<>> = FlushNow
      BY <3>1
    <3> QED BY <2>1, <3>2, Zenon
  <2>3. Adds(FlushNow)
    BY <2>2, CallsTyped, CallsAdd, Zenon
  <2> QED BY <2>3, DullCalls, DullAdds, Zenon
<1> QED BY <1>1, <1>2, <1>3, <1>4, Zenon

\* The ones that owe a pass.
LEMMA DullPasses ==
    ASSUME stk \in Seq(Frame), NEW s \in Sids,
           \/ ActCalls(<< <<"pass">>, <<"wrote", s>> >>)
           \/ BatchCalls(<< <<"pass">> >>)
    PROVE  Dull /\ Some(stk', Owing)
<1>1. PICK a \in {<< <<"pass">>, <<"wrote", s>> >>, << <<"pass">> >>} : Adds(a)
  BY CallsTyped, ActAdds, BatchAdds, Zenon
<1>2. ~Some(a, Watching) /\ Some(a, Owing)
  BY DullCalls, Zenon
<1>3. Dull
  BY <1>1, <1>2, DullAdds, Zenon
<1>4. Some(stk', Owing)
  BY <1>1, <1>2, KindsOfFrames, Zenon DEF Adds
<1> QED BY <1>3, <1>4, Zenon

\* The calls a call the producer of s, if it is parked, and nobody else.
Rings(a, s) ==
    a \in Seq(Frame) /\ \A F \in SUBSET Watching : Some(a, F) <=> cb[s] /\ <<"call", s>> \in F

\* A step that does so.
Calling(s) ==
    /\ stk' \in Seq(Frame)
    /\ \A F \in SUBSET Watching :
         Some(stk', F) <=> Some(stk, F) \/ (cb[s] /\ <<"call", s>> \in F)
    /\ Some(stk, Owing) => Some(stk', Owing)

\* ThenCall, alone or with a hook and a pass around it.
LEMMA ThenCallRings ==
    ASSUME NEW s \in Sids
    PROVE  /\ Rings(ThenCall(s), s) /\ Rings(ThenCall(s) \o << <<"hook">> >>, s)
           /\ Rings(<< <<"pass">> >> \o ThenCall(s) \o << <<"hook">> >>, s)
           /\ Some(<< <<"pass">> >> \o ThenCall(s) \o << <<"hook">> >>, Owing)
<1> DEFINE c == ThenCall(s)  p == << <<"pass">> >>  h == << <<"hook">> >>
<1>1. /\ c \in Seq(Frame) /\ p \in Seq(Frame) /\ h \in Seq(Frame)
      /\ <<"call", s>> \in Frame
  BY CallsTyped, Frames, Zenon
<1>2. ASSUME NEW F \in SUBSET Watching PROVE Some(c, F) <=> cb[s] /\ <<"call", s>> \in F
  <2>1. Some(<< <<"call", s>> >>, F) <=> <<"call", s>> \in F
    BY <1>1, SomeFew, Zenon
  <2>2. ~Some(<<>>, F)
    BY SomeFew, Zenon
  <2> QED BY <2>1, <2>2, Zenon DEF ThenCall
<1>3. ASSUME NEW F \in SUBSET Watching PROVE ~Some(p, F) /\ ~Some(h, F)
  <2>1. F \subseteq Watching
    BY Zenon
  <2> QED BY <2>1, DullCalls, SomeSub, Zenon
<1>4. Some(p, Owing)
  BY DullCalls, Zenon
<1> HIDE DEF c, p, h
<1>5. /\ c \o h \in Seq(Frame) /\ p \o c \in Seq(Frame) /\ (p \o c) \o h \in Seq(Frame)
  BY <1>1
<1>6. ASSUME NEW F PROVE /\ Some(c \o h, F) <=> Some(c, F) \/ Some(h, F)
                         /\ Some((p \o c) \o h, F) <=> Some(p, F) \/ Some(c, F) \/ Some(h, F)
  <2>1. Some(c \o h, F) <=> Some(c, F) \/ Some(h, F)
    BY <1>1, SomeOn, Zenon
  <2>2. Some(p \o c, F) <=> Some(p, F) \/ Some(c, F)
    BY <1>1, SomeOn, Zenon
  <2>3. Some((p \o c) \o h, F) <=> Some(p \o c, F) \/ Some(h, F)
    BY <1>1, <1>5, SomeOn, Zenon
  <2> QED BY <2>1, <2>2, <2>3, Zenon
<1>7. Rings(c, s) /\ Rings(c \o h, s) /\ Rings((p \o c) \o h, s) /\ Some((p \o c) \o h, Owing)
  BY <1>1, <1>2, <1>3, <1>4, <1>5, <1>6, Zenon DEF Rings
<1> QED BY <1>7, Zenon DEF c, p, h

\* A step that makes such calls.
LEMMA RingsAdds ==
    ASSUME NEW s \in Sids, NEW a, Adds(a), Rings(a, s)
    PROVE  Calling(s)
<1>1. ASSUME NEW F \in SUBSET Watching
      PROVE  Some(stk', F) <=> Some(stk, F) \/ (cb[s] /\ <<"call", s>> \in F)
  <2>1. F \in SUBSET Frame /\ <<"batch">> \notin F
    BY KindsOfFrames, Zenon
  <2> QED BY <2>1, Zenon DEF Adds, Rings
<1>2. Some(stk, Owing) => Some(stk', Owing)
  BY KindsOfFrames, Zenon DEF Adds
<1> QED BY <1>1, <1>2, Zenon DEF Calling, Adds

\* finish, abort, and the frames that end a stream.
LEMMA EndsCall ==
    ASSUME stk \in Seq(Frame), NEW s \in Sids,
           \/ Finish(s) /\ pending[s] = <<>>
           \/ Abort(s) \/ RstIn(s)
           \/ \E inc \in Grants : WindowUpdate(s, inc) /\ TooLarge(win[s] + inc)
    PROVE  Calling(s)
<1> DEFINE c == ThenCall(s)  d == c \o << <<"hook">> >>
<1>1. Rings(c, s) /\ Rings(d, s)
  BY ThenCallRings, Zenon
<1>2. c \in Seq(Frame) /\ d \in Seq(Frame)
  BY <1>1, Zenon DEF Rings
<1>3. ActCalls(d) \/ BatchCalls(c)
  BY Zenon DEF Finish, EndedCalls, Abort, RstIn, WindowUpdate
<1> HIDE DEF c, d
<1>4. CASE ActCalls(d)
  BY <1>1, <1>2, <1>4, ActAdds, RingsAdds, Zenon
<1>5. CASE BatchCalls(c)
  BY <1>1, <1>2, <1>5, BatchAdds, RingsAdds, Zenon
<1> QED BY <1>3, <1>4, <1>5, Zenon

\* finish, with a backlog: a pass is owed too.
LEMMA FinishCalls ==
    ASSUME stk \in Seq(Frame), NEW s \in Sids, Finish(s), pending[s] /= <<>>
    PROVE  Calling(s) /\ Some(stk', Owing)
<1> DEFINE e == << <<"pass">> >> \o ThenCall(s) \o << <<"hook">> >>
<1>1. Rings(e, s) /\ Some(e, Owing)
  BY ThenCallRings, Zenon
<1>2. e \in Seq(Frame)
  BY <1>1, Zenon DEF Rings
<1>3. ActCalls(e)
  BY Zenon DEF Finish, EndedCalls
<1> HIDE DEF e
<1>4. Adds(e)
  BY <1>2, <1>3, ActAdds, Zenon
<1>5. Some(stk', Owing)
  BY <1>1, <1>4, KindsOfFrames, Zenon DEF Adds
<1> QED BY <1>1, <1>4, <1>5, RingsAdds, Zenon

\* A turn of the scheduler calls the producer whose stream it ends.
LEMMA TurnCalls ==
    ASSUME stk \in Seq(Frame), NEW u, NEW s \in Sids
    PROVE  /\ TurnEnds(u, s) => Calling(s)
           /\ TurnSends(u, s) => IF phase'[s] = "gone" THEN Calling(s) ELSE Dull
           /\ TurnSkips(u, s) => Dull
<1>1. Rings(ThenCall(s), s) /\ ThenCall(s) \in Seq(Frame)
  BY ThenCallRings, Zenon DEF Rings
<1>2. ASSUME stk' = ThenCall(s) \o stk PROVE Calling(s)
  BY <1>1, <1>2, CallsAdd, RingsAdds, Zenon
<1>3. ASSUME stk' = <<>> \o stk \/ stk' = stk PROVE Dull
  <2>1. <<>> \o stk = stk
    OBVIOUS
  <2>2. stk' = <<>> \o stk
    BY <1>3, <2>1, Zenon
  <2> QED BY <2>2, CallsTyped, CallsAdd, DullCalls, DullAdds, Zenon
<1>4. TurnEnds(u, s) => Calling(s)
  BY <1>2, Zenon DEF TurnEnds
<1>5. TurnSends(u, s) => IF phase'[s] = "gone" THEN Calling(s) ELSE Dull
  BY <1>2, <1>3, Zenon DEF TurnSends
<1>6. TurnSkips(u, s) => Dull
  BY <1>3, Zenon DEF TurnSkips
<1> QED BY <1>4, <1>5, <1>6, Zenon

\* A look for producers with room: a pass that ends, and a window that opens.
Looking ==
    /\ stk' \in Seq(Frame)
    /\ \A F \in SUBSET Watching : Some(stk', F) <=> Some(stk, F) \/ Some(ResumeCalls, F)

\* A pass that ends looks.
LEMMA PassLooks ==
    ASSUME stk \in Seq(Frame), PassEnds
    PROVE  Looking
<1>1. On("pass") /\ Then(ResumeCalls)
  BY Zenon DEF PassEnds
<1>2. stk /= <<>> /\ Top \notin Watching
  BY <1>1, TopKind
<1>3. ResumeCalls \in Seq(Frame)
  BY CallsTyped, Zenon
<1>4. Replaces(ResumeCalls)
  BY <1>1, <1>2, <1>3, ThenReplaces, Zenon
<1>5. ASSUME NEW F \in SUBSET Watching PROVE F \in SUBSET Frame /\ Top \notin F
  BY <1>2, KindsOfFrames, Zenon
<1> QED BY <1>4, <1>5, Zenon DEF Replaces, Looking

\* A window that opens for a stream with nothing to send looks.
LEMMA UpdateLooks ==
    ASSUME stk \in Seq(Frame), BatchCalls(ResumeCalls)
    PROVE  Looking /\ (Some(stk, Owing) => Some(stk', Owing))
<1>1. ResumeCalls \in Seq(Frame)
  BY CallsTyped, Zenon
<1>2. Adds(ResumeCalls)
  BY <1>1, BatchAdds, Zenon
<1>3. ASSUME NEW F \in SUBSET Watching PROVE F \in SUBSET Frame /\ <<"batch">> \notin F
  BY KindsOfFrames, Zenon
<1> QED BY <1>2, <1>3, KindsOfFrames, Zenon DEF Adds, Looking

\* The scan takes its next producer.
LEMMA ScanReplaces ==
    ASSUME stk \in Seq(Frame), NEW s \in Sids, ScanNext(s)
    PROVE  \E a : /\ Replaces(a)
                  /\ \A F \in SUBSET Watching : Some(a, F) <=> <<"scan", Top[2] \ {s}>> \in F
<1>1. On("scan") /\ s \in Top[2]
  BY Zenon DEF ScanNext
<1>2. stk /= <<>> /\ Top \in Frame /\ Top[1] = "scan"
  BY <1>1, TopKind, Zenon
<1> DEFINE g == <<"scan", Top[2] \ {s}>>
<1>3. g \in Frame /\ <<"cb", s>> \in Frame /\ <<"cb", s>> \notin Watching
  <2>1. Top[2] \ {s} \in SUBSET Sids
    BY <1>2, FrameHolds, Zenon
  <2>2. g \in Frame /\ <<"cb", s>> \in Frame
    BY <2>1, Frames, Zenon
  <2>3. <<"cb", s>> \notin Watching
    BY Zenon DEF Watching
  <2> QED BY <2>2, <2>3, Zenon
<1>4. Then(<<g>>) \/ Then(<< <<"cb", s>>, g>>)
  BY Zenon DEF ScanNext
<1> HIDE DEF g
<1>5. <<g>> \in Seq(Frame) /\ << <<"cb", s>>, g>> \in Seq(Frame)
  BY <1>3, SomeFew, Zenon
<1>6. ASSUME NEW F \in SUBSET Watching
      PROVE  /\ Some(<<g>>, F) <=> g \in F
             /\ Some(<< <<"cb", s>>, g>>, F) <=> g \in F
  <2>1. <<"cb", s>> \notin F
    BY <1>3, Zenon
  <2> QED BY <1>3, <2>1, SomeFew, Zenon
<1>7. Replaces(<<g>>) \/ Replaces(<< <<"cb", s>>, g>>)
  BY <1>2, <1>4, <1>5, ThenReplaces, Zenon
<1> QED BY <1>6, <1>7, Zenon DEF g

\* A kick begins: the pass, and the others wait.
LEMMA NextKickReplaces ==
    ASSUME stk \in Seq(Frame), BodyInv, NEW s \in Sids, NextKick(s)
    PROVE  \E a : /\ Replaces(a)
                  /\ \A F \in SUBSET Watching :
                       Some(a, F) <=> \/ Open(s) /\ cb[s] /\ <<"kick", s, out>> \in F
                                      \/ Top[2] /= {s} /\ <<"kicks", Top[2] \ {s}>> \in F
<1>1. On("kicks") /\ s \in Top[2]
  BY Zenon DEF NextKick
<1>2. stk /= <<>> /\ Top \in Frame /\ Top[1] = "kicks"
  BY <1>1, TopKind, Zenon
<1> DEFINE g == <<"kicks", Top[2] \ {s}>>  f == <<"kick", s, out>>
           x == IF Open(s) /\ cb[s] THEN << <<"pass">>, f>> ELSE <<>>
           y == IF Top[2] = {s} THEN <<>> ELSE <<g>>
<1>3. g \in Frame /\ f \in Frame /\ <<"pass">> \in Frame /\ <<"pass">> \notin Watching
  <2>1. Top[2] \ {s} \in SUBSET Sids
    BY <1>2, FrameHolds, Zenon
  <2>2. out \in Nat
    BY Zenon DEF BodyInv, Shape
  <2>3. g \in Frame /\ f \in Frame /\ <<"pass">> \in Frame
    BY <2>1, <2>2, Frames, Zenon
  <2>4. <<"pass">> \notin Watching
    BY Zenon DEF Watching
  <2> QED BY <2>3, <2>4, Zenon
<1>4. Then(x \o y)
  BY Zenon DEF NextKick
<1> HIDE DEF f, g
<1>5. x \in Seq(Frame) /\ y \in Seq(Frame)
  <2>1. << <<"pass">>, f>> \in Seq(Frame) /\ <<g>> \in Seq(Frame) /\ <<>> \in Seq(Frame)
    BY <1>3, SomeFew, Zenon
  <2> QED BY <2>1, Zenon
<1>6. ASSUME NEW F \in SUBSET Watching
      PROVE  Some(x \o y, F) <=> (Open(s) /\ cb[s] /\ f \in F) \/ (Top[2] /= {s} /\ g \in F)
  <2>1. <<"pass">> \notin F
    BY <1>3, Zenon
  <2>2. /\ Some(<< <<"pass">>, f>>, F) <=> f \in F
        /\ Some(<<g>>, F) <=> g \in F
        /\ ~Some(<<>>, F)
    BY <1>3, <2>1, SomeFew, Zenon
  <2>3. /\ Some(x, F) <=> Open(s) /\ cb[s] /\ f \in F
        /\ Some(y, F) <=> Top[2] /= {s} /\ g \in F
    BY <2>2, Zenon
  <2>4. Some(x \o y, F) <=> Some(x, F) \/ Some(y, F)
    BY <1>5, SomeOn, Zenon
  <2> QED BY <2>3, <2>4, Zenon
<1>7. x \o y \in Seq(Frame)
  BY <1>5, SomeOn, Zenon
<1> HIDE DEF x, y
<1>8. Replaces(x \o y)
  BY <1>2, <1>4, <1>7, ThenReplaces, Zenon
<1> QED BY <1>6, <1>8, Zenon DEF f, g

\* A kick ends.
LEMMA KickEndsReplaces ==
    ASSUME stk \in Seq(Frame), KickEnds
    PROVE  \E a : Replaces(a) /\ ~Some(a, Watching)
<1>1. On("kick")
  BY Zenon DEF KickEnds
<1>2. stk /= <<>> /\ Top \in Frame /\ Top[1] = "kick" /\ Top[2] \in Sids
  BY <1>1, TopKind, FrameHolds, Zenon
<1>3. \E x \in {<<>>, FlushNow}, y \in {<<>>, << <<"cb", Top[2]>> >>} : Then(x \o y)
  <2> DEFINE x == IF out > Top[3] THEN HookCalls(Tail(stk), out) ELSE <<>>
  <2>1. x = <<>> \/ x = FlushNow
    BY CallsTyped, Zenon
  <2>2. \E y \in {<<>>, << <<"cb", Top[2]>> >>} : Then(x \o y)
    BY Zenon DEF KickEnds
  <2> HIDE DEF x
  <2> QED BY <2>1, <2>2, Zenon
<1>4. PICK x \in {<<>>, FlushNow}, y \in {<<>>, << <<"cb", Top[2]>> >>} : Then(x \o y)
  BY <1>3, Zenon
<1>5. x \in Seq(Frame) /\ y \in Seq(Frame) /\ ~Some(x, Watching) /\ ~Some(y, Watching)
  BY <1>2, CallsTyped, DullCalls, Zenon
<1>6. x \o y \in Seq(Frame) /\ ~Some(x \o y, Watching)
  BY <1>5, SomeOn, Zenon
<1> QED BY <1>2, <1>4, <1>6, ThenReplaces, Zenon

-----------------------------------------------------------------------------
(* NoIdleBacklog: a stream that can send, and a pass that will serve it.    *)

StackInv ==
    /\ stk \in Seq(Frame) /\ kicks \in SUBSET Sids
    /\ Ready /= {} /\ connWin > 0 => out >= HighWater \/ Some(stk, Owing)

\* Every step keeps it.
LEMMA StackStep ==
    BodyInv /\ StackInv /\ Next => StackInv'

\* The queue, the window and the buffer leave no more to do than before.
<1>StackKept.
      ASSUME Shape, StackInv, stk' \in Seq(Frame), kicks' \in SUBSET Sids,
             UNCHANGED <<sendQ, connWin>>, out' \in {out, out + 1},
             Some(stk, Owing) => Some(stk', Owing)
      PROVE  StackInv'
  <2> USE <1>StackKept
  <2>1. out >= HighWater => out' >= HighWater
    BY H2Assumption DEF Shape
  <2>2. Ready' = Ready
    BY Zenon DEF Ready
  <2> QED BY <2>1, <2>2, Zenon DEF StackInv

\* A frame that owes no pass ends.
<1>ReplacesOwing.
      ASSUME NEW a, Replaces(a), Top \notin Owing
      PROVE  stk' \in Seq(Frame) /\ (Some(stk, Owing) => Some(stk', Owing))
    BY <1>ReplacesOwing, KindsOfFrames, Zenon DEF Replaces

\* A pass is owed.
<1>StackOwes.
      ASSUME stk' \in Seq(Frame), kicks' \in SUBSET Sids, Some(stk', Owing)
      PROVE  StackInv'
    BY <1>StackOwes, Zenon DEF StackInv

\* The loop's steps but the scheduler's and the flush's.
<1>StackLoop.
      ASSUME Shape, BodyInv, StackInv,
             \/ EndBatch \/ ScanEnds \/ CallProducer
             \/ ProducerReturns \/ WriteEnds \/ Hook \/ KickEnds \/ FlushRefilled \/ FlushLeaves
             \/ \E s \in Sids : ScanNext(s) \/ NextKick(s)
             \/ Writable
      PROVE  StackInv'
  <2> USE <1>StackLoop
  <2>1. UNCHANGED <<sendQ, connWin, out, kicks>>
    BY Zenon DEF EndBatch, ScanEnds, CallProducer, ProducerReturns, WriteEnds, Hook,
       KickEnds, FlushRefilled, FlushLeaves, ScanNext, NextKick, Writable
  <2>2. stk \in Seq(Frame) /\ kicks' \in SUBSET Sids
    BY <2>1, Zenon DEF StackInv
  <2>3. stk' \in Seq(Frame) /\ (Some(stk, Owing) => Some(stk', Owing))
    <3>1. CASE Dull
      BY <3>1, Zenon DEF Dull
    <3>2. CASE ScanEnds
      <4>1. On("scan") /\ Returns
        BY <3>2, Zenon DEF ScanEnds
      <4>2. stk /= <<>> /\ Top \notin Owing
        BY <2>2, <4>1, TopKind
      <4> QED BY <2>2, <4>1, <4>2, ReturnReplaces, <1>ReplacesOwing, Zenon
    <3>3. CASE CallProducer
      <4>1. On("call") /\ Then(<< <<"cb", Top[2]>> >>)
        BY <3>3, Zenon DEF CallProducer
      <4>2. stk /= <<>> /\ Top \notin Owing /\ Top[2] \in Sids
        BY <2>2, <4>1, TopKind, FrameHolds
      <4>3. << <<"cb", Top[2]>> >> \in Seq(Frame)
        BY <4>2, CallsTyped, Zenon
      <4> QED BY <2>2, <4>1, <4>2, <4>3, ThenReplaces, <1>ReplacesOwing, Zenon
    <3>4. CASE KickEnds
      <4>1. On("kick")
        BY <3>4, Zenon DEF KickEnds
      <4>2. Top \notin Owing
        BY <2>2, <4>1, TopKind
      <4> QED BY <2>2, <3>4, <4>2, KickEndsReplaces, <1>ReplacesOwing, Zenon
    <3>5. ASSUME NEW s \in Sids, ScanNext(s)
          PROVE  stk' \in Seq(Frame) /\ (Some(stk, Owing) => Some(stk', Owing))
      <4>1. On("scan")
        BY <3>5, Zenon DEF ScanNext
      <4>2. Top \notin Owing
        BY <2>2, <4>1, TopKind
      <4> QED BY <2>2, <3>5, <4>2, ScanReplaces, <1>ReplacesOwing, Zenon
    <3>6. ASSUME NEW s \in Sids, NextKick(s)
          PROVE  stk' \in Seq(Frame) /\ (Some(stk, Owing) => Some(stk', Owing))
      <4>1. On("kicks")
        BY <3>6, Zenon DEF NextKick
      <4>2. Top \notin Owing
        BY <2>2, <4>1, TopKind
      <4> QED BY <2>2, <3>6, <4>2, NextKickReplaces, <1>ReplacesOwing, Zenon
    <3> QED BY <2>2, <3>1, <3>2, <3>3, <3>4, <3>5, <3>6, DullLoop, DullWriteEnds, DullFlush,
               DullActs, Zenon
  <2> QED BY <2>1, <2>2, <2>3, <1>StackKept, Zenon

\* closeConn leaves nothing to do.
<1>StackCloses.
      ASSUME Closes
      PROVE  StackInv'
  <2> USE <1>StackCloses
  <2>1. stk' = <<>> /\ kicks' = {} /\ connWin' = 0
    BY Zenon DEF Closes
  <2>2. ~(0 > 0) /\ <<>> \in Seq(Frame) /\ {} \in SUBSET Sids
    OBVIOUS
  <2> QED BY <2>1, <2>2, Zenon DEF StackInv

\* flushOut.
<1>StackFlush.
      ASSUME BodyInv, StackInv, FlushDrained \/ \E left \in 1..out : FlushBlocks(left)
      PROVE  StackInv'
  <2> USE <1>StackFlush
  <2>1. stk \in Seq(Frame) /\ kicks' \in SUBSET Sids
    BY Zenon DEF StackInv, FlushDrained, FlushBlocks
  <2>2. CASE FlushDrained
    <3>1. On("flush") /\ Top[3] = "write" /\ Then(<< <<"pass">>, <<"flush", Top[2], "refilled">> >>)
      BY <2>2, Zenon DEF FlushDrained
    <3>2. Dull
      BY <2>1, <2>2, DullFlush, Zenon
    <3>3. Some(stk, Owing)
      <4>1. stk /= <<>> /\ Top \in Frame /\ Top[1] = "flush"
        BY <2>1, <3>1, TopKind, Zenon
      <4>2. Top \in Owing
        BY <3>1, <4>1, KindsOfFrames, Zenon
      <4> QED BY <2>1, <4>1, <4>2, SomeTop, Zenon DEF Top
    <3> QED BY <2>1, <3>2, <3>3, <1>StackOwes, Zenon DEF Dull
  <2>3. ASSUME NEW left \in 1..out, FlushBlocks(left) PROVE StackInv'
    <3>1. stk' \in Seq(Frame) /\ (Some(stk', Owing) \/ out' >= HighWater)
      BY <2>1, <2>3, DullBlocks, Zenon
    <3> QED BY <2>1, <3>1, Zenon DEF StackInv
  <2> QED BY <2>2, <2>3, Zenon

\* runDrainKicks.
<1>StackRunKicks.
      ASSUME StackInv, RunDrainKicks
      PROVE  StackInv'
  <2> USE <1>StackRunKicks
  <2>1. /\ stk = <<>> /\ stk' = << <<"kicks", kicks>> >> /\ kicks' = {}
        /\ UNCHANGED <<sendQ, connWin, out>> /\ kicks \in SUBSET Sids
    BY Zenon DEF RunDrainKicks, StackInv
  <2>2. <<"kicks", kicks>> \in Frame /\ {} \in SUBSET Sids
    <3>1. {} \in SUBSET Sids
      BY Zenon
    <3> QED BY <2>1, <3>1, Frames, Zenon
  <2>3. stk' \in Seq(Frame) /\ ~Some(<<>>, Owing)
    BY <2>1, <2>2, SomeFew, Zenon
  <2>4. Ready' = Ready
    BY <2>1, Zenon DEF Ready
  <2> QED BY <2>1, <2>2, <2>3, <2>4, Zenon DEF StackInv

\* h2Schedule.
<1>StackPass.
      ASSUME BodyInv, StackInv, Emit \/ PassEnds
      PROVE  StackInv'
  <2> USE <1>StackPass
  <2>0. Shape /\ stk \in Seq(Frame) /\ kicks' \in SUBSET Sids
    BY Zenon DEF BodyInv, StackInv, Emit, PassEnds
  <2>1. CASE Emit
    <3>1. PICK u \in 0..1, s \in Sids :
            /\ sendQ[u] /= <<>> /\ s = Head(sendQ[u])
            /\ TurnEnds(u, s) \/ TurnSends(u, s) \/ TurnSkips(u, s)
            /\ PassGoes /\ On("pass") /\ UNCHANGED <<up, initWin, kicks, armed, written, parked>>
      BY <2>0, <2>1, EmitTurns, Zenon
    <3>2. Dull \/ Calling(s)
      BY <2>0, <3>1, TurnCalls, Zenon
    <3>3. Some(stk, Owing)
      <4>1. stk /= <<>> /\ Top \in Frame /\ Top[1] = "pass"
        BY <2>0, <3>1, TopKind, Zenon
      <4>2. Top \in Owing
        BY <4>1, KindsOfFrames, Zenon
      <4> QED BY <2>0, <4>1, <4>2, SomeTop, Zenon DEF Top
    <3> QED BY <2>0, <3>2, <3>3, <1>StackOwes, Zenon DEF Dull, Calling
  <2>2. CASE PassEnds
    <3>1. ~PassGoes /\ UNCHANGED <<sendQ, connWin, out>>
      BY <2>2, Zenon DEF PassEnds
    <3>2. stk' \in Seq(Frame)
      BY <2>0, <2>2, PassLooks, Zenon DEF Looking
    <3>3. Ready' = Ready
      BY <3>1, Zenon DEF Ready
    <3>4. Ready' /= {} /\ connWin' > 0 => out' >= HighWater
      <4>1. out \in Nat /\ HighWater \in Nat
        BY <2>0, H2Assumption, Zenon DEF Shape
      <4>2. ~(out < HighWater) => out >= HighWater
        BY ONLY <4>1
      <4> QED BY <3>1, <3>3, <4>2, Zenon DEF PassGoes
    <3> QED BY <2>0, <3>2, <3>4, Zenon DEF StackInv
  <2> QED BY <2>1, <2>2, Zenon

\* The streaming API.
<1>StackActs.
      ASSUME BodyInv, StackInv, NEW s \in Sids, ProducerActs(s)
      PROVE  StackInv'
  <2> USE <1>StackActs
  <2>0. Shape /\ stk \in Seq(Frame) /\ kicks \in SUBSET Sids
    BY Zenon DEF BodyInv, StackInv
  <2>1. CASE SendHead(s)
    <3>1. UNCHANGED <<sendQ, connWin, kicks>> /\ out' = out + 1
      BY <2>1, Zenon DEF SendHead
    <3>2. Dull
      BY <2>0, <2>1, DullActs, Zenon
    <3> QED BY <2>0, <3>1, <3>2, <1>StackKept, Zenon DEF Dull
  <2>2. CASE OnDrain(s)
    <3>1. UNCHANGED <<sendQ, connWin, out>> /\ kicks' \in SUBSET Sids
      <4>1. kicks' = kicks \/ kicks' = kicks \union {s}
        BY <2>2, Zenon DEF OnDrain
      <4>2. kicks' \in SUBSET Sids
        BY <2>0, <4>1, Zenon
      <4> QED BY <2>2, <4>2, Zenon DEF OnDrain
    <3>2. Dull
      BY <2>0, <2>2, DullActs, Zenon
    <3> QED BY <2>0, <3>1, <3>2, <1>StackKept, Zenon DEF Dull
  <2>3. CASE Finish(s)
    <3>1. kicks' \in SUBSET Sids
      BY <2>0, <2>3, Zenon DEF Finish
    <3>2. CASE pending[s] /= <<>>
      BY <2>0, <2>3, <3>1, <3>2, FinishCalls, <1>StackOwes, Zenon DEF Calling
    <3>3. CASE pending[s] = <<>>
      <4>1. UNCHANGED <<sendQ, connWin>> /\ out' = out + 1
        BY <2>3, <3>3, Zenon DEF Finish, EmitEnd
      <4>2. Calling(s)
        BY <2>0, <2>3, <3>3, EndsCall, Zenon
      <4> QED BY <2>0, <3>1, <4>1, <4>2, <1>StackKept, Zenon DEF Calling
    <3> QED BY <3>2, <3>3, Zenon
  <2>4. CASE Abort(s)
    <3>1. UNCHANGED <<sendQ, connWin, kicks>> /\ out' = out + 1
      BY <2>4, Zenon DEF Abort, Resets
    <3>2. Calling(s)
      BY <2>0, <2>4, EndsCall, Zenon
    <3> QED BY <2>0, <3>1, <3>2, <1>StackKept, Zenon DEF Calling
  <2>5. ASSUME NEW n \in Sizes, Write(s, n) PROVE StackInv'
    <3>1. kicks' \in SUBSET Sids /\ ActCalls(<< <<"pass">>, <<"wrote", s>> >>)
      BY <2>0, <2>5, Zenon DEF Write
    <3> QED BY <2>0, <3>1, DullPasses, <1>StackOwes, Zenon DEF Dull
  <2> QED BY <2>1, <2>2, <2>3, <2>4, <2>5, Zenon DEF ProducerActs

\* The frames of the peer.
<1>StackPeer.
      ASSUME BodyInv, StackInv, PeerSends
      PROVE  StackInv'
  <2> USE <1>StackPeer
  <2>0. Shape /\ stk \in Seq(Frame) /\ kicks \in SUBSET Sids
    BY Zenon DEF BodyInv, StackInv
  <2>1. ASSUME NEW s \in Sids, HeadersIn(s) PROVE StackInv'
    <3>1. UNCHANGED <<sendQ, connWin, kicks, out>>
      BY <2>1, Zenon DEF HeadersIn
    <3>2. Dull
      BY <2>0, <2>1, DullActs, Zenon
    <3> QED BY <2>0, <3>1, <3>2, <1>StackKept, Zenon DEF Dull
  <2>2. ASSUME NEW s \in Sids, RstIn(s) PROVE StackInv'
    <3>1. UNCHANGED <<sendQ, connWin, kicks, out>>
      BY <2>2, Zenon DEF RstIn
    <3>2. Calling(s)
      BY <2>0, <2>2, EndsCall, Zenon
    <3> QED BY <2>0, <3>1, <3>2, <1>StackKept, Zenon DEF Calling
  <2>3. ASSUME NEW s \in Sids, NEW inc \in Grants, WindowUpdate(s, inc) PROVE StackInv'
    <3>1. CASE TooLarge(win[s] + inc)
      <4>1. UNCHANGED <<sendQ, connWin, kicks>> /\ out' = out + 1
        BY <2>3, <3>1, Zenon DEF WindowUpdate, Resets
      <4>2. Calling(s)
        BY <2>0, <2>3, <3>1, EndsCall, Zenon
      <4> QED BY <2>0, <4>1, <4>2, <1>StackKept, Zenon DEF Calling
    <3>2. CASE ~TooLarge(win[s] + inc)
      <4> DEFINE can == Sendable(s, pending[s], win[s] + inc, phase[s] = "finished")
      <4>1. /\ Enqueued(s, pending[s], win[s] + inc, phase[s] = "finished")
            /\ BatchCalls(UpdateCalls(s, win[s] + inc)) /\ UNCHANGED <<connWin, kicks, out>>
        BY <2>3, <3>2, Zenon DEF WindowUpdate
      <4>2. CASE can
        <5>1. BatchCalls(<< <<"pass">> >>)
          BY <4>1, <4>2, Zenon DEF UpdateCalls
        <5> QED BY <2>0, <4>1, <5>1, DullPasses, <1>StackOwes, Zenon DEF Dull
      <4>3. CASE ~can
        <5>1. BatchCalls(ResumeCalls) /\ UNCHANGED sendQ
          BY <4>1, <4>3, Zenon DEF UpdateCalls, Enqueued
        <5>2. stk' \in Seq(Frame) /\ (Some(stk, Owing) => Some(stk', Owing))
          BY <2>0, <5>1, UpdateLooks, Zenon DEF Looking
        <5> QED BY <2>0, <4>1, <5>1, <5>2, <1>StackKept, Zenon
      <4> QED BY <4>2, <4>3, Zenon
    <3> QED BY <3>1, <3>2, Zenon
  <2>4. ASSUME NEW inc \in Grants, ConnUpdate(inc) PROVE StackInv'
    <3>1. CASE TooLarge(connWin + inc)
      BY <2>4, <3>1, <1>StackCloses, Zenon DEF ConnUpdate
    <3>2. CASE ~TooLarge(connWin + inc)
      <4>1. /\ connWin' = connWin + inc /\ BatchCalls(ConnCalls(inc))
            /\ UNCHANGED <<sendQ, kicks, out>>
        BY <2>4, <3>2, Zenon DEF ConnUpdate
      <4>2. CASE ConnCalls(inc) = << <<"pass">> >>
        <5>1. Adds(<< <<"pass">> >>)
          BY <2>0, <4>1, <4>2, CallsTyped, BatchAdds, Zenon
        <5>2. stk' \in Seq(Frame) /\ Some(stk', Owing)
          BY <5>1, DullCalls, KindsOfFrames, Zenon DEF Adds
        <5> QED BY <2>0, <4>1, <5>2, <1>StackOwes, Zenon
      <4>3. CASE ConnCalls(inc) = <<>> /\ Ready = {}
        <5>1. Adds(<<>>)
          BY <2>0, <4>1, <4>3, CallsTyped, BatchAdds, Zenon
        <5>2. stk' \in Seq(Frame)
          BY <5>1, Zenon DEF Adds
        <5>3. Ready' = {}
          BY <4>1, <4>3, Zenon DEF Ready
        <5> QED BY <2>0, <4>1, <5>2, <5>3, Zenon DEF StackInv
      <4> QED BY <4>2, <4>3, Zenon DEF ConnCalls
    <3> QED BY <3>1, <3>2, Zenon
  <2>5. ASSUME NEW v \in InitWins, Settings(v) PROVE StackInv'
    <3>1. CASE Closes
      BY <3>1, <1>StackCloses, Zenon
    <3>2. CASE BatchCalls(<< <<"pass">> >>) /\ UNCHANGED kicks
      <4>1. Adds(<< <<"pass">> >>)
        BY <2>0, <3>2, CallsTyped, BatchAdds, Zenon
      <4>2. stk' \in Seq(Frame) /\ Some(stk', Owing)
        BY <4>1, DullCalls, KindsOfFrames, Zenon DEF Adds
      <4> QED BY <2>0, <3>2, <4>2, <1>StackOwes, Zenon
    <3> QED BY <2>5, <3>1, <3>2, Zenon DEF Settings
  <2> QED BY <2>1, <2>2, <2>3, <2>4, <2>5, Zenon DEF PeerSends

<1>Step.
      ASSUME BodyInv, StackInv, Next
      PROVE  StackInv'
  <2> USE <1>Step
  <2>0. Shape
    BY Zenon DEF BodyInv
  <2>1. ASSUME LoopStep \/ Writable PROVE StackInv'
    BY <2>0, <2>1, <1>StackLoop, <1>StackFlush, <1>StackPass, Zenon DEF LoopStep
  <2>2. ASSUME Close PROVE StackInv'
    BY <2>2, <1>StackCloses, Zenon DEF Close
  <2> QED BY <2>1, <2>2, <1>StackRunKicks, <1>StackPeer, <1>StackActs, Zenon DEF Next
<1> QED BY <1>Step, Zenon

\* What the queue and the stack give: TypeOK and NoIdleBacklog.
LEMMA QueueMeans ==
    ASSUME BodyInv, QueueInv
    PROVE  TypeOK
<1>1. ASSUME NEW s \in Sids PROVE win[s] \in -(MaxWin + 1)..MaxWin
  BY Zenon DEF BodyInv, Stream, Window
<1>2. connWin \in Int /\ connWin <= MaxWin /\ initWin \in InitWins
  BY Zenon DEF BodyInv, Shape
<1>3. ASSUME NEW s \in Sids, Open(s), NEW u \in 0..1
      PROVE  /\ (\E i \in 1..Len(sendQ[u]) : sendQ[u][i] = s) <=> inSendQ[s] /\ u = Urgency[s]
             /\ \A i, j \in 1..Len(sendQ[u]) : sendQ[u][i] = s /\ sendQ[u][j] = s => i = j
  <2>1. phase[s] /= "gone"
    BY <1>3, Zenon DEF Open
  <2>2. Once(sendQ[u], s, inSendQ[s] /\ u = Urgency[s])
    BY <2>1, Zenon DEF QueueInv, Placed
  <2> QED BY <2>2, Zenon DEF Once
<1> QED BY <1>1, <1>2, <1>3, Zenon DEF TypeOK

\* NoIdleBacklog: an empty stack owes no pass.
LEMMA StackMeans ==
    ASSUME BodyInv, QueueInv, StackInv
    PROVE  NoIdleBacklog
<1> SUFFICES ASSUME stk = <<>>, NEW s \in Sids, Open(s), pending[s] /= <<>> \/ phase[s] = "finished",
                    ~(out > 0), ~(win[s] <= 0), ~(connWin <= 0)
             PROVE  FALSE
  BY Zenon DEF NoIdleBacklog
<1>1. out \in Nat /\ connWin \in Int /\ win[s] \in Int /\ HighWater \in Nat \ {0}
  <2>1. win[s] \in Window /\ Shape
    BY Zenon DEF BodyInv, Stream
  <2> QED BY <2>1, H2Assumption DEF Shape, Window
<1>2. win[s] > 0 /\ connWin > 0 /\ ~(out >= HighWater)
  BY ONLY <1>1, ~(out > 0), ~(win[s] <= 0), ~(connWin <= 0)
<1>3. inSendQ[s]
  BY <1>2, Zenon DEF QueueInv, Waits, Sendable
<1>4. phase[s] /= "gone" /\ Urgency[s] \in 0..1
  BY H2Assumption, Zenon DEF Open
<1>5. \E i \in 1..Len(sendQ[Urgency[s]]) : sendQ[Urgency[s]][i] = s
  BY <1>3, <1>4, Zenon DEF QueueInv, Placed, Once
<1>6. sendQ[Urgency[s]] /= <<>>
  BY <1>5
<1>7. Ready /= {}
  BY <1>4, <1>6, Zenon DEF Ready
<1>8. ~Some(<<>>, Owing)
  BY SomeFew, Zenon
<1> QED BY <1>2, <1>7, <1>8, Zenon DEF StackInv

-----------------------------------------------------------------------------
(* How the calls nest.                                                      *)

Resume == {f \in Frame : f[1] \in {"scan", "kick"}}
Kicking == {f \in Frame : f[1] = "kick"}
Framing == {f \in Frame : f[1] \in {"batch", "kicks", "scan", "kick"}}

\* What a kick's pass runs: itself, and the producers of the streams G it ended.
Quiet(G) == {<<"pass">>} \union ({"call", "cb"} \X G)

\* A batch and the kicks are outermost; one scan or one kick goes on at a time; and
\* nothing but a kick's own pass runs inside it.
Nested(k, G) ==
    /\ \A i \in 1..Len(k) : k[i][1] \in {"batch", "kicks"} => i = Len(k)
    /\ \A i, j \in 1..Len(k) : k[i] \in Resume /\ k[j] \in Resume => i = j
    /\ \A i, j \in 1..Len(k) : k[i] \in Kicking /\ j < i => k[j] \in Quiet(G)

\* Which frames they are.
LEMMA NestKinds ==
    /\ Resume \in SUBSET Watching /\ Kicking \in SUBSET Watching /\ Framing \in SUBSET Frame
    /\ Kicking \subseteq Resume /\ Resume \subseteq Framing /\ Resume \subseteq Frame
    /\ \A f \in Frame : /\ f \in Resume <=> f[1] \in {"scan", "kick"}
                        /\ f \in Kicking <=> f[1] = "kick"
                        /\ f \in Framing <=> f[1] \in {"batch", "kicks", "scan", "kick"}
  BY Zenon DEF Resume, Kicking, Framing, Watching

\* Stacks of at most one frame.
LEMMA NestedFew ==
    ASSUME NEW G
    PROVE  Nested(<<>>, G) /\ \A f \in Frame : Nested(<<f>>, G)
<1>1. Nested(<<>>, G)
  BY DEF Nested
<1>2. ASSUME NEW f \in Frame PROVE Nested(<<f>>, G)
  <2>1. Len(<<f>>) = 1
    BY Zenon
  <2> QED BY <2>1 DEF Nested
<1> QED BY <1>1, <1>2, Zenon

\* The top frame returns; and what it says of the rest.
LEMMA NestedTail ==
    ASSUME NEW k \in Seq(Frame), k /= <<>>, NEW G, Nested(k, G)
    PROVE  /\ Nested(Tail(k), G)
           /\ Head(k)[1] \in {"batch", "kicks"} => Tail(k) = <<>>
           /\ Head(k) \in Resume => ~Some(Tail(k), Resume)
           /\ Head(k) \notin Quiet(G) => ~Some(Tail(k), Kicking)
<1> DEFINE t == Tail(k)
<1>1. /\ t \in Seq(Frame) /\ Len(t) = Len(k) - 1 /\ Len(k) \in Nat \ {0} /\ Head(k) = k[1]
      /\ \A i \in 1..Len(t) : t[i] = k[i + 1]
  OBVIOUS
<1> HIDE DEF t
<1>2. \A i \in 1..Len(t) : i + 1 \in 1..Len(k) /\ i + 1 /= 1 /\ 1 \in 1..Len(k) /\ 1 < i + 1
  BY <1>1
<1>3. Nested(t, G)
  <2>1. ASSUME NEW i \in 1..Len(t), t[i][1] \in {"batch", "kicks"} PROVE i = Len(t)
    <3>1. i + 1 = Len(k)
      BY <1>1, <1>2, <2>1, Zenon DEF Nested
    <3> QED BY <1>1, <3>1
  <2>2. ASSUME NEW i \in 1..Len(t), NEW j \in 1..Len(t), t[i] \in Resume, t[j] \in Resume
        PROVE  i = j
    <3>1. i + 1 = j + 1
      BY <1>1, <1>2, <2>2, Zenon DEF Nested
    <3> QED BY <3>1
  <2>3. ASSUME NEW i \in 1..Len(t), NEW j \in 1..Len(t), t[i] \in Kicking, j < i
        PROVE  t[j] \in Quiet(G)
    <3>1. j + 1 < i + 1
      BY <2>3
    <3> QED BY <1>1, <1>2, <2>3, <3>1, Zenon DEF Nested
  <2> QED BY <2>1, <2>2, <2>3, Zenon DEF Nested
<1>4. Head(k)[1] \in {"batch", "kicks"} => t = <<>>
  <2>1. ASSUME Head(k)[1] \in {"batch", "kicks"} PROVE t = <<>>
    <3>1. 1 \in 1..Len(k)
      BY <1>1
    <3>2. 1 = Len(k)
      BY <1>1, <2>1, <3>1, Zenon DEF Nested
    <3> QED BY <1>1, <3>2
  <2> QED BY <2>1, Zenon
<1>5. Head(k) \in Resume => ~Some(t, Resume)
  BY <1>1, <1>2, Zenon DEF Nested, Some
<1>6. Head(k) \notin Quiet(G) => ~Some(t, Kicking)
  BY <1>1, <1>2, Zenon DEF Nested, Some
<1> QED BY <1>3, <1>4, <1>5, <1>6, Zenon DEF t

Gones == {s \in Sids : phase[s] = "gone"}

NestInv == stk \in Seq(Frame) /\ Nested(stk, Gones)

\* Calls that are neither a batch nor a scan nor a kick.
Plain(a) == a \in Seq(Frame) /\ ~Some(a, Framing)

\* The frames that are not a kick's.
LEMMA LoudKinds ==
    ASSUME NEW G, NEW f \in Frame
    PROVE  /\ f[1] \notin {"pass", "call", "cb"} => f \notin Quiet(G)
           /\ f[1] \in {"call", "cb"} /\ f[2] \notin G => f \notin Quiet(G)
  BY DEF Quiet

\* h2.resuming, read off the stack.
LEMMA ResumingMeans ==
    ASSUME stk \in Seq(Frame)
    PROVE  Resuming <=> Some(stk, Resume)
<1>1. DOMAIN stk = 1..Len(stk) /\ \A i \in 1..Len(stk) : stk[i] \in Frame
  OBVIOUS
<1> QED BY <1>1, NestKinds, Zenon DEF Resuming, Some

\* Nothing resumes while a batch takes its next item, ...
LEMMA BatchNested ==
    ASSUME NestInv, InBatch
    PROVE  /\ Batch \in Seq(Frame) /\ Nested(Batch, Gones)
           /\ ~Some(Batch, Kicking) /\ ~Some(Batch, Resume)
           /\ ~Some(stk, Resume) /\ ~Some(stk, Kicking) /\ ~Some(stk, Owing)
<1> DEFINE b == <<"batch">>
<1>1. b \in Frame /\ b \notin Kicking /\ b \notin Resume /\ b \notin Owing
  BY Zenon DEF Frame, Kicking, Resume, Owing
<1> HIDE DEF b
<1>2. CASE stk = <<>>
  <2>1. Batch = <<b>>
    BY <1>2, Zenon DEF Batch, b
  <2>2. <<b>> \in Seq(Frame) /\ Nested(<<b>>, Gones) /\ ~Some(<<b>>, Kicking) /\ ~Some(<<b>>, Resume)
    BY <1>1, NestedFew, SomeFew, Zenon
  <2>3. ~Some(<<>>, Resume) /\ ~Some(<<>>, Kicking) /\ ~Some(<<>>, Owing)
    BY SomeFew, Zenon
  <2> QED BY <1>2, <2>1, <2>2, <2>3, Zenon
<1>3. CASE stk /= <<>>
  <2>1. On("batch") /\ stk \in Seq(Frame) /\ Nested(stk, Gones) /\ Batch = stk
    BY <1>3, Zenon DEF InBatch, NestInv, Batch
  <2>2. Top \in Frame /\ Top[1] = "batch"
    BY <2>1, TopKind, Zenon
  <2>3. Top \notin Kicking /\ Top \notin Resume /\ Top \notin Owing
    BY <2>2, NestKinds, KindsOfFrames, Zenon
  <2>4. Tail(stk) = <<>>
    <3>1. "batch" \in {"batch", "kicks"}
      BY Zenon
    <3> QED BY <1>3, <2>1, <2>2, <3>1, NestedTail, Zenon DEF Top
  <2>5. ~Some(<<>>, Resume) /\ ~Some(<<>>, Kicking) /\ ~Some(<<>>, Owing)
    BY SomeFew, Zenon
  <2>6. ~Some(stk, Resume) /\ ~Some(stk, Kicking) /\ ~Some(stk, Owing)
    BY <1>3, <2>1, <2>3, <2>4, <2>5, SomeTop, Zenon DEF Top
  <2> QED BY <2>1, <2>6, Zenon
<1> QED BY <1>2, <1>3, Zenon

\* Every step keeps it.
LEMMA NestStep ==
    BodyInv /\ kicks \in SUBSET Sids /\ NestInv /\ Next => NestInv'

\* Streams that end make more producers quiet.
<1>NestedGrows.
      ASSUME NEW k, NEW G, NEW H, G \subseteq H, Nested(k, G)
      PROVE  Nested(k, H)
  <2> USE <1>NestedGrows
  <2>1. Quiet(G) \subseteq Quiet(H)
    BY Zenon DEF Quiet
  <2> QED BY <2>1, Zenon DEF Nested

\* Calls that are neither a batch nor a scan nor a kick; and inside a kick, quiet ones.
<1>NestedOn.
      ASSUME NEW a \in Seq(Frame), NEW k \in Seq(Frame), NEW G, Nested(k, G), ~Some(a, Framing),
             ~Some(k, Kicking) \/ \A i \in 1..Len(a) : a[i] \in Quiet(G)
      PROVE  Nested(a \o k, G)
  <2> USE <1>NestedOn
  <2> DEFINE r == a \o k
  <2>1. /\ Len(r) = Len(a) + Len(k) /\ Len(a) \in Nat /\ Len(k) \in Nat /\ r \in Seq(Frame)
        /\ \A i \in 1..Len(a) : r[i] = a[i]
        /\ \A i \in 1..Len(k) : r[Len(a) + i] = k[i]
    OBVIOUS
  <2> HIDE DEF r
  <2>2. \A i \in 1..Len(r) : \/ i \in 1..Len(a) /\ i <= Len(a)
                             \/ /\ i - Len(a) \in 1..Len(k) /\ Len(a) + (i - Len(a)) = i
                                /\ i - Len(a) \in Int
    BY <2>1
  <2>3. \A i \in 1..Len(r) : \/ i \in 1..Len(a) /\ i <= Len(a) /\ r[i] = a[i]
                             \/ i - Len(a) \in 1..Len(k) /\ r[i] = k[i - Len(a)]
    BY <2>1, <2>2, Zenon
  <2>4. \A i \in 1..Len(a) : a[i] \in Frame /\ a[i] \notin Framing
    <3>1. \A i \in 1..Len(a) : a[i] \in Frame
      OBVIOUS
    <3> QED BY <3>1, Zenon DEF Some
  <2>5. \A i \in 1..Len(a) : a[i][1] \notin {"batch", "kicks"} /\ a[i] \notin Resume /\ a[i] \notin Kicking
    BY <2>4, NestKinds, Zenon
  <2>6. ASSUME NEW i \in 1..Len(r), r[i][1] \in {"batch", "kicks"} PROVE i = Len(r)
    <3>1. i - Len(a) \in 1..Len(k) /\ r[i] = k[i - Len(a)]
      BY <2>3, <2>5, <2>6, Zenon
    <3>2. i - Len(a) = Len(k)
      BY <2>6, <3>1, Zenon DEF Nested
    <3> QED BY <2>1, <3>2
  <2>7. ASSUME NEW i \in 1..Len(r), NEW j \in 1..Len(r), r[i] \in Resume, r[j] \in Resume
        PROVE  i = j
    <3>1. /\ i - Len(a) \in 1..Len(k) /\ r[i] = k[i - Len(a)]
          /\ j - Len(a) \in 1..Len(k) /\ r[j] = k[j - Len(a)]
      BY <2>3, <2>5, <2>7, Zenon
    <3>2. i - Len(a) = j - Len(a)
      BY <2>7, <3>1, Zenon DEF Nested
    <3> QED BY <2>1, <3>2
  <2>8. ASSUME NEW i \in 1..Len(r), NEW j \in 1..Len(r), r[i] \in Kicking, j < i
        PROVE  r[j] \in Quiet(G)
    <3>1. i - Len(a) \in 1..Len(k) /\ r[i] = k[i - Len(a)]
      BY <2>3, <2>5, <2>8, Zenon
    <3>2. Some(k, Kicking)
      BY <2>8, <3>1, Zenon DEF Some
    <3>3. CASE j \in 1..Len(a) /\ r[j] = a[j]
      BY <3>2, <3>3, Zenon
    <3>4. CASE j - Len(a) \in 1..Len(k) /\ r[j] = k[j - Len(a)]
      <4>1. j - Len(a) < i - Len(a)
        BY <2>1, <2>8
      <4> QED BY <2>8, <3>1, <3>4, <4>1, Zenon DEF Nested
    <3> QED BY <2>3, <3>3, <3>4, Zenon
  <2>9. Nested(r, G)
    BY <2>6, <2>7, <2>8, Zenon DEF Nested
  <2> QED BY <2>9, Zenon DEF r

\* A scan or a kick that begins while none goes on.
<1>NestedResume.
      ASSUME NEW f \in Frame, f \in Resume, NEW k \in Seq(Frame), NEW G, Nested(k, G),
             ~Some(k, Resume)
      PROVE  Nested(<<f>> \o k, G)
  <2> USE <1>NestedResume
  <2> DEFINE r == <<f>> \o k
  <2>1. /\ Len(r) = 1 + Len(k) /\ Len(k) \in Nat /\ r \in Seq(Frame) /\ r[1] = f
        /\ \A i \in 1..Len(k) : r[i + 1] = k[i]
    OBVIOUS
  <2> HIDE DEF r
  <2>2. \A i \in 1..Len(r) : i = 1 \/ (i - 1 \in 1..Len(k) /\ (i - 1) + 1 = i)
    BY <2>1
  <2>3. \A i \in 1..Len(r) : (i = 1 /\ r[i] = f) \/ (i - 1 \in 1..Len(k) /\ r[i] = k[i - 1])
    BY <2>1, <2>2, Zenon
  <2>4. \A i \in 1..Len(k) : k[i] \notin Resume /\ k[i] \notin Kicking
    BY NestKinds, Zenon DEF Some
  <2>5. f[1] \notin {"batch", "kicks"}
    BY Zenon DEF Resume
  <2>6. ASSUME NEW i \in 1..Len(r), r[i][1] \in {"batch", "kicks"} PROVE i = Len(r)
    <3>1. i - 1 \in 1..Len(k) /\ r[i] = k[i - 1]
      BY <2>3, <2>5, <2>6, Zenon
    <3>2. i - 1 = Len(k)
      BY <2>6, <3>1, Zenon DEF Nested
    <3> QED BY <2>1, <3>2
  <2>7. ASSUME NEW i \in 1..Len(r), r[i] \in Resume PROVE i = 1
    BY <2>3, <2>4, <2>7, Zenon
  <2>8. ASSUME NEW i \in 1..Len(r), r[i] \in Kicking, NEW j \in 1..Len(r), j < i PROVE FALSE
    <3>1. i = 1
      BY <2>3, <2>4, <2>8, Zenon
    <3> QED BY <2>8, <3>1
  <2>9. Nested(r, G)
    BY <2>6, <2>7, <2>8, Zenon DEF Nested
  <2> QED BY <2>9, Zenon DEF r

\* The calls that the steps make.
<1>PlainFew.
      /\ Plain(<<>>) /\ Plain(FlushNow) /\ Plain(<< <<"pass">> >>) /\ Plain(<< <<"hook">> >>)
      /\ \A n \in Nat, x \in {"write", "refilled", "leave"} :
           Plain(<< <<"flush", n, x>> >>) /\ Plain(<< <<"pass">>, <<"flush", n, x>> >>)
      /\ \A s \in Sids : /\ Plain(<< <<"cb", s>> >>) /\ Plain(<< <<"verdict", s>> >>)
                         /\ Plain(<< <<"pass">>, <<"wrote", s>> >>)
                         /\ Plain(ThenCall(s))
                         /\ Plain(Append(FlushNow, <<"verdict", s>>))
  <2>1. \A f \in Frame : f[1] \notin {"batch", "kicks", "scan", "kick"} => f \notin Framing
    BY NestKinds, Zenon
  <2>2. \A f \in Frame : f \notin Framing => Plain(<<f>>)
    BY SomeFew, Zenon DEF Plain
  <2>3. \A f, g \in Frame : f \notin Framing /\ g \notin Framing => Plain(<<f, g>>)
    BY SomeFew, Zenon DEF Plain
  <2>4. Plain(<<>>)
    BY SomeFew, CallsTyped, Zenon DEF Plain
  <2>5. /\ <<"pass">> \in Frame /\ <<"pass">> \notin Framing
        /\ <<"hook">> \in Frame /\ <<"hook">> \notin Framing
    BY Zenon DEF Frame, Framing
  <2>6. \A n \in Nat, x \in {"write", "refilled", "leave"} :
          <<"flush", n, x>> \in Frame /\ <<"flush", n, x>> \notin Framing
    BY Zenon DEF Frame, Framing
  <2>7. \A s \in Sids : /\ <<"cb", s>> \in Frame /\ <<"cb", s>> \notin Framing
                        /\ <<"call", s>> \in Frame /\ <<"call", s>> \notin Framing
                        /\ <<"verdict", s>> \in Frame /\ <<"verdict", s>> \notin Framing
                        /\ <<"wrote", s>> \in Frame /\ <<"wrote", s>> \notin Framing
    <3>1. \A s \in Sids : /\ <<"cb", s>> \in Frame /\ <<"call", s>> \in Frame
                          /\ <<"verdict", s>> \in Frame /\ <<"wrote", s>> \in Frame
      BY Frames, Zenon
    <3>2. \A s \in Sids : /\ <<"cb", s>> \notin Framing /\ <<"call", s>> \notin Framing
                          /\ <<"verdict", s>> \notin Framing /\ <<"wrote", s>> \notin Framing
      BY Zenon DEF Framing
    <3> QED BY <3>1, <3>2, Zenon
  <2>8. Plain(FlushNow)
    <3>1. 0 \in Nat /\ "write" \in {"write", "refilled", "leave"}
      BY Zenon
    <3> QED BY <2>2, <2>6, <3>1, Zenon DEF FlushNow
  <2>9. ASSUME NEW s \in Sids PROVE Plain(Append(FlushNow, <<"verdict", s>>)) /\ Plain(ThenCall(s))
    <3>1. Plain(Append(FlushNow, <<"verdict", s>>))
      BY <2>7, <2>8, SomeAppend, Zenon DEF Plain
    <3>2. Plain(ThenCall(s))
      BY <2>2, <2>4, <2>7, Zenon DEF ThenCall
    <3> QED BY <3>1, <3>2, Zenon
  <2> QED BY <2>2, <2>3, <2>4, <2>5, <2>6, <2>7, <2>8, <2>9, Zenon

\* One after the other.
<1>PlainOn.
      ASSUME NEW a, NEW b, Plain(a), Plain(b)
      PROVE  Plain(a \o b)
    BY <1>PlainOn, SomeOn, Zenon DEF Plain

\* The flush of a hook.
<1>PlainHook.
  \A k, n : Plain(HookCalls(k, n))
    BY <1>PlainFew, CallsTyped, Zenon

\* A frame that is not a kick's gives way to plain calls.
<1>LoudReplaces.
      ASSUME NestInv, NEW a, Replaces(a), Plain(a), Gones \subseteq Gones',
             Top \notin Quiet(Gones)
      PROVE  NestInv'
  <2> USE <1>LoudReplaces
  <2>1. /\ stk \in Seq(Frame) /\ stk /= <<>> /\ stk' = a \o Tail(stk) /\ stk' \in Seq(Frame)
        /\ Tail(stk) \in Seq(Frame) /\ Nested(stk, Gones) /\ a \in Seq(Frame) /\ ~Some(a, Framing)
    BY Zenon DEF NestInv, Replaces, Plain
  <2>2. Nested(Tail(stk), Gones) /\ ~Some(Tail(stk), Kicking)
    BY <2>1, NestedTail, Zenon DEF Top
  <2>3. Nested(a \o Tail(stk), Gones)
    BY <2>1, <2>2, <1>NestedOn, Zenon
  <2>4. Nested(a \o Tail(stk), Gones')
    BY <2>3, <1>NestedGrows, Zenon
  <2> QED BY <2>1, <2>4, Zenon DEF NestInv

\* A stream that left the table stays out.
<1>GoneStays.
      ASSUME Shape, Next
      PROVE  Gones \subseteq Gones'
  <2> USE <1>GoneStays
  <2> SUFFICES ASSUME NEW t \in Sids, phase[t] = "gone" PROVE phase'[t] = "gone"
    BY Zenon DEF Gones
  <2>0. DOMAIN phase = Sids
    BY Zenon DEF Shape
  <2>1. ASSUME NEW s \in Sids, NEW x, phase' = [phase EXCEPT ![s] = x], t /= s \/ x = "gone"
        PROVE  phase'[t] = "gone"
    BY <2>0, <2>1, Zenon
  <2>2. CASE phase' = phase
    BY <2>2, Zenon
  <2>3. CASE Closes
    <3>1. phase' = [s \in Sids |-> "gone"]
      BY <2>3, Zenon DEF Closes
    <3> QED BY <3>1, Zenon
  <2>4. ASSUME NEW s \in Sids, Gone(s) PROVE phase'[t] = "gone"
    BY <2>1, <2>4, Zenon DEF Gone
  <2>5. CASE Emit
    <3>1. PICK u \in 0..1, s \in Sids : TurnEnds(u, s) \/ TurnSends(u, s) \/ TurnSkips(u, s)
      BY <2>5, EmitTurns, Zenon
    <3> QED BY <2>2, <2>4, <3>1, Zenon DEF TurnEnds, TurnSends, TurnSkips, EmitEnd, EmitData
  <2>6. ASSUME NEW s \in Sids, ProducerActs(s) PROVE phase'[t] = "gone"
    <3>0. "gone" /= "none" /\ "gone" /= "streaming"
      BY Zenon
    <3>1. CASE SendHead(s)
      <4>1. t /= s /\ phase' = [phase EXCEPT ![s] = "streaming"]
        BY <3>0, <3>1, Zenon DEF SendHead
      <4> QED BY <2>1, <4>1, Zenon
    <3>2. CASE OnDrain(s) \/ \E n \in Sizes : Write(s, n)
      BY <2>2, <3>2, Zenon DEF OnDrain, Write
    <3>3. CASE Finish(s)
      <4>1. t /= s /\ (phase' = [phase EXCEPT ![s] = "finished"] \/ Gone(s))
        BY <3>0, <3>3, Zenon DEF Finish, EmitEnd
      <4> QED BY <2>1, <2>4, <4>1, Zenon
    <3>4. CASE Abort(s)
      BY <2>4, <3>4, Zenon DEF Abort, Resets
    <3> QED BY <2>6, <3>1, <3>2, <3>3, <3>4, Zenon DEF ProducerActs
  <2>7. CASE PeerSends
    <3>0. "gone" /= "idle"
      BY Zenon
    <3>1. ASSUME NEW s \in Sids, HeadersIn(s) PROVE phase'[t] = "gone"
      <4>1. t /= s /\ phase' = [phase EXCEPT ![s] = "none"]
        BY <3>0, <3>1, Zenon DEF HeadersIn
      <4> QED BY <2>1, <4>1, Zenon
    <3>2. ASSUME NEW s \in Sids, RstIn(s) PROVE phase'[t] = "gone"
      BY <2>4, <3>2, Zenon DEF RstIn
    <3>3. ASSUME NEW s \in Sids, NEW inc \in Grants, WindowUpdate(s, inc) PROVE phase'[t] = "gone"
      BY <2>2, <2>4, <3>3, Zenon DEF WindowUpdate, Resets
    <3>4. ASSUME NEW inc \in Grants, ConnUpdate(inc) PROVE phase'[t] = "gone"
      BY <2>2, <2>3, <3>4, Zenon DEF ConnUpdate, streamVars
    <3>5. ASSUME NEW v \in InitWins, Settings(v) PROVE phase'[t] = "gone"
      BY <2>2, <2>3, <3>5, Zenon DEF Settings
    <3> QED BY <2>7, <3>1, <3>2, <3>3, <3>4, <3>5, Zenon DEF PeerSends
  <2>8. CASE Close
    BY <2>3, <2>8, Zenon DEF Close
  <2>9. CASE Writable \/ RunDrainKicks \/ (LoopStep /\ ~Emit)
    <3>1. phase' = phase
      BY <2>9, Zenon DEF Writable, RunDrainKicks, LoopStep, EndBatch, PassEnds, ScanEnds,
         CallProducer, ProducerReturns, WriteEnds, Hook, KickEnds, FlushDrained, FlushRefilled,
         FlushLeaves, FlushBlocks, ScanNext, NextKick, streamVars
    <3> QED BY <2>2, <3>1, Zenon
  <2> QED BY <2>5, <2>6, <2>7, <2>8, <2>9, Zenon DEF Next

\* The loop's steps that leave a call which is not a kick's.
<1>NestLoud.
      ASSUME NestInv, Gones \subseteq Gones',
             \/ EndBatch \/ Hook \/ WriteEnds \/ ScanEnds \/ KickEnds
             \/ FlushDrained \/ FlushRefilled \/ FlushLeaves \/ \E left \in 1..out : FlushBlocks(left)
      PROVE  NestInv'
  <2> USE <1>NestLoud
  <2>0. stk \in Seq(Frame)
    BY Zenon DEF NestInv
  <2>1. ASSUME NEW x, x \notin {"pass", "call", "cb"}, On(x), NEW a, Plain(a), Then(a)
        PROVE  NestInv'
    <3>1. stk /= <<>> /\ Top \in Frame /\ Top[1] = x
      BY <2>0, <2>1, TopKind, Zenon
    <3>2. Top \notin Quiet(Gones)
      BY <2>1, <3>1, LoudKinds, Zenon
    <3>3. a \in Seq(Frame)
      BY <2>1, Zenon DEF Plain
    <3>4. Replaces(a)
      BY <2>0, <2>1, <3>1, <3>3, ThenReplaces, Zenon
    <3> QED BY <2>1, <3>2, <3>4, <1>LoudReplaces, Zenon
  <2>2. ASSUME Returns, stk /= <<>> PROVE Then(<<>>)
    <3>1. <<>> \o Tail(stk) = Tail(stk)
      BY <2>0, <2>2
    <3> QED BY <2>2, <3>1, Zenon DEF Returns, Then
  <2>3. CASE EndBatch
    <3>1. On("batch") /\ \E a \in {<<>>, FlushNow} : Then(a)
      BY <2>3, Zenon DEF EndBatch, FlushNow
    <3>2. "batch" \notin {"pass", "call", "cb"}
      BY Zenon
    <3> QED BY <2>1, <3>1, <3>2, <1>PlainFew, Zenon
  <2>4. CASE Hook
    <3>1. On("hook") /\ Then(HookCalls(Tail(stk), out))
      BY <2>4, Zenon DEF Hook
    <3>2. "hook" \notin {"pass", "call", "cb"}
      BY Zenon
    <3> QED BY <2>1, <3>1, <3>2, <1>PlainHook, Zenon
  <2>5. CASE WriteEnds
    <3>1. PICK x \in {"wrote", "verdict"} : On(x)
      BY <2>5, Zenon DEF WriteEnds
    <3>2. Top[2] \in Sids
      BY <2>0, <3>1, TopKind, FrameHolds, Zenon
    <3>3. \E c \in {<<>>, FlushNow} : Then(IF c = <<>> THEN <<>> ELSE Append(c, <<"verdict", Top[2]>>))
      BY <2>5, CallsTyped, Zenon DEF WriteEnds
    <3>4. Then(<<>>) \/ Then(Append(FlushNow, <<"verdict", Top[2]>>))
      BY <3>3, Zenon
    <3>5. x \notin {"pass", "call", "cb"}
      BY Zenon
    <3> QED BY <2>1, <3>1, <3>2, <3>4, <3>5, <1>PlainFew, Zenon
  <2>6. CASE ScanEnds
    <3>1. On("scan") /\ Returns /\ stk /= <<>>
      BY <2>6, Zenon DEF ScanEnds, On
    <3>2. "scan" \notin {"pass", "call", "cb"}
      BY Zenon
    <3> QED BY <2>1, <2>2, <3>1, <3>2, <1>PlainFew, Zenon
  <2>7. CASE KickEnds
    <3>1. On("kick")
      BY <2>7, Zenon DEF KickEnds
    <3>2. Top[2] \in Sids /\ "kick" \notin {"pass", "call", "cb"}
      BY <2>0, <3>1, TopKind, FrameHolds, Zenon
    <3> DEFINE x == IF out > Top[3] THEN HookCalls(Tail(stk), out) ELSE <<>>
    <3>3. \E y \in {<<>>, << <<"cb", Top[2]>> >>} : Then(x \o y)
      BY <2>7, Zenon DEF KickEnds
    <3>4. Plain(x)
      BY <1>PlainHook, <1>PlainFew, Zenon
    <3> HIDE DEF x
    <3>5. \A y \in {<<>>, << <<"cb", Top[2]>> >>} : Plain(x \o y)
      BY <3>2, <3>4, <1>PlainFew, <1>PlainOn, Zenon
    <3> QED BY <2>1, <3>1, <3>2, <3>3, <3>5, Zenon
  <2>8. ASSUME On("flush"), NEW a, Plain(a), Then(a) PROVE NestInv'
    <3>1. "flush" \notin {"pass", "call", "cb"}
      BY Zenon
    <3> QED BY <2>1, <2>8, <3>1, Zenon
  <2>9. ASSUME On("flush") PROVE Top[2] \in Nat /\ Top[2] + 1 \in Nat
    <3>1. Top[2] \in Nat
      BY <2>0, <2>9, TopKind, FrameHolds, Zenon
    <3> QED BY <3>1
  <2>10. CASE FlushDrained
    <3>1. On("flush") /\ Then(<< <<"pass">>, <<"flush", Top[2], "refilled">> >>)
      BY <2>10, Zenon DEF FlushDrained
    <3>2. "refilled" \in {"write", "refilled", "leave"}
      BY Zenon
    <3> QED BY <2>8, <2>9, <3>1, <3>2, <1>PlainFew, Zenon
  <2>11. CASE FlushRefilled
    <3>1. On("flush") /\ (Then(<<>>) \/ Then(<< <<"flush", Top[2] + 1, "write">> >>))
      BY <2>11, Zenon DEF FlushRefilled
    <3>2. "write" \in {"write", "refilled", "leave"}
      BY Zenon
    <3> QED BY <2>8, <2>9, <3>1, <3>2, <1>PlainFew, Zenon
  <2>12. CASE FlushLeaves
    <3>1. On("flush") /\ Returns /\ stk /= <<>>
      BY <2>12, Zenon DEF FlushLeaves, On
    <3> QED BY <2>2, <2>8, <3>1, <1>PlainFew, Zenon
  <2>13. ASSUME NEW left \in 1..out, FlushBlocks(left) PROVE NestInv'
    <3>1. On("flush") /\ (Then(<<>>) \/ Then(<< <<"pass">>, <<"flush", Top[2], "leave">> >>))
      BY <2>13, Zenon DEF FlushBlocks
    <3>2. "leave" \in {"write", "refilled", "leave"}
      BY Zenon
    <3> QED BY <2>8, <2>9, <3>1, <3>2, <1>PlainFew, Zenon
  <2> QED BY <2>3, <2>4, <2>5, <2>6, <2>7, <2>10, <2>11, <2>12, <2>13, Zenon

\* The ends of the calls that a kick's pass may make.
<1>NestReturns.
      ASSUME NestInv, Gones \subseteq Gones', ProducerReturns \/ CallProducer
      PROVE  NestInv'
  <2> USE <1>NestReturns
  <2>0. stk \in Seq(Frame) /\ Nested(stk, Gones)
    BY Zenon DEF NestInv
  <2>1. CASE ProducerReturns
    <3>1. On("cb") /\ stk' = Tail(stk)
      BY <2>1, Zenon DEF ProducerReturns, Returns
    <3>2. stk /= <<>>
      BY <2>0, <3>1, TopKind, Zenon
    <3>3. Nested(Tail(stk), Gones) /\ Tail(stk) \in Seq(Frame)
      BY <2>0, <3>2, NestedTail, SomeTop, Zenon
    <3>4. Nested(Tail(stk), Gones')
      BY <3>3, <1>NestedGrows, Zenon
    <3> QED BY <3>1, <3>3, <3>4, Zenon DEF NestInv
  <2>2. CASE CallProducer
    <3>1. On("call") /\ Then(<< <<"cb", Top[2]>> >>)
      BY <2>2, Zenon DEF CallProducer
    <3>2. stk /= <<>> /\ Top \in Frame /\ Top[1] = "call" /\ Top[2] \in Sids
      BY <2>0, <3>1, TopKind, FrameHolds, Zenon
    <3>3. Plain(<< <<"cb", Top[2]>> >>)
      BY <3>2, <1>PlainFew, Zenon
    <3>4. Replaces(<< <<"cb", Top[2]>> >>)
      BY <2>0, <3>1, <3>2, <3>3, ThenReplaces, Zenon DEF Plain
    <3>5. CASE Top \notin Quiet(Gones)
      BY <3>3, <3>4, <3>5, <1>LoudReplaces, Zenon
    <3>6. CASE Top \in Quiet(Gones)
      <4>1. Top[2] \in Gones
        BY <3>2, <3>6, LoudKinds, Zenon
      <4> DEFINE a == << <<"cb", Top[2]>> >>
      <4>2. <<"cb", Top[2]>> \in Quiet(Gones)
        BY <4>1, Zenon DEF Quiet
      <4>3. \A i \in 1..Len(a) : a[i] \in Quiet(Gones)
        <5>1. \A f \in Quiet(Gones) : \A i \in 1..Len(<<f>>) : <<f>>[i] \in Quiet(Gones)
          OBVIOUS
        <5> QED BY <4>2, <5>1, Zenon
      <4> HIDE DEF a
      <4>4. a \in Seq(Frame) /\ ~Some(a, Framing) /\ stk' = a \o Tail(stk) /\ stk' \in Seq(Frame)
        BY <3>3, <3>4, Zenon DEF Plain, Replaces, a
      <4>5. Nested(Tail(stk), Gones) /\ Tail(stk) \in Seq(Frame)
        BY <2>0, <3>2, NestedTail, SomeTop, Zenon
      <4>6. Nested(a \o Tail(stk), Gones)
        BY <4>3, <4>4, <4>5, <1>NestedOn, Zenon
      <4>7. Nested(a \o Tail(stk), Gones')
        BY <4>6, <1>NestedGrows, Zenon
      <4> QED BY <4>4, <4>7, Zenon DEF NestInv
    <3> QED BY <3>5, <3>6, Zenon
  <2> QED BY <2>1, <2>2, Zenon

\* Plain calls where no kick goes on.
<1>LoudAdds.
      ASSUME Gones \subseteq Gones', NEW a, Plain(a), NEW k \in Seq(Frame), Nested(k, Gones),
             ~Some(k, Kicking), stk' = a \o k
      PROVE  NestInv'
  <2> USE <1>LoudAdds
  <2>1. a \in Seq(Frame) /\ ~Some(a, Framing)
    BY Zenon DEF Plain
  <2>2. Nested(a \o k, Gones)
    BY <2>1, <1>NestedOn, Zenon
  <2>3. Nested(a \o k, Gones') /\ a \o k \in Seq(Frame)
    BY <2>1, <2>2, <1>NestedGrows, SomeOn, Zenon
  <2> QED BY <2>3, Zenon DEF NestInv

\* ... and no kick while a producer that still has its stream does.
<1>CallerNested.
      ASSUME NestInv, NEW s \in Sids, MayAct(s), phase[s] /= "gone"
      PROVE  /\ Caller \in Seq(Frame) /\ Nested(Caller, Gones)
             /\ ~Some(Caller, Kicking) /\ ~Some(stk, Kicking)
  <2> USE <1>CallerNested
  <2>1. CASE On("cb")
    <3>1. ~InBatch
      <4>1. ~(stk = <<>>) /\ ~On("batch")
        BY <2>1, Zenon DEF On
      <4> QED BY <4>1, Zenon DEF InBatch
    <3>2. Top[2] = s /\ Caller = stk /\ stk \in Seq(Frame) /\ Nested(stk, Gones)
      BY <2>1, <3>1, Zenon DEF MayAct, Caller, NestInv
    <3>3. stk /= <<>> /\ Top \in Frame /\ Top[1] = "cb"
      BY <2>1, <3>2, TopKind, Zenon
    <3>4. s \notin Gones
      BY Zenon DEF Gones
    <3>5. Top \notin Quiet(Gones) /\ Top \notin Kicking
      <4>1. Top \notin Kicking
        BY <3>3, NestKinds, Zenon
      <4>2. "cb" \in {"call", "cb"}
        BY Zenon
      <4> QED BY <3>2, <3>3, <3>4, <4>1, <4>2, LoudKinds, Zenon
    <3>6. ~Some(Tail(stk), Kicking)
      BY <3>2, <3>3, <3>5, NestedTail, Zenon DEF Top
    <3>7. ~Some(stk, Kicking)
      BY <3>2, <3>3, <3>5, <3>6, SomeTop, Zenon DEF Top
    <3> QED BY <3>2, <3>7, Zenon
  <2>2. CASE ~On("cb")
    BY <2>2, BatchNested, Zenon DEF MayAct, Caller
  <2> QED BY <2>1, <2>2, Zenon

\* The steps of the streaming API.
<1>NestActs.
      ASSUME NestInv, Gones \subseteq Gones', NEW s \in Sids, ProducerActs(s)
      PROVE  NestInv'
  <2> USE <1>NestActs
  <2>1. MayAct(s) /\ phase[s] /= "gone"
    <3>1. phase[s] \in {"none", "streaming"} => phase[s] /= "gone"
      BY Zenon
    <3>2. MayAct(s) /\ (phase[s] = "none" \/ phase[s] = "streaming" \/ phase[s] \in {"none", "streaming"})
      BY Zenon DEF ProducerActs, SendHead, OnDrain, Finish, Abort, Write
    <3> QED BY <3>1, <3>2, Zenon
  <2>2. /\ Caller \in Seq(Frame) /\ Nested(Caller, Gones) /\ ~Some(Caller, Kicking)
    BY <2>1, <1>CallerNested, Zenon
  <2>3. /\ Plain(ThenCall(s) \o << <<"hook">> >>)
        /\ Plain(<< <<"pass">> >> \o ThenCall(s) \o << <<"hook">> >>)
    BY <1>PlainFew, <1>PlainOn, Zenon
  <2>4. \E a : Plain(a) /\ ActCalls(a)
    BY <2>3, <1>PlainFew, <1>PlainHook, Zenon DEF ProducerActs, SendHead, OnDrain, Finish, Abort, Write,
       EndedCalls
  <2> QED BY <2>2, <2>4, <1>LoudAdds, Zenon DEF ActCalls

\* A look for producers, from where nothing resumes.
<1>ResumeNested.
      ASSUME stk \in Seq(Frame), NEW k \in Seq(Frame), Nested(k, Gones), Some(k, Resume) => Resuming
      PROVE  Nested(ResumeCalls \o k, Gones)
  <2> USE <1>ResumeNested
  <2>1. CASE ResumeCalls = <<>>
    <3>1. <<>> \o k = k
      OBVIOUS
    <3> QED BY <2>1, <3>1, Zenon
  <2>2. CASE ResumeCalls /= <<>>
    <3>1. ResumeCalls = << <<"scan", Resumable>> >> /\ ~Resuming
      BY <2>2, Zenon DEF ResumeCalls
    <3>2. <<"scan", Resumable>> \in Frame
      BY CallsTyped, Frames, Zenon
    <3>3. <<"scan", Resumable>> \in Resume
      BY <3>2, Zenon DEF Resume
    <3> QED BY <3>1, <3>2, <3>3, <1>NestedResume, Zenon
  <2> QED BY <2>1, <2>2, Zenon

\* The frames of the peer.
<1>NestPeer.
      ASSUME NestInv, Gones \subseteq Gones', PeerSends
      PROVE  NestInv'
  <2> USE <1>NestPeer
  <2>1. CASE Closes
    <3>1. stk' = <<>> /\ <<>> \in Seq(Frame) /\ Nested(<<>>, Gones')
      BY <2>1, NestedFew, CallsTyped, Zenon DEF Closes
    <3> QED BY <3>1, Zenon DEF NestInv
  <2>2. ASSUME InBatch, NEW a, Plain(a), BatchCalls(a) PROVE NestInv'
    <3>1. Batch \in Seq(Frame) /\ Nested(Batch, Gones) /\ ~Some(Batch, Kicking)
      BY <2>2, BatchNested, Zenon
    <3> QED BY <2>2, <3>1, <1>LoudAdds, Zenon DEF BatchCalls
  <2>3. ASSUME InBatch, BatchCalls(ResumeCalls) PROVE NestInv'
    <3>1. Batch \in Seq(Frame) /\ Nested(Batch, Gones) /\ ~Some(Batch, Resume)
      BY <2>3, BatchNested, Zenon
    <3>2. Nested(ResumeCalls \o Batch, Gones)
      BY <3>1, <1>ResumeNested, Zenon DEF NestInv
    <3>3. Nested(ResumeCalls \o Batch, Gones')
      BY <3>2, <1>NestedGrows, Zenon
    <3>4. ResumeCalls \o Batch \in Seq(Frame)
      <4>1. ResumeCalls \in Seq(Frame)
        BY CallsTyped, Zenon
      <4> QED BY <3>1, <4>1, SomeOn, Zenon
    <3> QED BY <2>3, <3>3, <3>4, Zenon DEF BatchCalls, NestInv
  <2>4. ASSUME NEW s \in Sids, HeadersIn(s) \/ RstIn(s) PROVE NestInv'
    BY <2>2, <2>4, <1>PlainFew, Zenon DEF HeadersIn, RstIn
  <2>5. ASSUME NEW s \in Sids, NEW inc \in Grants, WindowUpdate(s, inc) PROVE NestInv'
    BY <2>2, <2>3, <2>5, <1>PlainFew, Zenon DEF WindowUpdate, UpdateCalls
  <2>6. ASSUME NEW inc \in Grants, ConnUpdate(inc) PROVE NestInv'
    BY <2>1, <2>2, <2>6, <1>PlainFew, Zenon DEF ConnUpdate, ConnCalls
  <2>7. ASSUME NEW v \in InitWins, Settings(v) PROVE NestInv'
    BY <2>1, <2>2, <2>7, <1>PlainFew, Zenon DEF Settings
  <2> QED BY <2>4, <2>5, <2>6, <2>7, Zenon DEF PeerSends

\* h2Schedule: it calls the producers of the streams it ends, and looks for others.
<1>NestPass.
      ASSUME Shape, NestInv, Gones \subseteq Gones', Emit \/ PassEnds
      PROVE  NestInv'
  <2> USE <1>NestPass
  <2>0. stk \in Seq(Frame) /\ Nested(stk, Gones) /\ Nested(stk, Gones')
    BY <1>NestedGrows, Zenon DEF NestInv
  <2>1. CASE Emit
    <3>1. PICK u \in 0..1, s \in Sids : TurnEnds(u, s) \/ TurnSends(u, s) \/ TurnSkips(u, s)
      BY <2>1, EmitTurns, Zenon
    <3>2. CASE stk' = stk \/ stk' = <<>> \o stk
      <4>1. <<>> \o stk = stk
        BY <2>0
      <4> QED BY <2>0, <3>2, <4>1, Zenon DEF NestInv
    <3>3. CASE stk' = ThenCall(s) \o stk /\ phase'[s] = "gone"
      <4> DEFINE a == ThenCall(s)
      <4>1. s \in Gones'
        BY <3>3, Zenon DEF Gones
      <4>2. <<"call", s>> \in Quiet(Gones')
        BY <4>1, Zenon DEF Quiet
      <4>3. \A i \in 1..Len(a) : a[i] \in Quiet(Gones')
        <5>1. \A f \in Quiet(Gones') : \A i \in 1..Len(<<f>>) : <<f>>[i] \in Quiet(Gones')
          OBVIOUS
        <5>2. \A i \in 1..Len(<<>>) : <<>>[i] \in Quiet(Gones')
          OBVIOUS
        <5> QED BY <4>2, <5>1, <5>2, Zenon DEF ThenCall
      <4>4. a \in Seq(Frame) /\ ~Some(a, Framing)
        BY <1>PlainFew, Zenon DEF Plain
      <4> HIDE DEF a
      <4>5. Nested(a \o stk, Gones') /\ a \o stk \in Seq(Frame)
        BY <2>0, <4>3, <4>4, <1>NestedOn, SomeOn, Zenon
      <4> QED BY <3>3, <4>5, Zenon DEF NestInv, a
    <3>4. EmitEnd(s) => phase'[s] = "gone"
      <4>1. DOMAIN phase = Sids
        BY Zenon DEF Shape
      <4>2. phase' = [phase EXCEPT ![s] = "gone"] => phase'[s] = "gone"
        BY <4>1, Zenon
      <4> QED BY <4>2, Zenon DEF EmitEnd, Gone
    <3> QED BY <3>1, <3>2, <3>3, <3>4, Zenon DEF TurnEnds, TurnSends, TurnSkips
  <2>2. CASE PassEnds
    <3>1. On("pass") /\ stk' = ResumeCalls \o Tail(stk)
      BY <2>2, Zenon DEF PassEnds, Then
    <3>2. stk /= <<>>
      BY <2>0, <3>1, TopKind, Zenon
    <3>3. Nested(Tail(stk), Gones) /\ Tail(stk) \in Seq(Frame)
      BY <2>0, <3>2, NestedTail, SomeTop, Zenon
    <3>4. Some(Tail(stk), Resume) => Resuming
      BY <2>0, <3>2, SomeTop, ResumingMeans, Zenon
    <3>5. Nested(ResumeCalls \o Tail(stk), Gones)
      BY <2>0, <3>3, <3>4, <1>ResumeNested, Zenon
    <3>6. ResumeCalls \o Tail(stk) \in Seq(Frame)
      <4>1. ResumeCalls \in Seq(Frame)
        BY CallsTyped, Zenon
      <4> QED BY <3>3, <4>1, SomeOn, Zenon
    <3>7. Nested(ResumeCalls \o Tail(stk), Gones')
      BY <3>5, <1>NestedGrows, Zenon
    <3> QED BY <3>1, <3>6, <3>7, Zenon DEF NestInv
  <2> QED BY <2>1, <2>2, Zenon

\* The scan goes on, and a producer runs inside it.
<1>NestScan.
      ASSUME NestInv, Gones \subseteq Gones', NEW s \in Sids, ScanNext(s)
      PROVE  NestInv'
  <2> USE <1>NestScan
  <2>0. stk \in Seq(Frame) /\ Nested(stk, Gones) /\ On("scan")
    BY Zenon DEF NestInv, ScanNext
  <2>1. stk /= <<>> /\ Top \in Frame /\ Top[1] = "scan"
    BY <2>0, TopKind, Zenon
  <2> DEFINE g == <<"scan", Top[2] \ {s}>>  t == Tail(stk)  c == << <<"cb", s>> >>
  <2>2. g \in Frame /\ g \in Resume /\ g \notin Kicking
    <3>1. Top[2] \ {s} \in SUBSET Sids
      BY <2>1, FrameHolds, Zenon
    <3>2. g \in Frame
      BY <3>1, Frames, Zenon
    <3>3. g[1] = "scan"
      BY Zenon
    <3> QED BY <3>2, <3>3, NestKinds, Zenon
  <2>3. Top \in Resume /\ Resume \in SUBSET Frame
    BY <2>1, NestKinds, Zenon
  <2>4. Nested(t, Gones) /\ t \in Seq(Frame) /\ ~Some(t, Resume)
    BY <2>0, <2>1, <2>3, NestedTail, SomeTop, Zenon DEF Top
  <2>5. stk' = <<g>> \o t \/ stk' = << <<"cb", s>>, g>> \o t
    BY Zenon DEF ScanNext, Then
  <2> HIDE DEF g, t
  <2>6. Nested(<<g>> \o t, Gones) /\ <<g>> \o t \in Seq(Frame) /\ <<g>> \in Seq(Frame)
    BY <2>2, <2>4, <1>NestedResume, SomeFew, SomeOn, Zenon
  <2>7. ~Some(<<g>> \o t, Kicking)
    <3>1. ~Some(t, Kicking)
      BY <2>4, NestKinds, SomeSub, Zenon
    <3> QED BY <2>2, <2>4, <2>6, <3>1, SomeFew, SomeOn, Zenon
  <2>8. << <<"cb", s>>, g>> \o t = c \o (<<g>> \o t)
    <3> DEFINE f == <<"cb", s>>
    <3>1. f \in Frame
      BY Frames, Zenon
    <3> HIDE DEF f
    <3>2. <<f, g>> \o t = <<f>> \o (<<g>> \o t)
      BY <2>2, <2>4, <3>1
    <3> QED BY <3>2, Zenon DEF f
  <2>9. Plain(c)
    BY <1>PlainFew, Zenon
  <2> HIDE DEF c
  <2>10. CASE stk' = c \o (<<g>> \o t)
    BY <2>6, <2>7, <2>9, <2>10, <1>LoudAdds, Zenon
  <2>11. CASE stk' = <<g>> \o t
    <3>1. Nested(<<g>> \o t, Gones')
      BY <2>6, <1>NestedGrows, Zenon
    <3> QED BY <2>6, <2>11, <3>1, Zenon DEF NestInv
  <2> QED BY <2>5, <2>8, <2>10, <2>11, Zenon

\* A kick and its pass; the other kicks wait below.
<1>NestKick.
      ASSUME BodyInv, NestInv, Gones \subseteq Gones', NEW s \in Sids, NextKick(s)
      PROVE  NestInv'
  <2> USE <1>NestKick
  <2>0. stk \in Seq(Frame) /\ Nested(stk, Gones) /\ On("kicks")
    BY Zenon DEF NestInv, NextKick
  <2>1. stk /= <<>> /\ Top \in Frame /\ Top[1] = "kicks"
    BY <2>0, TopKind, Zenon
  <2>2. Tail(stk) = <<>>
    <3>1. "kicks" \in {"batch", "kicks"}
      BY Zenon
    <3> QED BY <2>0, <2>1, <3>1, NestedTail, Zenon DEF Top
  <2> DEFINE g == <<"kicks", Top[2] \ {s}>>  f == <<"kick", s, out>>  p == <<"pass">>
             y == IF Top[2] = {s} THEN <<>> ELSE <<g>>
             x == IF Open(s) /\ cb[s] THEN <<p, f>> ELSE <<>>
  <2>3. /\ g \in Frame /\ g \notin Resume
        /\ f \in Frame /\ f \in Resume /\ p \in Frame
        /\ p \in Quiet(Gones)
    <3>1. Top[2] \ {s} \in SUBSET Sids
      BY <2>1, FrameHolds, Zenon
    <3>2. out \in Nat
      BY Zenon DEF BodyInv, Shape
    <3>3. g \in Frame /\ f \in Frame /\ p \in Frame
      BY <3>1, <3>2, Frames, Zenon
    <3>4. f[1] = "kick" /\ g[1] = "kicks"
      BY Zenon
    <3>5. p \in Quiet(Gones)
      BY Zenon DEF Quiet
    <3> QED BY <3>3, <3>4, <3>5, NestKinds, Zenon
  <2>4. stk' = (x \o y) \o Tail(stk)
    BY Zenon DEF NextKick, Then
  <2> HIDE DEF g, f, p
  <2>5. y \in Seq(Frame) /\ Nested(y, Gones) /\ ~Some(y, Resume)
    BY <2>3, NestedFew, SomeFew, Zenon
  <2> HIDE DEF y
  <2>6. x \in Seq(Frame) /\ x \o y \in Seq(Frame)
    <3>1. x \in Seq(Frame)
      BY <2>3, SomeFew, Zenon
    <3> QED BY <2>5, <3>1, SomeOn, Zenon
  <2>7. Nested(x \o y, Gones)
    <3>1. CASE x = <<>>
      <4>1. <<>> \o y = y
        BY <2>5
      <4> QED BY <2>5, <3>1, <4>1, Zenon
    <3>2. CASE x = <<p, f>>
      <4>1. <<p, f>> \o y = <<p>> \o (<<f>> \o y)
        BY <2>3, <2>5
      <4>2. Nested(<<f>> \o y, Gones) /\ <<f>> \o y \in Seq(Frame) /\ <<p>> \in Seq(Frame)
        BY <2>3, <2>5, <1>NestedResume, SomeFew, SomeOn, Zenon
      <4>3. \A i \in 1..Len(<<p>>) : <<p>>[i] \in Quiet(Gones)
        BY <2>3
      <4>4. ~Some(<<p>>, Framing)
        BY <1>PlainFew, Zenon DEF Plain, p
      <4>5. Nested(<<p>> \o (<<f>> \o y), Gones)
        BY <4>2, <4>3, <4>4, <1>NestedOn, Zenon
      <4> QED BY <3>2, <4>1, <4>5, Zenon
    <3> QED BY <3>1, <3>2, Zenon
  <2> HIDE DEF x
  <2>8. stk' = x \o y
    <3>1. (x \o y) \o <<>> = x \o y
      BY <2>6
    <3> QED BY <2>2, <2>4, <3>1, Zenon
  <2>9. Nested(x \o y, Gones')
    BY <2>7, <1>NestedGrows, Zenon
  <2> QED BY <2>6, <2>8, <2>9, Zenon DEF NestInv

<1>Step.
      ASSUME BodyInv, kicks \in SUBSET Sids, NestInv, Next
      PROVE  NestInv'
  <2> USE <1>Step
  <2>0. Shape /\ Gones \subseteq Gones'
    BY <1>GoneStays, Zenon DEF BodyInv
  <2>1. CASE Writable
    <3>1. stk' = FlushNow
      BY <2>1, Zenon DEF Writable, FlushNow
    <3>2. \A n \in Nat, x \in {"write", "refilled", "leave"} : <<"flush", n, x>> \in Frame
      BY Frames, Zenon
    <3>3. <<"flush", 0, "write">> \in Frame
      BY <3>2, Zenon
    <3>4. Nested(FlushNow, Gones')
      BY <3>3, NestedFew, Zenon DEF FlushNow
    <3> QED BY <3>1, <3>4, CallsTyped, Zenon DEF NestInv
  <2>2. CASE RunDrainKicks
    <3>1. stk' = << <<"kicks", kicks>> >> /\ <<"kicks", kicks>> \in Frame
      BY <2>2, Frames, Zenon DEF RunDrainKicks
    <3> QED BY <3>1, NestedFew, SomeFew, Zenon DEF NestInv
  <2>3. CASE Close
    <3>1. stk' = <<>>
      BY <2>3, Zenon DEF Close, Closes
    <3> QED BY <3>1, NestedFew, CallsTyped, Zenon DEF NestInv
  <2>4. CASE LoopStep
    BY <2>0, <2>4, <1>NestLoud, <1>NestReturns, <1>NestPass, <1>NestScan, <1>NestKick, Zenon DEF LoopStep
  <2> QED BY <2>0, <2>1, <2>2, <2>3, <2>4, <1>NestPeer, <1>NestActs, Zenon DEF Next
<1> QED BY <1>Step, Zenon

-----------------------------------------------------------------------------
(* NoParkedForgotten: who will call a producer that waits.                  *)

Scans == {f \in Frame : f[1] = "scan"}
CallOf(r) == {f \in Frame : f[1] = "call" /\ f[2] = r}

\* The scan, the kicks or the kick that has r on its list.
NamesOf(r) == {f \in Frame : \/ f[1] \in {"scan", "kicks"} /\ r \in f[2]
                             \/ f[1] = "kick" /\ f[2] = r}

Named(r) == r \in kicks \/ Some(stk, NamesOf(r))
Armed(r) == cb[r] /\ backedUp[r] /\ Open(r)

\* No pass will send the backlog of r before the peer opens a window.
Blocked(r) == pending[r] /= <<>> /\ (connWin <= 0 \/ ~inSendQ[r])

\* The callback of r will come: it is on a list, or it is behind bytes whose flush or
\* whose end brings a pass, or a pass is owed that may scan.  A scan that is under way
\* is not repeated, so what it leaves out is blocked.
Due(r) ==
    /\ Armed(r)
    /\ \/ Named(r) \/ out > 0 \/ pending[r] /= <<>>
       \/ ~Some(stk, Resume) /\ Some(stk, Owing)
    /\ Some(stk, Scans) => Named(r) \/ Blocked(r)

Parks(r) == parked[r] => Some(stk, CallOf(r)) \/ Due(r)

ParkInv ==
    /\ DOMAIN cb = Sids /\ DOMAIN backedUp = Sids /\ DOMAIN parked = Sids
    /\ \A r \in Sids : Parks(r)

\* What a step does to the stack takes nothing from r.
Heeds(r) ==
    /\ Some(stk, CallOf(r)) => Some(stk', CallOf(r))
    /\ Some(stk, NamesOf(r)) => Some(stk', NamesOf(r))
    /\ Some(stk', Resume) => Some(stk, Resume)
    /\ Some(stk', Scans) => Some(stk, Scans)
    /\ Some(stk, Owing) => Some(stk', Owing) \/ out' > 0

\* Nor does the rest of it.
Keeps(r) ==
    /\ parked'[r] => parked[r]
    /\ Armed(r) => Armed(r)'
    /\ r \in kicks => r \in kicks'
    /\ out > 0 => out' > 0
    /\ pending[r] /= <<>> => pending'[r] /= <<>>
    /\ Some(stk, Scans) /\ Blocked(r) => Blocked(r)'

\* What the callback of r sees of its stream stays as it is.
SameResp(r) ==
    /\ parked'[r] = parked[r] /\ cb'[r] = cb[r] /\ backedUp'[r] = backedUp[r]
    /\ phase'[r] = phase[r] /\ pending'[r] = pending[r] /\ inSendQ'[r] = inSendQ[r]

\* Every step keeps it.
LEMMA ParkStep ==
    BodyInv /\ QueueInv /\ StackInv /\ NestInv /\ ParkInv /\ Next => ParkInv'

\* Which frames they are.
<1>ParkKinds.
      ASSUME NEW r
      PROVE  /\ Scans \in SUBSET Watching /\ CallOf(r) \in SUBSET Watching
             /\ NamesOf(r) \in SUBSET Watching /\ Resume \in SUBSET Watching
             /\ Scans \subseteq Resume
             /\ \A f \in Frame :
                  /\ f \in Scans <=> f[1] = "scan"
                  /\ f \in CallOf(r) <=> f[1] = "call" /\ f[2] = r
                  /\ f \in NamesOf(r) <=> \/ f[1] \in {"scan", "kicks"} /\ r \in f[2]
                                          \/ f[1] = "kick" /\ f[2] = r
                  /\ f \in Resume <=> f[1] \in {"scan", "kick"}
                  /\ f \in Resume <=> f \in Scans \/ f \in Kicking
    BY <1>ParkKinds, Zenon DEF Scans, CallOf, NamesOf, Resume, Kicking, Watching

\* So the callback of r is still due.
<1>ParkKept.
      ASSUME NEW r \in Sids, Parks(r), Heeds(r), Keeps(r)
      PROVE  Parks(r)'
  <2> USE <1>ParkKept
  <2> SUFFICES ASSUME parked'[r], ~Some(stk', CallOf(r)) PROVE Due(r)'
    BY Zenon DEF Parks
  <2>1. Due(r) /\ Armed(r)'
    BY Zenon DEF Parks, Heeds, Keeps, Due
  <2>2. Named(r) => Named(r)'
    BY Zenon DEF Named, Heeds, Keeps
  <2>3. Named(r)' \/ out' > 0 \/ pending'[r] /= <<>> \/ (~Some(stk', Resume) /\ Some(stk', Owing))
    BY <2>1, <2>2, Zenon DEF Due, Heeds, Keeps
  <2>4. Some(stk', Scans) => Named(r)' \/ Blocked(r)'
    BY <2>1, <2>2, Zenon DEF Due, Heeds, Keeps
  <2> QED BY <2>1, <2>3, <2>4, Zenon DEF Due

\* A step that calls nobody.
<1>DullHeeds.
      ASSUME Dull, NEW r \in Sids
      PROVE  Heeds(r)
    BY <1>DullHeeds, <1>ParkKinds, Zenon DEF Dull, Heeds

\* A step that calls the producer of s.
<1>CallingHeeds.
      ASSUME NEW s \in Sids, Calling(s), NEW r \in Sids
      PROVE  Heeds(r) /\ (cb[s] => Some(stk', CallOf(s)))
  <2> USE <1>CallingHeeds
  <2>1. <<"call", s>> \in Frame
    BY Frames, Zenon
  <2>2. <<"call", s>> \notin Scans /\ <<"call", s>> \notin Resume /\ <<"call", s>> \in CallOf(s)
    BY <2>1, Zenon DEF Scans, Resume, CallOf
  <2> QED BY <2>2, <1>ParkKinds, Zenon DEF Calling, Heeds

\* The frame that ends had nothing to do with r, or its calls go on with it.
<1>ReplacesHeeds.
      ASSUME NEW a, Replaces(a), NEW r \in Sids, Top \notin Owing,
             Top \in CallOf(r) => Some(a, CallOf(r)), Top \in NamesOf(r) => Some(a, NamesOf(r)),
             Some(a, Resume) => Top \in Resume, Some(a, Scans) => Top \in Scans
      PROVE  Heeds(r)
  <2> USE <1>ReplacesHeeds
  <2>1. \A F \in SUBSET Watching : F \in SUBSET Frame
    BY KindsOfFrames, Zenon
  <2>2. /\ Scans \in SUBSET Frame /\ CallOf(r) \in SUBSET Frame /\ NamesOf(r) \in SUBSET Frame
        /\ Resume \in SUBSET Frame /\ Owing \in SUBSET Frame
    BY <2>1, <1>ParkKinds, KindsOfFrames, Zenon
  <2> QED BY <2>2, Zenon DEF Replaces, Heeds

\* A step that leaves the stream of r alone.
<1>SameKeeps.
      ASSUME NEW r \in Sids, SameResp(r), r \in kicks => r \in kicks', out > 0 => out' > 0,
             Some(stk, Scans) => (connWin <= 0 => connWin' <= 0)
      PROVE  Keeps(r)
    BY <1>SameKeeps, Zenon DEF SameResp, Keeps, Armed, Open, Blocked

\* A stream whose callback is detached to be called.
<1>ParkCalled.
      ASSUME NEW s \in Sids, Parks(s), Calling(s)
      PROVE  (parked'[s] => parked[s]) => Parks(s)'
  <2> USE <1>ParkCalled
  <2>1. Heeds(s) /\ (cb[s] => Some(stk', CallOf(s)))
    BY <1>CallingHeeds, Zenon
  <2> QED BY <2>1, Zenon DEF Parks, Heeds, Due, Armed

\* The loop's steps that change nothing of the streams.
<1>UnchangedKeeps.
      ASSUME NEW r \in Sids, kicks' = kicks, out > 0 => out' > 0,
             UNCHANGED <<connWin, phase, pending, inSendQ, backedUp, cb, parked>>
      PROVE  Keeps(r)
  <2> USE <1>UnchangedKeeps
  <2>1. SameResp(r)
    BY Zenon DEF SameResp
  <2> QED BY <2>1, <1>SameKeeps, Zenon

\* The steps of the loop that call nobody.
<1>ParkLoop.
      ASSUME BodyInv, stk \in Seq(Frame), NEW r \in Sids, Parks(r),
             EndBatch \/ ProducerReturns \/ Hook \/ FlushRefilled \/ FlushLeaves \/ Writable
      PROVE  Parks(r)'
  <2> USE <1>ParkLoop
  <2>1. Dull
    BY DullLoop, DullFlush, DullActs, Zenon
  <2>2. UNCHANGED <<connWin, kicks, out, phase, pending, inSendQ, backedUp, cb, parked>>
    BY Zenon DEF EndBatch, ProducerReturns, Hook, FlushRefilled, FlushLeaves, Writable, streamVars
  <2>3. Keeps(r)
    BY <2>2, <1>UnchangedKeeps, Zenon
  <2> QED BY <2>1, <2>3, <1>DullHeeds, <1>ParkKept, Zenon

\* The verdict may only mark the stream.
<1>ParkWriteEnds.
      ASSUME stk \in Seq(Frame), DOMAIN backedUp = Sids, NEW r \in Sids, Parks(r), WriteEnds
      PROVE  Parks(r)'
  <2> USE <1>ParkWriteEnds
  <2>1. Dull
    BY DullWriteEnds, Zenon
  <2>2. /\ UNCHANGED <<connWin, kicks, out, phase, pending, inSendQ, cb, parked>>
        /\ \E full : backedUp' = [backedUp EXCEPT ![Top[2]] = @ \/ full]
    BY Zenon DEF WriteEnds
  <2>3. backedUp[r] => backedUp'[r]
    BY <2>2, Zenon
  <2>4. Keeps(r)
    BY <2>2, <2>3, Zenon DEF Keeps, Armed, Open, Blocked
  <2> QED BY <2>1, <2>4, <1>DullHeeds, <1>ParkKept, Zenon

\* The scan's next producer is called, unless it has no callback any more.
<1>ParkScan.
      ASSUME stk \in Seq(Frame), DOMAIN cb = Sids, DOMAIN backedUp = Sids, DOMAIN parked = Sids,
             NEW r \in Sids, Parks(r), NEW s \in Sids, ScanNext(s)
      PROVE  Parks(r)'
  <2> USE <1>ParkScan
  <2>1. On("scan") /\ UNCHANGED <<kicks, out, phase, pending, inSendQ, connWin>>
    BY Zenon DEF ScanNext
  <2>2. Top \in Frame /\ Top[1] = "scan" /\ Top \notin Owing
    BY <2>1, TopKind
  <2>3. PICK a : /\ Replaces(a)
                 /\ \A F \in SUBSET Watching : Some(a, F) <=> <<"scan", Top[2] \ {s}>> \in F
    BY ScanReplaces, Zenon
  <2> DEFINE g == <<"scan", Top[2] \ {s}>>
  <2>4. g \in Frame /\ g[1] = "scan" /\ g[2] = Top[2] \ {s}
    <3>1. Top[2] \ {s} \in SUBSET Sids
      BY <2>2, FrameHolds, Zenon
    <3>2. g \in Frame
      BY <3>1, Frames, Zenon
    <3> QED BY <3>2, Zenon
  <2>5. /\ Top \notin CallOf(r) /\ Top \in Resume /\ Top \in Scans
        /\ Top \in NamesOf(r) => r \in Top[2]
        /\ r \in Top[2] \ {s} => g \in NamesOf(r)
    <3> HIDE DEF g
    <3> QED BY <2>2, <2>4, <1>ParkKinds, Zenon
  <2> HIDE DEF g
  <2>6. r /= s => (r \in Top[2] => r \in Top[2] \ {s})
    BY Zenon
  <2>7. CASE r /= s
    <3>1. Top \in NamesOf(r) => Some(a, NamesOf(r))
      BY <2>3, <2>5, <2>6, <2>7, <1>ParkKinds, Zenon DEF g
    <3>2. Heeds(r)
      BY <2>2, <2>3, <2>5, <3>1, <1>ReplacesHeeds, Zenon
    <3>3. parked'[r] = parked[r] /\ cb'[r] = cb[r] /\ backedUp'[r] = backedUp[r]
      <4>1. \/ /\ backedUp' = [backedUp EXCEPT ![s] = FALSE] /\ cb' = [cb EXCEPT ![s] = FALSE]
               /\ parked' = [parked EXCEPT ![s] = FALSE]
            \/ UNCHANGED <<backedUp, cb, parked>>
        BY Zenon DEF ScanNext
      <4> QED BY <2>7, <4>1, Zenon
    <3>4. Keeps(r)
      BY <2>1, <3>3, <1>SameKeeps, Zenon DEF SameResp
    <3> QED BY <3>2, <3>4, <1>ParkKept, Zenon
  <2>8. CASE r = s
    <3>1. CASE Open(s) /\ backedUp[s] /\ cb[s]
      <4>1. parked' = [parked EXCEPT ![s] = FALSE]
        BY <3>1, Zenon DEF ScanNext
      <4>2. ~parked'[r]
        BY <2>8, <4>1, Zenon
      <4> QED BY <4>2, Zenon DEF Parks
    <3>2. CASE ~(Open(s) /\ backedUp[s] /\ cb[s])
      <4>1. parked' = parked
        BY <3>2, Zenon DEF ScanNext
      <4>2. parked[r] => Some(stk, CallOf(r))
        BY <2>8, <3>2, Zenon DEF Parks, Due, Armed
      <4>3. CallOf(r) \in SUBSET Frame
        <5>1. CallOf(r) \in SUBSET Watching /\ Watching \in SUBSET Frame
          BY <1>ParkKinds, KindsOfFrames, Zenon
        <5> QED BY <5>1, Zenon
      <4>4. Some(stk, CallOf(r)) => Some(stk', CallOf(r))
        BY <2>3, <2>5, <4>3, Zenon DEF Replaces
      <4> QED BY <4>1, <4>2, <4>4, Zenon DEF Parks
    <3> QED BY <3>1, <3>2, Zenon
  <2> QED BY <2>7, <2>8, Zenon

\* A scan ends at the mark, or with its list.
<1>ParkScanEnds.
      ASSUME BodyInv, NestInv, NEW r \in Sids, Parks(r), ScanEnds
      PROVE  Parks(r)'
  <2> USE <1>ParkScanEnds
  <2>0. stk \in Seq(Frame) /\ Nested(stk, Gones)
    BY Zenon DEF NestInv
  <2>1. /\ On("scan") /\ Returns /\ (Top[2] = {} \/ out >= HighWater)
        /\ UNCHANGED <<kicks, out, phase, pending, inSendQ, connWin, backedUp, cb, parked>>
    BY Zenon DEF ScanEnds, streamVars
  <2>2. stk /= <<>> /\ Top \in Frame /\ Top[1] = "scan"
    BY <2>0, <2>1, TopKind, Zenon
  <2>3. /\ Top \notin CallOf(r) /\ Top \in Resume /\ Top \in Scans
        /\ Top[2] = {} => Top \notin NamesOf(r)
    BY <2>2, <1>ParkKinds, Zenon
  <2>4. Replaces(<<>>) /\ stk' = Tail(stk)
    BY <2>0, <2>1, <2>2, ReturnReplaces, Zenon DEF Returns
  <2>5. ~Some(stk', Resume)
    BY <2>0, <2>2, <2>3, <2>4, NestedTail, Zenon DEF Top
  <2>6. ~Some(stk', Scans)
    BY <2>5, <1>ParkKinds, SomeSub, Zenon
  <2>7. CallOf(r) \in SUBSET Frame /\ NamesOf(r) \in SUBSET Frame /\ Scans \in SUBSET Frame
    <3>1. /\ CallOf(r) \in SUBSET Watching /\ NamesOf(r) \in SUBSET Watching
          /\ Scans \in SUBSET Watching /\ Watching \in SUBSET Frame
      BY <1>ParkKinds, KindsOfFrames, Zenon
    <3> QED BY <3>1, Zenon
  <2>8. /\ Some(stk, CallOf(r)) => Some(stk', CallOf(r))
        /\ Top[2] = {} => (Some(stk, NamesOf(r)) => Some(stk', NamesOf(r)))
        /\ Some(stk, Scans)
    BY <2>3, <2>4, <2>7, SomeFew, Zenon DEF Replaces
  <2>9. out >= HighWater => out > 0
    <3>1. out \in Nat /\ HighWater \in Nat \ {0}
      BY H2Assumption, Zenon DEF BodyInv, Shape
    <3> QED BY <3>1
  <2>10. Due(r) => Named(r)' \/ out > 0 \/ pending[r] /= <<>>
    BY <2>1, <2>8, <2>9, Zenon DEF Due, Named, Blocked
  <2>11. Due(r) => Due(r)'
    BY <2>1, <2>6, <2>10, Zenon DEF Due, Armed, Open
  <2> QED BY <2>1, <2>8, <2>11, Zenon DEF Parks

\* A detached callback runs.
<1>ParkCall.
      ASSUME stk \in Seq(Frame), DOMAIN parked = Sids, NEW r \in Sids, Parks(r), CallProducer
      PROVE  Parks(r)'
  <2> USE <1>ParkCall
  <2>1. /\ On("call") /\ Then(<< <<"cb", Top[2]>> >>)
        /\ parked' = [parked EXCEPT ![Top[2]] = FALSE]
        /\ UNCHANGED <<kicks, out, phase, pending, inSendQ, connWin, backedUp, cb>>
    BY Zenon DEF CallProducer
  <2>2. stk /= <<>> /\ Top \in Frame /\ Top[1] = "call" /\ Top[2] \in Sids /\ Top \notin Owing
    BY <2>1, TopKind, FrameHolds
  <2>3. CASE Top[2] = r
    <3>1. ~parked'[r]
      BY <2>1, <2>3, Zenon
    <3> QED BY <3>1, Zenon DEF Parks
  <2>4. CASE Top[2] /= r
    <3> DEFINE a == << <<"cb", Top[2]>> >>
    <3>1. a \in Seq(Frame) /\ ~Some(a, Watching)
      BY <2>2, CallsTyped, DullCalls, Zenon
    <3>2. Replaces(a)
      BY <2>1, <2>2, <3>1, ThenReplaces, Zenon
    <3> HIDE DEF a
    <3>3. Top \notin CallOf(r) /\ Top \notin NamesOf(r)
      BY <2>2, <2>4, <1>ParkKinds, Zenon
    <3>4. Resume \subseteq Watching /\ Scans \subseteq Watching
      BY <1>ParkKinds, Zenon
    <3>5. ~Some(a, Resume) /\ ~Some(a, Scans)
      BY <3>1, <3>4, SomeSub, Zenon
    <3>6. Heeds(r)
      BY <2>2, <3>2, <3>3, <3>5, <1>ReplacesHeeds, Zenon
    <3>7. parked'[r] = parked[r]
      BY <2>1, <2>4, Zenon
    <3>8. Keeps(r)
      BY <2>1, <3>7, <1>SameKeeps, Zenon DEF SameResp
    <3> QED BY <3>6, <3>8, <1>ParkKept, Zenon
  <2> QED BY <2>3, <2>4, Zenon

\* The sets of frames that are asked about.
<1>ParkSets.
      ASSUME NEW r
      PROVE  /\ CallOf(r) \in SUBSET Frame /\ NamesOf(r) \in SUBSET Frame
             /\ Scans \in SUBSET Frame /\ Resume \in SUBSET Frame /\ Kicking \in SUBSET Frame
             /\ CallOf(r) \subseteq Watching /\ NamesOf(r) \subseteq Watching
             /\ Scans \subseteq Watching /\ Resume \subseteq Watching
    BY <1>ParkSets, <1>ParkKinds, KindsOfFrames, NestKinds, Zenon

\* A kick ends: the callback was called, or something of the stream is still queued.
<1>ParkKickEnds.
      ASSUME BodyInv, NestInv, DOMAIN cb = Sids, DOMAIN backedUp = Sids, DOMAIN parked = Sids,
             NEW r \in Sids, Parks(r), KickEnds
      PROVE  Parks(r)'
  <2> USE <1>ParkKickEnds
  <2>0. stk \in Seq(Frame) /\ Nested(stk, Gones)
    BY Zenon DEF NestInv
  <2> DEFINE s == Top[2]
             fire == Open(s) /\ backedUp[s] /\ cb[s] /\ pending[s] = <<>> /\ out = 0
  <2>1. /\ On("kick") /\ backedUp' = [backedUp EXCEPT ![s] = @ /\ ~fire]
        /\ cb' = [cb EXCEPT ![s] = @ /\ ~fire] /\ parked' = [parked EXCEPT ![s] = @ /\ ~fire]
        /\ UNCHANGED <<kicks, out, phase, pending, inSendQ, connWin>>
    BY Zenon DEF KickEnds
  <2>2. stk /= <<>> /\ Top \in Frame /\ Top[1] = "kick" /\ s \in Sids /\ Top \notin Owing
    BY <2>0, <2>1, TopKind, FrameHolds
  <2>3. Top \notin CallOf(r) /\ Top \in Resume /\ (Top \in NamesOf(r) => r = s)
    BY <2>2, <1>ParkKinds, Zenon
  <2>4. PICK a : Replaces(a) /\ ~Some(a, Watching)
    BY <2>0, KickEndsReplaces, Zenon
  <2>5. ~Some(a, Resume) /\ ~Some(a, Scans)
    BY <2>4, <1>ParkSets, SomeSub, Zenon
  <2>6. ~Some(stk', Resume)
    <3>1. ~Some(Tail(stk), Resume)
      BY <2>0, <2>2, <2>3, NestedTail, Zenon DEF Top
    <3> QED BY <2>4, <2>5, <3>1, <1>ParkSets, Zenon DEF Replaces
  <2>7. ~Some(stk', Scans)
    BY <2>6, <1>ParkKinds, SomeSub, Zenon
  <2>8. CASE r /= s
    <3>1. Heeds(r)
      BY <2>2, <2>3, <2>4, <2>5, <2>8, <1>ReplacesHeeds, Zenon
    <3>2. parked'[r] = parked[r] /\ cb'[r] = cb[r] /\ backedUp'[r] = backedUp[r]
      <4> HIDE DEF fire, s
      <4> QED BY <2>1, <2>8, Zenon
    <3>3. Keeps(r)
      BY <2>1, <3>2, <1>SameKeeps, Zenon DEF SameResp
    <3> QED BY <3>1, <3>3, <1>ParkKept, Zenon
  <2>9. CASE r = s /\ fire
    <3> HIDE DEF fire, s
    <3>1. ~parked'[r]
      BY <2>1, <2>2, <2>9, Zenon
    <3> QED BY <3>1, Zenon DEF Parks
  <2>10. CASE r = s /\ ~fire
    <3>1. /\ parked'[r] <=> parked[r]
          /\ cb[r] => cb'[r]
          /\ backedUp[r] => backedUp'[r]
      <4> HIDE DEF fire, s
      <4> QED BY <2>1, <2>2, <2>10, Zenon
    <3>2. Some(stk, CallOf(r)) => Some(stk', CallOf(r))
      BY <2>3, <2>4, <1>ParkSets, Zenon DEF Replaces
    <3>3. Armed(r) => pending[r] /= <<>> \/ out /= 0
      BY <2>10, Zenon DEF Armed
    <3>4. out /= 0 => out > 0
      <4>1. out \in Nat
        BY Zenon DEF BodyInv, Shape
      <4> QED BY <4>1
    <3>5. Due(r) => Due(r)'
      BY <2>1, <2>7, <3>1, <3>3, <3>4, Zenon DEF Due, Armed, Open
    <3> QED BY <3>1, <3>2, <3>5, Zenon DEF Parks
  <2> QED BY <2>8, <2>9, <2>10, Zenon

\* flushOut: what the socket took brings a pass.
<1>ParkFlush.
      ASSUME BodyInv, NestInv, NEW r \in Sids, Parks(r),
             FlushDrained \/ \E left \in 1..out : FlushBlocks(left)
      PROVE  Parks(r)'
  <2> USE <1>ParkFlush
  <2>0. stk \in Seq(Frame) /\ Nested(stk, Gones)
    BY Zenon DEF NestInv
  <2>1. UNCHANGED <<kicks, phase, pending, inSendQ, connWin, backedUp, cb, parked>>
    BY Zenon DEF FlushDrained, FlushBlocks, streamVars
  <2>2. ASSUME NEW left \in 1..out, FlushBlocks(left) PROVE Parks(r)'
    <3>1. /\ out' = left /\ left \in Nat \ {0}
          /\ \A F \in SUBSET Watching : Some(stk', F) <=> Some(stk, F)
      BY <2>0, <2>2, DullBlocks, Zenon
    <3>2. out' > 0
      BY <3>1
    <3>3. Heeds(r)
      BY <3>1, <3>2, <1>ParkKinds, Zenon DEF Heeds
    <3> QED BY <2>1, <3>2, <3>3, <1>UnchangedKeeps, <1>ParkKept, Zenon
  <2>3. CASE FlushDrained
    <3>1. On("flush") /\ Top[3] = "write"
      BY <2>3, Zenon DEF FlushDrained
    <3>2. stk /= <<>> /\ Top \in Frame /\ Top[1] = "flush" /\ Top \in Owing
      <4>1. stk /= <<>> /\ Top \in Frame /\ Top[1] = "flush"
        BY <2>0, <3>1, TopKind, Zenon
      <4> QED BY <3>1, <4>1, KindsOfFrames, Zenon
    <3>3. Dull
      BY <2>0, <2>3, DullFlush, Zenon
    <3>4. Some(stk, Owing)
      BY <2>0, <3>2, SomeTop, Zenon DEF Top
    <3>5. Heeds(r) /\ Some(stk', Owing)
      BY <3>3, <3>4, <1>DullHeeds, Zenon DEF Dull
    <3>6. ~Some(stk, Kicking)
      <4>1. Top \notin Quiet(Gones) /\ Top \notin Kicking
        <5>1. "flush" \notin {"pass", "call", "cb"} /\ "flush" /= "kick"
          BY Zenon
        <5> QED BY <3>2, <5>1, LoudKinds, NestKinds, Zenon
      <4>2. ~Some(Tail(stk), Kicking)
        BY <2>0, <3>2, <4>1, NestedTail, Zenon DEF Top
      <4> QED BY <2>0, <3>2, <4>1, <4>2, SomeTop, Zenon DEF Top
    <3>7. Some(stk, Resume) => Some(stk, Scans)
      <4>1. \A i \in 1..Len(stk) : stk[i] \in Frame
        BY <2>0
      <4> QED BY <3>6, <4>1, <1>ParkKinds, Zenon DEF Some
    <3>8. Due(r) => Due(r)'
      <4>1. Named(r) => Named(r)'
        BY <2>1, <3>5, Zenon DEF Named, Heeds
      <4>2. Due(r) => \/ Named(r)' \/ pending'[r] /= <<>>
                      \/ ~Some(stk', Resume) /\ Some(stk', Owing)
        BY <2>1, <3>5, <3>7, <4>1, Zenon DEF Due, Heeds, Blocked
      <4>3. Due(r) => (Some(stk', Scans) => Named(r)' \/ Blocked(r)')
        BY <2>1, <3>5, <4>1, Zenon DEF Due, Heeds, Blocked
      <4>4. Due(r) => Armed(r)'
        BY <2>1, Zenon DEF Due, Armed, Open
      <4> QED BY <4>2, <4>3, <4>4, Zenon DEF Due
    <3> QED BY <2>1, <3>5, <3>8, Zenon DEF Parks, Heeds
  <2> QED BY <2>2, <2>3, Zenon

\* runDrainKicks takes the list over.
<1>ParkRunKicks.
      ASSUME kicks \in SUBSET Sids, NEW r \in Sids, Parks(r), RunDrainKicks
      PROVE  Parks(r)'
  <2> USE <1>ParkRunKicks
  <2>1. /\ stk = <<>> /\ stk' = << <<"kicks", kicks>> >>
        /\ UNCHANGED <<out, phase, pending, inSendQ, connWin, backedUp, cb, parked>>
    BY Zenon DEF RunDrainKicks, streamVars
  <2> DEFINE f == <<"kicks", kicks>>
  <2>2. f \in Frame /\ f[1] = "kicks" /\ f[2] = kicks
    <3>1. f \in Frame
      BY Frames, Zenon
    <3> QED BY <3>1, Zenon
  <2> HIDE DEF f
  <2>3. f \notin Scans /\ (r \in kicks => f \in NamesOf(r))
    BY <2>2, <1>ParkKinds, Zenon
  <2>4. ~Some(<<f>>, Scans) /\ (r \in kicks => Some(<<f>>, NamesOf(r)))
    BY <2>2, <2>3, SomeFew, Zenon
  <2>5. ~Some(<<>>, CallOf(r)) /\ ~Some(<<>>, NamesOf(r)) /\ ~Some(<<>>, Owing)
    BY SomeFew, Zenon
  <2>6. stk' = <<f>>
    BY <2>1, Zenon DEF f
  <2> QED BY <2>1, <2>4, <2>5, <2>6, Zenon DEF Parks, Due, Named, Armed, Open

\* The next kick: r is the one, or still on the list.
<1>ParkNextKick.
      ASSUME BodyInv, NestInv, NEW r \in Sids, Parks(r), NEW s \in Sids, NextKick(s)
      PROVE  Parks(r)'
  <2> USE <1>ParkNextKick
  <2>0. stk \in Seq(Frame) /\ Nested(stk, Gones)
    BY Zenon DEF NestInv
  <2>1. /\ On("kicks") /\ s \in Top[2]
        /\ UNCHANGED <<out, kicks, phase, pending, inSendQ, connWin, backedUp, cb, parked>>
    BY Zenon DEF NextKick, streamVars
  <2>2. stk /= <<>> /\ Top \in Frame /\ Top[1] = "kicks" /\ Top \notin Owing
    BY <2>0, <2>1, TopKind
  <2>3. Tail(stk) = <<>>
    <3>1. "kicks" \in {"batch", "kicks"}
      BY Zenon
    <3> QED BY <2>0, <2>2, <3>1, NestedTail, Zenon DEF Top
  <2> DEFINE f == <<"kick", s, out>>  g == <<"kicks", Top[2] \ {s}>>
  <2>4. PICK a : /\ Replaces(a)
                 /\ \A F \in SUBSET Watching :
                      Some(a, F) <=> (Open(s) /\ cb[s] /\ f \in F) \/ (Top[2] /= {s} /\ g \in F)
    BY <2>0, NextKickReplaces, Zenon
  <2>5. /\ f \in Frame /\ f[1] = "kick" /\ f[2] = s
        /\ g \in Frame /\ g[1] = "kicks" /\ g[2] = Top[2] \ {s}
    <3>1. Top[2] \ {s} \in SUBSET Sids /\ out \in Nat
      BY <2>2, FrameHolds, Zenon DEF BodyInv, Shape
    <3>2. f \in Frame /\ g \in Frame
      BY <3>1, Frames, Zenon
    <3> QED BY <3>2, Zenon
  <2> HIDE DEF f, g
  <2>6. /\ f \notin Scans /\ g \notin Scans /\ (r = s => f \in NamesOf(r))
        /\ r \in Top[2] /\ r /= s => g \in NamesOf(r) /\ Top[2] /= {s}
        /\ Top \notin CallOf(r) /\ (Top \in NamesOf(r) => r \in Top[2])
    BY <2>2, <2>5, <1>ParkKinds, Zenon
  <2>7. /\ ~Some(<<>>, CallOf(r)) /\ ~Some(<<>>, NamesOf(r)) /\ ~Some(<<>>, Owing)
        /\ ~Some(<<>>, Scans)
    BY SomeFew, Zenon
  <2>8. /\ ~Some(stk, CallOf(r)) /\ ~Some(stk, Owing) /\ (Some(stk, NamesOf(r)) => r \in Top[2])
    BY <2>0, <2>2, <2>3, <2>6, <2>7, SomeTop, Zenon DEF Top
  <2>9. ~Some(stk', Scans)
    <3>1. Scans \in SUBSET Watching /\ Scans \in SUBSET Frame
      BY <1>ParkKinds, <1>ParkSets, Zenon
    <3>2. ~Some(a, Scans)
      BY <2>4, <2>6, <3>1, Zenon
    <3> QED BY <2>3, <2>4, <2>7, <3>1, <3>2, Zenon DEF Replaces
  <2>10. r \in Top[2] /\ Armed(r) => Some(stk', NamesOf(r))
    <3>1. NamesOf(r) \in SUBSET Watching /\ NamesOf(r) \in SUBSET Frame
      BY <1>ParkKinds, <1>ParkSets, Zenon
    <3>2. r \in Top[2] /\ Open(r) /\ cb[r] => Some(a, NamesOf(r))
      <4>1. CASE r = s
        BY <2>4, <2>6, <3>1, <4>1, Zenon
      <4>2. CASE r /= s
        BY <2>4, <2>6, <3>1, <4>2, Zenon
      <4> QED BY <4>1, <4>2, Zenon
    <3> QED BY <2>4, <3>1, <3>2, Zenon DEF Replaces, Armed
  <2>11. Due(r) => Due(r)'
    BY <2>1, <2>8, <2>9, <2>10, Zenon DEF Due, Named, Armed, Open
  <2> QED BY <2>1, <2>8, <2>11, Zenon DEF Parks

\* Nobody waits in an empty queue, ...
<1>NoneReady.
      ASSUME QueueInv, Ready = {}, NEW r \in Sids, Open(r)
      PROVE  ~inSendQ[r]
  <2> USE <1>NoneReady
  <2>1. phase[r] /= "gone" /\ Urgency[r] \in 0..1
    BY H2Assumption, Zenon DEF Open
  <2>2. inSendQ[r] => \E i \in 1..Len(sendQ[Urgency[r]]) : sendQ[Urgency[r]][i] = r
    BY <2>1, ZenonT(30) DEF QueueInv, Placed, Once
  <2>3. sendQ[Urgency[r]] = <<>>
    BY <2>1, Zenon DEF Ready
  <2>4. ~\E i \in 1..Len(<<>>) : <<>>[i] = r
    OBVIOUS
  <2> QED BY <2>2, <2>3, <2>4, Zenon

\* ... and an open stream at the head of a queue is flagged.
<1>HeadFlagged.
      ASSUME Shape, QueueInv, NEW u \in 0..1, sendQ[u] /= <<>>, NEW s \in Sids, s = Head(sendQ[u]),
             Open(s)
      PROVE  inSendQ[s]
  <2> USE <1>HeadFlagged
  <2>1. phase[s] /= "gone"
    BY Zenon DEF Open
  <2>2. \E i \in 1..Len(sendQ[u]) : sendQ[u][i] = s
    <3>1. sendQ[u] \in Seq(Sids)
      BY Zenon DEF Shape
    <3>2. 1 \in 1..Len(sendQ[u]) /\ sendQ[u][1] = s
      BY <3>1
    <3> QED BY <3>2, Zenon
  <2>3. Once(sendQ[u], s, inSendQ[s] /\ u = Urgency[s])
    BY <2>1, Zenon DEF QueueInv, Placed
  <2> QED BY <2>2, <2>3, Zenon DEF Once

\* A look for producers, when the passes have sent what they can.
<1>ParkLook.
      ASSUME BodyInv, QueueInv, stk \in Seq(Frame), Looking, NEW r \in Sids, Parks(r),
             UNCHANGED <<kicks, out, phase, pending, inSendQ, connWin, backedUp, cb, parked>>,
             ResumeCalls /= <<>> => connWin <= 0 \/ Ready = {}
      PROVE  Parks(r)'
  <2> USE <1>ParkLook
  <2> SUFFICES ASSUME parked[r], ~Some(stk', CallOf(r)) PROVE Due(r)'
    BY Zenon DEF Parks
  <2>1. \A F \in SUBSET Watching : Some(stk', F) <=> Some(stk, F) \/ Some(ResumeCalls, F)
    BY Zenon DEF Looking
  <2>2. Due(r)
    BY <2>1, <1>ParkKinds, Zenon DEF Parks
  <2>3. Armed(r) /\ Armed(r)'
    BY <2>2, Zenon DEF Due, Armed, Open
  <2>4. Named(r) => Named(r)'
    BY <2>1, <1>ParkKinds, Zenon DEF Named
  <2>5. Len(pending[r]) \in Nat /\ HighWater \in Nat \ {0} /\ out \in Nat /\ pending[r] \in Seq(Nat)
    <3>1. pending[r] \in Seq(Nat) /\ out \in Nat
      BY Zenon DEF BodyInv, Stream, Body, Shape
    <3> QED BY ONLY <3>1, H2Assumption
  <2>6. /\ pending[r] = <<>> => Len(pending[r]) < HighWater
        /\ ~(out > 0) => ~(out >= HighWater)
    BY <2>5
  <2>7. ResumeCalls /= <<>> /\ r \in Resumable => Named(r)'
    <3> DEFINE f == <<"scan", Resumable>>
    <3>1. f \in Frame /\ f[1] = "scan" /\ f[2] = Resumable
      <4>1. f \in Frame
        BY CallsTyped, Frames, Zenon
      <4> QED BY <4>1, Zenon
    <3> HIDE DEF f
    <3>2. r \in Resumable => f \in NamesOf(r)
      BY <3>1, <1>ParkKinds, Zenon
    <3>3. r \in Resumable => Some(<<f>>, NamesOf(r))
      BY <3>1, <3>2, SomeFew, Zenon
    <3>4. ResumeCalls /= <<>> => ResumeCalls = <<f>>
      BY CallsTyped, Zenon DEF f
    <3>5. NamesOf(r) \in SUBSET Watching
      BY <1>ParkKinds, Zenon
    <3>6. ResumeCalls /= <<>> /\ r \in Resumable => Some(ResumeCalls, NamesOf(r))
      BY <3>3, <3>4, Zenon
    <3>7. ResumeCalls /= <<>> /\ r \in Resumable => Some(stk', NamesOf(r))
      BY <2>1, <3>5, <3>6, Zenon
    <3> QED BY <3>7, Zenon DEF Named
  <2>8. Len(pending[r]) < HighWater => r \in Resumable
    BY <2>3, Zenon DEF Resumable, Armed
  <2>9. Named(r)' \/ out > 0 \/ pending[r] /= <<>>
    <3> SUFFICES ASSUME ~(out > 0), pending[r] = <<>>, ~Named(r) PROVE Named(r)'
      BY <2>4, Zenon
    <3>1. ~Some(stk, Resume)
      BY <2>2, Zenon DEF Due
    <3>2. r \in Resumable /\ ~Resuming /\ ~(out >= HighWater)
      BY <2>6, <2>8, <3>1, ResumingMeans, Zenon
    <3>3. ResumeCalls = << <<"scan", Resumable>> >> /\ Resumable /= {}
      BY <3>2, Zenon DEF ResumeCalls
    <3>4. << <<"scan", Resumable>> >> /= <<>>
      BY Zenon
    <3> QED BY <2>7, <3>2, <3>3, <3>4, Zenon
  <2>10. ResumeCalls /= <<>> => Named(r)' \/ Blocked(r)'
    <3> SUFFICES ASSUME ResumeCalls /= <<>>, ~(Len(pending[r]) < HighWater) PROVE Blocked(r)'
      BY <2>7, <2>8, Zenon
    <3>1. pending[r] /= <<>>
      BY <2>6, Zenon
    <3>2. connWin <= 0 \/ ~inSendQ[r]
      BY <2>3, <1>NoneReady, Zenon DEF Armed
    <3> QED BY <3>1, <3>2, Zenon DEF Blocked
  <2>11. Some(stk', Scans) => Named(r)' \/ Blocked(r)'
    <3>1. ~Some(<<>>, Scans) /\ Scans \in SUBSET Watching
      BY SomeFew, <1>ParkKinds, Zenon
    <3>2. Blocked(r) => Blocked(r)'
      BY Zenon DEF Blocked
    <3> QED BY <2>1, <2>2, <2>4, <2>10, <3>1, <3>2, Zenon DEF Due
  <2> QED BY <2>3, <2>9, <2>11, Zenon DEF Due

\* A pass ends when nothing can be sent, and looks.
<1>ParkPassEnds.
      ASSUME BodyInv, QueueInv, stk \in Seq(Frame), NEW r \in Sids, Parks(r), PassEnds
      PROVE  Parks(r)'
  <2> USE <1>ParkPassEnds
  <2>1. /\ UNCHANGED <<kicks, out, phase, pending, inSendQ, connWin, backedUp, cb, parked>>
        /\ ~PassGoes
    BY Zenon DEF PassEnds, streamVars
  <2>2. ResumeCalls /= <<>> => connWin <= 0 \/ Ready = {}
    <3>1. out \in Nat /\ HighWater \in Nat /\ connWin \in Int
      BY H2Assumption, Zenon DEF BodyInv, Shape
    <3>2. (~(out >= HighWater) => out < HighWater) /\ (~(connWin > 0) => connWin <= 0)
      BY ONLY <3>1
    <3>3. ResumeCalls /= <<>> => ~(out >= HighWater)
      BY Zenon DEF ResumeCalls
    <3> QED BY <2>1, <3>2, <3>3, Zenon DEF PassGoes
  <2> QED BY <2>1, <2>2, PassLooks, <1>ParkLook, Zenon

\* A stream with the others' state kept, and its own callback on the stack.
<1>ParkOthers.
      ASSUME NEW s \in Sids, \A r \in Sids : Parks(r), Calling(s),
             parked'[s] => parked[s],
             \A r \in Sids : r /= s => SameResp(r),
             kicks' = kicks, out > 0 => out' > 0, Some(stk, Scans) => (connWin <= 0 => connWin' <= 0)
      PROVE  \A r \in Sids : Parks(r)'
  <2> USE <1>ParkOthers
  <2> SUFFICES ASSUME NEW r \in Sids PROVE Parks(r)'
    BY Zenon
  <2>1. CASE r = s
    BY <2>1, <1>ParkCalled, Zenon
  <2>2. CASE r /= s
    BY <2>2, <1>CallingHeeds, <1>SameKeeps, <1>ParkKept, Zenon
  <2> QED BY <2>1, <2>2, Zenon

\* What a step changes of one stream, it leaves of the others.
<1>GoneOthers.
      ASSUME Shape, DOMAIN cb = Sids, DOMAIN backedUp = Sids, NEW s \in Sids, Gone(s), parked' = parked,
             \A r \in Sids : r /= s => inSendQ'[r] = inSendQ[r]
      PROVE  \A r \in Sids : r /= s => SameResp(r)
  <2> USE <1>GoneOthers
  <2> SUFFICES ASSUME NEW r \in Sids, r /= s PROVE SameResp(r)
    BY Zenon
  <2>1. DOMAIN phase = Sids /\ DOMAIN pending = Sids
    BY Zenon DEF Shape
  <2>2. /\ phase' = [phase EXCEPT ![s] = "gone"] /\ cb' = [cb EXCEPT ![s] = FALSE]
        /\ backedUp' = [backedUp EXCEPT ![s] = FALSE] /\ pending' = [pending EXCEPT ![s] = <<>>]
    BY Zenon DEF Gone
  <2>3. /\ phase'[r] = phase[r] /\ cb'[r] = cb[r] /\ backedUp'[r] = backedUp[r]
        /\ pending'[r] = pending[r]
    BY <2>1, <2>2, Zenon
  <2> QED BY <2>3, Zenon DEF SameResp

\* The flag of one stream is set.
<1>FlagOthers.
      ASSUME Shape, NEW s \in Sids,
             \/ inSendQ' = inSendQ
             \/ \E x : inSendQ' = [inSendQ EXCEPT ![s] = x]
      PROVE  \A r \in Sids : r /= s => inSendQ'[r] = inSendQ[r]
  <2> USE <1>FlagOthers
  <2>1. inSendQ \in [Sids -> BOOLEAN]
    BY Zenon DEF Shape
  <2> QED BY <2>1, Zenon

\* A turn of the scheduler.
<1>ParkEmit.
      ASSUME BodyInv, QueueInv, stk \in Seq(Frame), ParkInv, Emit
      PROVE  \A r \in Sids : Parks(r)'
  <2> USE <1>ParkEmit
  <2>0. /\ Shape /\ DOMAIN cb = Sids /\ DOMAIN backedUp = Sids
        /\ \A r \in Sids : Parks(r)
    BY Zenon DEF BodyInv, ParkInv
  <2>1. PICK u \in 0..1, s \in Sids :
          /\ sendQ[u] /= <<>> /\ s = Head(sendQ[u])
          /\ TurnEnds(u, s) \/ TurnSends(u, s) \/ TurnSkips(u, s)
          /\ PassGoes /\ On("pass") /\ UNCHANGED <<up, initWin, kicks, armed, written, parked>>
    BY <2>0, EmitTurns, Zenon
  <2>2. \A r \in Sids : r /= s => inSendQ'[r] = inSendQ[r]
    <3>1. \E x : inSendQ' = [inSendQ EXCEPT ![s] = x]
      BY <2>1, Zenon DEF TurnEnds, TurnSends, TurnSkips, Dropped, Requeued
    <3> QED BY <2>0, <3>1, <1>FlagOthers, Zenon
  <2>3. out \in Nat /\ connWin > 0 /\ connWin \in Int /\ ~(connWin <= 0)
    <3>1. out \in Nat /\ connWin \in Int
      BY <2>0, Zenon DEF Shape
    <3>2. connWin > 0
      BY <2>1, Zenon DEF PassGoes
    <3> QED BY <3>1, <3>2
  <2>4. CASE TurnEnds(u, s)
    <3>1. Gone(s) /\ out' = out + 1
      BY <2>4, Zenon DEF TurnEnds, EmitEnd
    <3>2. out > 0 => out' > 0
      BY <2>3, <3>1
    <3>3. Calling(s)
      BY <2>4, TurnCalls, Zenon
    <3>4. \A r \in Sids : r /= s => SameResp(r)
      BY <2>0, <2>1, <2>2, <3>1, <1>GoneOthers, Zenon
    <3> QED BY <2>0, <2>1, <2>3, <3>2, <3>3, <3>4, <1>ParkOthers, Zenon
  <2>5. CASE TurnSends(u, s)
    <3>1. out' = out + Chunk(s) /\ Chunk(s) > 0 /\ Open(s)
      BY <2>5, Zenon DEF TurnSends, EmitData
    <3>2. out' > 0
      <4>1. Chunk(s) \in Int
        BY ChunkFits, Zenon
      <4> QED BY <2>3, <3>1, <4>1
    <3>3. IF phase'[s] = "gone" THEN Calling(s) ELSE Dull
      BY <2>5, TurnCalls, Zenon
    <3>4. CASE Gone(s)
      <4>1. phase'[s] = "gone"
        <5>1. phase' = [phase EXCEPT ![s] = "gone"] /\ DOMAIN phase = Sids
          BY <2>0, <3>4, Zenon DEF Gone, Shape
        <5> QED BY <5>1, Zenon
      <4>2. \A r \in Sids : r /= s => SameResp(r)
        BY <2>0, <2>1, <2>2, <3>4, <1>GoneOthers, Zenon
      <4> QED BY <2>0, <2>1, <2>3, <3>2, <3>3, <4>1, <4>2, <1>ParkOthers, Zenon
    <3>5. CASE \E left : pending' = [pending EXCEPT ![s] = left] /\ UNCHANGED <<phase, cb, backedUp>>
      <4>1. Dull
        <5>1. phase'[s] /= "gone"
          BY <3>1, <3>5, Zenon DEF Open
        <5> QED BY <3>3, <5>1, Zenon
      <4>2. ASSUME NEW r \in Sids, r /= s PROVE Parks(r)'
        <5>1. DOMAIN pending = Sids
          BY <2>0, Zenon DEF Shape
        <5>2. pending'[r] = pending[r]
          BY <3>5, <4>2, <5>1, Zenon
        <5>3. SameResp(r)
          BY <2>1, <2>2, <3>5, <4>2, <5>2, Zenon DEF SameResp
        <5>4. Keeps(r)
          BY <2>1, <2>3, <3>2, <5>3, <1>SameKeeps, Zenon
        <5> QED BY <2>0, <4>1, <5>4, <1>DullHeeds, <1>ParkKept, Zenon
      <4>3. Parks(s)'
        <5>1. inSendQ[s]
          BY <2>0, <2>1, <3>1, <1>HeadFlagged, Zenon
        <5>2. Heeds(s)
          BY <4>1, <1>DullHeeds, Zenon
        <5>3. Due(s) => Due(s)'
          <6>1. Named(s) => Named(s)'
            BY <2>1, <5>2, Zenon DEF Named, Heeds
          <6>2. Armed(s) => Armed(s)'
            BY <3>5, Zenon DEF Armed, Open
          <6>3. ~Blocked(s)
            BY <2>3, <5>1, Zenon DEF Blocked
          <6> QED BY <3>2, <5>2, <6>1, <6>2, <6>3, Zenon DEF Due, Heeds
        <5> QED BY <2>0, <2>1, <5>2, <5>3, Zenon DEF Parks, Heeds
      <4> QED BY <4>2, <4>3, Zenon
    <3> QED BY <2>5, <3>4, <3>5, Zenon DEF TurnSends, EmitData
  <2>6. CASE TurnSkips(u, s)
    <3>1. /\ UNCHANGED <<phase, connWin, pending, backedUp, cb, out>> /\ Dull
          /\ inSendQ' = [inSendQ EXCEPT ![s] = ~Open(s) /\ @]
      BY <2>6, TurnCalls, Zenon DEF TurnSkips, Dropped
    <3>2. ASSUME NEW r \in Sids PROVE inSendQ'[r] => inSendQ[r]
      <4>1. inSendQ \in [Sids -> BOOLEAN]
        BY <2>0, Zenon DEF Shape
      <4> QED BY <3>1, <4>1, Zenon
    <3>3. ASSUME NEW r \in Sids PROVE Keeps(r)
      BY <2>1, <3>1, <3>2, Zenon DEF Keeps, Armed, Open, Blocked
    <3> QED BY <2>0, <3>1, <3>3, <1>DullHeeds, <1>ParkKept, Zenon
  <2> QED BY <2>1, <2>4, <2>5, <2>6, Zenon

\* res.write: a backlog that no pass can send is still there, and still blocked.
<1>ParkWrite.
      ASSUME BodyInv, QueueInv, stk \in Seq(Frame), NEW r \in Sids, Parks(r),
             NEW s \in Sids, NEW n \in Sizes, Write(s, n)
      PROVE  Parks(r)'
  <2> USE <1>ParkWrite
  <2> DEFINE k == Direct(s, n)  more == SubSeq([i \in 1..n |-> written[s] + i], k + 1, n)
  <2>1. /\ phase[s] = "streaming" /\ pending' = [pending EXCEPT ![s] = @ \o more]
        /\ win' = [win EXCEPT ![s] = @ - k] /\ connWin' = connWin - k /\ out' = out + k
        /\ Enqueued(s, pending'[s], win'[s], FALSE) /\ ActCalls(<< <<"pass">>, <<"wrote", s>> >>)
        /\ UNCHANGED <<kicks, phase, backedUp, cb, parked>>
    BY Zenon DEF Write
  <2>2. Shape /\ DOMAIN pending = Sids /\ DOMAIN win = Sids /\ connWin \in Int /\ out \in Nat
        /\ win[s] \in Int /\ pending[s] \in Seq(Nat) /\ pending[r] \in Seq(Nat)
        /\ inSendQ \in [Sids -> BOOLEAN]
    <3>1. /\ Shape /\ pending[s] \in Seq(Nat) /\ pending[r] \in Seq(Nat) /\ win[s] \in Window
      BY Zenon DEF BodyInv, Stream, Body
    <3>2. win[s] \in Int
      BY ONLY <3>1, H2Assumption DEF Window
    <3> QED BY <3>1, <3>2, Zenon DEF Shape
  <2>3. k \in Nat /\ (k > 0 => pending[s] = <<>>)
    <3>1. n \in Nat
      BY H2Assumption, Zenon
    <3>2. k \in 0..n /\ (k > 0 => pending[s] = <<>>)
      BY <3>1, DirectFits, Zenon
    <3> QED BY <3>1, <3>2
  <2>4. more \in Seq(Nat)
    <3>1. written[s] \in Nat /\ n \in Nat
      BY H2Assumption, Zenon DEF BodyInv, Stream, Body
    <3>2. [i \in 1..n |-> written[s] + i] \in Seq(Nat)
      BY ONLY <3>1
    <3> QED BY ONLY <2>3, <3>1, <3>2
  <2> HIDE DEF k, more
  <2>5. Dull
    BY <2>1, DullPasses, Zenon
  <2>6. pending[r] /= <<>> => pending'[r] /= <<>>
    <3>1. CASE r = s
      <4>1. pending'[r] = pending[r] \o more
        BY <2>1, <2>2, <3>1, Zenon
      <4>2. ASSUME NEW a \in Seq(Nat), NEW b \in Seq(Nat), a \o b = <<>> PROVE a = <<>>
        <5>1. Len(a \o b) = Len(a) + Len(b) /\ Len(a) \in Nat /\ Len(b) \in Nat
          OBVIOUS
        <5>2. Len(a) = 0
          BY <4>2, <5>1
        <5> QED BY <5>2
      <4> QED BY <2>2, <2>4, <4>1, <4>2, Zenon
    <3>2. CASE r /= s
      BY <2>1, <2>2, <3>2, Zenon
    <3> QED BY <3>1, <3>2, Zenon
  <2>7. connWin <= 0 => connWin' <= 0
    BY ONLY <2>1, <2>2, <2>3
  <2>8. pending[r] /= <<>> /\ ~inSendQ[r] => ~inSendQ'[r]
    <3>1. CASE r /= s
      <4>1. inSendQ' = inSendQ \/ inSendQ' = [inSendQ EXCEPT ![s] = TRUE]
        BY <2>1, Zenon DEF Enqueued
      <4> QED BY <2>2, <3>1, <4>1, Zenon
    <3>2. CASE r = s
      <4> SUFFICES ASSUME pending[s] /= <<>>, ~inSendQ[s] PROVE ~inSendQ'[s]
        BY <3>2, Zenon
      <4>1. Open(s)
        BY <2>1, Zenon DEF Open
      <4>2. ~(win[s] > 0)
        BY <4>1, Zenon DEF QueueInv, Waits, Sendable
      <4>3. win'[s] = win[s] - k /\ k = 0
        BY <2>1, <2>2, <2>3
      <4>4. ~(win'[s] > 0)
        BY <2>2, <4>2, <4>3
      <4>5. pending'[s] /= <<>>
        BY <2>6, <3>2, Zenon
      <4>6. ~Sendable(s, pending'[s], win'[s], FALSE)
        BY <4>4, <4>5, Zenon DEF Sendable
      <4>7. inSendQ' = inSendQ
        BY <2>1, <4>6, Zenon DEF Enqueued
      <4> QED BY <4>7, Zenon
    <3> QED BY <3>1, <3>2, Zenon
  <2>9. out > 0 => out' > 0
    BY <2>1, <2>2, <2>3
  <2>10. Keeps(r)
    BY <2>1, <2>6, <2>7, <2>8, <2>9, Zenon DEF Keeps, Armed, Open, Blocked
  <2> QED BY <2>5, <2>10, <1>DullHeeds, <1>ParkKept, Zenon

\* res.onDrain: the producer waits, and a kick is owed.
<1>ParkOnDrain.
      ASSUME stk \in Seq(Frame), DOMAIN cb = Sids, DOMAIN backedUp = Sids, DOMAIN parked = Sids,
             NEW r \in Sids, Parks(r), NEW s \in Sids, OnDrain(s)
      PROVE  Parks(r)'
  <2> USE <1>ParkOnDrain
  <2>1. /\ phase[s] \in {"none", "streaming"} /\ cb' = [cb EXCEPT ![s] = TRUE]
        /\ parked' = [parked EXCEPT ![s] = TRUE] /\ backedUp' = [backedUp EXCEPT ![s] = TRUE]
        /\ kicks' = (IF KickQueued(s) THEN kicks ELSE kicks \union {s})
        /\ UNCHANGED <<connWin, out, phase, pending, inSendQ>>
    BY Zenon DEF OnDrain
  <2>2. Heeds(r)
    BY DullActs, <1>DullHeeds, Zenon
  <2>3. r \in kicks => r \in kicks'
    BY <2>1, Zenon
  <2>4. CASE r /= s
    <3>1. parked'[r] = parked[r] /\ cb'[r] = cb[r] /\ backedUp'[r] = backedUp[r]
      BY <2>1, <2>4, Zenon
    <3>2. Keeps(r)
      BY <2>1, <2>3, <3>1, <1>SameKeeps, Zenon DEF SameResp
    <3> QED BY <2>2, <3>2, <1>ParkKept, Zenon
  <2>5. CASE r = s
    <3>1. Armed(r)'
      <4>1. cb'[r] /\ backedUp'[r]
        BY <2>1, <2>5, Zenon
      <4>2. Open(r)'
        BY <2>1, <2>5, Zenon DEF Open
      <4> QED BY <4>1, <4>2, Zenon DEF Armed
    <3>2. Named(r)'
      <4>1. CASE ~KickQueued(s)
        BY <2>1, <2>5, <4>1, Zenon DEF Named
      <4>2. CASE KickQueued(s) /\ s \in kicks
        BY <2>1, <2>5, <4>2, Zenon DEF Named
      <4>3. CASE \E i \in DOMAIN stk : stk[i][1] = "kicks" /\ s \in stk[i][2]
        <5>1. PICK i \in 1..Len(stk) : stk[i][1] = "kicks" /\ s \in stk[i][2]
          BY <4>3
        <5>2. stk[i] \in Frame
          BY ONLY stk \in Seq(Frame), i \in 1..Len(stk)
        <5>3. stk[i] \in NamesOf(s)
          BY <5>1, <5>2, <1>ParkKinds, Zenon
        <5>4. Some(stk, NamesOf(r))
          BY <2>5, <5>3, Zenon DEF Some
        <5> QED BY <2>2, <5>4, Zenon DEF Heeds, Named
      <4> QED BY <4>1, <4>2, <4>3, Zenon DEF KickQueued
    <3> QED BY <3>1, <3>2, Zenon DEF Parks, Due
  <2> QED BY <2>4, <2>5, Zenon

\* The streaming API.
<1>ParkActs.
      ASSUME BodyInv, QueueInv, stk \in Seq(Frame), ParkInv, NEW s \in Sids, ProducerActs(s)
      PROVE  \A r \in Sids : Parks(r)'
  <2> USE <1>ParkActs
  <2>0. /\ Shape /\ DOMAIN cb = Sids /\ DOMAIN backedUp = Sids /\ DOMAIN parked = Sids
        /\ \A r \in Sids : Parks(r)
    BY Zenon DEF BodyInv, ParkInv
  <2>1. out \in Nat /\ DOMAIN phase = Sids
    BY <2>0, Zenon DEF Shape
  <2>2. CASE SendHead(s)
    <3>1. /\ phase[s] = "none" /\ phase' = [phase EXCEPT ![s] = "streaming"] /\ out' = out + 1
          /\ UNCHANGED <<connWin, kicks, pending, inSendQ, backedUp, cb, parked>>
      BY <2>2, Zenon DEF SendHead
    <3>2. out > 0 => out' > 0
      BY <2>1, <3>1
    <3>3. ASSUME NEW r \in Sids PROVE Open(r) => Open(r)'
      BY <2>1, <3>1, Zenon DEF Open
    <3>4. ASSUME NEW r \in Sids PROVE Keeps(r)
      BY <3>1, <3>2, <3>3, Zenon DEF Keeps, Armed, Blocked
    <3> QED BY <2>0, <2>2, <3>4, DullActs, <1>DullHeeds, <1>ParkKept, Zenon
  <2>3. CASE OnDrain(s)
    BY <2>0, <2>3, <1>ParkOnDrain, Zenon
  <2>4. ASSUME NEW n \in Sizes, Write(s, n) PROVE \A r \in Sids : Parks(r)'
    BY <2>0, <2>4, <1>ParkWrite, Zenon
  <2>5. CASE Finish(s)
    <3>1. UNCHANGED <<kicks, connWin, parked>> /\ Calling(s)
      BY <2>5, EndsCall, FinishCalls, Zenon DEF Finish, EmitEnd
    <3>2. \A r \in Sids : r /= s => inSendQ'[r] = inSendQ[r]
      <4>1. inSendQ' = inSendQ \/ inSendQ' = [inSendQ EXCEPT ![s] = TRUE]
        BY <2>5, Zenon DEF Finish, Enqueued
      <4> QED BY <2>0, <4>1, <1>FlagOthers, Zenon
    <3>3. \A r \in Sids : r /= s => SameResp(r)
      <4>1. CASE Gone(s)
        BY <2>0, <3>1, <3>2, <4>1, <1>GoneOthers, Zenon
      <4>2. CASE /\ phase' = [phase EXCEPT ![s] = "finished"] /\ cb' = [cb EXCEPT ![s] = FALSE]
                 /\ backedUp' = [backedUp EXCEPT ![s] = FALSE] /\ pending' = pending
        <5> SUFFICES ASSUME NEW r \in Sids, r /= s PROVE SameResp(r)
          BY Zenon
        <5>1. phase'[r] = phase[r] /\ cb'[r] = cb[r] /\ backedUp'[r] = backedUp[r]
          BY <2>0, <2>1, <4>2, Zenon
        <5> QED BY <3>1, <3>2, <4>2, <5>1, Zenon DEF SameResp
      <4> QED BY <2>5, <4>1, <4>2, Zenon DEF Finish, EmitEnd
    <3>4. out > 0 => out' > 0
      <4>1. out' = out \/ out' = out + 1
        BY <2>5, Zenon DEF Finish, EmitEnd
      <4> QED BY <2>1, <4>1
    <3> QED BY <2>0, <3>1, <3>3, <3>4, <1>ParkOthers, Zenon
  <2>6. CASE Abort(s)
    <3>1. /\ UNCHANGED <<kicks, connWin, parked, inSendQ>> /\ Gone(s) /\ out' = out + 1
          /\ Calling(s)
      BY <2>6, EndsCall, Zenon DEF Abort, Resets
    <3>2. \A r \in Sids : r /= s => SameResp(r)
      BY <2>0, <3>1, <1>GoneOthers, Zenon
    <3>3. out > 0 => out' > 0
      BY <2>1, <3>1
    <3> QED BY <2>0, <3>1, <3>2, <3>3, <1>ParkOthers, Zenon
  <2> QED BY <2>2, <2>3, <2>4, <2>5, <2>6, Zenon DEF ProducerActs

\* The frames of the peer.
<1>ParkPeer.
      ASSUME BodyInv, QueueInv, StackInv, NestInv, ParkInv, PeerSends
      PROVE  \A r \in Sids : Parks(r)'
  <2> USE <1>ParkPeer
  <2>0. /\ Shape /\ DOMAIN cb = Sids /\ DOMAIN backedUp = Sids /\ DOMAIN parked = Sids
        /\ stk \in Seq(Frame) /\ \A r \in Sids : Parks(r)
    BY Zenon DEF BodyInv, ParkInv, NestInv
  <2>1. out \in Nat /\ DOMAIN phase = Sids /\ connWin \in Int
    BY <2>0, Zenon DEF Shape
  <2>2. InBatch => ~Some(stk, Scans) /\ ~Some(stk, Owing) /\ ~Some(stk, Resume)
    BY BatchNested, <1>ParkKinds, SomeSub, Zenon
  <2>3. CASE Closes
    <3>1. parked' = [s \in Sids |-> FALSE]
      BY <2>3, Zenon DEF Closes
    <3>2. \A r \in Sids : ~parked'[r]
      BY <3>1, Zenon
    <3> QED BY <3>2, Zenon DEF Parks
  <2>4. ASSUME InBatch, Dull, UNCHANGED <<kicks, phase, pending, backedUp, cb, parked>>,
               out' \in {out, out + 1}
        PROVE  \A r \in Sids : Parks(r)'
    <3>1. out > 0 => out' > 0
      BY <2>1, <2>4
    <3>2. ASSUME NEW r \in Sids PROVE Keeps(r)
      BY <2>2, <2>4, <3>1, Zenon DEF Keeps, Armed, Open
    <3> QED BY <2>0, <2>4, <3>2, <1>DullHeeds, <1>ParkKept, Zenon
  <2>5. ASSUME NEW s \in Sids, HeadersIn(s) PROVE \A r \in Sids : Parks(r)'
    <3>1. /\ phase[s] = "idle" /\ phase' = [phase EXCEPT ![s] = "none"]
          /\ UNCHANGED <<kicks, out, connWin, pending, inSendQ, backedUp, cb, parked>>
      BY <2>5, Zenon DEF HeadersIn
    <3>2. ASSUME NEW r \in Sids PROVE Open(r) => Open(r)'
      BY <2>1, <3>1, Zenon DEF Open
    <3>3. ASSUME NEW r \in Sids PROVE Keeps(r)
      BY <3>1, <3>2, Zenon DEF Keeps, Armed, Blocked
    <3> QED BY <2>0, <2>5, <3>3, DullActs, <1>DullHeeds, <1>ParkKept, Zenon
  <2>6. ASSUME NEW s \in Sids, Gone(s), Calling(s), UNCHANGED <<kicks, connWin, parked, inSendQ>>,
               out' \in {out, out + 1}
        PROVE  \A r \in Sids : Parks(r)'
    <3>1. out > 0 => out' > 0
      BY <2>1, <2>6
    <3>2. \A r \in Sids : r /= s => SameResp(r)
      BY <2>0, <2>6, <1>GoneOthers, Zenon
    <3> QED BY <2>0, <2>6, <3>1, <3>2, <1>ParkOthers, Zenon
  <2>7. ASSUME NEW s \in Sids, RstIn(s) PROVE \A r \in Sids : Parks(r)'
    <3>1. Calling(s)
      BY <2>0, <2>7, EndsCall, Zenon
    <3>2. Gone(s) /\ UNCHANGED <<kicks, connWin, parked, inSendQ, out>>
      BY <2>7, Zenon DEF RstIn
    <3> QED BY <2>6, <3>1, <3>2, Zenon
  <2>8. ASSUME NEW s \in Sids, NEW inc \in Grants, WindowUpdate(s, inc)
        PROVE  \A r \in Sids : Parks(r)'
    <3>1. CASE TooLarge(win[s] + inc)
      <4>1. Calling(s)
        BY <2>0, <2>8, <3>1, EndsCall, Zenon
      <4>2. Gone(s) /\ UNCHANGED <<kicks, connWin, parked, inSendQ>> /\ out' = out + 1
        BY <2>8, <3>1, Zenon DEF WindowUpdate, Resets
      <4> QED BY <2>6, <4>1, <4>2, Zenon
    <3>2. CASE ~TooLarge(win[s] + inc)
      <4> DEFINE can == Sendable(s, pending[s], win[s] + inc, phase[s] = "finished")
      <4>1. /\ InBatch /\ Enqueued(s, pending[s], win[s] + inc, phase[s] = "finished")
            /\ BatchCalls(UpdateCalls(s, win[s] + inc))
            /\ UNCHANGED <<connWin, kicks, out, phase, pending, backedUp, cb, parked>>
        BY <2>8, <3>2, Zenon DEF WindowUpdate
      <4>2. CASE can
        <5>1. BatchCalls(<< <<"pass">> >>)
          BY <4>1, <4>2, Zenon DEF UpdateCalls
        <5>2. Dull
          BY <2>0, <5>1, DullPasses, Zenon
        <5> QED BY <2>4, <4>1, <5>2, Zenon
      <4>3. CASE ~can
        <5>1. BatchCalls(ResumeCalls) /\ UNCHANGED inSendQ
          BY <4>1, <4>3, Zenon DEF UpdateCalls, Enqueued
        <5>2. Looking
          BY <2>0, <5>1, UpdateLooks, Zenon
        <5>3. ResumeCalls /= <<>> => connWin <= 0 \/ Ready = {}
          <6>1. ~(connWin > 0) => connWin <= 0
            BY ONLY <2>1
          <6>2. ResumeCalls /= <<>> => ~(out >= HighWater)
            BY Zenon DEF ResumeCalls
          <6> QED BY <2>2, <4>1, <6>1, <6>2, Zenon DEF StackInv
        <5> QED BY <2>0, <4>1, <5>1, <5>2, <5>3, <1>ParkLook, Zenon
      <4> QED BY <4>2, <4>3, Zenon
    <3> QED BY <3>1, <3>2, Zenon
  <2>9. ASSUME InBatch, BatchCalls(<< <<"pass">> >>) \/ BatchCalls(<<>>) PROVE Dull
    BY <2>0, <2>9, CallsTyped, BatchAdds, DullCalls, DullAdds, Zenon
  <2>10. ASSUME NEW inc \in Grants, ConnUpdate(inc) PROVE \A r \in Sids : Parks(r)'
    <3>1. \/ Closes
          \/ /\ InBatch /\ BatchCalls(ConnCalls(inc))
             /\ UNCHANGED <<kicks, out, phase, pending, backedUp, cb, parked>>
      BY <2>10, Zenon DEF ConnUpdate, streamVars
    <3>2. ConnCalls(inc) = << <<"pass">> >> \/ ConnCalls(inc) = <<>>
      BY Zenon DEF ConnCalls
    <3> QED BY <2>3, <2>4, <2>9, <3>1, <3>2, Zenon
  <2>11. ASSUME NEW v \in InitWins, Settings(v) PROVE \A r \in Sids : Parks(r)'
    <3>1. \/ Closes
          \/ /\ InBatch /\ BatchCalls(<< <<"pass">> >>) /\ out' = out + 1
             /\ UNCHANGED <<kicks, phase, pending, backedUp, cb, parked>>
      BY <2>11, Zenon DEF Settings
    <3> QED BY <2>3, <2>4, <2>9, <3>1, Zenon
  <2> QED BY <2>5, <2>7, <2>8, <2>10, <2>11, Zenon DEF PeerSends

\* The marks stay functions of the streams.
<1>ParkDomains.
      ASSUME Shape, ParkInv, Next
      PROVE  DOMAIN cb' = Sids /\ DOMAIN backedUp' = Sids /\ DOMAIN parked' = Sids
  <2> USE <1>ParkDomains
  <2>0. DOMAIN cb = Sids /\ DOMAIN backedUp = Sids /\ DOMAIN parked = Sids
    BY Zenon DEF ParkInv
  <2>1. \A f, s, x : DOMAIN [f EXCEPT ![s] = x] = DOMAIN f
    BY Zenon
  <2>2. \A x : DOMAIN [s \in Sids |-> x] = Sids
    BY Zenon
  <2>3. ASSUME NEW s, Gone(s) PROVE DOMAIN cb' = Sids /\ DOMAIN backedUp' = Sids
    BY <2>0, <2>1, <2>3, Zenon DEF Gone
  <2>4. CASE Closes
    BY <2>2, <2>4, Zenon DEF Closes
  <2>5. CASE Emit
    <3>1. PICK u \in 0..1, s \in Sids : /\ TurnEnds(u, s) \/ TurnSends(u, s) \/ TurnSkips(u, s)
                                        /\ parked' = parked
      BY <2>5, EmitTurns, Zenon
    <3> QED BY <2>0, <2>3, <3>1, Zenon DEF TurnEnds, TurnSends, TurnSkips, EmitEnd, EmitData
  <2>6. CASE EndBatch \/ PassEnds \/ ScanEnds \/ ProducerReturns \/ Hook \/ FlushDrained
             \/ FlushRefilled \/ FlushLeaves \/ Writable \/ RunDrainKicks
             \/ (\E left \in 1..out : FlushBlocks(left)) \/ \E s \in Sids : NextKick(s)
    <3>1. UNCHANGED <<cb, backedUp, parked>>
      BY <2>6, Zenon DEF EndBatch, PassEnds, ScanEnds, ProducerReturns, Hook, FlushDrained,
         FlushRefilled, FlushLeaves, Writable, RunDrainKicks, FlushBlocks, NextKick, streamVars
    <3> QED BY <2>0, <3>1, Zenon
  <2>7. CASE CallProducer \/ WriteEnds \/ KickEnds
    BY <2>0, <2>1, <2>7, Zenon DEF CallProducer, WriteEnds, KickEnds
  <2>8. ASSUME NEW s \in Sids, ScanNext(s) \/ OnDrain(s)
        PROVE DOMAIN cb' = Sids /\ DOMAIN backedUp' = Sids /\ DOMAIN parked' = Sids
    BY <2>0, <2>1, <2>8, Zenon DEF ScanNext, OnDrain
  <2>9. ASSUME NEW s \in Sids,
               SendHead(s) \/ HeadersIn(s) \/ \E n \in Sizes : Write(s, n)
        PROVE DOMAIN cb' = Sids /\ DOMAIN backedUp' = Sids /\ DOMAIN parked' = Sids
    BY <2>0, <2>9, Zenon DEF SendHead, HeadersIn, Write
  <2>10. ASSUME NEW s \in Sids, Finish(s)
         PROVE DOMAIN cb' = Sids /\ DOMAIN backedUp' = Sids /\ DOMAIN parked' = Sids
    BY <2>0, <2>1, <2>3, <2>10, Zenon DEF Finish, EmitEnd
  <2>11. ASSUME NEW s \in Sids, Abort(s) \/ RstIn(s)
         PROVE DOMAIN cb' = Sids /\ DOMAIN backedUp' = Sids /\ DOMAIN parked' = Sids
    BY <2>0, <2>3, <2>11, Zenon DEF Abort, RstIn, Resets
  <2>12. ASSUME NEW s \in Sids, NEW inc \in Grants, WindowUpdate(s, inc)
         PROVE DOMAIN cb' = Sids /\ DOMAIN backedUp' = Sids /\ DOMAIN parked' = Sids
    BY <2>0, <2>3, <2>12, Zenon DEF WindowUpdate, Resets
  <2>13. ASSUME NEW inc \in Grants, ConnUpdate(inc)
         PROVE DOMAIN cb' = Sids /\ DOMAIN backedUp' = Sids /\ DOMAIN parked' = Sids
    BY <2>0, <2>4, <2>13, Zenon DEF ConnUpdate, streamVars
  <2>14. ASSUME NEW v \in InitWins, Settings(v)
         PROVE DOMAIN cb' = Sids /\ DOMAIN backedUp' = Sids /\ DOMAIN parked' = Sids
    BY <2>0, <2>4, <2>14, Zenon DEF Settings
  <2>15. CASE PeerSends
    BY <2>9, <2>11, <2>12, <2>13, <2>14, <2>15, Zenon DEF PeerSends
  <2>16. CASE \E s \in Sids : ProducerActs(s)
    BY <2>8, <2>9, <2>10, <2>11, <2>16, Zenon DEF ProducerActs
  <2> QED BY <2>4, <2>5, <2>6, <2>7, <2>8, <2>15, <2>16, Zenon DEF Next, LoopStep, Close

<1>Step.
      ASSUME BodyInv, QueueInv, StackInv, NestInv, ParkInv, Next
      PROVE  ParkInv'
  <2> USE <1>Step
  <2>0. /\ Shape /\ DOMAIN cb = Sids /\ DOMAIN backedUp = Sids /\ DOMAIN parked = Sids
        /\ stk \in Seq(Frame) /\ kicks \in SUBSET Sids /\ \A r \in Sids : Parks(r)
    BY Zenon DEF BodyInv, ParkInv, StackInv
  <2>1. ASSUME LoopStep \/ Writable PROVE \A r \in Sids : Parks(r)'
    BY <2>0, <2>1, <1>ParkLoop, <1>ParkWriteEnds, <1>ParkScan, <1>ParkScanEnds, <1>ParkCall, <1>ParkKickEnds,
       <1>ParkFlush, <1>ParkNextKick, <1>ParkPassEnds, <1>ParkEmit, Zenon DEF LoopStep
  <2>2. ASSUME Close PROVE \A r \in Sids : Parks(r)'
    <3>1. parked' = [s \in Sids |-> FALSE]
      BY <2>2, Zenon DEF Close, Closes
    <3>2. \A r \in Sids : ~parked'[r]
      BY <3>1, Zenon
    <3> QED BY <3>2, Zenon DEF Parks
  <2>3. \A r \in Sids : Parks(r)'
    BY <2>0, <2>1, <2>2, <1>ParkRunKicks, <1>ParkPeer, <1>ParkActs, Zenon DEF Next
  <2> QED BY <2>0, <2>3, <1>ParkDomains, Zenon DEF ParkInv
<1> QED BY <1>Step, Zenon

\* NoParkedForgotten: with an empty stack only the list, the buffer or the backlog is left.
LEMMA ParkMeans ==
    ASSUME StackInv, ParkInv
    PROVE  NoParkedForgotten
<1> SUFFICES ASSUME NEW s \in Sids, parked[s]
             PROVE  /\ \/ cb[s] /\ backedUp[s] /\ Open(s)
                       \/ \E i \in DOMAIN stk : stk[i] = <<"call", s>>
                    /\ stk = <<>> => s \in kicks \/ out > 0 \/ pending[s] /= <<>>
  BY Zenon DEF NoParkedForgotten
<1>1. stk \in Seq(Frame) /\ (Some(stk, CallOf(s)) \/ Due(s))
  BY Zenon DEF StackInv, ParkInv, Parks
<1>2. ASSUME NEW i \in 1..Len(stk), stk[i] \in CallOf(s)
      PROVE  i \in DOMAIN stk /\ stk[i] = <<"call", s>>
  <2>1. i \in DOMAIN stk /\ stk[i] \in Frame /\ stk[i][1] = "call" /\ stk[i][2] = s
    BY <1>1, <1>2 DEF CallOf
  <2>2. "call" \in {"cb", "call", "wrote", "verdict"}
    BY Zenon
  <2>3. stk[i] = <<stk[i][1], stk[i][2]>>
    BY <2>1, <2>2, FrameHolds, Zenon
  <2> QED BY <2>1, <2>3, Zenon
<1>3. \/ cb[s] /\ backedUp[s] /\ Open(s)
      \/ \E i \in DOMAIN stk : stk[i] = <<"call", s>>
  BY <1>1, <1>2, Zenon DEF Some, Due, Armed
<1>4. ~Some(<<>>, CallOf(s)) /\ ~Some(<<>>, NamesOf(s)) /\ ~Some(<<>>, Owing)
  BY SomeFew, Zenon
<1>5. stk = <<>> => s \in kicks \/ out > 0 \/ pending[s] /= <<>>
  BY <1>1, <1>4, Zenon DEF Due, Named
<1> QED BY <1>3, <1>5, Zenon

-----------------------------------------------------------------------------
(* The theorems.                                                            *)

H2Inv == BodyInv /\ QueueInv /\ StackInv /\ NestInv /\ ParkInv

\* The invariant holds at the start, ...
LEMMA H2Init ==
    ASSUME Init
    PROVE  H2Inv
<1>1. BodyInv
  BY BodyInit, Zenon
<1>2. /\ stk = <<>> /\ kicks = {} /\ sendQ = [u \in 0..1 |-> <<>>]
      /\ inSendQ = [s \in Sids |-> FALSE] /\ phase = [s \in Sids |-> "idle"]
      /\ cb = [s \in Sids |-> FALSE] /\ backedUp = [s \in Sids |-> FALSE]
      /\ parked = [s \in Sids |-> FALSE] /\ pending = [s \in Sids |-> <<>>]
  BY Zenon DEF Init
<1>3. QueueInv
  <2> SUFFICES ASSUME NEW s \in Sids PROVE Placed(s) /\ Waits(s)
    BY Zenon DEF QueueInv
  <2>1. phase[s] = "idle" /\ inSendQ[s] = FALSE
    BY <1>2, Zenon
  <2>2. ASSUME NEW u \in 0..1 PROVE sendQ[u] = <<>>
    BY <1>2, Zenon
  <2>3. Once(<<>>, s, FALSE)
    BY DEF Once
  <2>4. Placed(s)
    BY <2>1, <2>2, <2>3, Zenon DEF Placed
  <2>5. ~Open(s)
    BY <2>1, Zenon DEF Open
  <2>6. Waits(s)
    BY <2>1, <2>5, Zenon DEF Waits
  <2> QED BY <2>4, <2>6, Zenon
<1>4. StackInv
  <2>1. Ready = {}
    BY <1>2, Zenon DEF Ready
  <2>2. <<>> \in Seq(Frame) /\ {} \in SUBSET Sids
    OBVIOUS
  <2> QED BY <1>2, <2>1, <2>2, Zenon DEF StackInv
<1>5. NestInv
  BY <1>2, NestedFew, CallsTyped, Zenon DEF NestInv
<1>6. ParkInv
  <2>1. \A r \in Sids : ~parked[r]
    BY <1>2, Zenon
  <2>2. DOMAIN cb = Sids /\ DOMAIN backedUp = Sids /\ DOMAIN parked = Sids
    BY <1>2, Zenon
  <2> QED BY <2>1, <2>2, Zenon DEF ParkInv, Parks
<1> QED BY <1>1, <1>3, <1>4, <1>5, <1>6, Zenon DEF H2Inv

\* ... and a stuttering step keeps it.
LEMMA H2Stutter ==
    ASSUME H2Inv, UNCHANGED vars
    PROVE  H2Inv'
<1>1. UNCHANGED <<stk, up, connWin, initWin, sendQ, kicks, out, armed, phase, win, written,
                  pending, wire, ended, inSendQ, backedUp, cb, parked>>
  BY Zenon DEF vars, streamVars
<1>2. BodyInv'
  BY <1>1, Zenon DEF H2Inv, BodyInv, Shape, Stream
<1>3. QueueInv'
  BY <1>1, Zenon DEF H2Inv, QueueInv, Placed, Waits, Open, Sendable
<1>4. StackInv'
  <2>1. Ready' = Ready
    BY <1>1, Zenon DEF Ready
  <2> QED BY <1>1, <2>1, Zenon DEF H2Inv, StackInv
<1>5. NestInv'
  <2>1. Gones' = Gones
    BY <1>1, Zenon DEF Gones
  <2> QED BY <1>1, <2>1, Zenon DEF H2Inv, NestInv
<1>6. ParkInv'
  <2>1. ASSUME NEW r \in Sids PROVE Parks(r)'
    BY <1>1, Zenon DEF H2Inv, ParkInv, Parks, Due, Named, Armed, Open, Blocked
  <2> QED BY <1>1, <2>1, Zenon DEF H2Inv, ParkInv
<1> QED BY <1>2, <1>3, <1>4, <1>5, <1>6, Zenon DEF H2Inv

\* ... and a step keeps it, inside the windows.
LEMMA H2Step ==
    ASSUME Counts, H2Inv, Next
    PROVE  H2Inv' /\ Flows
<1>1. BodyInv' /\ Flows
  BY BodyStep, Zenon DEF H2Inv
<1>2. QueueInv' /\ StackInv' /\ ParkInv'
  BY QueueStep, StackStep, ParkStep, Zenon DEF H2Inv
<1>3. NestInv'
  BY NestStep, Zenon DEF H2Inv, StackInv
<1> QED BY <1>1, <1>2, <1>3, Zenon DEF H2Inv

INSTANCE FiniteSetTheorems

\* The streams are finitely many, so a set of them can be counted.
LEMMA SidsCounted == Counts
<1> SUFFICES ASSUME NEW S \in SUBSET Sids PROVE Cardinality(S) \in Nat
  BY Zenon DEF Counts
<1>1. IsFiniteSet(Sids)
  BY H2Assumption, Zenon
<1>2. IsFiniteSet(S)
  BY <1>1, FS_Subset, Zenon
<1> QED BY <1>2, FS_CardinalityType, Zenon

\* The inductive invariant of the sending half.
THEOREM H2Invariant == Spec => []H2Inv
<1>1. Init => H2Inv
  BY H2Init, Zenon
<1>2. H2Inv /\ [Next]_vars => H2Inv'
  BY SidsCounted, H2Step, H2Stutter, Zenon
<1> QED BY <1>1, <1>2, PTL DEF Spec

\* The windows stay in the range of int32, whatever the peer grants, and the flag of
\* an open stream says exactly whether it is in the ready-queue.
THEOREM H2TypeCorrect == Spec => []TypeOK
<1>1. H2Inv => TypeOK
  BY QueueMeans, Zenon DEF H2Inv
<1> QED BY <1>1, H2Invariant, PTL

\* The bytes of every response leave in order, none twice and none skipped.
THEOREM BytesInOrder == Spec => []BodyInOrder
<1>1. H2Inv => BodyInOrder
  BY BodyMeans, Zenon DEF H2Inv
<1> QED BY <1>1, H2Invariant, PTL

\* DATA goes out only inside both windows, before END_STREAM, and below the mark.
THEOREM WindowsRespected == Spec => FlowControlled
<1>1. H2Inv /\ [Next]_vars =>
        [\A s \in Sids : Len(wire'[s]) > Len(wire[s]) =>
            /\ Len(wire'[s]) - Len(wire[s]) <= win[s]
            /\ Len(wire'[s]) - Len(wire[s]) <= connWin
            /\ ~ended[s]
            /\ out' < HighWater + MaxFrame]_vars
  BY SidsCounted, H2Step, Zenon DEF Flows, Flow
<1> QED BY <1>1, H2Invariant, PTL DEF Spec, FlowControlled

\* When the loop waits, a backlog waits for the socket or for a window.
THEOREM BacklogServed == Spec => []NoIdleBacklog
<1>1. H2Inv => NoIdleBacklog
  BY StackMeans, Zenon DEF H2Inv
<1> QED BY <1>1, H2Invariant, PTL

\* No producer is parked with nobody to call it.
THEOREM ParkedRemembered == Spec => []NoParkedForgotten
<1>1. H2Inv => NoParkedForgotten
  BY ParkMeans, Zenon DEF H2Inv
<1> QED BY <1>1, H2Invariant, PTL
=============================================================================
