-------------------------- MODULE H3SessionProofs --------------------------
(***************************************************************************)
(* Proofs, for any number of streams, any body and any cap, that the calls *)
(* of H3Session leave no queue behind but the ones named, and that an      *)
(* upload never holds more than the cap.                                   *)
(***************************************************************************)
EXTENDS H3Session, TLAPS

-----------------------------------------------------------------------------
(* A stream's queue as a pair "taken \o waiting".                           *)

\* Appending an element stays within the sequences over S and adds it last.
LEMMA AppendIsSeq ==
    ASSUME NEW S, NEW s \in Seq(S), NEW x \in S
    PROVE  /\ Append(s, x) \in Seq(S)
           /\ Len(Append(s, x)) = Len(s) + 1
           /\ \A i \in 1..Len(s) : Append(s, x)[i] = s[i]
           /\ Append(s, x)[Len(s) + 1] = x
  OBVIOUS

\* The elements of a sequence over S, and how many they are.
LEMMA SeqElements ==
    ASSUME NEW S, NEW s \in Seq(S)
    PROVE  /\ Len(s) \in Nat /\ DOMAIN s = 1..Len(s)
           /\ \A i \in 1..Len(s) : s[i] \in S
           /\ <<>> \in Seq(S) /\ Len(<<>>) = 0
           /\ s /= <<>> => Len(s) \in Nat \ {0}
  OBVIOUS

\* Sequences that agree in length and in every place are equal.
LEMMA SameSeq ==
    ASSUME NEW S, NEW s \in Seq(S), NEW t \in Seq(S), Len(s) = Len(t),
           \A i \in 1..Len(s) : s[i] = t[i]
    PROVE  s = t
  OBVIOUS

\* The head of a sequence over S, and the rest of it one place further on.
LEMMA TailIsSeq ==
    ASSUME NEW S, NEW s \in Seq(S), s /= <<>>
    PROVE  /\ Head(s) \in S /\ Head(s) = s[1]
           /\ Tail(s) \in Seq(S) /\ Len(Tail(s)) = Len(s) - 1
           /\ \A i \in 1..(Len(s) - 1) : Tail(s)[i] = s[i + 1]
  OBVIOUS

\* The elements of a concatenation are those of its parts.
LEMMA ConcatIsSeq ==
    ASSUME NEW S, NEW s \in Seq(S), NEW t \in Seq(S)
    PROVE  /\ s \o t \in Seq(S) /\ Len(s \o t) = Len(s) + Len(t)
           /\ \A i \in 1..Len(s) + Len(t) :
                (s \o t)[i] = IF i <= Len(s) THEN s[i] ELSE t[i - Len(s)]
  OBVIOUS

\* Concatenation does not depend on how it is bracketed.
LEMMA ConcatAssoc ==
    ASSUME NEW S, NEW s \in Seq(S), NEW t \in Seq(S), NEW u \in Seq(S)
    PROVE  (s \o t) \o u = s \o (t \o u)
  OBVIOUS

\* A push at the tail of the waiting part is a push at the tail of the whole.
LEMMA ConcatAppend ==
    ASSUME NEW S, NEW s \in Seq(S), NEW t \in Seq(S), NEW x \in S
    PROVE  s \o Append(t, x) = Append(s \o t, x)
  OBVIOUS

\* Taking the head of the waiting part moves it behind the taken part and
\* leaves the whole unchanged.
LEMMA TakeHead ==
    ASSUME NEW S, NEW s \in Seq(S), NEW t \in Seq(S), t /= <<>>
    PROVE  /\ Append(s, Head(t)) \in Seq(S)
           /\ Tail(t) \in Seq(S)
           /\ Append(s, Head(t)) \o Tail(t) = s \o t
  OBVIOUS

-----------------------------------------------------------------------------
(* The invariant.                                                           *)

\* Where a call of each kind can be: only a streamed call is at a yield, only an
\* upload pumps, only a tunnel is opening, idle or receiving.
Situated ==
    \A s \in Sids :
        /\ pc[s] = "unopened" <=> kind[s] = "none"
        /\ pc[s] = "get" => kind[s] \in {"request", "stream", "upload"}
        /\ pc[s] \in {"yielded", "dropped"} => kind[s] = "stream"
        /\ pc[s] \in {"pump", "full"} => kind[s] = "upload"
        /\ pc[s] \in {"opening", "recv", "tunnel"} => kind[s] = "ws"
        /\ pc[s] = "held" => kind[s] = "raw"

\* There is room for one more chunk whenever the pump is about to send one.
RoomToPump ==
    \A s \in Sids :
        /\ unacked[s] <= pumped[s]
        /\ pc[s] = "unopened" => pumped[s] = 0
        /\ pc[s] = "pump" => unacked[s] < BufCap
        /\ unacked[s] <= BufCap

\* A session exists only once h3 was negotiated.
Pinned == conn \in {"open", "terminated"} => http

IInv == TypeOK /\ Situated /\ RoomToPump /\ Pinned /\ QueuesReclaimed

USE DEF Sids, Kinds, Waiting, Finished

\* The initial state, with no stream open, satisfies the invariant.
LEMMA IInvInit == Init => IInv
BY H3Assumption DEF Init, IInv, TypeOK, Situated, RoomToPump, Pinned, QueuesReclaimed,
   H3Assumption

\* Dialling, and what the server and the network do, preserve it.
LEMMA EnvironmentPreserves ==
    ASSUME IInv,
           Negotiate \/ Connected \/ DialFails \/ ConnectionTerminated
           \/ \E s \in Sids : ServerSends(s)
    PROVE  IInv'
<1>1. /\ UNCHANGED <<kind, pc, registered, pumped, unacked>>
      /\ conn' \in {"dialing", "refused", "open", "terminated"}
      /\ conn' \in {"open", "terminated"} => http'
      /\ http => http'
  <2>1. CASE Negotiate
    BY <2>1 DEF Negotiate, IInv, TypeOK, Pinned, streamVars
  <2>2. CASE Connected
    BY <2>2 DEF Connected, IInv, TypeOK, Pinned, streamVars
  <2>3. CASE DialFails
    BY <2>3 DEF DialFails, IInv, TypeOK, Pinned, streamVars
  <2>4. CASE ConnectionTerminated
    BY <2>4 DEF ConnectionTerminated, IInv, TypeOK, Pinned
  <2>5. ASSUME NEW s \in Sids, ServerSends(s)
        PROVE  UNCHANGED <<conn, http, kind, pc, registered, pumped, unacked>>
    <3>1. \E items : Puts(s, items)
      BY <2>5, Zenon DEF ServerSends, HeadersReceived, DataReceived, StreamReset
    <3> QED BY <3>1 DEF Puts
  <2> QED BY <2>1, <2>2, <2>3, <2>4, <2>5 DEF IInv, TypeOK, Pinned
<1> QED
  BY <1>1 DEF IInv, TypeOK, Situated, RoomToPump, Pinned, QueuesReclaimed

\* What a step of stream s leaves alone: the connection and the other streams.
Local(s) ==
    /\ UNCHANGED <<conn, http>>
    /\ \A t \in Sids \ {s} :
        /\ kind'[t] = kind[t] /\ pc'[t] = pc[t]
        /\ pumped'[t] = pumped[t] /\ unacked'[t] = unacked[t]
        /\ t \in registered' <=> t \in registered

\* The state functions keep their domains, and a queue is added to _queues only
\* for s and only in a session.
Shaped(s) ==
    /\ kind' = [t \in Sids |-> kind'[t]] /\ pc' = [t \in Sids |-> pc'[t]]
    /\ pumped' = [t \in Sids |-> pumped'[t]] /\ unacked' = [t \in Sids |-> unacked'[t]]
    /\ registered' \subseteq registered \union {s}
    /\ registered' \subseteq registered \/ conn \in {"open", "terminated"}

\* The invariant of one stream.
OneOK(s) ==
    /\ kind[s] \in Kinds \union {"none"}
    /\ pc[s] \in Waiting \union Finished \union
                 {"unopened", "held", "pump", "full", "yielded", "dropped", "tunnel"}
    /\ s \in registered => kind[s] /= "none"
    /\ pumped[s] \in 0..Chunks /\ unacked[s] \in 0..Chunks
    /\ pc[s] = "unopened" <=> kind[s] = "none"
    /\ pc[s] = "get" => kind[s] \in {"request", "stream", "upload"}
    /\ pc[s] \in {"yielded", "dropped"} => kind[s] = "stream"
    /\ pc[s] \in {"pump", "full"} => kind[s] = "upload"
    /\ pc[s] \in {"opening", "recv", "tunnel"} => kind[s] = "ws"
    /\ pc[s] = "held" => kind[s] = "raw"
    /\ unacked[s] <= pumped[s]
    /\ pc[s] = "unopened" => pumped[s] = 0
    /\ pc[s] = "pump" => unacked[s] < BufCap
    /\ unacked[s] <= BufCap
    /\ s \in registered /\ pc[s] \in Finished =>
        kind[s] = "ws" \/ (kind[s] \in {"request", "raw"} /\ pc[s] = "cancelled")

\* IInv is about the connection and about each stream by itself.
LEMMA StreamByStream ==
    IInv <=> /\ conn \in {"dialing", "refused", "open", "terminated"}
             /\ Pinned /\ (registered /= {} => http)
             /\ kind = [s \in Sids |-> kind[s]] /\ pc = [s \in Sids |-> pc[s]]
             /\ pumped = [s \in Sids |-> pumped[s]]
             /\ unacked = [s \in Sids |-> unacked[s]]
             /\ registered \subseteq Sids
             /\ \A s \in Sids : OneOK(s)
<1>1. ASSUME IInv, NEW s \in Sids PROVE OneOK(s)
  BY <1>1 DEF IInv, TypeOK, Situated, RoomToPump, QueuesReclaimed, OneOK
<1>2. IInv => /\ kind = [s \in Sids |-> kind[s]] /\ pc = [s \in Sids |-> pc[s]]
              /\ pumped = [s \in Sids |-> pumped[s]]
              /\ unacked = [s \in Sids |-> unacked[s]]
  BY DEF IInv, TypeOK
<1>3. ASSUME conn \in {"dialing", "refused", "open", "terminated"},
             Pinned, registered /= {} => http,
             kind = [s \in Sids |-> kind[s]], pc = [s \in Sids |-> pc[s]],
             pumped = [s \in Sids |-> pumped[s]],
             unacked = [s \in Sids |-> unacked[s]],
             registered \subseteq Sids,
             \A s \in Sids : OneOK(s)
      PROVE  IInv
  <2>1. TypeOK BY <1>3 DEF TypeOK, OneOK
  <2>2. Situated /\ RoomToPump BY <1>3 DEF Situated, RoomToPump, OneOK
  <2>3. QueuesReclaimed BY <1>3 DEF QueuesReclaimed, OneOK
  <2> QED BY <1>3, <2>1, <2>2, <2>3 DEF IInv
<1> QED BY <1>1, <1>2, <1>3 DEF IInv, TypeOK

\* Every step of a stream, the acknowledgements of its data included, concerns
\* that stream only and preserves its invariant.
LEMMA StreamStep ==
    ASSUME IInv, NEW s \in Sids, Acked(s) \/ Runs(s) \/ CallerActs(s)
    PROVE  Local(s) /\ Shaped(s) /\ OneOK(s)'
<1>1. /\ OneOK(s) /\ registered \subseteq Sids
      /\ kind = [t \in Sids |-> kind[t]] /\ pc = [t \in Sids |-> pc[t]]
      /\ pumped = [t \in Sids |-> pumped[t]] /\ unacked = [t \in Sids |-> unacked[t]]
  BY StreamByStream
<1>2. CASE Acked(s)
  BY <1>1, <1>2, H3Assumption DEF H3Assumption, Acked, Local, Shaped, OneOK
<1>3. CASE RequestGets(s)
  BY <1>1, <1>3, H3Assumption, SMTT(30)
  DEF H3Assumption, RequestGets, Take, Goes, Ends, Local, Shaped, OneOK
<1>4. CASE StreamGets(s)
  BY <1>1, <1>4, H3Assumption, SMTT(30)
  DEF H3Assumption, StreamGets, Take, Goes, Ends, Local, Shaped, OneOK
<1>5. CASE RawGets(s)
  BY <1>1, <1>5, H3Assumption, Zenon
  DEF H3Assumption, RawGets, Take, Goes, Local, Shaped, OneOK
<1>6. CASE UploadGets(s)
  BY <1>1, <1>6, H3Assumption, SMTT(30)
  DEF H3Assumption, UploadGets, Take, Goes, Ends, Local, Shaped, OneOK
<1>7. CASE WsOpens(s)
  BY <1>1, <1>7, H3Assumption
  DEF H3Assumption, WsOpens, Take, Goes, Ends, Local, Shaped, OneOK
<1>8. CASE WsGets(s)
  BY <1>1, <1>8, H3Assumption, Zenon
  DEF H3Assumption, WsGets, Take, Goes, Ends, HandsOut, Local, Shaped, OneOK
<1>9. CASE Pump(s)
  <2>1. Local(s) /\ Shaped(s) BY <1>1, <1>9, Zenon DEF Pump, Goes, Local, Shaped
  <2>2. /\ pc[s] = "pump" /\ pumped[s] < Chunks
        /\ kind' = kind /\ registered' = registered
        /\ pumped'[s] = pumped[s] + 1 /\ unacked'[s] = unacked[s] + 1
        /\ pc'[s] = IF unacked'[s] >= BufCap THEN "full" ELSE "pump"
    BY <1>1, <1>9 DEF Pump, Goes
  <2> QED BY <1>1, <2>1, <2>2, H3Assumption DEF H3Assumption, OneOK
<1>10. CASE Recheck(s)
  BY <1>1, <1>10, H3Assumption, Zenon DEF H3Assumption, Recheck, Goes, Local, Shaped, OneOK
<1>11. CASE PumpEnds(s)
  BY <1>1, <1>11, H3Assumption, Zenon DEF H3Assumption, PumpEnds, Goes, Local, Shaped, OneOK
<1>12. CASE StreamFinalized(s)
  BY <1>1, <1>12, H3Assumption, Zenon
  DEF H3Assumption, StreamFinalized, Ends, Local, Shaped, OneOK
<1>13. CASE StreamResumes(s)
  BY <1>1, <1>13, H3Assumption, Zenon
  DEF H3Assumption, StreamResumes, Goes, Local, Shaped, OneOK
<1>14. CASE StreamDropped(s)
  BY <1>1, <1>14, H3Assumption, Zenon
  DEF H3Assumption, StreamDropped, Goes, Local, Shaped, OneOK
<1>15. CASE AbortStream(s)
  BY <1>1, <1>15, H3Assumption, Zenon DEF H3Assumption, AbortStream, Ends, Local, Shaped, OneOK
<1>16. CASE BodyRaises(s)
  BY <1>1, <1>16, H3Assumption, Zenon DEF H3Assumption, BodyRaises, Ends, Local, Shaped, OneOK
<1>17. CASE WsRecv(s)
  BY <1>1, <1>17, H3Assumption
  DEF H3Assumption, WsRecv, HandsOut, Goes, Local, Shaped, OneOK
<1>18. CASE WsClose(s)
  BY <1>1, <1>18, H3Assumption, Zenon DEF H3Assumption, WsClose, Ends, Local, Shaped, OneOK
<1>19. CASE Cancelled(s)
  BY <1>1, <1>19, H3Assumption, Zenon
  DEF H3Assumption, Cancelled, Ends, PopsOnCancel, Local, Shaped, OneOK
<1>20. ASSUME NEW k \in Kinds, Open(s, k) PROVE Local(s) /\ Shaped(s) /\ OneOK(s)'
  <2>1. Local(s) /\ Shaped(s) BY <1>1, <1>20, Zenon DEF Open, Local, Shaped
  <2>2. /\ kind[s] = "none" /\ kind'[s] = k
        /\ pumped' = pumped /\ unacked' = unacked
        /\ pc'[s] = CASE k = "raw" -> "held"
                      [] k = "upload" -> "pump"
                      [] k = "ws" -> "opening"
                      [] OTHER -> "get"
    BY <1>1, <1>20 DEF Open
  <2> QED BY <1>1, <2>1, <2>2, H3Assumption DEF H3Assumption, OneOK
<1> QED
  BY <1>2, <1>3, <1>4, <1>5, <1>6, <1>7, <1>8, <1>9, <1>10,
     <1>11, <1>12, <1>13, <1>14, <1>15, <1>16, <1>17, <1>18, <1>19, <1>20
  DEF Runs, CallerActs

\* The invariant is inductive: h3.py's calls keep it whatever the server, the
\* network and the callers do.
THEOREM IInvAlways == Spec => []IInv
<1>1. ASSUME IInv, [Next]_vars PROVE IInv'
  <2>1. CASE UNCHANGED vars
    BY <1>1, <2>1 DEF vars, streamVars, IInv, TypeOK, Situated, RoomToPump, Pinned,
       QueuesReclaimed
  <2>2. CASE Negotiate \/ Connected \/ DialFails \/ ConnectionTerminated
             \/ \E s \in Sids : ServerSends(s)
    BY <1>1, <2>2, EnvironmentPreserves
  <2>3. ASSUME NEW s \in Sids, Acked(s) \/ Runs(s) \/ CallerActs(s) PROVE IInv'
    <3>1. Local(s) /\ Shaped(s) /\ OneOK(s)' BY <1>1, <2>3, StreamStep
    <3>2. /\ conn \in {"dialing", "refused", "open", "terminated"}
          /\ Pinned /\ (registered /= {} => http) /\ registered \subseteq Sids
          /\ \A t \in Sids : OneOK(t)
      BY <1>1, StreamByStream
    <3>3. \A t \in Sids : OneOK(t)' BY <3>1, <3>2 DEF Local, OneOK
    <3>4. /\ conn' \in {"dialing", "refused", "open", "terminated"}
          /\ Pinned' /\ (registered' /= {} => http') /\ registered' \subseteq Sids
      BY <3>1, <3>2 DEF Local, Shaped, Pinned
    <3>5. TypeOK' BY <3>1, <3>3, <3>4 DEF TypeOK, OneOK, Shaped
    <3>6. Situated' /\ RoomToPump' BY <3>3 DEF Situated, RoomToPump, OneOK
    <3>7. QueuesReclaimed' BY <3>3, <3>4 DEF QueuesReclaimed, OneOK
    <3> QED BY <3>4, <3>5, <3>6, <3>7 DEF IInv
  <2> QED BY <1>1, <2>1, <2>2, <2>3 DEF Next
<1> QED BY IInvInit, <1>1, PTL DEF Spec

\* _queues holds queues of opened streams only, on a connection that negotiated h3.
THEOREM TypeCorrect == Spec => []TypeOK
<1>1. IInv => TypeOK BY DEF IInv
<1> QED BY <1>1, IInvAlways, PTL

\* Whatever way they end, stream and upload leave no queue behind, nor does a
\* request that is not cancelled, nor an aborted stream.
THEOREM NothingLeftBehind == Spec => []QueuesReclaimed
<1>1. IInv => QueuesReclaimed BY DEF IInv
<1> QED BY <1>1, IInvAlways, PTL

\* The backpressure of _upload_body holds for any body and any cap.
THEOREM UploadBounded == Spec => []BufferBounded
<1>1. IInv => BufferBounded BY DEF IInv, RoomToPump, BufferBounded
<1> QED BY <1>1, IInvAlways, PTL

-----------------------------------------------------------------------------
\* What a call has read of its stream.

ConnErr == <<"err", 1>>
Event == ({"h", "d", "end"} \X Nat) \union {<<"err", 0>>}

\* The events of a stream: headers first unless it is reset, and nothing after
\* an end or a reset.
Ordered(a) ==
    /\ a \in Seq(Event)
    /\ a /= <<>> => a[1][1] \in {"h", "err"}
    /\ \A i \in 1..Len(a) : a[i][1] \in {"end", "err"} => i = Len(a)

\* items shows the beginning own of the stream's events, and after it at most the
\* error of a terminated connection.
Shows(items, own) == items = own \/ (items = Append(own, ConnErr) /\ conn = "terminated")

Beginning(own, a) == Len(own) <= Len(a) /\ own = SubSeq(a, 1, Len(own))

Reading(s) ==
    /\ Ordered(arrived[s])
    /\ got[s] \in Seq(Event \union {ConnErr}) /\ queue[s] \in Seq(Event \union {ConnErr})
    /\ kind[s] = "none" => arrived[s] = <<>> /\ got[s] = <<>> /\ queue[s] = <<>>
    /\ \E own \in Seq(Event) :
        /\ Shows(got[s] \o queue[s], own)
        /\ Beginning(own, arrived[s])
        /\ s \in registered => own = arrived[s]

\* A call that returned took the end of its stream.
ReturnedWhole(s) ==
    pc[s] = "returned" => /\ got[s] = arrived[s] /\ arrived[s] /= <<>>
                          /\ arrived[s][1][1] = "h"
                          /\ arrived[s][Len(arrived[s])][1] = "end"

\* The frames handed out are numbered below the next one in the buffer.
Framing(s) ==
    /\ buffered[s] \in Nat \X Nat /\ buffered[s][1] <= buffered[s][2]
    /\ frames[s] \in Seq(Nat)
    /\ \A i \in 1..Len(frames[s]) : frames[s][i] <= buffered[s][1] \div 2
    /\ \A i, j \in 1..Len(frames[s]) : i < j => frames[s][i] < frames[s][j]

Functional ==
    /\ queue = [s \in Sids |-> queue[s]] /\ got = [s \in Sids |-> got[s]]
    /\ arrived = [s \in Sids |-> arrived[s]]
    /\ buffered = [s \in Sids |-> buffered[s]] /\ frames = [s \in Sids |-> frames[s]]

ReadInv == Functional /\ \A s \in Sids : Reading(s) /\ ReturnedWhole(s) /\ Framing(s)


\* Nothing was read of a stream that nobody opened.
LEMMA ReadInvInit == Init => ReadInv
<1> SUFFICES ASSUME Init PROVE ReadInv
  OBVIOUS
<1>1. Functional
  BY DEF Init, Functional
<1>2. ASSUME NEW s \in Sids PROVE Reading(s) /\ ReturnedWhole(s) /\ Framing(s)
  <2>1. /\ got[s] = <<>> /\ queue[s] = <<>> /\ arrived[s] = <<>> /\ frames[s] = <<>>
        /\ pc[s] = "unopened" /\ buffered[s] = <<0, 0>>
    BY DEF Init
  <2>2. <<>> \in Seq(Event) /\ <<>> \o <<>> = <<>>
    OBVIOUS
  <2>4. Beginning(<<>>, <<>>)
    BY DEF Beginning
  <2>3. Reading(s)
    <3>1. Ordered(<<>>) /\ <<>> \in Seq(Event \union {ConnErr})
      BY DEF Ordered
    <3> QED BY <2>1, <2>2, <2>4, <3>1, Zenon DEF Reading, Shows
  <2> QED BY <2>1, <2>3 DEF ReturnedWhole, Framing
<1> QED BY <1>1, <1>2 DEF ReadInv

\* A beginning of the events stays one when there are more of them.
LEMMA PrefixGrows ==
    ASSUME NEW own \in Seq(Event), NEW a \in Seq(Event), NEW items \in Seq(Event),
           Beginning(own, a)
    PROVE  Beginning(own, a \o items) /\ Beginning(a \o items, a \o items)
<1> DEFINE b == a \o items
<1>1. b \in Seq(Event) /\ Len(b) = Len(a) + Len(items)
      /\ \A i \in 1..Len(a) : b[i] = a[i]
  BY ConcatIsSeq
<1>2. Len(own) \in Nat /\ Len(a) \in Nat /\ Len(items) \in Nat /\ Len(own) <= Len(a)
      /\ own = SubSeq(a, 1, Len(own))
  BY DEF Beginning
<1> HIDE DEF b
<1>3. SubSeq(a, 1, Len(own)) = SubSeq(b, 1, Len(own))
  <2>1. \A i \in 1..Len(own) : a[i] = b[i]
    BY <1>1, <1>2
  <2> QED BY <1>1, <1>2, <2>1
<1> QED BY <1>1, <1>2, <1>3 DEF Beginning, b

\* A sequence of at most one event.
LEMMA AtMostOne ==
    ASSUME NEW x \in Event, NEW u, u = <<>> \/ u = <<x>>
    PROVE  u \in Seq(Event) /\ Len(u) \in {0, 1} /\ \A i \in 1..Len(u) : u[i] = x
<1>1. CASE u = <<>>
  BY <1>1
<1>2. CASE u = <<x>>
  <2>1. u \in Seq(Event) /\ Len(u) = 1 /\ u[1] = x
    BY <1>2
  <2> QED BY <2>1
<1> QED BY <1>1, <1>2

\* One event and the end that may come with it.
LEMMA EventAndEnd ==
    ASSUME NEW x \in Event, x[1] \notin {"end", "err"},
           NEW u, u = <<>> \/ u = <<x>>, NEW ended \in BOOLEAN
    PROVE  /\ u \o End(ended) \in Seq(Event)
           /\ u /= <<>> => u \o End(ended) /= <<>> /\ (u \o End(ended))[1] = x
           /\ \A i \in 1..Len(u \o End(ended)) :
                 (u \o End(ended))[i][1] \in {"end", "err"} => i = Len(u \o End(ended))
<1> DEFINE e == <<"end", 0>>  v == End(ended)  w == u \o v
<1>1. e \in Event /\ e[1] = "end"
  BY DEF Event
<1>2. v \in Seq(Event) /\ Len(v) \in {0, 1} /\ \A i \in 1..Len(v) : v[i] = e
  <2>1. v = <<>> \/ v = <<e>>
    BY DEF End
  <2> HIDE DEF e, v
  <2> QED BY <1>1, <2>1, AtMostOne
<1>3. u \in Seq(Event) /\ Len(u) \in {0, 1} /\ \A i \in 1..Len(u) : u[i] = x
  BY AtMostOne
<1>4. u /= <<>> => Len(u) = 1
  OBVIOUS
<1> HIDE DEF e, v
<1>5. /\ w \in Seq(Event) /\ Len(w) = Len(u) + Len(v)
      /\ \A i \in 1..Len(w) : w[i] = IF i <= Len(u) THEN u[i] ELSE v[i - Len(u)]
  BY <1>2, <1>3, ConcatIsSeq
<1> HIDE DEF w
<1>6. u /= <<>> => w /= <<>> /\ w[1] = x
  BY <1>2, <1>3, <1>4, <1>5, SeqElements
<1>7. ASSUME NEW i \in 1..Len(w), w[i][1] \in {"end", "err"} PROVE i = Len(w)
  <2>1. ~(i <= Len(u))
    BY <1>3, <1>5, <1>7
  <2> QED BY <1>2, <1>3, <1>5, <2>1
<1> QED BY <1>5, <1>6, <1>7 DEF w, v

\* What is seen begins with the stream's own events.
LEMMA ShownFirst ==
    ASSUME NEW own \in Seq(Event)
    PROVE  /\ own \in Seq(Event \union {ConnErr})
           /\ Append(own, ConnErr) \in Seq(Event \union {ConnErr})
           /\ Append(own, ConnErr) /= <<>>
           /\ Len(Append(own, ConnErr)) = Len(own) + 1
           /\ Append(own, ConnErr)[Len(own) + 1] = ConnErr
           /\ \A i \in 1..Len(own) : Append(own, ConnErr)[i] = own[i]
<1> DEFINE All == Event \union {ConnErr}
<1>1. own \in Seq(All) /\ ConnErr \in All
  OBVIOUS
<1> HIDE DEF All
<1>2. /\ Append(own, ConnErr) \in Seq(All)
      /\ Len(Append(own, ConnErr)) = Len(own) + 1
      /\ \A i \in 1..Len(own) : Append(own, ConnErr)[i] = own[i]
      /\ Append(own, ConnErr)[Len(own) + 1] = ConnErr
  BY <1>1, AppendIsSeq
<1>3. Append(own, ConnErr) /= <<>>
  BY <1>1, <1>2
<1> QED BY <1>1, <1>2, <1>3 DEF All

\* What the server can send next on a stream keeps its events in order.
LEMMA NextEvents ==
    ASSUME NEW s \in Sids, ServerSends(s), Ordered(arrived[s])
    PROVE  \E items \in Seq(Event) : /\ Puts(s, items)
                                     /\ Ordered(arrived[s] \o items)
                                     /\ arrived[s] = <<>> \/ ~Over(s)
<1> DEFINE a == arrived[s]
<1>2. CASE \E coding \in {0, 1}, ended \in BOOLEAN : HeadersReceived(s, coding, ended)
  <2> PICK coding \in {0, 1}, ended \in BOOLEAN : HeadersReceived(s, coding, ended)
    BY <1>2
  <2> DEFINE x == <<"h", coding>>  u == <<x>>  items == u \o End(ended)
  <2>1. x \in Event /\ x[1] = "h"
    BY DEF Event
  <2>2. a = <<>> /\ Puts(s, items)
    BY DEF HeadersReceived, HasHeaders
  <2>3. u = <<x>> /\ u /= <<>>
    OBVIOUS
  <2> HIDE DEF x, u
  <2>4. /\ items \in Seq(Event) /\ items[1] = x
        /\ \A i \in 1..Len(items) : items[i][1] \in {"end", "err"} => i = Len(items)
    BY <2>1, <2>3, EventAndEnd, Zenon
  <2> HIDE DEF items
  <2>6. Ordered(items)
    BY <2>1, <2>4 DEF Ordered
  <2>5. a \o items = items
    BY <2>2, <2>4
  <2> QED BY <2>2, <2>4, <2>5, <2>6
<1>3. CASE \/ \E n \in Pieces \union {0, 1}, ended \in BOOLEAN : DataReceived(s, n, ended)
           \/ StreamReset(s)
  <2>1. PICK items \in Seq(Event) :
            /\ Puts(s, items) /\ ~Over(s)
            /\ \A i \in 1..Len(items) : items[i][1] \in {"end", "err"} => i = Len(items)
            /\ a = <<>> => items = << <<"err", 0>> >>
    <3>1. CASE StreamReset(s)
      <4> DEFINE e == <<"err", 0>>  items == <<e>>
      <4>1. e \in Event /\ Puts(s, items) /\ ~Over(s)
        BY <3>1 DEF Event, StreamReset
      <4>2. items \in Seq(Event) /\ Len(items) = 1
        BY <4>1
      <4> HIDE DEF items
      <4>3. \A i \in 1..Len(items) : items[i][1] \in {"end", "err"} => i = Len(items)
        BY <4>2
      <4> QED BY <4>1, <4>2, <4>3, Zenon DEF items
    <3>2. CASE \E n \in Pieces \union {0, 1}, ended \in BOOLEAN : DataReceived(s, n, ended)
      <4> PICK n \in Pieces \union {0, 1}, ended \in BOOLEAN : DataReceived(s, n, ended)
        BY <3>2
      <4> DEFINE x == IF n = 0 THEN <<"d", 1>> ELSE <<"d", n>>
                 u == IF n = 0 THEN <<>> ELSE << <<"d", n>> >>
                 items == u \o End(ended)
      <4>1. n \in Nat
        BY H3Assumption
      <4>2. x \in Event /\ x[1] = "d" /\ (u = <<>> \/ u = <<x>>)
        BY <4>1 DEF Event
      <4>3. Puts(s, items) /\ ~Over(s) /\ a /= <<>>
        BY DEF DataReceived, HasHeaders
      <4> HIDE DEF x, u
      <4>4. items \in Seq(Event)
            /\ \A i \in 1..Len(items) : items[i][1] \in {"end", "err"} => i = Len(items)
        BY <4>2, EventAndEnd
      <4> HIDE DEF items
      <4> QED BY <4>3, <4>4
    <3> QED BY <1>3, <3>1, <3>2
  <2>2. a \in Seq(Event) /\ a \o items \in Seq(Event)
    BY DEF Ordered
  <2>3. Ordered(a \o items)
    <3> DEFINE b == a \o items
    <3>1. /\ Len(b) = Len(a) + Len(items) /\ Len(a) \in Nat /\ Len(items) \in Nat
          /\ \A i \in 1..Len(b) : b[i] = IF i <= Len(a) THEN a[i] ELSE items[i - Len(a)]
      BY <2>2, ConcatIsSeq
    <3>2. \A i \in 1..Len(a) : a[i][1] \notin {"end", "err"}
      BY <2>1, <2>2, SeqElements DEF Ordered, Over, Final
    <3>3. b /= <<>> => b[1][1] \in {"h", "err"}
      BY <2>1, <2>2, <3>1, SeqElements DEF Ordered
    <3>4. b \in Seq(Event)
      BY <2>2
    <3> HIDE DEF b
    <3>5. ASSUME NEW i \in 1..Len(b), b[i][1] \in {"end", "err"} PROVE i = Len(b)
      <4> DEFINE n == Len(a)  m == Len(items)  j == i - n
      <4>1. n \in Nat /\ m \in Nat /\ Len(b) = n + m /\ i \in 1..(n + m)
        BY <3>1
      <4>2. ~(i <= n)
        BY <3>1, <3>2, <3>5
      <4>3. j \in 1..m /\ b[i] = items[j]
        BY <3>1, <4>1, <4>2
      <4>4. j = m
        BY <2>1, <3>5, <4>3
      <4> HIDE DEF n, m
      <4> QED BY <4>1, <4>4
    <3>6. Ordered(b)
      BY <3>3, <3>4, <3>5 DEF Ordered
    <3> QED BY <3>6 DEF b
  <2> QED BY <2>1, <2>3
<1> QED BY <1>2, <1>3 DEF ServerSends


\* Events reach the queue of a registered stream at once and in order; a call
\* that returned has seen the end, after which there are none.
LEMMA ServerPreserves ==
    ASSUME ReadInv, NEW s \in Sids, ServerSends(s)
    PROVE  ReadInv'
<1>0. Functional /\ \A t \in Sids : Reading(t) /\ ReturnedWhole(t) /\ Framing(t)
  BY DEF ReadInv
<1>1. PICK items \in Seq(Event) :
        Puts(s, items) /\ Ordered(arrived[s] \o items) /\ (arrived[s] = <<>> \/ ~Over(s))
  BY <1>0, NextEvents DEF Reading
<1>2. /\ conn = "open" /\ UNCHANGED <<conn, kind, pc, registered, got, buffered, frames>>
      /\ arrived' = [arrived EXCEPT ![s] = @ \o items]
      /\ queue' = IF s \in registered THEN [queue EXCEPT ![s] = @ \o items] ELSE queue
      /\ kind[s] /= "none"
  BY <1>1 DEF Puts
<1>3. Functional'
  BY <1>0, <1>2, Zenon DEF Functional
<1>4. /\ arrived'[s] = arrived[s] \o items
      /\ queue'[s] = IF s \in registered THEN queue[s] \o items ELSE queue[s]
      /\ \A t \in Sids \ {s} : arrived'[t] = arrived[t] /\ queue'[t] = queue[t]
  BY <1>0, <1>2 DEF Functional
<1>5. Reading(s)'
  <2> DEFINE a == arrived[s]  g == got[s]  q == queue[s]  All == Event \union {ConnErr}
  <2>1. PICK own \in Seq(Event) : /\ g \o q = own /\ Beginning(own, a)
                                  /\ s \in registered => own = a
    BY <1>0, <1>2, Zenon DEF Reading, Shows
  <2>2. g \in Seq(All) /\ q \in Seq(All) /\ items \in Seq(All) /\ a \in Seq(Event)
    BY <1>0 DEF Reading, Ordered
  <2>3. queue'[s] \in Seq(All)
    BY <1>4, <2>2
  <2>4. Beginning(own, a \o items) /\ Beginning(a \o items, a \o items)
        /\ a \o items \in Seq(Event)
    BY <2>1, <2>2, PrefixGrows
  <2>5. CASE s \in registered
    <3>1. g \o queue'[s] = a \o items
      <4>1. (g \o q) \o items = g \o (q \o items)
        <5> HIDE DEF All, g, q
        <5>1. g \in Seq(All) /\ q \in Seq(All) /\ items \in Seq(All)
          BY <2>2
        <5> QED BY ONLY <5>1, ConcatAssoc
      <4> QED BY <1>4, <2>1, <2>5, <4>1, Zenon
    <3> QED BY <1>1, <1>2, <1>4, <2>2, <2>3, <2>4, <3>1, Zenon DEF Reading, Shows
  <2>6. CASE s \notin registered
    BY <1>1, <1>2, <1>4, <2>1, <2>2, <2>3, <2>4, <2>6, Zenon DEF Reading, Shows
  <2> QED BY <2>5, <2>6
<1>6. ReturnedWhole(s)'
  <2>1. pc[s] /= "returned"
    BY <1>0, <1>1 DEF ReturnedWhole, Over, Final
  <2> QED BY <1>2, <2>1 DEF ReturnedWhole
<1>7. ASSUME NEW t \in Sids, t /= s PROVE Reading(t)' /\ ReturnedWhole(t)'
  BY <1>0, <1>2, <1>4, <1>7, Zenon DEF Reading, Shows, ReturnedWhole
<1>8. \A t \in Sids : Framing(t)'
  BY <1>0, <1>2, Zenon DEF Framing
<1> QED BY <1>3, <1>5, <1>6, <1>7, <1>8 DEF ReadInv

\* The end of the connection is the last thing in every queue there is.
LEMMA TerminationPreserves ==
    ASSUME IInv, ReadInv, ConnectionTerminated
    PROVE  ReadInv'
<1>0. Functional /\ \A t \in Sids : Reading(t) /\ ReturnedWhole(t) /\ Framing(t)
  BY DEF ReadInv
<1>1. /\ conn = "open" /\ conn' = "terminated"
      /\ UNCHANGED <<kind, pc, registered, got, arrived, buffered, frames>>
      /\ queue' = [t \in Sids |-> IF t \in registered THEN Append(queue[t], ConnErr)
                                  ELSE queue[t]]
  BY DEF ConnectionTerminated, ConnErr
<1>2. Functional'
  BY <1>0, <1>1 DEF Functional
<1>3. ASSUME NEW t \in Sids, kind[t] /= "none" PROVE Reading(t)'
  <2> DEFINE a == arrived[t]  g == got[t]  q == queue[t]  All == Event \union {ConnErr}
  <2>1. PICK own \in Seq(Event) : /\ g \o q = own /\ Beginning(own, a)
                                  /\ t \in registered => own = a
    BY <1>0, <1>1, Zenon DEF Reading, Shows
  <2>2. g \in Seq(All) /\ q \in Seq(All) /\ ConnErr \in All
    BY <1>0 DEF Reading
  <2>3. queue'[t] = IF t \in registered THEN Append(q, ConnErr) ELSE q
    BY <1>1
  <2>4. queue'[t] \in Seq(All)
    BY <2>2, <2>3
  <2>5. g \o Append(q, ConnErr) = Append(g \o q, ConnErr)
    <3> HIDE DEF All, g, q
    <3> QED BY <2>2, ConcatAppend
  <2>6. Shows(got[t] \o queue[t], own)'
    BY <1>1, <2>1, <2>3, <2>5, Zenon DEF Shows
  <2> QED BY <1>0, <1>1, <1>3, <2>1, <2>4, <2>6 DEF Reading
<1>4. ASSUME NEW t \in Sids, kind[t] = "none", t \notin registered PROVE Reading(t)'
  BY <1>0, <1>1, <1>4, Zenon DEF Reading, Shows
<1>5. \A t \in Sids : ReturnedWhole(t)' /\ Framing(t)'
  BY <1>0, <1>1 DEF ReturnedWhole, Framing
<1>6. \A t \in registered : kind[t] /= "none"
  BY DEF IInv, TypeOK
<1> QED BY <1>2, <1>3, <1>4, <1>5, <1>6 DEF ReadInv


\* The reader of stream s takes one item off its queue.
Takes(s) ==
    /\ queue[s] /= <<>> /\ pc[s] /= "returned"
    /\ queue' = [queue EXCEPT ![s] = Tail(@)]
    /\ got' = [got EXCEPT ![s] = Append(@, Head(queue[s]))]

\* What a step of a call does to what it reads: at most one item is taken, and to
\* return is to take an end.
Reads(s) ==
    /\ UNCHANGED <<conn, arrived>>
    /\ Takes(s) \/ UNCHANGED <<got, queue>>
    /\ pc'[s] = "returned" =>
          \/ pc[s] = "returned"
          \/ Takes(s) /\ Head(queue[s])[1] \notin {"h", "d", "err"}
    /\ s \in registered' => s \in registered \/ kind[s] = "none"
    /\ kind'[s] = "none" => kind[s] = "none"

\* What it does to the frames of a tunnel.
Frames(s) ==
    /\ buffered' = [t \in Sids |-> buffered'[t]] /\ frames' = [t \in Sids |-> frames'[t]]
    /\ \A t \in Sids \ {s} : buffered'[t] = buffered[t] /\ frames'[t] = frames[t]
    /\ Framing(s)'

\* recv hands out a frame that comes after those it handed out before.
LEMMA HandsOutFrames ==
    ASSUME NEW s \in Sids, Functional, Framing(s), NEW n \in Nat,
           HandsOut(s, <<buffered[s][1], buffered[s][2] + n>>)
    PROVE  Frames(s)
<1> DEFINE b == <<buffered[s][1], buffered[s][2] + n>>  p == ParseWs(b)  f == frames[s]
<1>1. b[1] \in Nat /\ b[2] \in Nat /\ b[1] <= b[2] /\ b[1] = buffered[s][1]
  BY DEF Framing
<1>2. p \in Nat /\ b[1] + 2 * p <= b[2]
  BY <1>1 DEF ParseWs
<1> HIDE DEF b, p
<1>3. CASE p = 0
  <2>1. UNCHANGED frames /\ buffered' = [buffered EXCEPT ![s] = b]
    BY <1>3 DEF HandsOut, b, p
  <2>2. buffered'[s] = b /\ b \in Nat \X Nat
    BY <1>1, <2>1 DEF Functional, b
  <2> QED BY <1>1, <2>1, <2>2, Zenon DEF Frames, Framing, Functional
<1>4. CASE p /= 0
  <2>1. /\ frames' = [frames EXCEPT ![s] = Append(@, b[1] \div 2 + 1)]
        /\ buffered' = [buffered EXCEPT ![s] = <<b[1] + 2 * p, b[2]>>]
    BY <1>4 DEF HandsOut, b, p
  <2> DEFINE k == b[1] \div 2 + 1  g == frames'[s]  c == buffered'[s]
  <2>2. g = Append(f, k) /\ c = <<b[1] + 2 * p, b[2]>>
    BY <2>1 DEF Functional
  <2>3. k \in Nat /\ k <= (b[1] + 2 * p) \div 2 /\ b[1] \div 2 <= (b[1] + 2 * p) \div 2
        /\ b[1] \div 2 < k /\ b[1] \div 2 \in Nat
    BY <1>1, <1>2, <1>4
  <2>4. c \in Nat \X Nat /\ c[1] <= c[2] /\ c[1] = b[1] + 2 * p
    BY <1>1, <1>2, <2>2
  <2>5. f \in Seq(Nat) /\ \A i \in 1..Len(f) : f[i] <= b[1] \div 2
    BY <1>1 DEF Framing
  <2>6. \A i, j \in 1..Len(f) : i < j => f[i] < f[j]
    BY SMTT(30) DEF Framing
  <2> HIDE DEF k, g, c, f
  <2>7. /\ g \in Seq(Nat) /\ Len(g) = Len(f) + 1 /\ g[Len(f) + 1] = k
        /\ \A i \in 1..Len(f) : g[i] = f[i]
    BY <2>2, <2>3, <2>5, AppendIsSeq
  <2>8. ASSUME NEW i \in 1..Len(g) PROVE g[i] <= c[1] \div 2
    <3>1. i \in 1..Len(f) \/ i = Len(f) + 1
      BY <2>5, <2>7
    <3>2. \A j \in 1..Len(f) : f[j] \in Nat
      BY <2>5
    <3> QED BY <2>3, <2>4, <2>5, <2>7, <3>1, <3>2
  <2>9. ASSUME NEW i \in 1..Len(g), NEW j \in 1..Len(g), i < j PROVE g[i] < g[j]
    <3>1. i \in 1..Len(f) /\ (j \in 1..Len(f) \/ j = Len(f) + 1)
      <4> DEFINE n1 == Len(f)
      <4>1. n1 \in Nat /\ i \in 1..(n1 + 1) /\ j \in 1..(n1 + 1)
        BY <2>5, <2>7
      <4> HIDE DEF n1
      <4>2. i \in 1..n1 /\ (j \in 1..n1 \/ j = n1 + 1)
        BY <2>9, <4>1
      <4> QED BY <4>2 DEF n1
    <3>2. \A l \in 1..Len(f) : f[l] \in Nat
      BY <2>5
    <3> QED BY <2>3, <2>5, <2>6, <2>7, <2>9, <3>1, <3>2, SMTT(30)
  <2>10. Framing(s)'
    BY <2>4, <2>7, <2>8, <2>9 DEF Framing, g, c
  <2> QED BY <2>1, <2>10, Zenon DEF Frames, Functional
<1> QED BY <1>3, <1>4


\* Every step of a call reads at most one item, and keeps the frames in order.
LEMMA CallReads ==
    ASSUME IInv, ReadInv, NEW s \in Sids, Acked(s) \/ Runs(s) \/ CallerActs(s)
    PROVE  Reads(s) /\ Frames(s)
<1>0. /\ Functional /\ Framing(s) /\ Reading(s)
      /\ pc = [t \in Sids |-> pc[t]] /\ kind = [t \in Sids |-> kind[t]]
  BY StreamByStream DEF ReadInv
<1>1. UNCHANGED <<buffered, frames>> => Frames(s)
  BY <1>0 DEF Frames, Framing, Functional
<1>2. CASE Acked(s) \/ Pump(s) \/ Recheck(s) \/ PumpEnds(s)
  BY <1>0, <1>1, <1>2, Zenon DEF Acked, Pump, Recheck, PumpEnds, Goes, Reads
<1>3. CASE StreamFinalized(s) \/ AbortStream(s) \/ BodyRaises(s) \/ WsClose(s)
           \/ Cancelled(s)
  BY <1>0, <1>1, <1>3, Zenon DEF StreamFinalized, AbortStream, BodyRaises, WsClose, Cancelled,
     Ends, Reads
<1>4. CASE StreamResumes(s) \/ StreamDropped(s)
  BY <1>0, <1>1, <1>4, Zenon DEF StreamResumes, StreamDropped, Goes, Reads
<1>5. CASE RequestGets(s) \/ StreamGets(s) \/ UploadGets(s)
  <2>1. /\ Takes(s) /\ UNCHANGED <<conn, arrived, kind, buffered, frames>>
        /\ registered' \subseteq registered
    BY <1>5 DEF RequestGets, StreamGets, UploadGets, Take, Takes, Goes, Ends
  <2>2. pc'[s] = "returned" => Head(queue[s])[1] \notin {"h", "d", "err"}
    BY <1>0, <1>5, Zenon DEF RequestGets, StreamGets, UploadGets, Goes, Ends, Item
  <2> QED BY <1>1, <2>1, <2>2 DEF Reads
<1>6. CASE RawGets(s) \/ WsOpens(s)
  <2>1. /\ Takes(s) /\ UNCHANGED <<conn, arrived, kind, buffered, frames>>
        /\ registered' \subseteq registered
    BY <1>6 DEF RawGets, WsOpens, Take, Takes, Goes, Ends
  <2>2. pc'[s] /= "returned"
    BY <1>0, <1>6, Zenon DEF RawGets, WsOpens, Goes, Ends
  <2> QED BY <1>1, <2>1, <2>2 DEF Reads
<1>7. CASE WsRecv(s)
  <2>1. Reads(s)
    BY <1>0, <1>7, Zenon DEF WsRecv, HandsOut, Goes, Reads
  <2>2. <<buffered[s][1], buffered[s][2] + 0>> = buffered[s]
    BY <1>0 DEF Framing
  <2> QED BY <1>0, <1>7, <2>1, <2>2, HandsOutFrames, Zenon DEF WsRecv
<1>8. CASE WsGets(s)
  <2>1. /\ Takes(s) /\ UNCHANGED <<conn, arrived, kind>>
        /\ registered' \subseteq registered
    BY <1>8 DEF WsGets, Take, Takes, Goes, Ends, HandsOut
  <2>2. pc'[s] /= "returned"
    BY <1>0, <1>8, Zenon DEF WsGets, Goes, Ends, HandsOut
  <2>3. Frames(s)
    <3> DEFINE n == Head(queue[s])[2]
    <3>1. CASE Item(s) = "d"
      <4>1. Head(queue[s]) \in Event \union {ConnErr}
        BY <1>0, <2>1, TailIsSeq DEF Reading, Takes
      <4>2. n \in Nat
        BY <3>1, <4>1 DEF Item, Event, ConnErr
      <4>3. HandsOut(s, <<buffered[s][1], buffered[s][2] + n>>)
        BY <1>8, <3>1 DEF WsGets
      <4> HIDE DEF n
      <4> QED BY <1>0, <4>2, <4>3, HandsOutFrames
    <3>2. CASE Item(s) /= "d"
      BY <1>1, <1>8, <3>2, Zenon DEF WsGets
    <3> QED BY <3>1, <3>2
  <2> QED BY <2>1, <2>2, <2>3 DEF Reads
<1>9. CASE \E k \in Kinds : Open(s, k)
  BY <1>0, <1>1, <1>9 DEF Open, Reads
<1> QED BY <1>2, <1>3, <1>4, <1>5, <1>6, <1>7, <1>8, <1>9 DEF Runs, CallerActs

\* Taking an item leaves what was seen as it was, and whoever takes the end of
\* its stream has taken all of it.
LEMMA CallPreserves ==
    ASSUME IInv, ReadInv, NEW s \in Sids, Acked(s) \/ Runs(s) \/ CallerActs(s)
    PROVE  ReadInv'
<1>0. Functional /\ \A t \in Sids : Reading(t) /\ ReturnedWhole(t) /\ Framing(t)
  BY DEF ReadInv
<1>1. Reads(s) /\ Frames(s) /\ Local(s) /\ Shaped(s)
  BY CallReads, StreamStep
<1>2. Functional'
  BY <1>0, <1>1, Zenon DEF Functional, Reads, Takes, Frames
<1>3. ASSUME NEW t \in Sids, t /= s PROVE Reading(t)' /\ ReturnedWhole(t)' /\ Framing(t)'
  <2>1. /\ got'[t] = got[t] /\ queue'[t] = queue[t] /\ UNCHANGED <<conn, arrived>>
        /\ kind'[t] = kind[t] /\ pc'[t] = pc[t] /\ (t \in registered' <=> t \in registered)
        /\ buffered'[t] = buffered[t] /\ frames'[t] = frames[t]
    BY <1>0, <1>1, <1>3, Zenon DEF Functional, Reads, Takes, Frames, Local
  <2> QED BY <1>0, <2>1, Zenon DEF Reading, Shows, ReturnedWhole, Framing
<1> DEFINE a == arrived[s]  g == got[s]  q == queue[s]  All == Event \union {ConnErr}
<1>4. /\ a \in Seq(Event) /\ g \in Seq(All) /\ q \in Seq(All)
      /\ Ordered(a) /\ arrived' = arrived /\ conn' = conn
  BY <1>0, <1>1 DEF Reading, Ordered, Reads
<1>5. PICK own \in Seq(Event) : /\ Shows(g \o q, own) /\ Beginning(own, a)
                                /\ s \in registered => own = a
  BY <1>0 DEF Reading
<1>6. CASE UNCHANGED <<got, queue>> /\ ~Takes(s)
  <2>1. Reading(s)'
    <3>1. s \in registered' => own = a
      <4>1. kind[s] = "none" => g \o q = <<>> /\ a = <<>>
        BY <1>0 DEF Reading
      <4>2. kind[s] = "none" => own = <<>>
        BY <1>5, <4>1, ShownFirst, Zenon DEF Shows
      <4> QED BY <1>1, <1>5, <4>1, <4>2 DEF Reads
    <3>2. kind'[s] = "none" => kind[s] = "none"
      BY <1>1 DEF Reads
    <3> QED BY <1>0, <1>4, <1>5, <1>6, <3>1, <3>2, Zenon DEF Reading, Shows
  <2>2. ReturnedWhole(s)'
    BY <1>0, <1>1, <1>4, <1>6 DEF ReturnedWhole, Reads
  <2> QED BY <1>1, <1>2, <1>3, <2>1, <2>2 DEF ReadInv, Frames
<1>7. CASE Takes(s)
  <2>1. /\ q /= <<>> /\ queue'[s] = Tail(q) /\ got'[s] = Append(g, Head(q))
        /\ pc[s] /= "returned"
    BY <1>0, <1>7 DEF Takes, Functional
  <2>2. /\ queue'[s] \in Seq(All) /\ got'[s] \in Seq(All)
        /\ got'[s] \o queue'[s] = g \o q
    <3> HIDE DEF All, g, q
    <3> QED BY <1>4, <2>1, TakeHead, Zenon
  <2>3. kind[s] /= "none"
    BY <1>0, <2>1 DEF Reading
  <2>4. Reading(s)'
    <3>1. s \in registered' => own = a
      BY <1>1, <1>5, <2>3 DEF Reads
    <3>2. kind'[s] /= "none"
      BY <1>1, <2>3 DEF Reads
    <3>3. Shows(got[s] \o queue[s], own)'
      BY <1>4, <1>5, <2>2, Zenon DEF Shows
    <3> QED BY <1>4, <1>5, <2>2, <3>1, <3>2, <3>3 DEF Reading
  <2>5. ReturnedWhole(s)'
    <3> SUFFICES ASSUME pc'[s] = "returned"
                 PROVE  /\ got'[s] = a /\ a /= <<>> /\ a[1][1] = "h"
                        /\ a[Len(a)][1] = "end"
      BY <1>4 DEF ReturnedWhole
    <3>1. Head(q)[1] \notin {"h", "d", "err"}
      BY <1>1, <2>1 DEF Reads
    <3> DEFINE n == Len(g) + 1  seen == g \o q
    <3>2. /\ Head(q) = q[1] /\ Len(q) \in Nat \ {0} /\ Len(g) \in Nat /\ q[1] \in All
      BY <1>4, <2>1, TailIsSeq, SeqElements
    <3>3. q[1][1] = "end"
      BY <3>1, <3>2 DEF Event, ConnErr
    <3>4. /\ seen \in Seq(All) /\ Len(seen) = Len(g) + Len(q) /\ seen[n] = q[1]
          /\ \A i \in 1..Len(g) : seen[i] = g[i]
      <4> HIDE DEF All, g, q
      <4> QED BY <1>4, <3>2, ConcatIsSeq
    <3>5. n <= Len(own) /\ \A i \in 1..Len(own) : seen[i] = own[i]
      <4>0. /\ n \in Nat /\ n <= Len(seen) /\ Len(own) \in Nat /\ seen[n] /= ConnErr
            /\ Shows(seen, own)
        <5>1. n \in Nat /\ n <= Len(seen)
          <6> DEFINE k == Len(g)  m == Len(q)
          <6>1. k \in Nat /\ m \in Nat \ {0} /\ Len(seen) = k + m /\ n = k + 1
            BY <3>2, <3>4
          <6> HIDE DEF k, m, n, seen
          <6> QED BY <6>1
        <5> QED BY <1>5, <3>3, <3>4, <5>1 DEF ConnErr
      <4> HIDE DEF n, seen
      <4>1. CASE seen = own
        BY <4>0, <4>1
      <4>2. CASE seen = Append(own, ConnErr)
        <5>1. /\ Len(seen) = Len(own) + 1 /\ seen[Len(own) + 1] = ConnErr
              /\ \A i \in 1..Len(own) : seen[i] = own[i] /\ Len(own) \in Nat
          BY <4>2, ShownFirst
        <5>2. n /= Len(own) + 1
          BY <4>0, <5>1
        <5> QED BY <4>0, <5>1, <5>2
      <4> QED BY <4>0, <4>1, <4>2 DEF Shows
    <3>6. Len(own) <= Len(a) /\ \A i \in 1..Len(own) : a[i] = own[i]
      <4>1. Len(own) <= Len(a) /\ own = SubSeq(a, 1, Len(own))
        BY <1>5 DEF Beginning
      <4>2. ASSUME NEW i \in 1..Len(own) PROVE a[i] = own[i]
        <5>1. SubSeq(a, 1, Len(own))[i] = a[i]
          BY <1>4, <4>1
        <5> QED BY <4>1, <5>1
      <4> QED BY <4>1, <4>2
    <3>7. n = Len(a) /\ a[n][1] = "end" /\ Len(a) \in Nat
      <4>1. n \in 1..Len(own) /\ n \in 1..Len(a) /\ Len(a) \in Nat
        BY <1>4, <3>2, <3>5, <3>6
      <4>2. a[n][1] = "end"
        BY <3>3, <3>4, <3>5, <3>6, <4>1, Zenon
      <4> QED BY <1>4, <4>1, <4>2 DEF Ordered
    <3>8. got'[s] = a
      <4>1. /\ got'[s] \in Seq(All) /\ Len(got'[s]) = n /\ got'[s][n] = q[1]
            /\ \A i \in 1..Len(g) : got'[s][i] = g[i]
        <5> HIDE DEF All, g, q
        <5> QED BY <1>4, <2>1, <3>2, AppendIsSeq
      <4>2. a \in Seq(All)
        BY <1>4
      <4>3. ASSUME NEW i \in 1..n PROVE got'[s][i] = a[i]
        <5>1. i \in 1..Len(own) /\ (i \in 1..Len(g) \/ i = n)
          BY <3>2, <3>5
        <5>2. got'[s][i] = seen[i]
          BY <3>4, <4>1, <5>1, Zenon
        <5> QED BY <3>5, <3>6, <5>1, <5>2, Zenon
      <4> DEFINE h == got'[s]
      <4>4. h \in Seq(All) /\ Len(h) = Len(a) /\ \A i \in 1..Len(h) : h[i] = a[i]
        BY <3>7, <4>1, <4>3
      <4> HIDE DEF h, All, a
      <4>5. h = a
        BY <4>2, <4>4, SameSeq
      <4> QED BY <4>5 DEF h
    <3>9. a /= <<>> /\ a[1][1] = "h"
      <4>1. n \in Nat \ {0}
        BY <3>2
      <4>2. a /= <<>>
        BY <1>4, <3>7, <4>1, SeqElements
      <4> QED BY <1>4, <3>7, <4>1, <4>2 DEF Ordered
    <3> QED BY <3>7, <3>8, <3>9
  <2> QED BY <1>1, <1>2, <1>3, <2>4, <2>5 DEF ReadInv, Frames
<1> QED BY <1>1, <1>6, <1>7 DEF Reads


\* What the calls have read is what happened on their streams, throughout.
THEOREM ReadInvAlways == Spec => []ReadInv
<1>1. ASSUME IInv, ReadInv, [Next]_vars PROVE ReadInv'
  <2>1. CASE UNCHANGED vars \/ Negotiate \/ Connected \/ DialFails
    <3>1. /\ UNCHANGED streamVars
          /\ conn' = "terminated" <=> conn = "terminated"
      BY <2>1 DEF vars, Negotiate, Connected, DialFails
    <3>2. Functional /\ \A t \in Sids : Reading(t) /\ ReturnedWhole(t) /\ Framing(t)
      BY <1>1 DEF ReadInv
    <3>3. ASSUME NEW t \in Sids PROVE Reading(t)'
      BY <3>1, <3>2, Zenon DEF streamVars, Reading, Shows
    <3>4. Functional' /\ \A t \in Sids : ReturnedWhole(t)' /\ Framing(t)'
      BY <3>1, <3>2 DEF streamVars, Functional, ReturnedWhole, Framing
    <3> QED BY <3>3, <3>4 DEF ReadInv
  <2> QED BY <1>1, <2>1, TerminationPreserves, ServerPreserves, CallPreserves DEF Next
<1> QED BY ReadInvInit, IInvAlways, <1>1, PTL DEF Spec

\* The routing of _on_h3 and quic_event_received, and the framing of recv, are
\* right for any number of streams and any events: no reader sees another
\* stream's item, a gap, or a frame twice or out of order.
THEOREM RoutedRight == Spec => []SeesItsStream
<1>1. ReadInv => SeesItsStream
  <2> SUFFICES ASSUME ReadInv, NEW s \in Sids
               PROVE  LET own == Own(got[s] \o queue[s]) IN
                      /\ Len(own) <= Len(arrived[s])
                      /\ own = SubSeq(arrived[s], 1, Len(own))
                      /\ s \in registered => own = arrived[s]
                      /\ \A i, j \in DOMAIN frames[s] :
                            i < j => frames[s][i] < frames[s][j]
    BY DEF SeesItsStream
  <2> DEFINE seen == got[s] \o queue[s]
  <2>1. Reading(s) /\ Framing(s)
    BY DEF ReadInv
  <2>2. PICK own \in Seq(Event) : /\ Shows(seen, own) /\ Beginning(own, arrived[s])
                                  /\ s \in registered => own = arrived[s]
    BY <2>1 DEF Reading
  <2>3. Own(seen) = own
    <3>1. CASE seen = own
      <4>1. ASSUME own /= <<>> PROVE own[Len(own)] /= ConnErr
        <5>1. Len(own) \in 1..Len(own)
          BY <4>1, SeqElements
        <5>2. own[Len(own)] \in Event
          BY <5>1
        <5> QED BY <5>2 DEF Event, ConnErr
      <4> QED BY <3>1, <4>1, Zenon DEF Own, ConnErr
    <3>2. CASE seen = Append(own, ConnErr)
      <4> DEFINE l == Append(own, ConnErr)
      <4>1. /\ l /= <<>> /\ Len(l) = Len(own) + 1 /\ l[Len(own) + 1] = ConnErr
            /\ \A i \in 1..Len(own) : l[i] = own[i]
            /\ l \in Seq(Event \union {ConnErr}) /\ own \in Seq(Event \union {ConnErr})
            /\ Len(own) \in Nat
        BY ShownFirst
      <4> HIDE DEF l
      <4>2. SubSeq(l, 1, Len(own)) = own
        BY <4>1
      <4>3. l[Len(l)] = ConnErr /\ SubSeq(l, 1, Len(l) - 1) = own
        BY <4>1, <4>2
      <4> QED BY <3>2, <4>1, <4>3 DEF Own, ConnErr, l
    <3> QED BY <2>2, <3>1, <3>2, Zenon DEF Shows
  <2>4. DOMAIN frames[s] = 1..Len(frames[s])
    BY <2>1, SMTT(30) DEF Framing
  <2> HIDE DEF seen
  <2>5. \A i, j \in DOMAIN frames[s] : i < j => frames[s][i] < frames[s][j]
    BY <2>1, <2>4, SMTT(30) DEF Framing
  <2> QED BY <2>2, <2>3, <2>5 DEF seen, Beginning
<1> QED BY ReadInvAlways, <1>1, PTL

\* No call of request, stream or upload returns a cut response, whatever the
\* server, the network and the other calls do.
THEOREM NeverTruncated == Spec => []WholeOrError
<1>1. ReadInv => WholeOrError
  <2> SUFFICES ASSUME ReadInv, NEW s \in Sids, pc[s] = "returned"
               PROVE  /\ got[s] = arrived[s]
                      /\ Head(got[s])[1] = "h" /\ Final(got[s]) = "end"
    BY DEF WholeOrError
  <2>1. /\ got[s] = arrived[s] /\ arrived[s] /= <<>> /\ arrived[s][1][1] = "h"
        /\ arrived[s][Len(arrived[s])][1] = "end" /\ arrived[s] \in Seq(Event)
    BY DEF ReadInv, ReturnedWhole, Reading, Ordered
  <2> QED BY <2>1, TailIsSeq DEF Final
<1> QED BY ReadInvAlways, <1>1, PTL
=============================================================================
