----------------------------- MODULE H3Session -----------------------------
(***************************************************************************)
(* The HTTP/3 client of the stress soak (h3.py): one QUIC connection whose *)
(* events H3Client sorts into a queue per stream, and the coroutines that  *)
(* read those queues: request, stream, stream_open/abort_stream, upload    *)
(* and the WebSocket tunnel (ws_open, H3Ws).                               *)
(*                                                                         *)
(* aioquic and the server are external: the events of a stream are         *)
(* headers, data and an end or a reset, in that order; the connection may  *)
(* terminate at any time, after which there are no events.  A coroutine    *)
(* may be cancelled wherever it awaits, and the consumer of a generator    *)
(* may drop it between two items.  A data item carries a number of pieces, *)
(* two of which make a WebSocket frame.                                    *)
(***************************************************************************)
EXTENDS Naturals, Sequences

CONSTANTS
    NumStreams,  \* bound: streams opened on the connection
    MaxData,     \* bound: data events on a stream, for each kind of call
    Pieces,      \* sizes of a data event on a tunnel
    Chunks,      \* chunks of an upload's body
    BufCap       \* _UPLOAD_BUF_CAP, in chunks

ASSUME H3Assumption ==
    /\ {NumStreams, Chunks} \subseteq Nat
    /\ MaxData \in [{"request", "stream", "raw", "upload", "ws"} -> Nat]
    /\ BufCap \in Nat \ {0}
    /\ Pieces \subseteq Nat \ {0}

Sids == 1..NumStreams
Kinds == {"request", "stream", "raw", "upload", "ws"}
Waiting == {"get", "opening", "recv"}   \* in q.get()
Finished == {"returned", "raised", "cancelled", "closed"}

VARIABLES
    conn,        \* "dialing", "refused", "open", "terminated"
    http,        \* _http is set: h3 was negotiated
    kind,        \* which call opened the stream
    pc,          \* where that call is
    registered,  \* the keys of _queues
    queue,       \* each stream's asyncio.Queue of <<kind, value>>
    got,         \* history: the items its reader took
    arrived,     \* history: the items its events stand for
    late,        \* history: streams opened after the connection terminated
    pumped, unacked,  \* an upload's chunks sent, and those in sender._buffer
    buffered,    \* a tunnel's pieces: <<deleted, received>>
    frames       \* history: the frames recv returned, by number

streamVars == <<kind, pc, registered, queue, got, arrived, late, pumped, unacked,
                buffered, frames>>
vars == <<conn, http, streamVars>>

Init ==
    /\ conn = "dialing" /\ http = FALSE
    /\ kind = [s \in Sids |-> "none"] /\ pc = [s \in Sids |-> "unopened"]
    /\ registered = {} /\ late = {}
    /\ queue = [s \in Sids |-> <<>>]
    /\ got = [s \in Sids |-> <<>>] /\ arrived = [s \in Sids |-> <<>>]
    /\ pumped = [s \in Sids |-> 0] /\ unacked = [s \in Sids |-> 0]
    /\ buffered = [s \in Sids |-> <<0, 0>>] /\ frames = [s \in Sids |-> <<>>]

-----------------------------------------------------------------------------
\* connect_h3: ALPN may settle on h3; wait_connected returns; no h3, no session.
Negotiate ==
    /\ conn = "dialing" /\ ~http /\ http' = TRUE
    /\ UNCHANGED <<conn, streamVars>>

Connected ==
    /\ conn = "dialing"
    /\ conn' = IF http THEN "open" ELSE "refused"
    /\ UNCHANGED <<http, streamVars>>

DialFails ==
    /\ conn = "dialing" /\ conn' = "refused"
    /\ UNCHANGED <<http, streamVars>>

\* quic_event_received, _on_h3: items for a stream go to its queue, if it has one.
Puts(s, items) ==
    /\ conn = "open" /\ kind[s] /= "none"
    /\ arrived' = [arrived EXCEPT ![s] = @ \o items]
    /\ queue' = IF s \in registered THEN [queue EXCEPT ![s] = @ \o items] ELSE queue
    /\ UNCHANGED <<conn, http, kind, pc, registered, got, late, pumped, unacked,
                   buffered, frames>>

Final(items) == items[Len(items)][1]   \* the kind of the last item
Over(s) == arrived[s] /= <<>> /\ Final(arrived[s]) \in {"end", "err"}
HasHeaders(s) == arrived[s] /= <<>>
DataCount(s) == Len(SelectSeq(arrived[s], LAMBDA i : i[1] = "d"))
End(ended) == IF ended THEN << <<"end", 0>> >> ELSE <<>>

\* HeadersReceived; coding is 0, or 1 for one decode_body does not know.
HeadersReceived(s, coding, ended) ==
    /\ ~HasHeaders(s)
    /\ Puts(s, << <<"h", coding>> >> \o End(ended))

\* DataReceived; the last one may be empty.
DataReceived(s, n, ended) ==
    /\ HasHeaders(s) /\ ~Over(s)
    /\ IF n = 0 THEN ended ELSE DataCount(s) < MaxData[kind[s]]
    /\ Puts(s, (IF n = 0 THEN <<>> ELSE << <<"d", n>> >>) \o End(ended))

\* Mutant: a reset is told to every stream.
ResetAll(s) ==
    /\ conn = "open" /\ kind[s] /= "none" /\ ~Over(s)
    /\ arrived' = [arrived EXCEPT ![s] = Append(@, <<"err", 0>>)]
    /\ queue' = [t \in Sids |-> IF t \in registered THEN Append(queue[t], <<"err", 0>>)
                                ELSE queue[t]]
    /\ UNCHANGED <<conn, http, kind, pc, registered, got, late, pumped, unacked,
                   buffered, frames>>

StreamReset(s) ==
    /\ ~Over(s)
    /\ Puts(s, << <<"err", 0>> >>)

\* Mutant: a closed connection tells nobody.
TerminateSilently ==
    /\ conn = "open" /\ conn' = "terminated"
    /\ UNCHANGED <<http, streamVars>>

\* ConnectionTerminated: an error, 1, for every queue there is.
ConnectionTerminated ==
    /\ conn = "open" /\ conn' = "terminated"
    /\ queue' = [s \in Sids |-> IF s \in registered THEN Append(queue[s], <<"err", 1>>)
                                ELSE queue[s]]
    /\ UNCHANGED <<http, kind, pc, registered, got, arrived, late, pumped, unacked,
                   buffered, frames>>

\* aioquic drops acknowledged data from the buffer, and a stream that was reset.
Acked(s) ==
    /\ unacked[s] > 0
    /\ \/ conn = "open" /\ unacked' = [unacked EXCEPT ![s] = @ - 1]
       \/ Over(s) /\ Final(arrived[s]) = "err" /\ unacked' = [unacked EXCEPT ![s] = 0]
    /\ UNCHANGED <<conn, http, kind, pc, registered, queue, got, arrived, late, pumped,
                   buffered, frames>>

-----------------------------------------------------------------------------
\* _open (and ws_open's own copy of it) on the next stream id.
Open(s, k) ==
    /\ conn \in {"open", "terminated"}
    /\ kind[s] = "none" /\ \A t \in Sids : t < s => kind[t] /= "none"
    /\ kind' = [kind EXCEPT ![s] = k]
    /\ pc' = [pc EXCEPT ![s] = CASE k = "raw" -> "held"
                                 [] k = "upload" -> "pump"
                                 [] k = "ws" -> "opening"
                                 [] OTHER -> "get"]
    /\ registered' = registered \union {s}
    /\ late' = IF conn = "terminated" THEN late \union {s} ELSE late
    /\ UNCHANGED <<conn, http, queue, got, arrived, pumped, unacked, buffered, frames>>

\* The call ends as how, taking its queue out of _queues or not.
Ends(s, how, pops) ==
    /\ pc' = [pc EXCEPT ![s] = how]
    /\ registered' = IF pops THEN registered \ {s} ELSE registered

\* It goes on at another place, or where it is.
Goes(s, to) == pc' = [pc EXCEPT ![s] = to] /\ UNCHANGED registered

Take(s) ==
    /\ queue[s] /= <<>>
    /\ queue' = [queue EXCEPT ![s] = Tail(@)]
    /\ got' = [got EXCEPT ![s] = Append(@, Head(queue[s]))]
    /\ UNCHANGED <<conn, http, kind, arrived, late, pumped, unacked>>

Item(s) == Head(queue[s])[1]

\* Mutant: whatever is neither headers nor data ends the request.
RequestEndsOnAny(s) ==
    /\ kind[s] = "request" /\ pc[s] = "get" /\ Take(s)
    /\ IF Item(s) \in {"h", "d"} THEN Goes(s, "get") ELSE Ends(s, "returned", TRUE)
    /\ UNCHANGED <<buffered, frames>>

\* request: collect until the end; decode_body raises on an unknown coding.
RequestGets(s) ==
    /\ kind[s] = "request" /\ pc[s] = "get" /\ Take(s)
    /\ CASE Item(s) \in {"h", "d"} -> Goes(s, "get")
         [] Item(s) = "err" -> Ends(s, "raised", TRUE)
         [] OTHER -> Ends(s, IF \E i \in DOMAIN got[s] : got[s][i] = <<"h", 1>>
                             THEN "raised" ELSE "returned", TRUE)
    /\ UNCHANGED <<buffered, frames>>

\* stream: yield the status and each chunk; the finally pops the queue.
StreamGets(s) ==
    /\ kind[s] = "stream" /\ pc[s] = "get" /\ Take(s)
    /\ CASE Item(s) \in {"h", "d"} -> Goes(s, "yielded")
         [] Item(s) = "err" -> Ends(s, "raised", TRUE)
         [] OTHER -> Ends(s, "returned", TRUE)
    /\ UNCHANGED <<buffered, frames>>

\* The consumer asks for the next item, or stops asking; a generator that was
\* dropped runs its finally when the loop closes it.
StreamResumes(s) ==
    /\ pc[s] = "yielded" /\ Goes(s, "get")
    /\ UNCHANGED <<conn, http, kind, queue, got, arrived, late, pumped, unacked,
                   buffered, frames>>

StreamDropped(s) ==
    /\ pc[s] = "yielded" /\ Goes(s, "dropped")
    /\ UNCHANGED <<conn, http, kind, queue, got, arrived, late, pumped, unacked,
                   buffered, frames>>

StreamFinalized(s) ==
    /\ pc[s] = "dropped" /\ Ends(s, "cancelled", TRUE)
    /\ UNCHANGED <<conn, http, kind, queue, got, arrived, late, pumped, unacked,
                   buffered, frames>>

\* stream_open: the caller reads by hand until it aborts the stream.
RawGets(s) ==
    /\ kind[s] = "raw" /\ pc[s] = "held" /\ Take(s) /\ Goes(s, "held")
    /\ UNCHANGED <<buffered, frames>>

AbortStream(s) ==
    /\ kind[s] = "raw" /\ pc[s] = "held" /\ Ends(s, "closed", TRUE)
    /\ UNCHANGED <<conn, http, kind, queue, got, arrived, late, pumped, unacked,
                   buffered, frames>>

\* Mutant: a bare sleep(0) between chunks.
PumpNoWait(s) ==
    /\ pc[s] = "pump" /\ pumped[s] < Chunks
    /\ pumped' = [pumped EXCEPT ![s] = @ + 1]
    /\ unacked' = [unacked EXCEPT ![s] = @ + 1]
    /\ Goes(s, "pump")
    /\ UNCHANGED <<conn, http, kind, queue, got, arrived, late, buffered, frames>>

\* _upload_body sends a chunk and waits while the buffer is at the cap, ...
Pump(s) ==
    /\ pc[s] = "pump" /\ pumped[s] < Chunks
    /\ pumped' = [pumped EXCEPT ![s] = @ + 1]
    /\ unacked' = [unacked EXCEPT ![s] = @ + 1]
    /\ Goes(s, IF unacked'[s] >= BufCap THEN "full" ELSE "pump")
    /\ UNCHANGED <<conn, http, kind, queue, got, arrived, late, buffered, frames>>

Recheck(s) ==
    /\ pc[s] = "full" /\ unacked[s] < BufCap /\ Goes(s, "pump")
    /\ UNCHANGED <<conn, http, kind, queue, got, arrived, late, pumped, unacked,
                   buffered, frames>>

\* ... then ends the body and reads the answer; only the status counts.
PumpEnds(s) ==
    /\ pc[s] = "pump" /\ pumped[s] = Chunks /\ Goes(s, "get")
    /\ UNCHANGED <<conn, http, kind, queue, got, arrived, late, pumped, unacked,
                   buffered, frames>>

\* The generator of the body may raise; upload's finally pops the queue.
BodyRaises(s) ==
    /\ pc[s] = "pump" /\ Ends(s, "raised", TRUE)
    /\ UNCHANGED <<conn, http, kind, queue, got, arrived, late, pumped, unacked,
                   buffered, frames>>

UploadGets(s) ==
    /\ kind[s] = "upload" /\ pc[s] = "get" /\ Take(s)
    /\ CASE Item(s) \in {"h", "d"} -> Goes(s, "get")
         [] Item(s) = "err" -> Ends(s, "raised", TRUE)
         [] OTHER -> Ends(s, "returned", TRUE)
    /\ UNCHANGED <<buffered, frames>>

-----------------------------------------------------------------------------
\* ws_open: the headers open the tunnel; an end leaves the queue where it is.
WsOpens(s) ==
    /\ pc[s] = "opening" /\ Take(s)
    /\ CASE Item(s) = "h" -> Goes(s, "tunnel")
         [] Item(s) = "err" -> Ends(s, "raised", TRUE)
         [] Item(s) = "end" -> Ends(s, "raised", FALSE)
         [] OTHER -> Goes(s, "opening")
    /\ UNCHANGED <<buffered, frames>>

\* parse_ws: how many whole frames the buffer holds.
ParseWs(b) == (b[2] - b[1]) \div 2

\* The top of recv's loop: with whole frames in the buffer b, delete them all and
\* return the first; else wait.
HandsOut(s, b) ==
    IF ParseWs(b) = 0
    THEN Goes(s, "recv") /\ UNCHANGED frames /\ buffered' = [buffered EXCEPT ![s] = b]
    ELSE /\ Goes(s, "tunnel")
         /\ frames' = [frames EXCEPT ![s] = Append(@, b[1] \div 2 + 1)]
         /\ buffered' = [buffered EXCEPT ![s] = <<b[1] + 2 * ParseWs(b), b[2]>>]

WsRecv(s) ==
    /\ pc[s] = "tunnel" /\ HandsOut(s, buffered[s])
    /\ UNCHANGED <<conn, http, kind, queue, got, arrived, late, pumped, unacked>>

WsGets(s) ==
    /\ pc[s] = "recv" /\ Take(s)
    /\ CASE Item(s) = "d" ->
              HandsOut(s, <<buffered[s][1], buffered[s][2] + Head(queue[s])[2]>>)
         [] Item(s) = "h" -> Goes(s, "recv") /\ UNCHANGED <<buffered, frames>>
         [] OTHER -> Ends(s, "raised", FALSE) /\ UNCHANGED <<buffered, frames>>

WsClose(s) ==
    /\ kind[s] = "ws" /\ pc[s] = "tunnel" /\ Ends(s, "closed", TRUE)
    /\ UNCHANGED <<conn, http, kind, queue, got, arrived, late, pumped, unacked,
                   buffered, frames>>

\* Mutant: upload without its finally.
PopsOnCancelStream(k) == k = "stream"

\* The kinds of call that pop their queue from a finally.
PopsOnCancel(k) == k \in {"stream", "upload"}

\* A call is cancelled where it awaits, or its caller gives up on what it holds.
Cancelled(s) ==
    /\ pc[s] \in Waiting \union {"pump", "full", "held", "tunnel"}
    /\ Ends(s, "cancelled", PopsOnCancel(kind[s]))
    /\ UNCHANGED <<conn, http, kind, queue, got, arrived, late, pumped, unacked,
                   buffered, frames>>

-----------------------------------------------------------------------------
ServerSends(s) ==
    \/ \E coding \in {0, 1}, ended \in BOOLEAN :
          /\ kind[s] = "request" \/ coding = 0
          /\ HeadersReceived(s, coding, ended)
    \/ \E n \in Pieces \union {0, 1}, ended \in BOOLEAN :
          /\ kind[s] = "ws" \/ n \in {0, 1}
          /\ DataReceived(s, n, ended)
    \/ StreamReset(s)

\* A coroutine that the loop can resume.
Runs(s) ==
    \/ RequestGets(s) \/ StreamGets(s) \/ RawGets(s) \/ UploadGets(s)
    \/ WsOpens(s) \/ WsGets(s) \/ Pump(s) \/ Recheck(s) \/ PumpEnds(s)
    \/ StreamFinalized(s)

\* What the callers choose to do.
CallerActs(s) ==
    \/ \E k \in Kinds : Open(s, k)
    \/ StreamResumes(s) \/ StreamDropped(s) \/ AbortStream(s) \/ BodyRaises(s)
    \/ WsRecv(s) \/ WsClose(s) \/ Cancelled(s)

Next ==
    \/ Negotiate \/ Connected \/ DialFails \/ ConnectionTerminated
    \/ \E s \in Sids : ServerSends(s) \/ Acked(s) \/ Runs(s) \/ CallerActs(s)

Spec == Init /\ [][Next]_vars /\ \A s \in Sids : WF_vars(Runs(s))

-----------------------------------------------------------------------------
\* Shape of the state: _queues holds opened streams only, and no stream is open
\* on a connection that did not negotiate h3.
TypeOK ==
    /\ conn \in {"dialing", "refused", "open", "terminated"}
    /\ kind \in [Sids -> Kinds \union {"none"}]
    /\ pc \in [Sids -> Waiting \union Finished \union
                 {"unopened", "held", "pump", "full", "yielded", "dropped", "tunnel"}]
    /\ registered \subseteq {s \in Sids : kind[s] /= "none"}
    /\ registered /= {} => http
    /\ pumped \in [Sids -> 0..Chunks] /\ unacked \in [Sids -> 0..Chunks]

\* What is seen of the stream itself: all but an error of the connection, which
\* is no event of the stream.
Own(items) ==
    IF items /= <<>> /\ items[Len(items)] = <<"err", 1>>
    THEN SubSeq(items, 1, Len(items) - 1) ELSE items

\* _on_h3 and quic_event_received route by stream id: what a call has read and
\* what waits in its queue is what happened on its own stream, in order and
\* without gaps, and all of it while the queue is registered; an error of the
\* connection comes after all of that, and once.  On a tunnel recv hands out the
\* frames in the order they were sent and none twice (it may skip some).
SeesItsStream ==
    \A s \in Sids :
        LET own == Own(got[s] \o queue[s]) IN
        /\ Len(own) <= Len(arrived[s]) /\ own = SubSeq(arrived[s], 1, Len(own))
        /\ s \in registered => own = arrived[s]
        /\ \A i, j \in DOMAIN frames[s] : i < j => frames[s][i] < frames[s][j]

\* A call of request, stream or upload that returns normally has read its whole
\* response: the headers, every data event and the end, and its stream was not
\* reset; a reset or a lost connection raises ("fails loud with the cause").
WholeOrError ==
    \A s \in Sids : pc[s] = "returned" =>
        /\ got[s] = arrived[s]
        /\ Head(got[s])[1] = "h" /\ Final(got[s]) = "end"

\* The cleanup upload()'s comment is about: whatever way it ended, a streamed
\* call leaves no queue behind, nor does a request that was not cancelled or a
\* stream that was aborted.  Left over are a cancelled request's, a raw stream's
\* its caller walked away from, and an unclosed tunnel's.
QueuesReclaimed ==
    \A s \in registered : pc[s] \in Finished =>
        kind[s] = "ws" \/ (kind[s] \in {"request", "raw"} /\ pc[s] = "cancelled")

\* _upload_body's backpressure: however the acknowledgements interleave with the
\* sending, aioquic holds no more than the cap, the last chunk included.
BufferBounded == \A s \in Sids : unacked[s] <= BufCap

\* "A consumer blocked on q.get() would hang forever": no call in q.get() does
\* once its stream is reset or the connection ends, if it was opened before.
WaitersFreed ==
    \A s \in Sids :
        (/\ pc[s] \in Waiting
         /\ \/ conn = "terminated" /\ s \notin late
            \/ Over(s))
        ~> pc[s] \notin Waiting
=============================================================================
