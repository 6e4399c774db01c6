------------------------------ MODULE Channel ------------------------------
(***************************************************************************)
(* What an outbox promises its users (connection.nim, Outbox: "MPSC        *)
(* channel into an event loop"): messages pushed by any thread are applied *)
(* by the loop thread, each at most once and in the order in which they    *)
(* were pushed; every pushed message is eventually applied, unless an      *)
(* application that raised dropped it.                                     *)
(***************************************************************************)
EXTENDS Naturals, Sequences

CONSTANT Message

VARIABLES queue,    \* messages pushed and neither applied nor dropped
          applied   \* every message ever applied, in application order

chanVars == <<queue, applied>>

ChanInit == queue = <<>> /\ applied = <<>>

\* A producer hands over one more message.
Push == \E m \in Message : queue' = Append(queue, m) /\ UNCHANGED applied

\* The loop applies the oldest message.
ApplyNext ==
    /\ queue /= <<>>
    /\ applied' = Append(applied, Head(queue))
    /\ queue' = Tail(queue)

\* Applying the oldest message raises, which drops some of those behind it.
ApplyCut ==
    /\ queue /= <<>>
    /\ applied' = Append(applied, Head(queue))
    /\ \E n \in 1..Len(queue) : queue' = SubSeq(queue, n + 1, Len(queue))

ChanNext == Push \/ ApplyNext \/ ApplyCut

ChanSafety == ChanInit /\ [][ChanNext]_chanVars

ChanSpec == ChanSafety /\ WF_chanVars(ApplyNext \/ ApplyCut)
=============================================================================
