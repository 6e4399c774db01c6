---------------------------- MODULE MCStressSoak ----------------------------
(***************************************************************************)
(* Small cells of StressSoak for TLC.  Every knob of MixKnobs is parsed    *)
(* and split; the cells small enough are then run to their verdict.        *)
(***************************************************************************)
EXTENDS StressSoak

Entry(k, n) == [key |-> k, weight |-> n]

\* Every weight for the request-shaped slices, with and without transfers.
Weighed ==
    {<<Entry("requests", a), Entry("ws", b), Entry("sse", c)>> \o streams :
        a \in 0..5, b \in 0..5, c \in {0, 1, 5},
        streams \in {<<>>, <<Entry("streamupload", 0)>>,
                     <<Entry("streamdownload", 0), Entry("streamupload", 0)>>}}

\* Short knobs, sound and not.
Oddities ==
    SeqOf({Entry("ws", 0), Entry("ws", 1), Entry("sse", BadWeight),
           Entry("requests", NoWeight), Entry("methods", 3), Entry("", NoWeight)}, 2)

Mixed(knob, n, p, c) ==
    [workload |-> "mixed", proto |-> p, knob |-> knob, conc |-> n, clients |-> c]

Single(t, p, n, c) ==
    [workload |-> t, proto |-> p, knob |-> <<>>, conc |-> n, clients |-> c]

Only(ks) ==
    SetToSeq({Entry(k, 1) : k \in ks} \cup {Entry(k, 0) : k \in Workloads \ ks})

MCSettings ==
    {Mixed(k, n, "h2", 9) : k \in Weighed \cup Oddities, n \in {2, 4, 5, 9}}
    \cup {Mixed(Only(ks), 2, p, 1) :
            ks \in {{"requests", "streamupload"}, {"streamupload", "streamdownload"}},
            p \in {"h2", "h3"}}
    \cup {Single(t, p, 1, 1) : t \in {"ws", "sse", "methods"}, p \in {"h2", "h3"}}
    \cup {Single("streamupload", p, 1, 2) : p \in {"h2", "h3"}}
    \cup {Single("unknown", "h2", 1, 1)}
=============================================================================
