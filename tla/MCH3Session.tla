---------------------------- MODULE MCH3Session ----------------------------
(***************************************************************************)
(* Two streams, of any two kinds, on one connection; an upload of two      *)
(* chunks against a cap of one; tunnels of two data events, which cut a    *)
(* frame in two or bring one and a half; one data event for a request and  *)
(* a streamed response, none where only status and end are waited for.     *)
(***************************************************************************)
EXTENDS H3Session

DataBound ==
    [k \in Kinds |-> CASE k = "ws" -> 2 [] k \in {"request", "stream"} -> 1
                        [] OTHER -> 0]
=============================================================================
