------------------------------ MODULE MCH2Send ------------------------------
(***************************************************************************)
(* Two streams on one level, the first sequential and the second           *)
(* round-robin, with bodies that exceed the mark, the frame and the        *)
(* windows.                                                                *)
(***************************************************************************)
EXTENDS H2Send

Levels == [s \in Sids |-> 0]
Bodies == [s \in Sids |-> IF s = 1 THEN 2 ELSE 1]
=============================================================================
