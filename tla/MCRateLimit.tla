---------------------------- MODULE MCRateLimit ----------------------------
(* Small instances of the limiter: one limit for all, a token every two     *)
(* ticks and two at once, except that a key k0 is not limited.              *)
EXTENDS RateLimit

CONSTANT k0

UniformRate  == [k \in Keys |-> IF k = k0 THEN 0 ELSE 1]
UniformBurst == [k \in Keys |-> 2]
=============================================================================
