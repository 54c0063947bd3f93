--------------------------- MODULE MCCountingSort ---------------------------
(* Two calls, of up to three points each, on the same buffers: two leaves  *)
(* of the first fit, one of the second, and a point out of the domain of   *)
(* each.                                                                   *)
EXTENDS CountingSort

CONSTANTS a, b, c, oa, ob

MCRegimeOf == [p \in Points |-> IF p \in {a, b, oa} THEN 0 ELSE 1]
MCIdOf == [p \in Points |-> CASE p \in {a, c} -> 0 [] p \in {b, ob} -> 1 [] p = oa -> 2]
MCBatches == UNION {[1 .. k -> Points] : k \in {0, 1, 3}}
=============================================================================
