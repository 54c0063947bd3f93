----------------------------- MODULE MCBatchEval -----------------------------
(* Up to five points in tiles of three, over three leaves of which two     *)
(* have points; two points share a leaf and one is out of the domain.      *)
EXTENDS BatchEval

CONSTANTS a, b, c, o

MCLeafOf == [p \in Points |-> CASE p \in {a, b} -> 0 [] p = c -> 2 [] OTHER -> 3]
MCBatches == UNION {[1 .. n -> Points] : n \in {0, 1, 2, 3, 5}}
=============================================================================
