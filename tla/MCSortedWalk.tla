---------------------------- MODULE MCSortedWalk ----------------------------
(* Batches of up to eight points, at most two of them NaN, over a fit of   *)
(* three leaves numbered as a breadth-first search numbers them, with a    *)
(* coordinate on each side of the domain.                                  *)
EXTENDS SortedWalk, SequencesExt

MCLeafOf == [c \in 1 .. 4 |-> CASE c = 1 -> 1 [] c = 2 -> 2 [] OTHER -> 0]

(* Ascending sequences of m coordinates.                                   *)
Sorted[m \in 0 .. 8] ==
  IF m = 0 THEN {<<>>}
  ELSE UNION {{Append(s, c) : c \in (IF s = <<>> THEN 0 ELSE Last(s)) .. 5} :
                s \in Sorted[m - 1]}

(* ... of m points, the last q of them put in as NaNs.                     *)
Batches[m \in 0 .. 8, q \in 0 .. 2] ==
  IF q = 0 \/ m = 0 THEN Sorted[m]
  ELSE {InsertAt(s, p, NaN) : s \in Batches[m - 1, q - 1], p \in 1 .. m}
MCInputs ==
  UNION {Batches[m, q] : m \in {0, 1, 3, 8}, q \in 0 .. 1} \cup Batches[6, 2]
=============================================================================
