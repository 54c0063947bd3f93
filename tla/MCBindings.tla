----------------------------- MODULE MCBindings -----------------------------
(* Every host language over one C interface. *)
EXTENDS Bindings, TLC

MCShapes == {<<1, 1>>, <<2, 2>>, <<4, 1>>}
MCLadder == <<"avx512", "avx2", "sse2">>
Symmetry == Permutations(Ids) \cup Permutations(Objects) \cup Permutations(Errors)

\* Two nested fits on one thread, or one fit beside the calls of another; in
\* Julia the second thread calls while nothing is fitted, which leaves it every
\* fit that fails or raises, and a fit has one evaluator to build; and an
\* override that takes effect only in a C program.
OneThread == \A t \in Threads \ {Main} : ctx[t] = <<>> /\ last[t].res = "none"
Bound == /\ host \in Concurrent => OneThread \/ InProgress <= 1
         /\ host = "c" => InProgress <= 1
         /\ host = "julia" => Cardinality(Live(evals)) <= IF OneThread THEN 1 ELSE 0
         /\ host = "c" \/ forced = "avx512"
=============================================================================
