------------------------------- MODULE MCCApi -------------------------------
(* One caller of the C interface. *)
EXTENDS CApi, TLC

MCShapes == {<<1, 1>>, <<2, 2>>, <<4, 1>>}
MCLadder == <<"avx512", "avx2", "sse2">>
Symmetry == Permutations(Ids) \cup Permutations(Threads)
=============================================================================
