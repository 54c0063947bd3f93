----------------------------- MODULE MCPolyTree -----------------------------
(* A one-dimensional subtree under every kind of input, with measurements  *)
(* that converge, fail, fail loudly, pass only after a louder panel, and   *)
(* are not finite.                                                         *)
EXTENDS PolyTree

grid(finite, err, amp, local) ==
  [finite |-> finite, err |-> err, amp |-> amp, local |-> local]

Smooth == [open   |-> grid(TRUE, 0, 2, FALSE),
           closed |-> grid(TRUE, 1, 1, FALSE), tail |-> FALSE]
Steep  == [open   |-> grid(TRUE, 9, 4, TRUE),
           closed |-> grid(TRUE, 1, 3, FALSE), tail |-> TRUE]
(* Converges only against the scale of a louder panel.                     *)
Quiet  == [open   |-> grid(TRUE, 1, 1, FALSE),
           closed |-> grid(TRUE, 3, 1, TRUE), tail |-> FALSE]
(* An infinite value on the closed grid, next to a loud finite one.        *)
Pole   == [open   |-> grid(TRUE, 0, 2, FALSE),
           closed |-> grid(FALSE, 0, 9, FALSE), tail |-> TRUE]

Base == [max_depth |-> 2, min_uniform_depth |-> 0, max_memory |-> 0,
         allow_max_depth_leaves |-> FALSE, tol_kind |-> "RelativeMax",
         scalar |-> TRUE, low_degree |-> FALSE]

MCSamples == {Smooth, Steep, Quiet, Pole}
MCInputs == {
  Base,
  [Base EXCEPT !.max_depth = 0],
  [Base EXCEPT !.max_depth = 1, !.min_uniform_depth = 3,
               !.tol_kind = "RelativePointwise"],
  [Base EXCEPT !.min_uniform_depth = 1, !.tol_kind = "AbsoluteMax"],
  [Base EXCEPT !.max_depth = 0 - 1, !.max_memory = 6],
  [Base EXCEPT !.min_uniform_depth = 1, !.tol_kind = "RelativeTail"],
  [Base EXCEPT !.max_depth = 1, !.tol_kind = "RelativeTail", !.low_degree = TRUE],
  [Base EXCEPT !.tol_kind = "AbsoluteTail", !.scalar = FALSE]}
MCBins == {0}
(* A first subtree, and one that follows a subtree with one quiet leaf.    *)
MCBefore == {[pool |-> <<>>, scale |-> 0], [pool |-> << <<7>> >>, scale |-> 1]}
=============================================================================
