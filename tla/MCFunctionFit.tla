---------------------------- MODULE MCFunctionFit ----------------------------
(* A two-dimensional fit over one bin or two, one level deep.              *)
EXTENDS FunctionFit

grid(finite, err, amp, local) ==
  [finite |-> finite, err |-> err, amp |-> amp, local |-> local]

Smooth == [open   |-> grid(TRUE, 0, 2, FALSE),
           closed |-> grid(TRUE, 1, 1, FALSE), tail |-> FALSE]
Steep  == [open   |-> grid(TRUE, 9, 4, TRUE),
           closed |-> grid(TRUE, 1, 3, FALSE), tail |-> TRUE]
(* Converges only against the scale of a louder panel.                     *)
Quiet  == [open   |-> grid(TRUE, 1, 1, FALSE),
           closed |-> grid(TRUE, 3, 1, TRUE), tail |-> FALSE]

Base == [max_depth |-> 1, min_uniform_depth |-> 0, max_memory |-> 0,
         allow_max_depth_leaves |-> FALSE, tol_kind |-> "RelativeMax",
         scalar |-> FALSE, low_degree |-> FALSE]

MCSamples == {Smooth, Steep, Quiet}
MCInputs == {
  Base,
  [Base EXCEPT !.max_depth = 0, !.allow_max_depth_leaves = TRUE],
  [Base EXCEPT !.tol_kind = "AbsoluteMax", !.allow_max_depth_leaves = TRUE,
               !.max_memory = 8],
  [Base EXCEPT !.tol_kind = "RelativeTail"]}
MCBins == {0, 1}
MCTotalBins == {1, 2}
MCBefore == {}
=============================================================================
