----------------------------- MODULE FitDomain -----------------------------
(***************************************************************************)
(* The corners a and b of a fit on their way through floating point: fit() *)
(* turns them into a centre and a half length (treeweave.hpp), the         *)
(* Function turns those back into bounds and cuts them into bins           *)
(* (detail/function.hpp), every subtree turns its own centre and half      *)
(* length into bounds once more (detail/polytree.hpp), and a point is      *)
(* tested and located with these bounds and with stored inverses.          *)
(*                                                                         *)
(* The model is one axis of a domain, in binary floating point of p bits   *)
(* with rounding to nearest, ties to even, as the hardware does it with    *)
(* 24 or 53.  A float is <<m, e>> for m * 2^e with 2^(p-1) <= |m| < 2^p.   *)
(* Exponents have no bounds: no value overflows or is subnormal.           *)
(* An ascending batch is located point by point; what a point gets is its  *)
(* bin and its cell of the bin's leaf table.                               *)
(***************************************************************************)
EXTENDS Powers, Sequences

CONSTANTS
  p,           \* bits of a significand
  Emin,        \* exponent of zero, the least of a corner or a point
  Corners,     \* floats a caller may pass as a or b
  xp,          \* the batch that is located: floats in ascending order
  Subtrees,    \* values of n_subtrees_ on this axis (bound)
  TableBits,   \* values of leaf_table_depth_ (bound)
  MinWidth,    \* least width of a table cell, in ulps of the larger corner
  Slack,       \* ulps of the larger corner that rounding may move a boundary
  ood_id       \* out of domain

Abs(k) == IF k < 0 THEN -k ELSE k
Zero == <<0, Emin>>
IsFloat(x) ==
  \/ x = Zero
  \/ x \in Int \X Int /\ Abs(x[1]) \in Pow2(p - 1) .. Pow2(p) - 1

(* The value of x in units of 2^e.                                         *)
At(x, e) == x[1] * Pow2(x[2] - e)

ASSUME FitDomainConstants ==
  /\ p \in Nat \ {0} /\ Emin \in Int /\ Slack \in Nat /\ MinWidth \in Nat \ {0}
  /\ Subtrees \subseteq Nat \ {0} /\ TableBits \subseteq Nat \ {0}
  /\ \A x \in Corners : IsFloat(x) /\ x[2] >= Emin
  /\ xp \in Seq(Int \X Int)
  /\ \A k \in 1 .. Len(xp) : IsFloat(xp[k]) /\ xp[k][2] >= Emin
  /\ \A k \in 1 .. Len(xp) - 1 : At(xp[k], Emin) < At(xp[k + 1], Emin)
  /\ ood_id \notin [bin : Int, cell : Int]

VARIABLES
  a, b,                       \* arguments of fit()
  n_subtrees_, bits,          \* bins; depth of their tables
  center, half_length,        \* box_
  lower_left_, upper_right_, bin_size, inv_bin_size_,
  lower_, upper_, inv_span_bins_,   \* of the subtree of each bin
  i,                          \* points located so far
  got,                        \* what the last of them got
  pc
caller == <<a, b, n_subtrees_, bits>>
box == <<center, half_length>>
grid == <<lower_left_, upper_right_, bin_size, inv_bin_size_>>
trees == <<lower_, upper_, inv_span_bins_>>
vars == <<caller, box, grid, trees, i, got, pc>>

-----------------------------------------------------------------------------
(* Floating point.                                                         *)

Sgn(k) == IF k < 0 THEN -1 ELSE 1
Lower(e, f) == IF e < f THEN e ELSE f
Higher(e, f) == IF e < f THEN f ELSE e

(* The integer nearest to num / den, the even one of two.                  *)
Nearest(num, den) ==
  LET down == num \div den
      rest == 2 * (num % den)
  IN  IF rest > den \/ (rest = den /\ down % 2 = 1) THEN down + 1 ELSE down

(* The exponent that leaves p bits of N / D.                               *)
Up(k) == Pow2(Higher(k, 0))
Shift(N, D) ==
  LET s == BitLength(N) - BitLength(D) - p
  IN  IF N * Up(-s) < D * Up(s) * Pow2(p) THEN s ELSE s + 1

(* N / D * 2^e, rounded to p bits.                                         *)
Round(N, D, e) ==
  IF N = 0 THEN Zero
  ELSE LET s == Shift(Abs(N), D)
           m == Nearest(Abs(N) * Up(-s), D * Up(s))
       IN  IF m = Pow2(p) THEN <<Sgn(N) * Pow2(p - 1), e + s + 1>>
           ELSE <<Sgn(N) * m, e + s>>

Float(k) == Round(k, 1, 0)
Plus(x, y) == LET e == Lower(x[2], y[2]) IN Round(At(x, e) + At(y, e), 1, e)
Minus(x, y) == Plus(x, <<-y[1], y[2]>>)
Times(x, y) == Round(x[1] * y[1], 1, x[2] + y[2])
Over(x, y) == Round(Sgn(y[1]) * x[1], Abs(y[1]), x[2] - y[2])
Halved(x) == IF x[1] = 0 THEN Zero ELSE <<x[1], x[2] - 1>>
Doubled(x) == IF x[1] = 0 THEN Zero ELSE <<x[1], x[2] + 1>>

leq(x, y) == LET e == Lower(x[2], y[2]) IN At(x, e) <= At(y, e)

(* A cast to an integer, and the smaller of it and the last index.  The    *)
(* cast of a value of -1 or less is undefined for std::size_t; it is kept  *)
(* as a negative index.                                                    *)
Cast(x) == IF x[2] >= 0 THEN At(x, 0)
           ELSE Sgn(x[1]) * (Abs(x[1]) \div Pow2(-x[2]))
Clamped(k, last) == IF k < last THEN k ELSE last

(* The last place of the larger corner, in units of 2^e.                   *)
Ulp(e) == Pow2(Higher(a[2], b[2]) - e)

-----------------------------------------------------------------------------
(* The fit.                                                                *)

(* Domains whose cells are not wider than the rounding of their corners    *)
(* are left out: there a span may be zero and its inverse infinite.        *)
Init ==
  /\ a \in Corners /\ b \in Corners
  /\ n_subtrees_ \in Subtrees /\ bits \in TableBits
  /\ At(b, Emin) - At(a, Emin) >= MinWidth * n_subtrees_ * Pow2(bits) * Ulp(Emin)
  /\ center = Zero /\ half_length = Zero
  /\ lower_left_ = Zero /\ upper_right_ = Zero /\ bin_size = Zero /\ inv_bin_size_ = Zero
  /\ lower_ = <<>> /\ upper_ = <<>> /\ inv_span_bins_ = <<>>
  /\ i = 0 /\ got = ood_id /\ pc = "fit"

(* midpoint and half_length                                                *)
MakeBox ==
  /\ pc = "fit" /\ pc' = "bins"
  /\ center' = Halved(Plus(a, b))
  /\ half_length' = Halved(Minus(b, a))
  /\ UNCHANGED <<caller, grid, trees, i, got>>

MakeBins ==
  /\ pc = "bins" /\ pc' = "subtrees"
  /\ bin_size' = Over(Doubled(half_length), Float(n_subtrees_))
  /\ inv_bin_size_' = Over(Halved(Float(n_subtrees_)), half_length)
  /\ lower_left_' = Minus(center, half_length)
  /\ upper_right_' = Plus(center, half_length)
  /\ UNCHANGED <<caller, box, trees, i, got>>

LowerCorner(bin) == Plus(Times(Float(bin), bin_size), lower_left_)
parent_center(bin) == Plus(Times(Plus(Float(bin), <<Pow2(p - 1), -p>>), bin_size), lower_left_)

MakeSubtrees ==
  LET Bins == 0 .. n_subtrees_ - 1
      hw == Halved(bin_size)
      lo == [k \in Bins |-> Minus(parent_center(k), hw)]
      hi == [k \in Bins |-> Plus(parent_center(k), hw)]
  IN  /\ pc = "subtrees" /\ pc' = "fitted"
      /\ lower_' = lo
      /\ upper_' = hi
      /\ inv_span_bins_' = [k \in Bins |-> Over(Float(Pow2(bits)), Minus(hi[k], lo[k]))]
      /\ UNCHANGED <<caller, box, grid, i, got>>

-----------------------------------------------------------------------------
(* Where a point is.                                                       *)

get_linear_bin(x) == Clamped(Cast(Times(Minus(x, lower_left_), inv_bin_size_)), n_subtrees_ - 1)

(* Index of x in the leaf table of a bin.  A rounded bin index may be one  *)
(* too high, and x then a little below the subtree.                        *)
unclamped_cell(bin, x) == Cast(Times(Minus(x, lower_[bin]), inv_span_bins_[bin]))
masked_cell(bin, x) ==
  Cast(Times(Minus(x, lower_[bin]), inv_span_bins_[bin])) % Pow2(bits)
find_cell(bin, x) ==
  Clamped(Cast(Times(Minus(x, lower_[bin]), inv_span_bins_[bin])), Pow2(bits) - 1)

(* The only subtree of a fit tests against its own bounds, several are     *)
(* tested for together against the bounds of the Function.                 *)
InDomain(x) ==
  IF n_subtrees_ = 1 THEN leq(lower_[0], x) /\ leq(x, upper_[0])
  ELSE leq(lower_left_, x) /\ leq(x, upper_right_)

leaf_id_of(x) ==
  IF ~ InDomain(x) THEN ood_id
  ELSE LET bin == IF n_subtrees_ = 1 THEN 0 ELSE get_linear_bin(x)
       IN  [bin |-> bin, cell |-> find_cell(bin, x)]

Locate ==
  /\ pc = "fitted" /\ i < Len(xp)
  /\ got' = leaf_id_of(xp[i + 1])
  /\ i' = i + 1
  /\ UNCHANGED <<caller, box, grid, trees, pc>>

Next == MakeBox \/ MakeBins \/ MakeSubtrees \/ Locate
Spec == Init /\ [][Next]_vars

-----------------------------------------------------------------------------
(* No index leaves the bins or the table, however the products round: the  *)
(* tests come before the casts, a point below its subtree truncates to     *)
(* cell 0, a point at an upper end is clamped.                             *)
IndexInTable ==
  got # ood_id => got.bin \in 0 .. n_subtrees_ - 1 /\ got.cell \in 0 .. Pow2(bits) - 1

(* A point is in its cell, or rounding has moved a boundary past it by no  *)
(* more than Slack ulps: three descriptions of one domain (corners, bins,  *)
(* subtree bounds), rebuilt one from another, and two stored inverses stay *)
(* together.                                                               *)
NearOwnCell ==
  got # ood_id =>
    LET lo == lower_[got.bin]
        hi == upper_[got.bin]
        e == Lower(Emin, Lower(lo[2], hi[2]))
        above == Pow2(bits) * (At(xp[i], e) - At(lo, e))
        span == At(hi, e) - At(lo, e)
        off == Pow2(bits) * Slack * Ulp(e)
    IN  /\ above >= got.cell * span - off
        /\ above <= (got.cell + 1) * span + off

(* Ascending points have ascending bins, and ascending cells in a bin: the *)
(* run walk of sorted evaluation takes two equal ids for a run.            *)
AscendingCells ==
  [][got # ood_id /\ got' # ood_id =>
       got.bin < got'.bin \/ (got.bin = got'.bin /\ got.cell <= got'.cell)]_vars

(* treeweave.h: "evaluating exactly at the domain's upper corner `b`       *)
(* returns the boundary value (the last leaf's polynomial), not NaN".      *)
ClosedUpperEndpoint == i > 0 /\ xp[i] = b => got # ood_id
=============================================================================
