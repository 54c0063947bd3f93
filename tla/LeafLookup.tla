----------------------------- MODULE LeafLookup -----------------------------
(***************************************************************************)
(* From a point to the id of its leaf: the quantize table and the descent  *)
(* of a subtree (detail/polytree.hpp, detail/quantize.hpp), the bins over  *)
(* the subtrees (detail/function.hpp) and the lanes of guru.hpp.  The      *)
(* variables are those of one call of Function::leaf_ids on a fit chosen   *)
(* by Init; every other lookup is an operator.                             *)
(*                                                                         *)
(* Coordinates are integers.  Every boundary of a panel or of a table cell *)
(* is an even one, and an odd one is safely inside.  Rounding matters only *)
(* at a boundary: a product just below it, or a midpoint just below it, is *)
(* one of the choices of "rounding".  A leaf is known by its bin and path. *)
(***************************************************************************)
EXTENDS Powers, Sequences, FiniteSets, FiniteSetsExt

CONSTANTS
  Fits,        \* fits: bins of each axis, width of a bin, splits, table limit
  BatchesOf(_),\* the batches a caller may pass to a fit
  lanes,       \* of a SIMD register
  word,        \* bits of the integers a lane is converted to
  NaN,
  ood_id

(* The product of the bins of all axes.                                    *)
Product(r) ==
  LET prod[d \in DOMAIN r] == IF d = Len(r) THEN r[d] ELSE r[d] * prod[d + 1] IN prod[1]

(* Levels below the root, of a tree whose interior nodes have these paths. *)
Depth(splits) == Max({0} \cup {Len(path) + 1 : path \in splits})

(* Panels and cells of a fit, and the middles of both, are exact; the code *)
(* makes no table of more than 16 bits, and its lanes have 32 or 64.       *)
ASSUME LookupConstants ==
  /\ lanes \in Nat \ {0} /\ word \in Nat \ {0}
  /\ NaN \notin Int
  /\ ood_id \notin Nat \X Seq(Nat)
  /\ \A f \in Fits :
       /\ f.n_subtrees \in Seq(Nat \ {0}) /\ f.n_subtrees # <<>>
       /\ f.span \in Nat \ {0}
       /\ f.table_bits \in Nat /\ f.table_bits < word - 1
       /\ DOMAIN f.splits = 0 .. Product(f.n_subtrees) - 1
       /\ \A b \in DOMAIN f.splits :
            /\ f.splits[b] \subseteq Seq(0 .. Pow2(Len(f.n_subtrees)) - 1)
            /\ IsFiniteSet(f.splits[b])
            /\ f.span % Pow2(Depth(f.splits[b]) + 1) = 0
       /\ BatchesOf(f) \subseteq Seq([1 .. Len(f.n_subtrees) -> Int \cup {NaN}])

VARIABLES
  fit,         \* the fit that is asked
  rounding,    \* whether products and midpoints at a boundary round down
  kernel,      \* which of the three lane conversions this build has
  cast,        \* what converting a float out of range gives: "x86" or "arm"
  xp,          \* the batch; point k of the code is xp[k + 1]
  out,         \* ids written so far
  i,           \* next point
  reads        \* ghost: table entries read by the last step
vars == << fit, rounding, kernel, cast, xp, out, i, reads >>

Dim == Len(fit.n_subtrees)
Axes == 1 .. Dim
n == Len(xp)

ge(a, b) == a # NaN /\ b # NaN /\ a >= b
le(a, b) == a # NaN /\ b # NaN /\ a <= b
Least(a, b) == IF a < b THEN a ELSE b

-----------------------------------------------------------------------------
(* The geometry of the fit.                                                *)

TotalBins == Product(fit.n_subtrees)

(* What the digits below each axis leave of v, lowest axis first.          *)
Peeled(v, radix) ==
  LET rest[d \in Axes] == IF d = 1 THEN v ELSE rest[d - 1] \div radix[d - 1] IN rest

(* Horner form, from the highest axis down.                                *)
Horner(digit, radix) ==
  LET above[d \in Axes] ==
        IF d = Dim THEN digit[d] ELSE above[d + 1] * radix[d] + digit[d]
  IN  above[1]

(* The bins of a linear index.                                             *)
get_bins(i_bin) ==
  LET rest == Peeled(i_bin, fit.n_subtrees)
  IN  [d \in Axes |-> IF d = Dim THEN rest[d] ELSE rest[d] % fit.n_subtrees[d]]

lower_left(d) == 0
upper_right(d) == fit.n_subtrees[d] * fit.span

(* Lower corner and width of the box of a subtree.                         *)
SubtreeBox(b) ==
  [lo |-> [d \in Axes |-> get_bins(b)[d] * fit.span], w |-> fit.span]

(* Bit d of a child's index says which half of axis d it is.               *)
UpperHalf(child, d) == (child \div Pow2(d - 1)) % 2 = 1
Half(box, child) ==
  [lo |-> [d \in Axes |-> box.lo[d] + (IF UpperHalf(child, d) THEN box.w \div 2 ELSE 0)],
   w  |-> box.w \div 2]

(* The box of a panel, as the subdivision of its ancestors made it.        *)
PanelBox(b, path) ==
  LET box[k \in 0 .. Len(path)] ==
        IF k = 0 THEN SubtreeBox(b) ELSE Half(box[k - 1], path[k])
  IN  box[Len(path)]

is_leaf(b, path) == path \notin fit.splits[b]
max_depth(b) == Depth(fit.splits[b])

has_leaf_table(b) == max_depth(b) > 0 /\ Dim * max_depth(b) <= fit.table_bits

-----------------------------------------------------------------------------
(* Descent.  A coordinate on the middle of a panel belongs to its lower    *)
(* half, unless the middle was rounded below it.                           *)

AboveMid(c, mid) == c > mid \/ (c = mid /\ rounding.mid)

(* One digit of the same number of bits per axis.                          *)
Shifted(digit, shift) ==
  LET sum[d \in 0 .. Dim] ==
        IF d = 0 THEN 0 ELSE sum[d - 1] + digit[d] * Pow2(shift * (d - 1))
  IN  sum[Dim]

Upper(box, point) ==
  [d \in Axes |-> IF AboveMid(point[d], box.lo[d] + box.w \div 2) THEN 1 ELSE 0]
ChildAt(box, point) == Shifted(Upper(box, point), 1)

get_node_index(b, point) ==
  LET walk[k \in 0 .. max_depth(b)] ==
        IF k = 0 THEN <<>>
        ELSE IF is_leaf(b, walk[k - 1]) THEN walk[k - 1]
        ELSE Append(walk[k - 1], ChildAt(PanelBox(b, walk[k - 1]), point))
  IN  walk[max_depth(b)]

LeafOf(b, path) == << b, path >>

-----------------------------------------------------------------------------
(* The leaf table of a subtree: cells of equal width, each with the leaf   *)
(* its centre descends to.                                                 *)

bits(b) == max_depth(b)
mask(b) == Pow2(bits(b)) - 1
Cell(b) == fit.span \div Pow2(bits(b))
TableEntries(b) == 0 .. Pow2(Dim * bits(b)) - 1

CellOf(b, idx) ==
  LET rest == Peeled(idx, [d \in Axes |-> Pow2(bits(b))])
  IN  [d \in Axes |-> rest[d] % Pow2(bits(b))]
CellCorner(b, idx) ==
  [d \in Axes |-> SubtreeBox(b).lo[d] + CellOf(b, idx)[d] * Cell(b)]
CellCentre(b, idx) ==
  [d \in Axes |-> SubtreeBox(b).lo[d] + CellOf(b, idx)[d] * Cell(b) + Cell(b) \div 2]

leaf_table(b, idx) == LeafOf(b, get_node_index(b, CellCentre(b, idx)))

(* floor((x - lower) * inv_span_bins): on a boundary of two cells the      *)
(* product may round down, and at the lower end it is exactly 0.           *)
FloorQ(x, lo, w, down) ==
  IF x = NaN THEN NaN
  ELSE IF (x - lo) % w = 0 /\ x # lo /\ down THEN (x - lo) \div w - 1
  ELSE (x - lo) \div w

axis_q(b, point, d) == FloorQ(point[d], SubtreeBox(b).lo[d], Cell(b), rounding.table)

(* The index of one cell per axis.                                         *)
Packed(b, q) == Shifted(q, bits(b))

InBox(point, lo, w) ==
  \A d \in Axes : ge(point[d], lo[d]) /\ le(point[d], lo[d] + w)

UnclampedQ(b, point) == [d \in Axes |-> axis_q(b, point, d)]
ClampedQ(b, point) == [d \in Axes |-> Least(axis_q(b, point, d), mask(b))]

TableIndex(b, point) == Packed(b, ClampedQ(b, point))

quantize_one(b, point) ==
  IF InBox(point, SubtreeBox(b).lo, fit.span)
  THEN leaf_table(b, TableIndex(b, point))
  ELSE ood_id

(* The caller has gated the point; truncation is floor from 0 up.          *)
find_leaf_id(b, point) ==
  IF has_leaf_table(b) THEN leaf_table(b, TableIndex(b, point))
  ELSE LeafOf(b, get_node_index(b, point))

-----------------------------------------------------------------------------
(* The bins.                                                               *)

LastBin(d) == fit.n_subtrees[d] - 1
AxisBin(point, d) ==
  Least(FloorQ(point[d], lower_left(d), fit.span, rounding.bin), LastBin(d))

get_linear_bin(point) == Horner([d \in Axes |-> AxisBin(point, d)], fit.n_subtrees)

InDomain(point) ==
  \A d \in Axes : ge(point[d], lower_left(d)) /\ le(point[d], upper_right(d))

table == TotalBins = 1 /\ has_leaf_table(0)
has_fast_quantize == \A b \in 0 .. TotalBins - 1 : has_leaf_table(b)

General(point) ==
  IF InDomain(point) THEN find_leaf_id(get_linear_bin(point), point) ELSE ood_id

find_leaf_id_with_ood(b, point) == quantize_one(b, point)

leaf_id_of(point) ==
  IF table THEN find_leaf_id_with_ood(0, point) ELSE General(point)

(* Function::leaf_id, and the walk over sorted points.                     *)
leaf_id(point) == leaf_id_of(point)
sorted_leaf_id_at(point) ==
  IF table THEN find_leaf_id_with_ood(0, point) ELSE General(point)

(* Function::find_node goes by descent whether or not there is a table.    *)
find_node(point) ==
  LET b == get_linear_bin(point) IN LeafOf(b, get_node_index(b, point))

-----------------------------------------------------------------------------
(* The lanes.                                                              *)

IntMin == 0 - Pow2(word - 1)
IntMax == Pow2(word - 1) - 1

(* A float out of the range of the integer, or NaN: the "indefinite" of    *)
(* x86, saturation and 0 on arm.                                           *)
ToInt(q) ==
  IF q # NaN /\ q \in IntMin .. IntMax THEN q
  ELSE IF cast = "x86" THEN IntMin
  ELSE IF q = NaN THEN 0 ELSE IF q < 0 THEN IntMin ELSE IntMax

Unsigned(q) == q % Pow2(word)
SignedClamp(q) == Least(ToInt(q), mask(0))
UnsignedClamp(q) == Least(Unsigned(ToInt(q)), mask(0))

LaneOod(x) == ~(ge(x, lower_left(1)) /\ le(x, upper_right(1)))
LaneQ(x) == FloorQ(x, lower_left(1), Cell(0), rounding.table)

(* gather_leaf_ids and the narrowing conversion convert every lane; the    *)
(* sweep and the scalar tail convert the lanes in the domain only.         *)
PackedIndex(x) == UnsignedClamp(LaneQ(x))
GuardedIndex(x) == UnsignedClamp(IF LaneOod(x) THEN 0 ELSE LaneQ(x))
LaneIndex(x) == IF kernel = "sweep" THEN GuardedIndex(x) ELSE PackedIndex(x)

UnselectedId(x, q) == leaf_table(0, q)
LaneId(x, q) == IF LaneOod(x) THEN ood_id ELSE leaf_table(0, q)

(* Only the gather reads the table for a lane that is out of the domain.   *)
Loaded(x, q) == IF kernel # "gather" /\ LaneOod(x) THEN {} ELSE {q}

(* guru::LaneQuantizer: ids clamps before it casts.                        *)
supports == Dim = 1 /\ TotalBins = 1 /\ has_fast_quantize
LaneQuantizerIndex(x) ==
  Least(IF LaneOod(x) THEN 0 ELSE LaneQ(x), mask(0))
LaneQuantizerIds(x) == leaf_table(0, LaneQuantizerIndex(x))

-----------------------------------------------------------------------------
(* Function::leaf_ids.                                                     *)

Kernels == {"gather", "narrow", "sweep"}
Roundings == [table : BOOLEAN, bin : BOOLEAN, mid : BOOLEAN]

Batched == Dim = 1 /\ table
n_simd == n - (n % lanes)
x(k) == xp[k + 1][1]

Init ==
  /\ fit \in Fits
  /\ rounding \in Roundings
  /\ kernel \in Kernels /\ cast \in {"x86", "arm"}
  /\ Batched \/ (kernel = "sweep" /\ cast = "x86")
  /\ xp \in BatchesOf(fit)
  /\ out = <<>> /\ i = 0 /\ reads = {}

(* A register of points.                                                   *)
FullLanes ==
  /\ Batched /\ i < n_simd
  /\ LET block == [k \in 1 .. lanes |-> x(i + k - 1)]
     IN  /\ out' = out \o [k \in 1 .. lanes |-> LaneId(block[k], LaneIndex(block[k]))]
         /\ reads' = UNION {Loaded(block[k], LaneIndex(block[k])) : k \in 1 .. lanes}
  /\ i' = i + lanes
  /\ UNCHANGED << fit, rounding, kernel, cast, xp >>

TailByLanes == i + lanes
TailNext == i + 1

(* What is left of the batch, one point at a time.                         *)
TailPoint ==
  /\ Batched /\ i >= n_simd /\ i < n
  /\ out' = Append(out, LaneId(x(i), GuardedIndex(x(i))))
  /\ reads' = IF LaneOod(x(i)) THEN {} ELSE {GuardedIndex(x(i))}
  /\ i' = TailNext
  /\ UNCHANGED << fit, rounding, kernel, cast, xp >>

(* No table, several subtrees or several axes: leaf_id_of for every point. *)
ScalarPoint ==
  /\ ~Batched /\ i < n
  /\ LET point == xp[i + 1]
         b == IF table THEN 0 ELSE get_linear_bin(point)
     IN  /\ out' = Append(out, leaf_id_of(point))
         /\ reads' = IF InDomain(point) /\ has_leaf_table(b)
                     THEN {TableIndex(b, point)} ELSE {}
  /\ i' = i + 1
  /\ UNCHANGED << fit, rounding, kernel, cast, xp >>

Next == FullLanes \/ TailPoint \/ ScalarPoint

Spec == Init /\ [][Next]_vars

-----------------------------------------------------------------------------
(* Correctness.                                                            *)

Paths(b) == UNION {[1 .. k -> 0 .. Pow2(Dim) - 1] : k \in 0 .. max_depth(b)}
Leaves == UNION {{LeafOf(b, path) : path \in Paths(b)} : b \in 0 .. TotalBins - 1}
TypeOK ==
  /\ fit \in Fits /\ rounding \in Roundings
  /\ kernel \in Kernels /\ cast \in {"x86", "arm"}
  /\ i \in 0 .. n /\ Len(out) = i
  /\ \A k \in 1 .. i : out[k] = ood_id \/ out[k] \in Leaves

(* The points the last step answered; the ids before them do not change.   *)
Latest == (IF Batched /\ i <= n_simd THEN i - lanes + 1 ELSE i) .. i
Answered == Latest \cap 1 .. n

(* Every way to ask for the leaf of a point gives one answer: a lane of a  *)
(* register, the tail, the scalar lookup, the walk over sorted points and  *)
(* the lanes of the guru layer, wherever the point lies or rounds to.      *)
OneId ==
  \A k \in Answered :
    /\ out[k] = leaf_id(xp[k])
    /\ out[k] = sorted_leaf_id_at(xp[k])
    /\ supports =>
         /\ (out[k] = ood_id) = LaneOod(xp[k][1])
         /\ ~LaneOod(xp[k][1]) => out[k] = LaneQuantizerIds(xp[k][1])

(* No lane reads outside the table, not even one whose point is NaN,       *)
(* infinite or out of the domain and whose index is thrown away.           *)
ReadsTable ==
  /\ reads # {} => \E b \in 0 .. TotalBins - 1 : reads \subseteq TableEntries(b)
  /\ supports => \A k \in Answered : LaneQuantizerIndex(xp[k][1]) \in TableEntries(0)

PanelHolds(id, point) ==
  LET box == PanelBox(id[1], id[2]) IN InBox(point, box.lo, box.w)

(* A point is given a leaf, and one whose panel holds it, exactly when it  *)
(* is in the closed domain; the upper end, which quantizes to one past the *)
(* last cell and the last bin, has the last leaf.                          *)
OwnPanel ==
  \A k \in Answered :
    IF InDomain(xp[k])
    THEN /\ out[k] # ood_id
         /\ is_leaf(out[k][1], out[k][2])
         /\ PanelHolds(out[k], xp[k])
    ELSE out[k] = ood_id

(* Off the boundaries of cells the table and the descent agree.            *)
OffBoundary(point) == \A d \in Axes : point[d] % 2 = 1
TableIsDescent ==
  \A k \in Answered :
    InDomain(xp[k]) /\ OffBoundary(xp[k]) => out[k] = find_node(xp[k])
=============================================================================
