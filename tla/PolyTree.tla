------------------------------ MODULE PolyTree ------------------------------
(***************************************************************************)
(* The construction of one subtree: the PolyTree constructor of            *)
(* detail/polytree.hpp with the Node::fit it drives (detail/node.hpp) and  *)
(* the acceptance test of that fit (detail/numerics.hpp).                  *)
(*                                                                         *)
(* A panel (the code's Box) is the path that leads to it: <<bin>> is the   *)
(* root box of subtree number bin, Append(b, c) is child c of b.  The      *)
(* fitted function is seen only through what the two sample grids of a     *)
(* panel measure; every panel draws its measurement from Samples.          *)
(***************************************************************************)
EXTENDS Integers, Sequences

CONSTANTS
  InputDim,      \* input_dim
  Samples,       \* what sampling one panel may measure, see Sample
  Tol,           \* input.tol, as a factor on integer magnitudes
  Inputs,        \* the TreeInput records a fit may be started with
  Bins,          \* subtree numbers
  Before,        \* what the fit may have done before this subtree: the pool
                 \* and the running scale it leaves
  SizePoly,      \* sizeof(poly_eval_type), in storage units
  SizeNode,      \* sizeof(node_t)
  MaxTableBits,  \* 16: the largest input_dim * max_depth_ with a leaf table
  kLeafSentinel  \* 2^32 - 1, the largest std::uint32_t

TolKinds ==
  {"RelativeTail", "AbsoluteTail", "RelativeMax", "AbsoluteMax",
   "RelativeL2", "AbsoluteL2", "RelativePointwise"}
TailKinds == {"RelativeTail", "AbsoluteTail"}

(* One grid: was every error finite, the largest error, the largest |f|,   *)
(* and whether the error exceeds tol under the panel's own normalisation.  *)
Grid == [finite : BOOLEAN, err : Nat, amp : Nat, local : BOOLEAN]
Sample == [open : Grid, closed : Grid, tail : BOOLEAN]

(* max_memory is in storage units, 0 when the cap is disabled.  scalar is  *)
(* kTailErrorSupported and low_degree is NCOEFFS <= 2.                     *)
Input == [max_depth : Int, min_uniform_depth : Int, max_memory : Nat,
          allow_max_depth_leaves : BOOLEAN, tol_kind : TolKinds,
          scalar : BOOLEAN, low_degree : BOOLEAN]

ASSUME ConstantsOK ==
  /\ InputDim \in Nat \ {0} /\ 2 ^ InputDim \in Nat \ {0}
  /\ Samples \subseteq Sample
  /\ Tol \in Nat
  /\ Inputs \subseteq Input
  /\ Bins \subseteq Nat
  /\ Before \subseteq [pool : Seq(Seq(Nat)), scale : Nat]
  /\ SizePoly \in Nat /\ SizeNode \in Nat
  /\ MaxTableBits \in Nat
  /\ kLeafSentinel \in Nat

NChild == 2 ^ InputDim

VARIABLES
  input,             \* the TreeInput of the running fit
  max_abs_f,         \* its mutable member: running max|f| of the whole fit
  polyfits,          \* shared pool of leaf polynomials: the panel of each
  start,             \* ghost: pool size and max_abs_f when the subtree began
  q,                 \* BFS queue of panels
  nodes,             \* nodes_, with the panel and its measurement as ghosts
  curr_child_idx,
  max_depth_,
  left,              \* iterations left of the loop over the level
  at_max_depth,      \* const locals of the level
  force_subdivide,
  panels,            \* non_converged_panels_
  leaf_table,        \* leaf id of every cell, empty when there is no table
  pc                 \* "head", "level", "built", or the exception thrown

treeVars == << start, q, nodes, curr_child_idx, max_depth_, left, at_max_depth,
               force_subdivide, panels, leaf_table, pc >>
vars == << input, max_abs_f, polyfits, treeVars >>

-----------------------------------------------------------------------------
(* Panels.                                                                 *)

Box == Seq(Nat)
Depth(b) == Len(b) - 1
Child(b, c) == Append(b, c)
ChildrenButLast(b) == [i \in 1 .. NChild - 1 |-> Child(b, i - 1)]
Children(b) == [i \in 1 .. NChild |-> Child(b, i - 1)]

Larger(a, b) == IF a < b THEN b ELSE a

NoCast(n) == n
(* static_cast<std::uint32_t>                                              *)
Cast32(n) == n % (kLeafSentinel + 1)

IsLeaf(node) == node.first_child = kLeafSentinel

-----------------------------------------------------------------------------
(* Node::fit: the tolerance test and the running scale.                    *)

(* The kinds that read the tail coefficients instead of sampling; with at  *)
(* most two coefficients RelativeTail is replaced by sampled RelativeMax.  *)
LowDegree == input.tol_kind = "RelativeTail" /\ input.low_degree
UsesTail == input.tol_kind \in TailKinds /\ input.scalar /\ ~LowDegree
Kind == IF LowDegree THEN "RelativeMax" ELSE input.tol_kind
Unsupported == input.tol_kind \in TailKinds /\ ~input.scalar

PanelMax(s) == Larger(s.open.amp, s.closed.amp)
PanelScale(s) == Larger(max_abs_f, PanelMax(s))

GridExceedsIfFinite(g, scale) ==
  IF Kind = "RelativeMax" THEN g.err > Tol * scale ELSE g.local
GridExceeds(g, scale) ==
  \/ ~g.finite
  \/ IF Kind = "RelativeMax" THEN g.err > Tol * scale ELSE g.local

ExceedsTol(s) ==
  IF UsesTail THEN s.tail
  ELSE \E g \in {s.open, s.closed} : GridExceeds(g, PanelScale(s))

BothFinite(s) == s.open.finite /\ s.closed.finite

CommitUnlessRejected(s) ==
  IF ~UsesTail /\ Kind = "RelativeMax" /\ ~ExceedsTol(s)
  THEN PanelScale(s) ELSE max_abs_f
(* max_abs_f after sampling: raised by a RelativeMax check whose grids are *)
(* both finite, even when the panel is rejected.                           *)
CommittedScale(s) ==
  IF ~UsesTail /\ Kind = "RelativeMax" /\ BothFinite(s)
  THEN PanelScale(s) ELSE max_abs_f

(* The pool is popped back to n entries: rollback_and_fail, and the undo   *)
(* of a converged fit under uniform refinement.                            *)
NoPop(pool, n) == pool
PopTo(pool, n) == SubSeq(pool, 1, n)

(* The pool after Node::fit of panel b.                                    *)
FitPool(b, s) ==
  IF ExceedsTol(s) THEN PopTo(Append(polyfits, b), Len(polyfits))
  ELSE Append(polyfits, b)

Node(first_child, id, b, s) ==
  [first_child |-> first_child, poly_eval_id |-> id, box |-> b, seen |-> s]

-----------------------------------------------------------------------------
(* The breadth-first build.                                                *)

Init ==
  /\ input \in Inputs
  /\ \E b \in Before : polyfits = b.pool /\ max_abs_f = b.scale
  /\ start = [pool |-> Len(polyfits), scale |-> max_abs_f]
  /\ \E bin \in Bins : q = << <<bin>> >>
  /\ nodes = <<>>
  /\ curr_child_idx = 1
  /\ max_depth_ = 0
  /\ left = 0
  /\ at_max_depth = FALSE
  /\ force_subdivide = FALSE
  /\ panels = <<>>
  /\ leaf_table = <<>>
  /\ pc = "head"

(* The two flags that hold for a whole level.                              *)
AtMaxDepthLate == max_depth_ > input.max_depth
AtMaxDepth == max_depth_ = input.max_depth
ForceEvenAtMax == max_depth_ < input.min_uniform_depth
ForceSubdivide == max_depth_ < input.min_uniform_depth /\ ~AtMaxDepth

(* while (!q.empty()): the size of the level and its flags are fixed.      *)
StartLevel ==
  /\ pc = "head" /\ q # <<>>
  /\ left' = Len(q)
  /\ at_max_depth' = AtMaxDepth
  /\ force_subdivide' = ForceSubdivide
  /\ pc' = "level"
  /\ UNCHANGED << input, max_abs_f, polyfits, start, q, nodes, curr_child_idx,
                  max_depth_, panels, leaf_table >>

(* What every iteration of the loop over a level does: pop a panel, sample *)
(* it, commit the scale.                                                   *)
Visit(s) ==
  /\ pc = "level" /\ left > 0 /\ ~Unsupported
  /\ left' = left - 1
  /\ max_abs_f' = CommittedScale(s)
  /\ UNCHANGED << input, start, max_depth_, at_max_depth, force_subdivide,
                  leaf_table, pc >>

Leaf(id, s) == Node(kLeafSentinel, Cast32(id), Head(q), s)

(* The fit failed, or converged above the requested uniform depth; the     *)
(* pool is then back to what it was before the panel.                      *)
Rejected(s) == ExceedsTol(s) \/ force_subdivide
PoolAfterReject(s) == PopTo(FitPool(Head(q), s), Len(polyfits))

(* The fit meets the tolerance and may stay: a leaf.                       *)
AcceptLeaf(s) ==
  /\ Visit(s)
  /\ ~Rejected(s)
  /\ polyfits' = FitPool(Head(q), s)
  /\ nodes' = Append(nodes, Leaf(Len(polyfits), s))
  /\ q' = Tail(q)
  /\ UNCHANGED << curr_child_idx, panels >>

(* A failing panel of the last allowed level: recorded, and fitted again   *)
(* as a best-effort leaf (force_fit_as_leaf).                              *)
ForceLeaf(s) ==
  /\ Visit(s)
  /\ Rejected(s) /\ at_max_depth
  /\ panels' = Append(panels, [box |-> Head(q), depth |-> max_depth_])
  /\ polyfits' = Append(PoolAfterReject(s), Head(q))
  /\ nodes' = Append(nodes, Leaf(Len(polyfits') - 1, s))
  /\ q' = Tail(q)
  /\ UNCHANGED curr_child_idx

AfterLastChild == curr_child_idx + NChild - 1
(* curr_child_idx += n_child                                               *)
AfterChildren == curr_child_idx + NChild

(* A rejected panel above the last level: its children are queued.         *)
Subdivide(s) ==
  /\ Visit(s)
  /\ Rejected(s) /\ ~at_max_depth
  /\ polyfits' = PoolAfterReject(s)
  /\ nodes' = Append(nodes, Node(Cast32(curr_child_idx), kLeafSentinel, Head(q), s))
  /\ curr_child_idx' = AfterChildren
  /\ q' = Tail(q) \o Children(Head(q))
  /\ UNCHANGED panels

(* Node::fit throws on a tail kind of an array-valued or ND fit.  The tree *)
(* is lost; the caller's pool keeps the polynomial of the panel.           *)
RejectTolKind ==
  /\ pc = "level" /\ left > 0 /\ Unsupported
  /\ polyfits' = Append(polyfits, Head(q))
  /\ pc' = "UnsupportedTolKind"
  /\ UNCHANGED << input, max_abs_f, start, q, nodes, curr_child_idx,
                  max_depth_, left, at_max_depth, force_subdivide, panels,
                  leaf_table >>

(* The end of a level: the next depth and the memory check, both only when *)
(* the queue holds another level.                                          *)
Used == Len(polyfits) * SizePoly + Len(nodes) * SizeNode
OverBudget == input.max_memory > 0 /\ q # <<>> /\ Used > input.max_memory
EndLevel ==
  /\ pc = "level" /\ left = 0
  /\ max_depth_' = IF q # <<>> THEN max_depth_ + 1 ELSE max_depth_
  /\ pc' = IF OverBudget THEN "MemoryBudgetExceeded" ELSE "head"
  /\ UNCHANGED << input, max_abs_f, polyfits, start, q, nodes, curr_child_idx, left,
                  at_max_depth, force_subdivide, panels, leaf_table >>

(* get_node_index towards a point inside cell, given as the child taken at *)
(* each level: the 0-based index of the leaf that holds it.                *)
Descend(cell) ==
  LET at[i \in 0 .. Len(cell)] ==
        IF i = 0 THEN 0
        ELSE LET node == nodes[at[i - 1] + 1]
             IN  IF IsLeaf(node) THEN at[i - 1]
                 ELSE node.first_child + cell[i]
  IN  at[Len(cell)]

Cells == [1 .. max_depth_ -> 0 .. NChild - 1]

HasTable == max_depth_ > 0 /\ InputDim * max_depth_ <= MaxTableBits

CellLeafOfParent(cell) ==
  nodes[Descend(SubSeq(cell, 1, Len(cell) - 1)) + 1].poly_eval_id
(* The table entry of a cell: the leaf found towards the cell's centre.    *)
CellLeaf(cell) == nodes[Descend(cell) + 1].poly_eval_id

(* The BFS is over: a shallow subtree gets its leaf table.                 *)
BuildLeafTable ==
  /\ pc = "head" /\ q = <<>>
  /\ leaf_table' =
       IF HasTable THEN [cell \in Cells |-> CellLeaf(cell)] ELSE <<>>
  /\ pc' = "built"
  /\ UNCHANGED << input, max_abs_f, polyfits, start, q, nodes, curr_child_idx,
                  max_depth_, left, at_max_depth, force_subdivide, panels >>

Next ==
  \/ StartLevel
  \/ \E s \in Samples : AcceptLeaf(s)
  \/ \E s \in Samples : ForceLeaf(s)
  \/ \E s \in Samples : Subdivide(s)
  \/ RejectTolKind
  \/ EndLevel
  \/ BuildLeafTable

Spec == Init /\ [][Next]_vars

-----------------------------------------------------------------------------
(* Correctness.                                                            *)

(* Every variable stays in its domain; the links and the pool indices of a *)
(* node fit an uint32.                                                     *)
TypeOK ==
  /\ input \in Input
  /\ max_abs_f \in Nat
  /\ polyfits \in Seq(Box)
  /\ start \in [pool : Nat, scale : Nat]
  /\ q \in Seq(Box)
  /\ nodes \in Seq([first_child : 0 .. kLeafSentinel,
                    poly_eval_id : 0 .. kLeafSentinel, box : Box, seen : Sample])
  /\ curr_child_idx \in Nat
  /\ max_depth_ \in Nat
  /\ left \in Nat
  /\ at_max_depth \in BOOLEAN /\ force_subdivide \in BOOLEAN
  /\ panels \in Seq([box : Box, depth : Nat])
  /\ pc \in {"head", "level", "built", "MemoryBudgetExceeded", "UnsupportedTolKind"}

(* The 32-bit links of the nodes and of the pool have not overflowed.      *)
Fits32 == curr_child_idx <= kLeafSentinel /\ Len(polyfits) <= kLeafSentinel

(* The panel that has, or will have, the 0-based node index i.             *)
Planned == Len(nodes) + Len(q)
PanelAt(i) ==
  IF i < Len(nodes) THEN nodes[i + 1].box ELSE q[i + 1 - Len(nodes)]

LeafNodes == {i \in 1 .. Len(nodes) : IsLeaf(nodes[i])}

(* curr_child_idx is handed out before the children exist: whatever the    *)
(* mix of leaves and interior nodes of a level, child c of a node is the   *)
(* panel queued for index first_child + c.                                 *)
ChildLinks ==
  Fits32 => \A i \in 1 .. Len(nodes) \ LeafNodes : \A c \in 0 .. NChild - 1 :
    /\ nodes[i].first_child + c < Planned
    /\ PanelAt(nodes[i].first_child + c) = Child(nodes[i].box, c)

(* Each leaf owns the pool entry fitted on its own panel, leaves are       *)
(* numbered in the order of the search, and no entry that a rejected or    *)
(* rolled-back fit left behind stays in the pool.                          *)
LeafPool ==
  Fits32 /\ pc # "UnsupportedTolKind" =>
    /\ \A i \in LeafNodes :
         /\ nodes[i].poly_eval_id \in start.pool .. Len(polyfits) - 1
         /\ polyfits[nodes[i].poly_eval_id + 1] = nodes[i].box
    /\ \A i, j \in LeafNodes :
         i < j => nodes[i].poly_eval_id < nodes[j].poly_eval_id
    /\ \A k \in start.pool .. Len(polyfits) - 1 :
         \E i \in LeafNodes : nodes[i].poly_eval_id = k

(* No leaf lies below max_depth, and none above min_uniform_depth unless   *)
(* max_depth stopped it.  A negative max_depth is never reached: no bound. *)
LeafDepth ==
  Fits32 => \A i \in LeafNodes :
    LET depth == Depth(nodes[i].box)
    IN  /\ input.max_depth >= 0 => depth <= input.max_depth
        /\ depth >= input.min_uniform_depth \/ depth = input.max_depth

(* The running scale is the loudest of the value the subtree inherited and *)
(* of every finite panel it sampled, rejected and rolled-back panels       *)
(* included, non-finite ones excluded; the other kinds never touch it.     *)
Heard ==
  IF UsesTail \/ Kind # "RelativeMax" THEN {}
  ELSE {i \in 1 .. Len(nodes) : BothFinite(nodes[i].seen)}
ScaleIsLoudest ==
  /\ max_abs_f >= start.scale
  /\ \A i \in Heard : max_abs_f >= PanelMax(nodes[i].seen)
  /\ max_abs_f = start.scale \/ \E i \in Heard : max_abs_f = PanelMax(nodes[i].seen)

(* A leaf that is not reported as non-converged meets the tolerance, on    *)
(* both grids, against the scale the fit ends with, though it was judged   *)
(* against the smaller scale of its own turn; no non-finite panel passes.  *)
Reported == {panels[k].box : k \in 1 .. Len(panels)}
Meets(g) ==
  /\ g.finite
  /\ IF Kind = "RelativeMax" THEN g.err <= Tol * max_abs_f ELSE ~g.local
Accurate ==
  Fits32 => \A i \in LeafNodes : nodes[i].box \notin Reported =>
    IF UsesTail THEN ~nodes[i].seen.tail
    ELSE Meets(nodes[i].seen.open) /\ Meets(nodes[i].seen.closed)

(* What is reported as non-converged, each panel once, is a leaf at        *)
(* max_depth that fails its own test (under RelativeMax a louder panel may *)
(* since have excused it), never one that uniform refinement rolled back.  *)
PanelsExact ==
  \A k \in 1 .. Len(panels) :
    /\ panels[k].depth = input.max_depth /\ Depth(panels[k].box) = input.max_depth
    /\ \A m \in 1 .. k - 1 : panels[m].box # panels[k].box
    /\ \E i \in 1 .. Len(nodes) :
         /\ nodes[i].box = panels[k].box
         /\ Fits32 => i \in LeafNodes
         /\ Kind = "RelativeMax" \/ ExceedsTol(nodes[i].seen)

IsPrefix(a, b) == Len(a) <= Len(b) /\ SubSeq(b, 1, Len(a)) = a

(* The leaf table sends every cell to the one leaf whose panel holds it,   *)
(* also when the cell is smaller than the leaf.                            *)
TableCovers ==
  pc = "built" /\ Fits32 /\ HasTable =>
    \A cell \in Cells :
      /\ leaf_table[cell] \in start.pool .. Len(polyfits) - 1
      /\ IsPrefix(polyfits[leaf_table[cell] + 1], <<nodes[1].box[1]>> \o cell)

(* The boxes still queued and the leaves tile the root box.                *)
Tiling == INSTANCE Tiling WITH
  NChild <- NChild,
  RootSets <- {{<<bin>>} : bin \in Bins},
  open <- {q[k] : k \in 1 .. Len(q)},
  closed <- {nodes[i].box : i \in {j \in 1 .. Len(nodes) : nodes[j].poly_eval_id # kLeafSentinel}}
ImplementsTiling == Tiling!Spec
=============================================================================
