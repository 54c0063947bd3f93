----------------------------- MODULE FunctionFit -----------------------------
(***************************************************************************)
(* A whole fit: the constructor of Function (detail/function.hpp) with the *)
(* subtrees it builds one after the other.  It probes the domain once, cuts *)
(* it into bins, builds a PolyTree for each into the one pool polyfits_,   *)
(* and decides at the end whether the panels that did not converge are an  *)
(* error.  The running scale lives in the TreeInput and is shared by all.  *)
(***************************************************************************)
EXTENDS PolyTree, FiniteSets

CONSTANT TotalBins  \* values of n_subtrees_.prod() the domains may give

ASSUME FunctionConstants == TotalBins \subseteq Nat \ {0}

VARIABLES
  total_bins,            \* n_subtrees_.prod()
  base_depth,            \* stats_.base_depth
  subtrees,              \* subtrees_: the finished trees
  non_converged_panels,  \* non_converged_panels_ of the Function
  phase                  \* "probe", "bins", "tree", "fitted", or the exception

fitVars == << total_bins, base_depth, subtrees, non_converged_panels, phase >>
allVars == << vars, fitVars >>

Exceptions == {"MaxDepthExceeded", "MemoryBudgetExceeded", "UnsupportedTolKind"}

-----------------------------------------------------------------------------

(* The loop's own panel of the whole domain.                               *)
Domain == <<>>

FitInit ==
  /\ input \in Inputs
  /\ max_abs_f = 0
  /\ polyfits = <<>>
  /\ start = [pool |-> 0, scale |-> 0]
  /\ q = <<>> /\ nodes = <<>> /\ panels = <<>> /\ leaf_table = <<>>
  /\ curr_child_idx = 1 /\ max_depth_ = 0 /\ left = 0
  /\ at_max_depth = FALSE /\ force_subdivide = FALSE
  /\ pc = "built"
  /\ total_bins \in TotalBins
  /\ base_depth = 0
  /\ subtrees = <<>>
  /\ non_converged_panels = <<>>
  /\ phase = "probe"

(* The node the search over the domain fits into a throw-away pool: the    *)
(* fit never links children, and its id is reset.                          *)
ProbedNode(s) == Node(kLeafSentinel, 0, Domain, s)
ProbeQueue(s) == IF IsLeaf(ProbedNode(s)) THEN <<>> ELSE Children(Domain)
LevelIsFull(queue) == Len(queue) = 2 ^ (InputDim * (base_depth + 1))

(* One level of that search.  It goes on only below a full level, which    *)
(* becomes the grid of bins.                                               *)
ProbeRoot(s) ==
  LET full == LevelIsFull(ProbeQueue(s))
  IN  /\ phase = "probe" /\ ~Unsupported
      /\ max_abs_f' = CommittedScale(s)
      /\ base_depth' = IF full THEN base_depth + 1 ELSE base_depth
      /\ total_bins' = IF full THEN total_bins * NChild ELSE total_bins
      /\ phase' = IF full THEN IF base_depth' > input.max_depth
                               THEN "MaxDepthExceeded" ELSE "probe"
                  ELSE "bins"
      /\ UNCHANGED << input, polyfits, treeVars, subtrees, non_converged_panels >>

ProbeRejects ==
  /\ phase = "probe" /\ Unsupported
  /\ phase' = "UnsupportedTolKind"
  /\ UNCHANGED << vars, total_bins, base_depth, subtrees, non_converged_panels >>

MoreBinsInclusive == Len(subtrees) <= total_bins
MoreBins == Len(subtrees) < total_bins

(* The next bin: a PolyTree is constructed on its box, with max_depth      *)
(* relative to base_depth (input_local).                                   *)
BeginSubtree ==
  /\ phase = "bins" /\ MoreBins
  /\ input' = [input EXCEPT !.max_depth = @ - (IF subtrees = <<>> THEN base_depth ELSE 0)]
  /\ start' = [pool |-> Len(polyfits), scale |-> max_abs_f]
  /\ q' = << <<Len(subtrees)>> >>
  /\ nodes' = <<>> /\ panels' = <<>> /\ leaf_table' = <<>>
  /\ curr_child_idx' = 1 /\ max_depth_' = 0 /\ left' = 0
  /\ at_max_depth' = FALSE /\ force_subdivide' = FALSE
  /\ pc' = "head"
  /\ phase' = "tree"
  /\ UNCHANGED << max_abs_f, polyfits, total_bins, base_depth, subtrees,
                  non_converged_panels >>

TreeStep == phase = "tree" /\ Next /\ UNCHANGED fitVars

ScaleCopied == start.scale
(* The TreeInput is passed by reference and its scale outlives the subtree. *)
ScaleAfterBin == max_abs_f

EndSubtree ==
  /\ phase = "tree" /\ pc = "built"
  /\ subtrees' = Append(subtrees, [nodes |-> nodes, panels |-> panels])
  /\ max_abs_f' = ScaleAfterBin
  /\ phase' = "bins"
  /\ UNCHANGED << input, polyfits, treeVars, total_bins, base_depth,
                  non_converged_panels >>

(* An exception of the constructor passes through.                         *)
SubtreeThrows ==
  /\ phase = "tree" /\ pc \in Exceptions
  /\ phase' = pc
  /\ UNCHANGED << vars, total_bins, base_depth, subtrees, non_converged_panels >>

LastPanels == IF subtrees = <<>> THEN <<>> ELSE subtrees[Len(subtrees)].panels
(* The panels of all subtrees, in the order of the bins.                   *)
AllPanels ==
  LET upto[k \in 0 .. Len(subtrees)] ==
        IF k = 0 THEN <<>> ELSE upto[k - 1] \o subtrees[k].panels
  IN  upto[Len(subtrees)]

(* After the last bin: throw, or keep the panels for introspection.        *)
Finish ==
  /\ phase = "bins" /\ ~MoreBins
  /\ non_converged_panels' = AllPanels
  /\ phase' = IF AllPanels # <<>> /\ ~input.allow_max_depth_leaves
              THEN "MaxDepthExceeded" ELSE "fitted"
  /\ UNCHANGED << vars, total_bins, base_depth, subtrees >>

FitNext ==
  \/ \E s \in Samples : ProbeRoot(s)
  \/ ProbeRejects
  \/ BeginSubtree
  \/ TreeStep
  \/ EndSubtree
  \/ SubtreeThrows
  \/ Finish

FitSpec == FitInit /\ [][FitNext]_allVars

-----------------------------------------------------------------------------
(* Correctness.                                                            *)

LeavesOf(tree) == {tree.nodes[i] : i \in {j \in 1 .. Len(tree.nodes) : IsLeaf(tree.nodes[j])}}
BuiltLeaves == UNION {LeavesOf(subtrees[k]) : k \in 1 .. Len(subtrees)}
Ended == phase \in Exceptions \cup {"fitted"}

FitTypeOK ==
  /\ total_bins \in TotalBins
  /\ base_depth \in Nat
  /\ subtrees \in Seq([nodes : Seq([first_child : 0 .. kLeafSentinel,
                                   poly_eval_id : 0 .. kLeafSentinel,
                                   box : Box, seen : Sample]),
                      panels : Seq([box : Box, depth : Nat])])
  /\ Len(subtrees) <= total_bins
  /\ non_converged_panels \in Seq([box : Box, depth : Nat])
  /\ phase \in {"probe", "bins", "tree", "fitted"} \cup Exceptions

(* The 32-bit links of no subtree, nor those of the pool, have overflowed. *)
FitFits32 ==
  /\ Len(polyfits) <= kLeafSentinel
  /\ \A k \in 1 .. Len(subtrees) : Len(subtrees[k].nodes) <= kLeafSentinel

(* The leaf ids of a fit number the pool: every entry is the polynomial of *)
(* one leaf of one subtree, fitted on its panel, and the entries of a bin  *)
(* come before those of the next.                                          *)
PoolNumbersLeaves ==
  FitFits32 /\ phase \in {"bins", "fitted"} =>
    /\ Cardinality(BuiltLeaves) = Len(polyfits)
    /\ \A leaf \in BuiltLeaves :
         /\ leaf.poly_eval_id < Len(polyfits)
         /\ polyfits[leaf.poly_eval_id + 1] = leaf.box
    /\ \A k, m \in 1 .. Len(subtrees) : k < m =>
         \A a \in LeavesOf(subtrees[k]), b \in LeavesOf(subtrees[m]) :
           a.poly_eval_id < b.poly_eval_id

(* MaxDepthExceeded is raised only when every bin has been built, and its  *)
(* panels are those of all the bins, not of the first one that failed.     *)
(* Without allow_max_depth_leaves a fit that returns has no forced leaf.   *)
Failing == {leaf \in BuiltLeaves : Depth(leaf.box) = input.max_depth /\ ExceedsTol(leaf.seen)}
PanelsOfEveryBin ==
  phase \in {"MaxDepthExceeded", "fitted"} =>
    LET reported == {non_converged_panels[k].box : k \in 1 .. Len(non_converged_panels)}
    IN  /\ Len(subtrees) = total_bins
        /\ {leaf.box : leaf \in Failing} \subseteq reported
        /\ Len(non_converged_panels) = Cardinality(reported)
        /\ phase = "MaxDepthExceeded" <=> reported # {} /\ ~input.allow_max_depth_leaves

(* Every leaf of a fit that succeeds meets the tolerance against the scale *)
(* of the whole fit, wherever the loudest panel was met: in the probe, in  *)
(* an earlier bin or in a later one.                                       *)
FitAccurate ==
  FitFits32 /\ phase = "fitted" /\ ~input.allow_max_depth_leaves /\ ~UsesTail =>
    \A leaf \in BuiltLeaves :
      Meets(leaf.seen.open) /\ Meets(leaf.seen.closed)

Begun ==
  IF phase \in {"tree", "MemoryBudgetExceeded"} THEN Len(subtrees) + 1 ELSE Len(subtrees)

(* The fit tiles the union of the bins.                                    *)
FitTiling == INSTANCE Tiling WITH
  NChild <- NChild,
  RootSets <- {{<<b>> : b \in 0 .. n - 1} : n \in TotalBins},
  open <- {q[k] : k \in 1 .. Len(q)} \cup
            {<<b>> : b \in Begun .. total_bins - 1},
  closed <- {leaf.box : leaf \in BuiltLeaves} \cup
            {nodes[i].box : i \in {j \in 1 .. Len(nodes) : nodes[j].poly_eval_id # kLeafSentinel}}
ImplementsFitTiling == FitTiling!Spec

(* treeweave.hpp: max_memory is the hard cap on accumulated leaf storage,  *)
(* nodes plus polynomial data, and crossing it throws.                     *)
NodeCount ==
  LET upto[k \in 0 .. Len(subtrees)] ==
        IF k = 0 THEN 0 ELSE upto[k - 1] + Len(subtrees[k].nodes)
  IN  upto[Len(subtrees)]
HardCap ==
  phase = "fitted" /\ input.max_memory > 0 =>
    Len(polyfits) * SizePoly + NodeCount * SizeNode <= input.max_memory

(* function.hpp: the search over the domain exits as soon as a level is    *)
(* not entirely parent nodes.                                              *)
SkipsFullLevels ==
  phase = "fitted" /\ input.max_depth > 0 /\ input.tol_kind = "AbsoluteMax" =>
    ((\A k \in 1 .. Len(subtrees) : ~IsLeaf(subtrees[k].nodes[1])) => base_depth > 0)
=============================================================================
