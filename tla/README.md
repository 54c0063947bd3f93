# treeweave in TLA+

Specifications, model-checking runs and proofs for treeweave, a C++20 library
that fits a function on a box by adaptive piecewise polynomials and evaluates
the fit on single points and on batches. Paths below are relative to
`include/treeweave/` unless they say otherwise.

## 1. Inventory

| Component | State it keeps | Operations | What makes it correct |
|---|---|---|---|
| PolyTree build, `detail/polytree.hpp`, `node.hpp`, `numerics.hpp` | BFS queue, `nodes_`, `curr_child_idx`, `max_depth_`, `non_converged_panels_`, `leaf_table_`; the caller's pool `polyfits` and running `max_abs_f` | constructor, `Node::fit`, `force_fit_as_leaf` | nodes link to their own children, leaves and pool entries correspond, every leaf meets the tolerance or is reported, the leaves tile the box, the table agrees with the tree |
| Function fit, `detail/function.hpp` 327-489 | `n_subtrees_`, `base_depth`, `subtrees_`, `polyfits_`, `non_converged_panels_` | constructor | ids number one pool over all subtrees, panels of all bins are reported, one scale for the fit, memory cap |
| Leaf lookup, `polytree.hpp` 198-304, `quantize.hpp`, `function.hpp` 492-533, 933-970 | none (reads the tree) | `find_leaf_id`, `quantize_one`, `leaf_id_of`, `get_linear_bin`, SIMD lanes | both lookups and all lanes give one id; out-of-domain and NaN give the sentinel; the closed upper end belongs to the last leaf |
| Sorted evaluation, `function.hpp` 88-177, 822-879 | cursors `i j k step`, `first_nan`, `scanned` | `for_each_sorted_run_1d`, `sorted` | every point in one run, every run in one leaf; ends |
| Batch evaluation, `function.hpp` 550-780, 976-1283, `quantize.hpp` 245-265 | `Scratch` (`counts`, `perm_inv`, `xp_packed`, `out_packed`, `leaf_ids`, `tile_cap_`), tile offset | `operator()(xp, res, n)`, AoS and SoA | the same answers as a pointwise evaluation, in the caller's order |
| Guru layer, `guru.hpp` | caller's scratch | `histogram`, `exclusive_scan`, `scatter`, `counting_sort`, `gather`, `eval_leaf`, `for_each_run`, `LaneQuantizer` | the stages hand each other one array in three roles; rank is a stable permutation of this batch and nothing of an earlier one shows; the lanes give the ids of the scalar lookup |
| `eval_scatter.hpp` | caller's `counts`, `perm` | `eval_scatter_sorted`, two overloads | zeroed counts on entry, one fit per id, answers back in the caller's order |
| Fit front end, `treeweave.hpp` | none | `fit`, `midpoint`, `half_length`, `make_input`, adaptors | the domain of the fit is the domain the caller named |
| C API, `src/capi/treeweave.cpp` | opaque handles and the evaluators they own, one error string per thread | fit, four kinds of evaluation, by-value forms, queries, last error, free; two element types | an error text belongs to the last call of its own thread; a handle is read through its own type; nothing escapes or leaks |
| Architecture dispatch, `src/capi/arch_dispatch.cpp` | environment override | kernel selection at the end of a fit | the widest rung the machine runs, or the forced one if it runs |
| Bindings, `bindings/` | an object per handle, a latch per fit for the exception of a callback | fit with a trampoline, evaluation, free, finalizer | a handle has one owner, which frees it once, the first exception of a callback surfaces, a value is the answer of an evaluation |

**Interaction.** A fit is one thread of control: `Function`'s constructor
probes the domain, cuts it into bins and constructs one `PolyTree` per bin.
All of them append to one pool by reference, and share the running scale
`max_abs_f`, a `mutable` member of the options. The user's function is called
synchronously. A finished fit is immutable: batch and sorted evaluation read
it and keep their state in buffers of the call. Leaf ids, the indices of the
pool, are what the two halves of the library agree on.

A callback may call the C interface again, from within a fit; every binding
does its work around one such callback, the trampoline.

**What is hard here.** In the core, not concurrency: the library has no locks,
no threads and no persistence, and evaluations share nothing. The difficulty
is in long sequences of steps over shared mutable data: indices handed out
before the node exists, polynomials appended and rolled back while ids are
being given, a scale that later panels still change, one array used as
histogram, start and cursor over several tiles or calls, a galloping search
over data with NaNs in it, limits that are only looked at between levels, and
boundaries that several formulas round differently. At the C interface and in
the bindings it is re-entry, the thread-local error text, two owners of one
handle, and failures at the second of two steps. `PROJECT.json` lists each of
these hazards at its line with the properties that would show it.

## 2. Modules

| Module | Models |
|---|---|
| `Tiling` | abstract: a panel is closed for good, or replaced by all of its children |
| `PolyTree` | the constructor of one subtree, one action per turn of its loops |
| `FunctionFit` | extends `PolyTree` by the constructor of `Function` around it |
| `FunctionFit_proofs` | theorems about `PolyTree`, and about `FunctionFit` on top of them |
| `SortedWalk` | `for_each_sorted_run_1d`, one action per turn of each loop |
| `SortedWalk_proofs` | theorems about `SortedWalk` |
| `Pointwise` | abstract: every position of a batch gets the answer of its own point, once |
| `BatchEval` | `eval_batch`, `eval_batch_soa` and their tiles |
| `BatchEval_proofs` | theorems about `BatchEval` |
| `LeafLookup` | table, descent, bins and SIMD lanes: from a point to its leaf id |
| `LeafLookup_proofs` | theorems about `LeafLookup` |
| `FitDomain` | the corners of a fit through floating point, down to the cell of a point |
| `FitDomain_proofs` | theorems about `FitDomain`, for every precision |
| `CountingSort` | the stages of `guru.hpp` and `eval_scatter.hpp` on buffers that outlive the calls |
| `CountingSort_proofs` | theorems about `CountingSort` |
| `Powers` | powers of two and binary lengths, shared by `LeafLookup` and `FitDomain` |
| `CountingLemmas` | lemmas: induction over a set of naturals, division, recursion over an interval, powers of two, counts over an interval, stable counting sort |
| `CApi` | the C interface: threads, handles, evaluators, error texts, kernel selection |
| `Bindings` | extends `CApi` by the Python, JavaScript (N-API, WASM), Julia, MATLAB and C/Fortran hosts |
| `Bindings_proofs` | theorems about `CApi`, and about `Bindings` on top of them |
| `MC*` | small instances for TLC |

`PolyTree` implements `Tiling`; `FunctionFit` composes `PolyTree` with the
constructor around it and implements `Tiling` over the bins; `BatchEval` and
`CountingSort` implement `Pointwise`; `Bindings` composes every host with
`CApi`. `LeafLookup` justifies what `SortedWalk` and `BatchEval` take for
granted, that a point has one leaf; `FitDomain` justifies what `LeafLookup`
takes for granted, that rounding is felt only at a boundary.

**PolyTree.** A panel is the path that leads to it, `<<bin, c1, c2, ...>>`; its
geometry is never needed. What sampling the function on a panel can tell the
acceptance test is a record (`Sample`): for the open and the closed grid,
whether every error was finite, the largest error, the largest `|f|`, and
whether the error exceeds the tolerance under the panel's own normalisation
(absolute, L2, pointwise); plus the verdict of the tail test. Each panel draws
its record freely, so the model covers every function whose panels measure
like that. `AcceptLeaf`, `ForceLeaf` and `Subdivide` are the three ends of one
turn of the loop, with `Node::fit`, its roll-back and the commit of the running
scale inside; `StartLevel` and `EndLevel` are what happens around a level
(flags, depth, memory check); `RejectTolKind` is the exception of `Node::fit`;
`BuildLeafTable` is the end of the constructor. `nodes[i].box`,
`nodes[i].seen` and `start` are ghosts. A 32-bit link is `Cast32`, with the
largest value as the leaf marker, as in the code; past `Fits32` the code's
links are not meaningful and the properties about links say so.

**FunctionFit.** `ProbeRoot` is one level of the search over the domain,
`BeginSubtree` and `EndSubtree` surround the steps of a `PolyTree`
(`TreeStep`), `SubtreeThrows` lets its exceptions pass, `Finish` gathers the
panels and throws or returns.

**SortedWalk.** Coordinates are integers and a leaf owns an interval of them;
NaN is a value no comparison accepts. `calls` records what the callback was
given.

**BatchEval.** Arrays are functions from 0, a value is the triple of leaf,
point and component, so that two polynomials never agree by accident. The
scratch is garbage until written. Slots of `res` and `out_packed` are flat
addresses in both layouts. The loops of the 1D and ND, table and descent
variants differ in whether ids are stored between the passes (`table`). A
kernel call on a leaf is one step; so is the NaN fill, the last turn of
`Dispatch`. Prefetches are left out.

**LeafLookup.** Init chooses a fit (bins per axis, the splits of every
subtree, the largest table) and a batch; the variables are those of one call of
`leaf_ids`: the register loop, then the tail. Every other lookup (scalar table,
descent, bins, guru lanes) is an operator on the fit. Boundaries are even
integers. Rounding down at a boundary, the result of an out-of-range
conversion (x86 or arm) and the lane kind of the build are choices made by
Init. `reads` records the table entries a step loads. Indices are mixed-radix
numbers (`Horner`, `Peeled`, `Shifted`), written as recursive functions over the
axes so that they can be reasoned about. `LookupConstants` asks that the panels
and cells of a fit and the middles of both are whole numbers, and that a table
has fewer bits than the integer of a lane (the code: 16 against 32 or 64).

**FitDomain.** A float is a pair of significand and exponent, and `Plus`,
`Times`, `Over` round to nearest even. `MakeBox` is `midpoint` and
`half_length`, `MakeBins` and `MakeSubtrees` are the constructor, `Locate` is
one point of an ascending batch. One axis is enough: no formula here mixes
axes. Exponents have no bounds, so nothing overflows or becomes subnormal, and
contraction of a product and a sum into one rounding is not modelled. Significands
of 24 or 53 bits are out of TLC's reach; they are what the proofs are for.

**CountingSort.** One action per turn of each loop. `mode` says whether the
caller runs `counting_sort`, counts its keys itself, or calls
`eval_scatter_sorted`; the buffers keep what the last call left in them. Points
of two fits share one key space, as in the example program.

**CApi.** `stack[t]` is the fits that thread `t` is inside of. Every operation
is open to a thread between the start and the end of a fit, since the callback
may call any of them; an evaluation calls nothing back and is one step. A
reason is one of three classes (`refused`, `fit`, `alloc`): a text is told from
another only as far as a caller could be misled. `SetLastError` may fail to
store the text. `lost` and `last` are ghosts.

**Bindings.** `ctx[t]` holds the latch of each binding fit of `t`. It is one
longer than `stack[t]` between the return of the C call and that of the
binding, and that is when a finalizer may run (`Collect`). `Latch` is a
callback that raises; after it the trampoline answers NaN, so a fit succeeds
only under `allow_max_depth_leaves`. A handle that came back is wrapped by an
object (`Wrap`), or the allocation of the object fails and nothing has the
handle (`WrapFails`), or what follows it fails and the destructor frees the
handle on the way out (`Unwind`). An object goes by `Collect` where the host has
a finalizer, and by `Drop` in WASM, where it takes its handle with it. `seen` is
what the caller of the binding got, `abandoned` the live handles that nothing
can free any more; both are ghosts.

## 3. Runs and bounds

| Run | Checks | Bounds |
|---|---|---|
| `polytree` | links, pool, depths, scale, accuracy, reports, leaf table; implements `Tiling` | 1D, depth 2 (and unbounded depth under a memory cap), 4 kinds of panel, 8 option records, a first and a later subtree |
| `function_fit` | numbering over subtrees, reports, accuracy against the final scale; implements `Tiling` over the bins | 2D, depth 1, one or two bins, 3 kinds of panel, 4 option records |
| `sorted_walk` | `RunsPartition`, `RunsPure`, `Ends` | all ascending batches of 0, 1, 3 and 8 points with at most one NaN and of 6 with two, 3 leaves, one coordinate outside on each side |
| `batch_eval` | `Cursors`, `StablePacking`, `OwnPoints`, implements `Pointwise`, `Finishes` | all batches of 0, 1, 2, 3 and 5 points over 4 points, 3 leaves of which one is empty, tiles of 3, 2 components, both layouts, with and without stored ids |
| `leaf_lookup` | `OneId`, `ReadsTable`, `OwnPanel`, `TableIsDescent` | every tree of depth 3 on a line and depth 2 in the plane, one, two and six bins, tables of 2 to 4 bits and none, 4 lanes, every coordinate inside, some outside, infinities and NaN |
| `fit_domain` | `IndexInTable`, `NearOwnCell`, `AscendingCells` | 5-bit significands, every pair of 65 corners, 1 to 3 bins, 4 cells in each, every float of 5 binades as a point, cells of at least `MinWidth` = 3 ulps, `Slack` = 3 ulps |
| `counting_sort` | `CountsStage`, `Permutation`, implements `Pointwise` | two calls on the same buffers, 0, 1 or 3 points each, in each mode; two fits of 2 and 1 leaves, a point outside of each |
| `bindings` | `EvaluatorsOwned`, `Reported`, `TypedAnswers`, `RungRuns`, `HandlesOwned`, `AnswersEvaluated`, `SurfacesFirstError` | all 6 hosts, 2 handles, 2 evaluators, 2 objects, 2 exceptions, `MaxDepth` = 2 nested fits; 2 threads in C programs and in Julia (`Concurrent`), one (`Main`) elsewhere |
| `hard_cap`, `skips_full_levels`, `exceptions_cross`, `upper_corner` | one statement of the documentation each, which the code does not keep (section 6) | as above; `exceptions_cross` is `CApi` alone |

Why they are enough. *polytree*: depth 2 gives a level that mixes leaves and
parents above one that mixes leaves and forced leaves, which is where links,
ids and reports can part; `kLeafSentinel = 7` makes the 32-bit wrap happen
within the run. The samples include a panel that passes only against a louder
one, a loud one that fails, and one infinite on the closed grid only.
*function_fit*: two bins are the fewest with an earlier and a later one.
*sorted_walk*: eight points let the gallop take two strides beyond the cutoff,
overshoot the end, and jump over a NaN. *batch_eval*: five points in tiles of
three give a full tile, then a shorter one that finds the scratch dirty; two
points share a leaf, so stability is visible.

*leaf_lookup*: six bins on two axes are the fewest that tell the order of the
axes apart; one subtree unlike the others shows an id of the wrong bin; batches
are rotated so that every point meets the register loop and the tail.
*fit_domain*: nothing in the formulas depends on the number of bits, and five
leave room for cells wider than the rounding and narrower than a binade; below
three ulps per cell `IndexInTable` fails, which is the limit of what the code
can promise and is why `MinWidth` is a constant. *counting_sort*: the second
call finds every buffer dirty, and may be shorter than the first.
*bindings*: two nested fits, or one beside the calls of another thread
(`Bound`), are the fewest in which an error text, a latch or a handle can be
that of the wrong fit; two addresses make the allocator reuse one. A forced
rung that this machine cannot run is tried with every host, one it can with C
programs. The one question that a second thread of a host raises is whose error
text a fit reads. Julia is the host tried with such threads: the second one
calls as long as nothing is fitted, so that fits fail or raise on either, and a
thread that is alone has one evaluator. Other hosts and more of it are left to
`FirstErrorAlwaysSurfaces`, which holds for any number of threads.

Deadlock checking is off: every model of the core is one call that ends (or a
bounded number of calls), and a bounded allocator may leave a host nothing to do.

**Fairness.** `SortedWalk` and `BatchEval` assume weak fairness of `Next`: one
thread runs the loop and waits for nothing. `PolyTree` and `FunctionFit`
assume none and state no liveness: a build ends because `max_depth` is
finite, and with a negative `max_depth` and no cap it need not.

`CountingSort`, `LeafLookup`, `FitDomain`, `CApi` and `Bindings` assume none
and state no liveness: their loops are bounded counters, and a caller need not
call.

**Mutants.** Each checked property has a mutated form of a definition in its
module (`NoPop`, `ClearedOnce`, `SharedBuffer`, `Reopened`, ...) under which its
run fails. `TypeOK` of `SortedWalk`, `BatchEval`, `CountingSort` and `Bindings`
states the types for the reader and is not among the properties of a run.

## 4. Proofs

Every property of every passing run is a theorem, liveness excepted.
The theorems hold for every value of the constants that the named assumptions
of the modules allow; TLC evaluates those assumptions in every run.

**Induction.** The library's induction theorems take an operator and cannot be
used here. `CountingLemmas` proves the form that can: a set that has 0 and,
with every number, its successor contains `Nat` (`NatSetInduction`, from
`NatMin` and the well-foundedness of finite subsets). With it the recursive
functions `Descend` and `AllPanels` are shown to exist and to be what they say,
and `StableSort` is proved once for both counting sorts: the number of
smaller keys plus the number of equal keys before it is a stable permutation.

### PolyTree

From `ConstantsOK`, for every dimension, sample set, option record, pool and
word width:

| Theorem | Statement |
|---|---|
| `TypeCorrect` | `Spec => []TypeOK` |
| `ChildrenLinked` | `Spec => []ChildLinks` |
| `PoolMatchesLeaves` | `Spec => []LeafPool` |
| `DepthsBounded` | `Spec => []LeafDepth` |
| `ScaleTracksLoudest` | `Spec => []ScaleIsLoudest` |
| `LeavesAccurate` | `Spec => []Accurate` |
| `ReportsExact` | `Spec => []PanelsExact` |
| `TableComplete` | `Spec => []TableCovers` |
| `BuildTiles` | `Spec /\ [](Len(polyfits) <= kLeafSentinel) => ImplementsTiling` |

None of these is inductive alone. `IInv` adds `Level` and `Counted`. `Level`
says that the first `left` panels of the queue are of depth `max_depth_` and
the rest one deeper, and that the flags fixed at the head of the level are
still those of its depth; without it the depth of a new leaf is unknown.
`Counted` says that `curr_child_idx` is the number of nodes made plus the
number of panels queued: it is what makes an index handed out in advance the
right one. `LeafPool` is carried through each action by two lemmas on the pool:
popping back undoes the append, and a rejected fit leaves the pool as it was.
`Accurate` is inductive because the scale never decreases and a larger scale
only loosens the test. `IInvHolds` has one lemma per conjunct, each with one
step per action.

`PInv` adds that no panel is planned twice. `Distinct` alone is not inductive:
the children of a new panel are new because every panel but the root is a child
of a visited one (`Ancestry`) and none visited lies deeper than the level
(`Above`). `PanelsExact` and the refinement rest on it: a panel that leaves the
queue must not be queued elsewhere too. The hypothesis of `BuildTiles` is
needed. A leaf whose number is `kLeafSentinel` reads as an interior node, and
the tiling would lose it; it does not constrain `curr_child_idx`, since the
refinement mapping looks at polynomials and not at links. `TableCovers` follows
the descent level by level (`DescendFindsLeaf`): each step goes to the child
that `ChildLinks` puts there, and it ends in a leaf since no panel is deeper
than the table.

### FunctionFit

From `ConstantsOK` and `FunctionConstants`, for any number of bins:

| Theorem | Statement |
|---|---|
| `FitTyped` | `FitSpec => []FitTypeOK` |
| `LeavesNumberPool` | `FitSpec => []PoolNumbersLeaves` |
| `EveryBinReported` | `FitSpec => []PanelsOfEveryBin` |
| `FitMeetsTolerance` | `FitSpec => []FitAccurate` |
| `FitTiles` | `FitSpec /\ []FitFits32 => ImplementsFitTiling` |

`FInv` holds the tree under construction to `PInv` (`InTree`), with four facts
that a single tree does not need: all its panels lie in its bin, a finished
tree has an empty queue, a panel of the last level that is not reported passes
(at any width of the links), and only leaves have a polynomial. What is kept of a
finished tree is `Sound` (its panels, and that what it does not report passes
against the scale of the whole fit, which later bins may only raise) and
`Numbered` (its ids). `Numbered` speaks of the pool up to `Settled`: inside a
bin that is the size at which its tree began, so the numbers of the earlier
bins stay below those of the next. `ProbeStopsAtRoot` is why one grid of bins is
enough: the probed node never has children (section 6, 2).

`FitFits32`, which guards `PoolNumbersLeaves` and `FitAccurate` and is the
hypothesis of `FitTiles`, asks that the links of every subtree and the pool fit
32 bits. Asking it of the last subtree only, as
the model once did, is not enough: an earlier subtree with more nodes leaves a
wrapped link that reads as a leaf without a polynomial. With
`kLeafSentinel` = 5, one axis and two bins TLC finds such a fit.

### SortedWalk

From `WalkConstants`, for every fit, cutoff and ascending batch with any number
of NaNs: `CursorsInBatch` (`[]TypeOK`), `EveryPointOnce` (`[]RunsPartition`),
`RunsAlwaysPure` (`[]RunsPure`). `RunSoFar` is what the three phases of the
search know of the run: its points up to `j` have its leaf, and `j` does not
pass the end `k` that the search is closing in on. `NaNsHidden` is the hard
part: a comparison with NaN is false on both sides, so a gallop over points
nobody looked at is right only because the suffix was scanned first and no NaN
was found. The scan stops at a point above the domain, so a NaN that is left
lies behind such a point, and never between two points of one leaf.

### LeafLookup

From `LookupConstants`, for any number of axes, bins, subtrees of any shape and
depth, tables of any size, register width, batch, rounding and cast:

| Theorem | Statement |
|---|---|
| `LookupInvariant` | `Spec => []IInv` |
| `IdsTyped` | `Spec => []TypeOK` |
| `EveryPathOneId` | `Spec => []OneId` |
| `TableReadsInBounds` | `Spec => []ReadsTable` |
| `EveryPointInItsPanel` | `Spec => []OwnPanel` |
| `TableMatchesDescent` | `Spec => []TableIsDescent` |

The dynamics are short: `IInv` says that what has been written is the scalar
lookup of each point, and that the registers stop at a multiple of the lanes,
without which the last full register could run past the batch. The work is in
what a lookup returns.

- *Indices.* `HornerTable` and `DigitsBack`: the bins packed from the highest
  axis down are the bins `get_bins` takes apart again (`BinsBack`);
  `ShiftedTable` and `ShiftedDigits` say the same of the cell indices of the
  table and of the children of a panel. Both give the bounds of an index
  from the bounds of its digits.
- *Panels.* By induction on the path, a panel of depth `k` is as wide as the
  subtree halved `k` times and lies at a multiple of that width from its corner
  (`PanelAligned`), so that a cell, which is never wider, lies inside a panel
  or outside it (`PanelHoldsCell`).
- *Descent.* By induction on the level, the panel reached holds the point and
  ends in a leaf (`Descends`). Two points that are on the same side of every
  middle they meet reach the same leaf (`SameDescent`); an odd point and the
  centre of its cell are two such points (`TableCell`), which is
  `TableIsDescent`.
- *Boundaries.* `FloorQFacts` is all that is used of a rounded product: it is the
  cell of the point, or the one before it if the point is on its lower end. Both
  closed cells hold the point, so `OwnPanel` holds for every choice of rounding.
- *Lanes.* `UnsignedClampType`: after the unsigned clamp any integer indexes the
  table, NaN and overflow included; inside the domain the clamp changes
  nothing that the scalar lookup would not (`LaneFacts`).

### FitDomain

From `FitDomainConstants`, for every precision, any corners, any numbers of
bins, tables of any depth and any ascending batch. The last three ask that a cell
be at least 64 ulps of the larger corner wide (`MinWidth >= 64`), `NearOwnCells`
also that `Slack` be at least 18:

| Theorem | Statement |
|---|---|
| `DomainInvariantHolds` | `Spec => []DomainInvariant` |
| `IndicesInTable` | `MinWidth >= 64` gives `Spec => []IndexInTable` |
| `NearOwnCells` | `MinWidth >= 64` and `Slack >= 18` give `Spec => []NearOwnCell` |
| `CellsAscend` | `MinWidth >= 64` gives `Spec => AscendingCells` |

A fit in double over [0, 1] with one bin and the deepest table (16 bits) has cells
of 2^36 ulps. Cells of fewer than 64 ulps, down to 3, are in the run and not in
the theorems: the constants of the error analysis are not tight, and the run finds
no error above 3 ulps where the proof allows 18.

`DomainInvariant` says that the centre, the bins and the bounds are the functions
of the corners that the code computes, and that what the last point got is what
the finished fit gives it. What follows from that is an error analysis, carried out
in integers:

- *Rounding.* `RoundNear` is the standard model of arithmetic: `Round` moves a
  value by at most one part in 2^p (`Near`), whatever the exponent. It
  needs that `Shift` finds the exponent that leaves p bits, which rests on
  `BitLength` (`CountingLemmas`), and that the carry to `Pow2(p)` is put back.
- *One unit.* Exponents differ from float to float. Every argument is
  made in a unit `2^g` below all that occur (`LowUnit`, `GridUnit`, `TreeUnit`,
  `PointUnit`), where floats are integers, sums are exact before they are rounded,
  and a halved float is an integer still.
- *Bounds.* The box of the `Function` is at most 4 ulps longer than the rounded
  width of the domain, and the stored inverse of a bin is `Near` the exact one
  (`GridFacts`). Cut this box into exact bins: a subtree begins at most 8.5 ulps
  above its bin and ends at most 8.5 ulps below it (`TreeFacts`); its width, at least
  45 ulps per cell, and the stored inverse of it agree up to rounding (`SpanFacts`).
- *Points.* A point is at most 9 ulps outside the exact bin it is given
  (`BinFacts`), so at most 18 outside its subtree (`PointInTree`), which is less than
  the width of a cell. Its product with the inverse is therefore above -1, truncates
  to 0 at worst, and the clamp does the rest (`PointPlaced`).
- *Order.* Subtraction, multiplication by a positive inverse, cast and clamp are
  each monotone, rounding included (`LocateOrder`), which is all that
  `AscendingCells` needs besides a positive inverse. Where the inverse could be
  zero or infinite, the hypothesis on the width excludes it.

### BatchEval and CountingSort

From `BatchConstants`: `BuffersSuffice` (`[]TypeOK`), `CursorsOfEveryTile`
(`[]Cursors`), `EveryTilePacked` (`[]StablePacking`), `KernelsGetOwnPoints`
(`[]OwnPoints`) and `BatchIsPointwise` (`Spec => ImplementsPointwise`). From
`SortConstants` and `GarbageIsNoAnswer` (no polynomial answers with the value
that marks memory nobody wrote): `CallersBuffersSuffice` (`[]TypeOK`),
`CountsOfEveryStage` (`[]CountsStage`), `RanksPermute` (`[]Permutation`) and
`CallsArePointwise` (`Spec => ImplementsPointwise`).

Both invariants say at every program point what the one array of counts is:
the number of equal keys seen (`NEqual`), of smaller ones (`NBelow`), or the
slot of the next point of each key (`SlotOf`). The cursors of a key move
through a slice that no other key's cursor enters, which is why the packed
buffer and the ranks survive until they are read; `StableSort` makes that a
permutation. The refinement maps a whole tile, or a whole call, to the answers
of `Pointwise` for its points; the positions answered so far are those the
permute loop has passed (`AnsweredBelow`, `OutputOf`).

### CApi

For any number of threads, addresses and nested fits, any
ladder of rungs and any machine and forced rung, from `LadderAssumption` (the
rungs are distinct and the machine runs the last one, the build's baseline) and
`NullAssumption` (no object is `NULL`):

| Theorem | Statement |
|---|---|
| `InterfaceTyped` | `CApiSpec => []CApiTypeOK` |
| `EvaluatorsAlwaysOwned` | `CApiSpec => []EvaluatorsOwned` |
| `FailuresAlwaysReported` | `CApiSpec => []Reported` |
| `AnswersAlwaysTyped` | `CApiSpec => []TypedAnswers` |
| `RungsAlwaysRun` | `CApiSpec => []RungRuns` |

The inductive invariant is `Inv`, in three parts that different steps disturb:
what threads read (`TextInv`), where they are (`StackInv`) and what exists
(`TableInv`). `EvaluatorsOwned` counts owners; `Ownership` says the same without
counting (an owner exists, and two handles never share), which is what
the free of a handle needs to leave the others' evaluators alone.
`TypedAnswers` follows from it: a handle that takes the type of the call has an
evaluator of that type. `RungRuns` needs that some rung of the ladder runs and
that none wider than the chosen one does (`WidestExists`, by well-foundedness).

### Bindings

From the assumptions of `CApi` and `HostValuesAssumption` (the values that stand
for no object, an exception, an answer and NaN are told apart):

| Theorem | Statement |
|---|---|
| `BindingsUseCApi` | `Spec => CApiSpec` |
| `CApiHoldsUnderBindings` | `Spec => [](EvaluatorsOwned /\ Reported /\ TypedAnswers /\ RungRuns)` |
| `BindingsTyped` | `Spec => []TypeOK` |
| `HandlesAlwaysOwned` | `Spec => []HandlesOwned` |
| `ValuesAlwaysEvaluated` | `Spec => []AnswersEvaluated` |
| `FirstErrorAlwaysSurfaces` | `Spec => SurfacesFirstError` |

`BindingsUseCApi` carries the four invariants of `CApi` over to every host, so
that only what the hosts add has to be proved. `InStep` ties the latches of a
thread to the fits it is inside of, one more on the way back to the caller;
`HandlesOwned` counts objects and frames; its inductive form `OneOwner` does not
count: every live handle that is not lost has an owner, an object or the fit
that is returning it, no two owners share, and no owner has one that is lost.
`FreesOnReturnInv` and `LosesOnReturnInv` are the two ways in which a fit comes
back with a handle and without an object. The theorem says that handles are
lost by the three steps of section 6 only, not that none is.
`SurfacesFirstError` is an action property: a
latch is written once (`InStep`), and only the return of its own fit reads it.

### Only model-checked

- Liveness (`Ends`, `Finishes`) and everything about `ENABLED`: out of reach.
- `FitDomain` for cells of 3 to 63 ulps. Below 3 ulps `IndexInTable` fails, so some
  hypothesis on the width is needed.

## 5. Not modelled

- Polynomial fitting and Horner schemes, and the value of sample errors.
- Domains, bins or cells narrower than `MinWidth` ulps, `a >= b`, and
  infinite or NaN corners: `fit` does not reject them and no document says what
  they give.
- SIMD kernels and prefetching: no state of their own. Of the dispatch, what
  the rungs compute.
- An exception thrown by the user's function of a C++ program, which leaves the
  constructor as `RejectTolKind` does.
- Introspection, statistics, warnings, tests, benchmarks and packaging.
- In the bindings: coercion of arrays and the generated marshalling of MATLAB,
  memory that runs out while a binding is raising an exception already, the
  Python interpreter lock, loading a JavaScript backend (`index.ts` 42-50
  keeps the promise of a backend that failed to load), a callback that raises
  a null value (`throw null`, `throw(nothing)`), which the latches of WASM and
  Julia take for no exception, and use of a handle by one thread while another
  frees it, which the header leaves to the caller.

## 6. Where comments and code differ

1. *Hard cap on accumulated leaf storage* (`treeweave.hpp` 84-98). The cap is
   compared only if another level is queued, and counts the nodes of the
   current subtree only (`polytree.hpp` 130-133), so the last level is free.
2. *We exit as soon as a level is not entirely parent nodes*
   (`function.hpp` 366-368). `Node::fit` never links children, so every probed
   node looks like a leaf and `base_depth` stays 0: one bin per unit of aspect
   ratio, always.
3. *No C++ exception ever crosses this boundary* (`treeweave.h` 26-27).
   `new treeweave_function` stands after the try block (`treeweave.cpp` 121,
   164), and the batch shims have none although a batch allocates: a
   `std::bad_alloc` leaves the extern "C" function, and in the first case the
   evaluator leaks. Run `exceptions_cross`.
4. *Evaluating exactly at the upper corner `b` returns the boundary value*
   (`treeweave.h` 192-193; README: *`[a, b]` is evaluated*). The bounds of a fit
   are rebuilt as centre plus and minus half length and may fall short of the
   corners: in double, a fit on [0.5, 0.9] ends at 0.8999999999999999 and
   gives NaN at 0.9; one on [1/3, 2/3] gives NaN at 1/3. Run `upper_corner`.

The runs above show these four. Smaller ones, met while modelling and not
given a run:

- *The leaf-id sequence is monotone non-decreasing* (`function.hpp` 785-787).
  Ids follow the breadth-first search. The walk needs only that equal ids are
  contiguous, which `SortedWalk` assumes and checks with unordered ids.
- *The caller ensures `n_trg >= kSortThreshold`* (`function.hpp` 1144-1145).
  The last tile of a long batch can be shorter; the results are the same.
- *The ids are identical either way* (`guru.hpp` 76-77), by table or by
  descent. On the boundary of two panels the descent takes the lower, the table
  the upper one; each build and each fit uses one of them throughout (`OneId`).
- `has_fast_quantize` (`function.hpp` 241-243) holds for several subtrees with
  tables, while the fast sort needs a single one.
- *NULL with `treeweave_last_error()` set* (`treeweave.h` 119): when the text
  cannot be stored an earlier one remains. A fit that succeeds may leave the
  text of a call its callback made.
- A latched exception with a fit that succeeds "shouldn't happen but be safe"
  (`_treeweave.cpp` 330). It does, under `allow_max_depth_leaves`; Python,
  N-API and MATLAB free the handle, WASM and Julia forget it
  (`RaiseAndAbandon`).
- *Takes ownership of the handle* (`_treeweave.cpp` 153), *owns the handle*
  (`treeweave_napi.cpp` 82), *memory is managed by a finalizer*
  (`Treeweave.jl` 168): from the moment the owner exists. When memory runs out
  before that (`_treeweave.cpp` 341, `treeweave_napi.cpp` 204, `Treeweave.jl`
  302-303, the `mxWrapCreateP` after `tw_fit_w`), the handle is lost
  (`WrapFails`).
- The JavaScript object of N-API frees its handle when it is collected, that of
  WASM only in `free()` (`wasm.ts` 129-134): dropped without it, the handle is
  lost (`Drop`). `HandlesOwned` excepts these three, and no other.
- An evaluation after `free()` of the JavaScript object returns the buffer that
  nothing wrote, without an error (`seen = "unwritten"`).

## 7. Plan

Done: every module of section 2, and the proofs of section 4. Open: a tighter error
analysis of `FitDomain`, which would lower its 64 ulps towards the 3 of the run, and
subnormal numbers and overflow in its arithmetic.
