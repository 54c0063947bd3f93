------------------------------ MODULE BatchEval ------------------------------
(***************************************************************************)
(* The evaluation of an unsorted batch: eval_batch, eval_batch_soa and the *)
(* tiles they run (detail/function.hpp), with partition_1d_table of        *)
(* detail/quantize.hpp.  A short batch is evaluated point by point; a      *)
(* longer one tile by tile, each by a counting sort on leaf ids, a kernel  *)
(* call per leaf on packed points, and a permutation back.                 *)
(*                                                                         *)
(* Arrays are functions from 0; leaves are known by their ids only, and a  *)
(* polynomial value is the triple of leaf, point and output component.     *)
(***************************************************************************)
EXTENDS Integers, Sequences, FiniteSets

CONSTANTS
  Points,          \* points, in the domain or not
  n_leaves,        \* polyfits_.size(), also the id of out-of-domain points
  LeafOf,          \* leaf_id_of every point
  output_dim,
  Batches,         \* the point sequences a caller may pass
  kSortThreshold, kDefaultTileK, kMinPtsPerLeaf,
  NaN,
  Garbage          \* what memory holds before it is written

ASSUME BatchConstants ==
  /\ n_leaves \in Nat \ {0} /\ output_dim \in Nat \ {0}
  /\ LeafOf \in [Points -> 0 .. n_leaves]
  /\ Batches \subseteq Seq(Points)
  /\ kSortThreshold \in Nat \ {0, 1}
  /\ kDefaultTileK \in Nat \ {0} /\ kMinPtsPerLeaf \in Nat \ {0}
  /\ Garbage \notin Int \cup Points

VARIABLES
  xp,          \* the batch; point i of the code is xp[i + 1]
  soa,         \* a buffer per component (eval_batch_soa), or one for all
  table,       \* leaf ids come from the 1D or ND table, not from a descent
  res,         \* the caller's output, all components
  tile_cap,    \* Scratch::tile_cap_
  tile_off,    \* first point of the tile
  counts,      \* histogram, then starts of the buckets, then cursors
  leaf_ids,    \* materialised on the descent path only
  perm_inv,    \* packed slot of every point of the tile
  xp_packed, out_packed,
  i,           \* point of the tile, or bucket
  acc,         \* running sum of the scan; prev_end of the dispatch
  pc
vars == << xp, soa, table, res, tile_cap, tile_off, counts, leaf_ids, perm_inv,
           xp_packed, out_packed, i, acc, pc >>

n_trg == Len(xp)
ood_id == n_leaves
components == 0 .. output_dim - 1

Least(a, b) == IF a < b THEN a ELSE b
Most(a, b) == IF a < b THEN b ELSE a

(* At least kMinPtsPerLeaf points per leaf.                                *)
tile_K == Most(kDefaultTileK, n_leaves * kMinPtsPerLeaf)
tile_n == Least(tile_K, n_trg - tile_off)
x(k) == xp[tile_off + k + 1]

(* Component d of what leaf id, or the NaN fill, gives at a point.         *)
Eval(id, point, d) == IF id = ood_id THEN NaN ELSE << id, point, d >>

Memory(size) == [k \in 0 .. size - 1 |-> Garbage]

Init ==
  /\ xp \in Batches
  /\ soa \in BOOLEAN /\ (soa => output_dim > 1)
  /\ table \in BOOLEAN
  /\ res = Memory(output_dim * n_trg)
  /\ tile_cap = 0 /\ tile_off = 0
  /\ counts = Memory(0) /\ leaf_ids = Memory(0) /\ perm_inv = Memory(0)
  /\ xp_packed = Memory(0) /\ out_packed = Memory(0)
  /\ i = 0 /\ acc = 0
  /\ pc = "start"

-----------------------------------------------------------------------------
(* Where a component lives.                                                *)

(* In out_packed: one span of tile_cap per component, or interleaved.      *)
PackedSlot(p, d) == IF soa THEN d * tile_cap + p ELSE output_dim * p + d

(* In the caller's buffers, for point k of the tile.                       *)
ResSlotOfFirstTile(k, d) ==
  IF soa THEN d * n_trg + k ELSE output_dim * k + d
ResSlot(k, d) ==
  IF soa THEN d * n_trg + tile_off + k ELSE output_dim * tile_off + output_dim * k + d

(* f with the slots of component d of k, for all d and all k in ks, set.   *)
Put(f, slot(_, _), ks, value(_, _)) ==
  [s \in DOMAIN f |->
     IF \E k \in ks, d \in components : s = slot(k, d)
     THEN LET k == CHOOSE k \in ks : \E d \in components : s = slot(k, d)
              d == CHOOSE d \in components : s = slot(k, d)
          IN  value(k, d)
     ELSE f[s]]

(* A loop over first .. last: i moves on, and the loop after it starts.    *)
Loop(here, last, next) ==
  /\ pc = here
  /\ i' = IF i = last THEN 0 ELSE i + 1
  /\ pc' = IF i = last THEN next ELSE here

-----------------------------------------------------------------------------
(* Batches below the threshold: the scalar operator() for every point.     *)

EmptyBatch ==
  /\ pc = "start" /\ n_trg = 0
  /\ pc' = "done"
  /\ UNCHANGED << xp, soa, table, res, tile_cap, tile_off, counts, leaf_ids,
                  perm_inv, xp_packed, out_packed, i, acc >>

ShortBatch ==
  /\ pc = "start" /\ n_trg > 0 /\ n_trg < kSortThreshold
  /\ pc' = "scalar"
  /\ UNCHANGED << xp, soa, table, res, tile_cap, tile_off, counts, leaf_ids,
                  perm_inv, xp_packed, out_packed, i, acc >>

EvalOne ==
  /\ Loop("scalar", n_trg - 1, "done")
  /\ LET value(k, d) == Eval(LeafOf[x(k)], x(k), d)
     IN  res' = Put(res, ResSlot, {i}, value)
  /\ UNCHANGED << xp, soa, table, tile_cap, tile_off, counts, leaf_ids,
                  perm_inv, xp_packed, out_packed, acc >>

-----------------------------------------------------------------------------
(* A tile.                                                                 *)

(* Scratch::reserve: uninitialised buffers for the largest tile.           *)
Reserve ==
  /\ pc = "start" /\ n_trg >= kSortThreshold
  /\ LET cap == Least(n_trg, tile_K)
     IN  /\ tile_cap' = cap
         /\ perm_inv' = Memory(cap)
         /\ xp_packed' = Memory(cap)
         /\ out_packed' = Memory(output_dim * cap)
         /\ leaf_ids' = IF table THEN leaf_ids ELSE Memory(cap)
  /\ counts' = Memory(n_leaves + 1)
  /\ pc' = "clear"
  /\ UNCHANGED << xp, soa, table, res, tile_off, i, acc >>

ClearedOnce == IF tile_off = 0 THEN [b \in DOMAIN counts |-> 0] ELSE counts
Cleared == [b \in DOMAIN counts |-> 0]

(* memset: counts is the one buffer that is read before it is written.     *)
Clear ==
  /\ pc = "clear"
  /\ counts' = Cleared
  /\ pc' = "histogram"
  /\ UNCHANGED << xp, soa, table, res, tile_cap, tile_off, leaf_ids, perm_inv,
                  xp_packed, out_packed, i, acc >>

Histogram ==
  /\ Loop("histogram", tile_n - 1, "scan")
  /\ counts' = [counts EXCEPT ![LeafOf[x(i)]] = @ + 1]
  /\ leaf_ids' = IF table THEN leaf_ids ELSE [leaf_ids EXCEPT ![i] = LeafOf[x(i)]]
  /\ acc' = 0
  /\ UNCHANGED << xp, soa, table, res, tile_cap, tile_off, perm_inv, xp_packed,
                  out_packed >>

InclusiveSum == acc + counts[i]
ExclusiveSum == acc

Scan ==
  /\ Loop("scan", n_leaves, "scatter")
  /\ counts' = [counts EXCEPT ![i] = ExclusiveSum]
  /\ acc' = acc + counts[i]
  /\ UNCHANGED << xp, soa, table, res, tile_cap, tile_off, leaf_ids, perm_inv,
                  xp_packed, out_packed >>

PreIncrement(cursor) == cursor + 1
PostIncrement(cursor) == cursor

(* The points are packed leaf by leaf; the id is looked up again, or read  *)
(* from the first pass.                                                    *)
Scatter ==
  /\ Loop("scatter", tile_n - 1, "dispatch")
  /\ LET id == IF table THEN LeafOf[x(i)] ELSE leaf_ids[i]
         dst == PostIncrement(counts[id])
     IN  /\ counts' = [counts EXCEPT ![id] = @ + 1]
         /\ perm_inv' = [perm_inv EXCEPT ![i] = dst]
         /\ xp_packed' = [xp_packed EXCEPT ![dst] = x(i)]
  /\ acc' = 0
  /\ UNCHANGED << xp, soa, table, res, tile_cap, tile_off, leaf_ids, out_packed >>

(* The packed slots of bucket i, from prev_end to the cursor it left.      *)
Slice == acc .. counts[i] - 1

(* One kernel call per leaf that has points, then the out-of-domain fill.  *)
Dispatch ==
  /\ Loop("dispatch", n_leaves, "permute")
  /\ LET value(p, d) == Eval(i, xp_packed[p], d)
     IN  out_packed' = Put(out_packed, PackedSlot, Slice, value)
  /\ acc' = counts[i]
  /\ UNCHANGED << xp, soa, table, res, tile_cap, tile_off, counts, leaf_ids,
                  perm_inv, xp_packed >>

(* Back to the caller's order.                                             *)
Permute ==
  /\ Loop("permute", tile_n - 1, "next")
  /\ LET value(k, d) == out_packed[PackedSlot(perm_inv[k], d)]
     IN  res' = Put(res, ResSlot, {i}, value)
  /\ UNCHANGED << xp, soa, table, tile_cap, tile_off, counts, leaf_ids,
                  perm_inv, xp_packed, out_packed, acc >>

SameTile == tile_off
NextOff == tile_off + tile_K

NextTile ==
  /\ pc = "next"
  /\ tile_off' = NextOff
  /\ pc' = IF NextOff < n_trg THEN "clear" ELSE "done"
  /\ UNCHANGED << xp, soa, table, res, tile_cap, counts, leaf_ids, perm_inv,
                  xp_packed, out_packed, i, acc >>

Next ==
  \/ EmptyBatch \/ ShortBatch \/ EvalOne
  \/ Reserve \/ Clear \/ Histogram \/ Scan \/ Scatter
  \/ Dispatch \/ Permute \/ NextTile

(* One call on one thread, with nothing to wait for.                       *)
Spec == Init /\ [][Next]_vars /\ WF_vars(Next)

-----------------------------------------------------------------------------
(* Correctness.                                                            *)

Pending(S) == S \cup {Garbage}
TilePoints == 0 .. tile_n - 1
Slots == 0 .. tile_cap - 1

(* The cursors, the permutation and the ids stay inside the buffers that   *)
(* were reserved for the largest tile.                                     *)
TypeOK ==
  /\ xp \in Seq(Points) /\ soa \in BOOLEAN /\ table \in BOOLEAN
  /\ DOMAIN res = 0 .. output_dim * n_trg - 1
  /\ tile_cap \in 0 .. tile_K
  /\ tile_off \in Nat
  /\ counts \in [DOMAIN counts -> Pending(0 .. tile_cap)]
  /\ DOMAIN counts \in {{}, 0 .. n_leaves}
  /\ leaf_ids \in [IF table THEN {} ELSE Slots -> Pending(0 .. n_leaves)]
  /\ perm_inv \in [Slots -> Pending(Slots)]
  /\ xp_packed \in [Slots -> Pending(Points)]
  /\ DOMAIN out_packed = 0 .. output_dim * tile_cap - 1
  /\ i \in Nat /\ acc \in 0 .. tile_cap
  /\ pc \in {"start", "scalar", "clear", "histogram", "scan", "scatter",
            "dispatch", "permute", "next", "done"}

(* Points of the tile, up to k, whose leaf comes before id, or is id.      *)
Before(id) == Cardinality({k \in TilePoints : LeafOf[x(k)] < id})
SoFar(id, k) == Cardinality({j \in 0 .. k - 1 : LeafOf[x(j)] = id})

(* counts serves as histogram, as starts and as cursors, tile after tile:  *)
(* each bucket fills from its own start, and the cursor it leaves is the   *)
(* end of its slice, which the dispatch takes for the start of the next.   *)
Cursors ==
  /\ pc = "scatter" =>
       \A id \in 0 .. n_leaves : counts[id] = Before(id) + SoFar(id, i)
  /\ pc \in {"dispatch", "permute"} =>
       \A id \in 0 .. n_leaves : counts[id] = Before(id + 1)
  /\ pc = "dispatch" => acc = Before(i)

(* The packing is a stable permutation of the tile: no slot is taken       *)
(* twice, none of an earlier tile is left, and perm_inv finds every point. *)
StablePacking ==
  pc \in {"dispatch", "permute", "next"} =>
    /\ {perm_inv[k] : k \in TilePoints} = TilePoints
    /\ \A k \in TilePoints : xp_packed[perm_inv[k]] = x(k)
    /\ \A j, k \in TilePoints :
         j < k /\ LeafOf[x(j)] = LeafOf[x(k)] => perm_inv[j] < perm_inv[k]

(* A kernel gets the points of its own leaf and no memory that was not     *)
(* written; the NaN fill gets those out of the domain.                     *)
OwnPoints ==
  pc = "dispatch" =>
    \A p \in Slice : xp_packed[p] \in Points /\ LeafOf[xp_packed[p]] = i

(* The caller sees the batch answered point by point, as the scalar        *)
(* operator() would, in either output layout, over any number of tiles.    *)
CallerSlot(p, d) == IF soa THEN d * n_trg + p ELSE output_dim * p + d
OfPoint(p) == [d \in components |-> res[CallerSlot(p, d)]]
Answers == INSTANCE Pointwise WITH
  Answer <- [p \in Points |-> [d \in components |-> Eval(LeafOf[p], p, d)]],
  None <- [d \in components |-> Garbage],
  out <- [p \in 1 .. n_trg |-> OfPoint(p - 1)]
ImplementsPointwise == Answers!Spec

(* The call returns with every component of every point written.           *)
Finishes == <>(pc = "done" /\ \A s \in DOMAIN res : res[s] # Garbage)
=============================================================================
