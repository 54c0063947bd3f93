---------------------------- MODULE CountingSort ----------------------------
(***************************************************************************)
(* The batch pipeline as its callers drive it: the stages of guru.hpp in   *)
(* the recipe of examples/c++/guru.cpp (two fits over the regimes of one   *)
(* domain, one combined key, one counting sort), and eval_scatter_sorted   *)
(* of eval_scatter.hpp.  The buffers belong to the caller and outlive the  *)
(* calls, so every call but the first finds them dirty.                    *)
(*                                                                         *)
(* Arrays are functions from 0.  A value is the triple of fit, leaf and    *)
(* point.  Outputs have one component; BatchEval has the layouts of more.  *)
(***************************************************************************)
EXTENDS Integers, Sequences, FiniteSets

CONSTANTS
  Points,
  RegimeOf,   \* the fit, 0 or 1, a point is meant for
  IdOf,       \* leaf_id of a point in that fit
  La, Lb,     \* num_leaves() of the fits, also their own sentinels
  Batches,    \* the point sequences a caller may pass
  capacity,   \* of the caller's buffers
  MaxCalls,   \* bound on the number of calls
  NaN,
  Garbage     \* what memory holds before it is written

n_fits == 2
Leaves(r) == IF r = 0 THEN La ELSE Lb

ASSUME SortConstants ==
  /\ La \in Nat \ {0} /\ Lb \in Nat \ {0}
  /\ RegimeOf \in [Points -> {0, 1}]
  /\ \A p \in Points : IdOf[p] \in 0 .. Leaves(RegimeOf[p])
  /\ Batches \subseteq Seq(Points) /\ \A s \in Batches : Len(s) <= capacity
  /\ capacity \in Nat /\ MaxCalls \in Nat
  /\ Garbage \notin Int \cup Points

VARIABLES
  calls,        \* calls begun
  mode,         \* "sort", "fused" (the caller counts keys), "fits" (eval_scatter)
  xp,           \* the batch; point k of the code is xp[k + 1]
  keys,         \* combined keys, or fit ids
  counts,       \* histogram, then starts, then ends
  rank,         \* packed slot of a point; with eval_scatter point of a slot
  packed, out_packed,
  out,
  i,            \* point or bin
  acc,          \* running sum of the scan; begin of the next run
  pc
vars == << calls, mode, xp, keys, counts, rank, packed, out_packed, out, i, acc, pc >>

n == Len(xp)
x(k) == xp[k + 1]

(* The key space: leaves of the first fit, its unused sentinel, leaves of  *)
(* the second, and one bucket for every point out of its domain.           *)
base_b == La + 1
ood == base_b + Lb
nbins == ood + 1

(* A sentinel is compared before the offset is added.                      *)
Key(p) ==
  IF IdOf[p] = Leaves(RegimeOf[p]) THEN ood
  ELSE IF RegimeOf[p] = 0 THEN IdOf[p] ELSE base_b + IdOf[p]

(* What a fit answers at a point by its scalar operator().                 *)
Scalar(r, p) == IF IdOf[p] = Leaves(r) THEN NaN ELSE << r, IdOf[p], p >>

ASSUME GarbageIsNoAnswer == \A p \in Points : Scalar(RegimeOf[p], p) # Garbage

Memory(size) == [k \in 0 .. size - 1 |-> Garbage]

Init ==
  /\ calls = 0 /\ mode = "sort"
  /\ xp = <<>> /\ out = Memory(0)
  /\ keys = Memory(capacity) /\ rank = Memory(capacity)
  /\ counts = Memory(nbins)
  /\ packed = Memory(capacity) /\ out_packed = Memory(capacity)
  /\ i = 0 /\ acc = 0
  /\ pc = "idle"

-----------------------------------------------------------------------------
(* A loop over 0 .. size - 1: i moves on, and at the end "next" follows.   *)

Turn(here, size) == pc = here /\ i < size /\ i' = i + 1 /\ pc' = here
EndLoop(here, size, next) == pc = here /\ i = size /\ i' = 0 /\ pc' = next

(* The caller begins a call, with a new output.                            *)
BeginCall ==
  /\ pc = "idle" /\ calls < MaxCalls
  /\ calls' = calls + 1
  /\ mode' \in {"sort", "fused", "fits"}
  /\ xp' \in Batches
  /\ out' = Memory(Len(xp'))
  /\ pc' = IF mode' = "fits" THEN "prepare" ELSE "classify"
  /\ UNCHANGED << keys, counts, rank, packed, out_packed, i, acc >>

-----------------------------------------------------------------------------
(* The recipe of the guru layer.                                           *)

Fill == [b \in DOMAIN counts |-> 0]

(* The caller classifies; one that counts as well clears the bins itself.  *)
Classify ==
  /\ Turn("classify", n)
  /\ keys' = [keys EXCEPT ![i] = Key(x(i))]
  /\ counts' =
       IF mode = "fused"
       THEN LET cleared == IF i = 0 THEN Fill ELSE counts
            IN  [cleared EXCEPT ![Key(x(i))] = @ + 1]
       ELSE counts
  /\ UNCHANGED << calls, mode, xp, rank, packed, out_packed, out, acc >>

(* histogram: every bin is cleared, then counted.                          *)
Clear ==
  /\ EndLoop("classify", n, IF mode = "fused" THEN "scan" ELSE "histogram")
  /\ counts' = IF mode = "fused" /\ n > 0 THEN counts ELSE Fill
  /\ acc' = 0
  /\ UNCHANGED << calls, mode, xp, keys, rank, packed, out_packed, out >>

Histogram ==
  /\ Turn("histogram", n)
  /\ counts' = [counts EXCEPT ![keys[i]] = @ + 1]
  /\ UNCHANGED << calls, mode, xp, keys, rank, packed, out_packed, out, acc >>

EndHistogram ==
  /\ EndLoop("histogram", n, "scan")
  /\ acc' = 0
  /\ UNCHANGED << calls, mode, xp, keys, counts, rank, packed, out_packed, out >>

ExclusiveSum == acc

(* exclusive_scan, over all bins, or over the first n_fits.                *)
ScanSize == IF mode = "fits" THEN n_fits ELSE nbins

Scan ==
  /\ Turn("scan", ScanSize)
  /\ counts' = [counts EXCEPT ![i] = ExclusiveSum]
  /\ acc' = acc + counts[i]
  /\ UNCHANGED << calls, mode, xp, keys, rank, packed, out_packed, out >>

EndScan ==
  /\ EndLoop("scan", ScanSize, IF mode = "fits" THEN "place" ELSE "scatter")
  /\ acc' = 0
  /\ UNCHANGED << calls, mode, xp, keys, counts, rank, packed, out_packed, out >>

(* scatter: the starts are the cursors; rank is the inverse permutation.   *)
Scatter ==
  /\ Turn("scatter", n)
  /\ LET dst == counts[keys[i]]
     IN  /\ counts' = [counts EXCEPT ![keys[i]] = @ + 1]
         /\ rank' = [rank EXCEPT ![i] = dst]
         /\ packed' = [packed EXCEPT ![dst] = x(i)]
  /\ UNCHANGED << calls, mode, xp, keys, out_packed, out, acc >>

EndScatter ==
  /\ EndLoop("scatter", n, "run")
  /\ UNCHANGED << calls, mode, xp, keys, counts, rank, packed, out_packed, out, acc >>

(* eval_leaf of the fit that owns bin b, or the NaN fill.                  *)
EvalBin(b, p) ==
  IF b = ood THEN NaN
  ELSE IF b < base_b THEN << 0, b, p >> ELSE << 1, b - base_b, p >>

(* for_each_run: one bin, called only if it has points.                    *)
Run ==
  /\ Turn("run", nbins)
  /\ out_packed' = [s \in DOMAIN out_packed |->
                      IF acc <= s /\ s < counts[i] THEN EvalBin(i, packed[s])
                      ELSE out_packed[s]]
  /\ acc' = IF acc < counts[i] THEN counts[i] ELSE acc
  /\ UNCHANGED << calls, mode, xp, keys, counts, rank, packed, out >>

EndRuns ==
  /\ EndLoop("run", nbins, "gather")
  /\ UNCHANGED << calls, mode, xp, keys, counts, rank, packed, out_packed, out, acc >>

ScatterBack == [out EXCEPT ![rank[i]] = out_packed[i]]
GatherBack == [out EXCEPT ![i] = out_packed[rank[i]]]

Gather ==
  /\ Turn("gather", n)
  /\ out' = GatherBack
  /\ UNCHANGED << calls, mode, xp, keys, counts, rank, packed, out_packed, acc >>

EndGather ==
  /\ EndLoop("gather", n, "idle")
  /\ UNCHANGED << calls, mode, xp, keys, counts, rank, packed, out_packed, out, acc >>

-----------------------------------------------------------------------------
(* eval_scatter_sorted.                                                    *)

DirtyScratch == counts
CleanScratch == [b \in DOMAIN counts |-> IF b < n_fits THEN 0 ELSE counts[b]]

(* The caller names the fit of every point, and passes bins that are zero: *)
(* by filling its own, or by the overload that allocates.                  *)
Prepare ==
  /\ pc = "prepare"
  /\ keys' = [k \in DOMAIN keys |-> IF k < n THEN RegimeOf[x(k)] ELSE keys[k]]
  /\ counts' = CleanScratch
  /\ pc' = IF n = 0 THEN "idle" ELSE "count"
  /\ UNCHANGED << calls, mode, xp, rank, packed, out_packed, out, i, acc >>

Count ==
  /\ Turn("count", n)
  /\ counts' = [counts EXCEPT ![keys[i]] = @ + 1]
  /\ UNCHANGED << calls, mode, xp, keys, rank, packed, out_packed, out, acc >>

EndCount ==
  /\ EndLoop("count", n, "scan")
  /\ acc' = 0
  /\ UNCHANGED << calls, mode, xp, keys, counts, rank, packed, out_packed, out >>

(* perm is the forward permutation: the point of every slot.               *)
InversePlace == [rank EXCEPT ![i] = counts[keys[i]]]
ForwardPlace == [rank EXCEPT ![counts[keys[i]]] = i]

Place ==
  /\ Turn("place", n)
  /\ rank' = ForwardPlace
  /\ counts' = [counts EXCEPT ![keys[i]] = @ + 1]
  /\ UNCHANGED << calls, mode, xp, keys, packed, out_packed, out, acc >>

EndPlace ==
  /\ EndLoop("place", n, "dispatch")
  /\ UNCHANGED << calls, mode, xp, keys, counts, rank, packed, out_packed, out, acc >>

(* The run of one fit, in slots acc .. counts[i] - 1.                      *)
Dispatch ==
  /\ Turn("dispatch", n_fits)
  /\ out' = [k \in DOMAIN out |->
               IF \E s \in acc .. counts[i] - 1 : rank[s] = k
               THEN Scalar(i, x(k)) ELSE out[k]]
  /\ acc' = counts[i]
  /\ UNCHANGED << calls, mode, xp, keys, counts, rank, packed, out_packed >>

EndDispatch ==
  /\ EndLoop("dispatch", n_fits, "idle")
  /\ UNCHANGED << calls, mode, xp, keys, counts, rank, packed, out_packed, out, acc >>

Next ==
  \/ BeginCall
  \/ Classify \/ Clear \/ Histogram \/ EndHistogram
  \/ Scan \/ EndScan \/ Scatter \/ EndScatter
  \/ Run \/ EndRuns \/ Gather \/ EndGather
  \/ Prepare \/ Count \/ EndCount \/ Place \/ EndPlace
  \/ Dispatch \/ EndDispatch

Spec == Init /\ [][Next]_vars

-----------------------------------------------------------------------------
(* Correctness.                                                            *)

Pending(S) == S \cup {Garbage}
Slots == 0 .. capacity - 1

TypeOK ==
  /\ calls \in 0 .. MaxCalls /\ mode \in {"sort", "fused", "fits"}
  /\ keys \in [Slots -> Pending(0 .. nbins - 1)]
  /\ counts \in [0 .. nbins - 1 -> Pending(0 .. capacity)]
  /\ rank \in [Slots -> Pending(Slots)]
  /\ packed \in [Slots -> Pending(Points)]
  /\ DOMAIN out = 0 .. n - 1 /\ DOMAIN out_packed = Slots
  /\ i \in 0 .. nbins + capacity /\ acc \in 0 .. capacity

InBatch == 0 .. n - 1
Bin(k) == IF mode = "fits" THEN RegimeOf[x(k)] ELSE Key(x(k))
Bins == 0 .. ScanSize - 1
UpTo(b, k) == Cardinality({j \in 0 .. k - 1 : Bin(j) = b})
Below(b) == Cardinality({j \in InBatch : Bin(j) < b})

(* One array is histogram, starts, cursors and ends, call after call, on a *)
(* buffer left dirty by a call of another kind: at every stage it holds    *)
(* what the next stage reads it for, and the ends do not decrease.         *)
CountsStage ==
  /\ pc \in {"histogram", "count"} => \A b \in Bins : counts[b] = UpTo(b, i)
  /\ pc = "scan" =>
       /\ acc = Below(i)
       /\ \A b \in Bins : counts[b] = IF b < i THEN Below(b) ELSE UpTo(b, n)
  /\ pc \in {"scatter", "place"} =>
       \A b \in Bins : counts[b] = Below(b) + UpTo(b, i)
  /\ pc \in {"run", "dispatch"} =>
       /\ \A b \in Bins : counts[b] = Below(b + 1)
       /\ acc = Below(i)

(* rank and perm are permutations of the batch, the one from points to     *)
(* slots, the other from slots to points; both keep the order of the       *)
(* points that share a bin, and no slot of an earlier, longer batch shows. *)
Permutation ==
  /\ pc \in {"run", "gather"} =>
       /\ {rank[k] : k \in InBatch} = InBatch
       /\ \A k \in InBatch : packed[rank[k]] = x(k)
       /\ \A j, k \in InBatch : j < k /\ Bin(j) = Bin(k) => rank[j] < rank[k]
  /\ pc = "dispatch" =>
       /\ {rank[s] : s \in InBatch} = InBatch
       /\ \A s, t \in InBatch : s < t =>
            \/ Bin(rank[s]) < Bin(rank[t])
            \/ Bin(rank[s]) = Bin(rank[t]) /\ rank[s] < rank[t]

(* The caller sees every batch answered as its fits answer point by point, *)
(* by either interface, on any scratch.                                    *)
Answers == INSTANCE Pointwise WITH
  Answer <- [p \in Points |-> Scalar(RegimeOf[p], p)],
  None <- Garbage,
  Batches <- Batches \cup {<<>>},
  out <- [p \in 1 .. n |-> out[p - 1]]
ImplementsPointwise == Answers!Spec
=============================================================================
