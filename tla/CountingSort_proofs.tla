-------------------------- MODULE CountingSort_proofs --------------------------
(***************************************************************************)
(* The batch pipeline of the guru layer and of eval_scatter, proved for    *)
(* every pair of fits, every batch and any number of calls on the same     *)
(* buffers: the stages of the counting sort, the permutations, and the     *)
(* refinement of Pointwise.                                                *)
(***************************************************************************)
EXTENDS CountingSort, CountingLemmas

\* The bin of every point; the first slot of bin b; the points of the bin
\* before k; and the slot a stable sort gives to point k.
BinOf == [k \in InBatch |-> Bin(k)]
StartOf(b) == NBelow(BinOf, n, b)
Ahead(b, k) == NEqual(BinOf, b, k)
Slot(k) == SlotOf(BinOf, n, k)

Modes ==
  /\ pc \in {"classify", "histogram", "scatter", "run", "gather"} => mode # "fits"
  /\ pc \in {"prepare", "count", "place", "dispatch"} => mode = "fits"

Loops ==
  /\ pc \in {"idle", "prepare"} => i = 0
  /\ pc \in {"classify", "histogram", "scatter", "gather", "count", "place"} => i <= n
  /\ pc \in {"scan", "run", "dispatch"} => i <= ScanSize
  /\ pc \in {"scatter", "place"} => acc = 0

Keyed ==
  /\ pc = "classify" => \A k \in 0 .. i - 1 : keys[k] = BinOf[k]
  /\ pc \in {"histogram", "scan", "scatter", "count", "place"} =>
       \A k \in InBatch : keys[k] = BinOf[k]

\* What counts and acc hold at every stage, on whatever they held before.
Counted ==
  /\ pc = "classify" /\ mode = "fused" /\ i > 0 => \A b \in Bins : counts[b] = Ahead(b, i)
  /\ pc \in {"histogram", "count"} => \A b \in Bins : counts[b] = Ahead(b, i)
  /\ pc = "scan" =>
       /\ acc = StartOf(i)
       /\ \A b \in Bins : counts[b] = IF b < i THEN StartOf(b) ELSE Ahead(b, n)
  /\ pc \in {"scatter", "place"} => \A b \in Bins : counts[b] = StartOf(b) + Ahead(b, i)
  /\ pc \in {"run", "dispatch"} =>
       /\ acc = StartOf(i)
       /\ \A b \in Bins : counts[b] = StartOf(b + 1)

PackedBelow(m) == \A k \in 0 .. m - 1 : rank[k] = Slot(k) /\ packed[Slot(k)] = x(k)
PlacedBelow(m) == \A k \in 0 .. m - 1 : rank[Slot(k)] = k
Ranked ==
  /\ pc = "scatter" => PackedBelow(i)
  /\ pc \in {"run", "gather"} => PackedBelow(n)
  /\ pc = "place" => PlacedBelow(i)
  /\ pc = "dispatch" => PlacedBelow(n)

EvaluatedBelow(b) ==
  \A k \in InBatch : BinOf[k] < b => out_packed[Slot(k)] = EvalBin(BinOf[k], x(k))
Evaluated ==
  /\ pc = "run" => EvaluatedBelow(i)
  /\ pc = "gather" => EvaluatedBelow(nbins)

\* The points that have their answer.
Answered ==
  CASE pc = "idle" -> InBatch
    [] pc = "gather" -> 0 .. i - 1
    [] pc = "dispatch" -> {k \in InBatch : Bin(k) < i}
    [] OTHER -> {}
OutputOf(S) ==
  \A k \in InBatch : out[k] = IF k \in S THEN Scalar(RegimeOf[x(k)], x(k)) ELSE Garbage

Stages == {"idle", "classify", "histogram", "scan", "scatter", "run", "gather",
           "prepare", "count", "place", "dispatch"}

IInv ==
  /\ xp \in Batches \cup {<<>>} /\ pc \in Stages
  /\ TypeOK
  /\ Modes
  /\ Loops
  /\ Keyed
  /\ Counted
  /\ Ranked
  /\ Evaluated
  /\ OutputOf(Answered)

-----------------------------------------------------------------------------
(* A call and its sort.                                                    *)

\* The key space.
LEMMA KeySpace ==
    /\ La \in Nat /\ Lb \in Nat /\ La > 0 /\ Lb > 0 /\ capacity \in Nat
    /\ base_b = La + 1 /\ ood = La + 1 + Lb /\ nbins = La + Lb + 2 /\ n_fits = 2
    /\ nbins \in Nat /\ n_fits <= nbins /\ ScanSize \in 1 .. nbins
    /\ \A p \in Points : RegimeOf[p] \in {0, 1} /\ Key(p) \in 0 .. nbins - 1
    /\ Garbage \notin Int /\ Garbage \notin Points
<1>1. /\ La \in Nat /\ Lb \in Nat /\ La > 0 /\ Lb > 0 /\ capacity \in Nat
      /\ base_b = La + 1 /\ ood = La + 1 + Lb /\ nbins = La + Lb + 2 /\ n_fits = 2
    BY SortConstants DEF base_b, ood, nbins, n_fits
<1>2. nbins \in Nat /\ n_fits <= nbins /\ ScanSize \in 1 .. nbins
    BY <1>1 DEF ScanSize
<1>3. \A p \in Points : RegimeOf[p] \in {0, 1}
    BY SortConstants
<1>4. ASSUME NEW p \in Points PROVE Key(p) \in 0 .. nbins - 1
    <2>1. IdOf[p] \in 0 .. Leaves(RegimeOf[p])
        BY SortConstants
    <2>2. QED  BY <1>1, <1>3, <2>1 DEF Key, Leaves
<1>5. QED  BY <1>1, <1>2, <1>3, <1>4, SortConstants

\* eval_leaf of the owner of a key, at a point with that key.
LEMMA EvalBinOfKey ==
    ASSUME NEW p \in Points
    PROVE  EvalBin(Key(p), p) = Scalar(RegimeOf[p], p)
<1>1. /\ IdOf[p] \in 0 .. Leaves(RegimeOf[p]) /\ RegimeOf[p] \in {0, 1}
    BY SortConstants
<1>2. CASE IdOf[p] = Leaves(RegimeOf[p])
    BY <1>2 DEF EvalBin, Key, Scalar
<1>3. CASE IdOf[p] # Leaves(RegimeOf[p]) /\ RegimeOf[p] = 0
    <2>1. Key(p) = IdOf[p] /\ IdOf[p] \in Int /\ IdOf[p] < La
        BY <1>1, <1>3, KeySpace DEF Key, Leaves
    <2>2. QED  BY <1>3, <2>1, KeySpace DEF EvalBin, Scalar
<1>4. CASE IdOf[p] # Leaves(RegimeOf[p]) /\ RegimeOf[p] = 1
    <2>1. Key(p) = base_b + IdOf[p] /\ IdOf[p] \in Nat /\ IdOf[p] < Lb
        BY <1>1, <1>4, KeySpace DEF Key, Leaves
    <2>2. QED  BY <1>4, <2>1, KeySpace DEF EvalBin, Scalar
<1>5. QED  BY <1>1, <1>2, <1>3, <1>4

\* A batch fits the buffers, and its bins the histogram.
LEMMA CallSizes ==
    ASSUME xp \in Batches \cup {<<>>}
    PROVE  /\ n \in Nat /\ n <= capacity /\ InBatch = 0 .. n - 1 /\ InBatch \subseteq Slots
           /\ Slots = 0 .. capacity - 1
           /\ Bins = 0 .. ScanSize - 1 /\ Bins \subseteq 0 .. nbins - 1
           /\ \A k \in InBatch : /\ x(k) \in Points /\ BinOf[k] = Bin(k)
                                 /\ BinOf[k] \in Bins /\ BinOf[k] \in Int
           /\ BinOf \in [0 .. n - 1 -> 0 .. ScanSize - 1]
<1>1. n \in Nat /\ n <= capacity /\ xp \in Seq(Points)
    <2>1. CASE xp \in Batches
        BY <2>1, SortConstants DEF n
    <2>2. CASE xp = <<>>
        BY <2>2, KeySpace DEF n
    <2>3. QED  BY <2>1, <2>2
<1>2. InBatch = 0 .. n - 1 /\ InBatch \subseteq Slots /\ Bins = 0 .. ScanSize - 1 /\ Bins \subseteq 0 .. nbins - 1
    BY <1>1, KeySpace DEF InBatch, Slots, Bins
<1>3. ASSUME NEW k \in InBatch PROVE x(k) \in Points /\ BinOf[k] = Bin(k) /\ Bin(k) \in Bins
    <2>1. x(k) \in Points
        BY <1>1, <1>2 DEF x, n
    <2>2. Bin(k) \in Bins
        <3>1. CASE mode = "fits"
            BY <1>2, <2>1, <3>1, KeySpace DEF Bin, ScanSize
        <3>2. CASE mode # "fits"
            BY <1>2, <2>1, <3>2, KeySpace DEF Bin, ScanSize
        <3>3. QED  BY <3>1, <3>2
    <2>3. QED  BY <2>1, <2>2 DEF BinOf
<1>4. BinOf \in [0 .. n - 1 -> 0 .. ScanSize - 1]
    BY <1>2, <1>3 DEF BinOf
<1>5. \A k \in InBatch : BinOf[k] \in Bins /\ BinOf[k] \in Int
    BY <1>2, <1>3
<1>6. QED  BY <1>1, <1>2, <1>3, <1>4, <1>5 DEF Slots

\* The stable sort of a batch.
LEMMA CallSort ==
    ASSUME xp \in Batches \cup {<<>>}
    PROVE  /\ StartOf(0) = 0 /\ StartOf(ScanSize) = n
           /\ \A b \in Int : /\ StartOf(b) \in 0 .. n
                             /\ StartOf(b + 1) = StartOf(b) + Ahead(b, n)
           /\ \A b \in Int, k \in Nat :
                /\ Ahead(b, k) \in 0 .. k /\ Ahead(b, 0) = 0
                /\ Ahead(b, k + 1) = Ahead(b, k) + IF BinOf[k] = b THEN 1 ELSE 0
           /\ \A b \in Int, k \in 0 .. n : Ahead(b, k) <= Ahead(b, n)
           /\ \A k \in InBatch : /\ Slot(k) \in InBatch
                                 /\ Slot(k) = StartOf(BinOf[k]) + Ahead(BinOf[k], k)
           /\ \A k \in InBatch, b \in Int :
                Slot(k) \in StartOf(b) .. StartOf(b + 1) - 1 <=> BinOf[k] = b
           /\ \A k, l \in InBatch : Slot(k) = Slot(l) => k = l
           /\ \A k, l \in InBatch : k < l /\ BinOf[k] = BinOf[l] => Slot(k) < Slot(l)
           /\ \A k, l \in InBatch : BinOf[k] < BinOf[l] => Slot(k) < Slot(l)
           /\ \A s \in InBatch : \E k \in InBatch : Slot(k) = s
<1>1. /\ n \in Nat /\ ScanSize - 1 \in Nat /\ (ScanSize - 1) + 1 = ScanSize
      /\ BinOf \in [0 .. n - 1 -> 0 .. ScanSize - 1] /\ InBatch = 0 .. n - 1
    BY CallSizes, KeySpace
<1>2. StablySorted(BinOf, n, ScanSize - 1)
    BY <1>1, StableSort
<1>3. QED  BY <1>1, <1>2 DEF StablySorted, StartOf, Ahead, Slot

\* The same facts, for one bin and one point.
LEMMA OneStart ==
    ASSUME xp \in Batches \cup {<<>>}, NEW b \in Bins
    PROVE  /\ StartOf(b) \in 0 .. n /\ StartOf(b + 1) \in 0 .. n /\ StartOf(b) <= StartOf(b + 1)
           /\ StartOf(b + 1) = StartOf(b) + Ahead(b, n) /\ Ahead(b, n) \in 0 .. n
           /\ b \in 0 .. nbins - 1
<1>1. n \in Nat /\ b \in Int /\ b + 1 \in Int /\ b \in 0 .. nbins - 1
    BY CallSizes, KeySpace
<1>2. /\ StartOf(b) \in 0 .. n /\ StartOf(b + 1) \in 0 .. n
      /\ StartOf(b + 1) = StartOf(b) + Ahead(b, n)
    BY <1>1, CallSort
<1>3. Ahead(b, n) \in 0 .. n
    BY <1>1, CallSort
<1>4. QED  BY <1>1, <1>2, <1>3

LEMMA OneAhead ==
    ASSUME xp \in Batches \cup {<<>>}, NEW b \in Bins, NEW k \in Nat, k < n
    PROVE  /\ Ahead(b, k) \in 0 .. k /\ Ahead(b, k + 1) \in 0 .. k + 1
           /\ Ahead(b, k + 1) = Ahead(b, k) + IF BinOf[k] = b THEN 1 ELSE 0
           /\ Ahead(b, k + 1) <= Ahead(b, n)
<1>1. n \in Nat /\ b \in Int /\ k + 1 \in Nat /\ k + 1 \in 0 .. n
    BY CallSizes, KeySpace
<1>2. /\ Ahead(b, k) \in 0 .. k
      /\ Ahead(b, k + 1) = Ahead(b, k) + IF BinOf[k] = b THEN 1 ELSE 0
    BY <1>1, CallSort
<1>3. Ahead(b, k + 1) \in 0 .. k + 1
    BY <1>1, CallSort
<1>4. Ahead(b, k + 1) <= Ahead(b, n)
    BY <1>1, CallSort
<1>5. QED  BY <1>2, <1>3, <1>4

LEMMA NoneAhead ==
    ASSUME NEW b
    PROVE  Ahead(b, 0) = 0
BY NEqualStep DEF Ahead

\* A step inside a call keeps the sort.
LEMMA UnchangedCall ==
    ASSUME UNCHANGED << xp, mode >>
    PROVE  /\ n' = n /\ InBatch' = InBatch /\ BinOf' = BinOf /\ ScanSize' = ScanSize /\ Bins' = Bins
           /\ \A k : x(k)' = x(k) /\ Slot(k)' = Slot(k) /\ Bin(k)' = Bin(k)
           /\ \A b : StartOf(b)' = StartOf(b)
           /\ \A b, k : Ahead(b, k)' = Ahead(b, k)
<1>1. /\ n' = n /\ InBatch' = InBatch /\ ScanSize' = ScanSize /\ Bins' = Bins
      /\ \A k : x(k)' = x(k) /\ Bin(k)' = Bin(k)
    BY DEF n, InBatch, ScanSize, Bins, x, Bin
<1>2. BinOf' = BinOf
    BY <1>1 DEF BinOf
<1>3. QED  BY <1>1, <1>2 DEF StartOf, Ahead, Slot

\* Nor does it change what it leaves alone of the output.
LEMMA KeepsOutput ==
    ASSUME OutputOf(Answered), UNCHANGED << xp, mode, out >>, Answered' = Answered
    PROVE  OutputOf(Answered)'
BY UnchangedCall DEF OutputOf

-----------------------------------------------------------------------------
(* The invariant: where one loop ends and the next begins.                 *)

LEMMA EndHistogramStep ==
    ASSUME IInv, EndHistogram
    PROVE  IInv'
<1>1. /\ xp \in Batches \cup {<<>>} /\ TypeOK /\ Modes /\ Loops /\ Keyed /\ Counted /\ Ranked
      /\ Evaluated /\ OutputOf(Answered)
    BY DEF IInv
<1>2. /\ pc = "histogram" /\ i = n /\ i' = 0 /\ pc' = "scan" /\ acc' = 0
      /\ UNCHANGED << calls, mode, xp, keys, counts, rank, packed, out_packed, out >>
    BY <1>1 DEF EndHistogram, EndLoop
<1>3. /\ n \in Nat /\ n <= capacity /\ capacity \in Nat /\ nbins \in Nat /\ i \in Nat /\ acc \in 0 .. capacity
      /\ InBatch = 0 .. n - 1 /\ InBatch \subseteq Slots /\ Bins = 0 .. ScanSize - 1
      /\ ScanSize \in 1 .. nbins /\ Bins \subseteq 0 .. nbins - 1 /\ n_fits = 2 /\ n_fits <= nbins
      /\ Slots = 0 .. capacity - 1
    BY <1>1, CallSizes, KeySpace DEF TypeOK
<1>4. TypeOK'
    BY <1>1, <1>2, <1>3 DEF TypeOK, n
<1>5. Modes' /\ Loops'
    BY <1>1, <1>2, <1>3, UnchangedCall DEF Modes, Loops
<1>6. Keyed'
    BY <1>1, <1>2, UnchangedCall DEF Keyed
<1>7. Counted'
    <2>1. acc' = StartOf(i)'
        BY <1>1, <1>2, CallSort, UnchangedCall DEF StartOf
    <2>2. \A b \in Bins : counts'[b] = IF b < i' THEN StartOf(b)' ELSE Ahead(b, n)'
        BY <1>1, <1>2, <1>3, UnchangedCall DEF Counted
    <2>3. QED  BY <1>2, <2>1, <2>2, UnchangedCall DEF Counted
<1>8. Ranked'
    BY <1>1, <1>2, UnchangedCall DEF Ranked, PackedBelow, PlacedBelow
<1>9. Evaluated'
    BY <1>1, <1>2, UnchangedCall DEF Evaluated, EvaluatedBelow
<1>10. OutputOf(Answered)'
    <2>1. Answered' = Answered
        BY <1>2 DEF Answered
    <2>2. QED  BY <1>1, <1>2, <2>1, KeepsOutput
<1>11. QED
    BY <1>1, <1>2, <1>4, <1>5, <1>6, <1>7, <1>8, <1>9, <1>10 DEF IInv, Stages

LEMMA EndCountStep ==
    ASSUME IInv, EndCount
    PROVE  IInv'
<1>1. /\ xp \in Batches \cup {<<>>} /\ TypeOK /\ Modes /\ Loops /\ Keyed /\ Counted /\ Ranked
      /\ Evaluated /\ OutputOf(Answered)
    BY DEF IInv
<1>2. /\ pc = "count" /\ i = n /\ i' = 0 /\ pc' = "scan" /\ acc' = 0
      /\ UNCHANGED << calls, mode, xp, keys, counts, rank, packed, out_packed, out >>
    BY <1>1 DEF EndCount, EndLoop
<1>3. /\ n \in Nat /\ n <= capacity /\ capacity \in Nat /\ nbins \in Nat /\ i \in Nat /\ acc \in 0 .. capacity
      /\ InBatch = 0 .. n - 1 /\ InBatch \subseteq Slots /\ Bins = 0 .. ScanSize - 1
      /\ ScanSize \in 1 .. nbins /\ Bins \subseteq 0 .. nbins - 1 /\ n_fits = 2 /\ n_fits <= nbins
      /\ Slots = 0 .. capacity - 1
    BY <1>1, CallSizes, KeySpace DEF TypeOK
<1>4. TypeOK'
    BY <1>1, <1>2, <1>3 DEF TypeOK, n
<1>5. Modes' /\ Loops'
    BY <1>1, <1>2, <1>3, UnchangedCall DEF Modes, Loops
<1>6. Keyed'
    BY <1>1, <1>2, UnchangedCall DEF Keyed
<1>7. Counted'
    <2>1. acc' = StartOf(i)'
        BY <1>1, <1>2, CallSort, UnchangedCall DEF StartOf
    <2>2. \A b \in Bins : counts'[b] = IF b < i' THEN StartOf(b)' ELSE Ahead(b, n)'
        BY <1>1, <1>2, <1>3, UnchangedCall DEF Counted
    <2>3. QED  BY <1>2, <2>1, <2>2, UnchangedCall DEF Counted
<1>8. Ranked'
    BY <1>1, <1>2, UnchangedCall DEF Ranked, PackedBelow, PlacedBelow
<1>9. Evaluated'
    BY <1>1, <1>2, UnchangedCall DEF Evaluated, EvaluatedBelow
<1>10. OutputOf(Answered)'
    <2>1. Answered' = Answered
        BY <1>2 DEF Answered
    <2>2. QED  BY <1>1, <1>2, <2>1, KeepsOutput
<1>11. QED
    BY <1>1, <1>2, <1>4, <1>5, <1>6, <1>7, <1>8, <1>9, <1>10 DEF IInv, Stages

LEMMA EndScanStep ==
    ASSUME IInv, EndScan
    PROVE  IInv'
<1>1. /\ xp \in Batches \cup {<<>>} /\ TypeOK /\ Modes /\ Loops /\ Keyed /\ Counted /\ Ranked
      /\ Evaluated /\ OutputOf(Answered)
    BY DEF IInv
<1>2. /\ pc = "scan" /\ i = ScanSize /\ i' = 0 /\ acc' = 0
      /\ pc' = (IF mode = "fits" THEN "place" ELSE "scatter")
      /\ UNCHANGED << calls, mode, xp, keys, counts, rank, packed, out_packed, out >>
    BY <1>1 DEF EndScan, EndLoop
<1>3. /\ n \in Nat /\ n <= capacity /\ capacity \in Nat /\ nbins \in Nat /\ i \in Nat /\ acc \in 0 .. capacity
      /\ InBatch = 0 .. n - 1 /\ InBatch \subseteq Slots /\ Bins = 0 .. ScanSize - 1
      /\ ScanSize \in 1 .. nbins /\ Bins \subseteq 0 .. nbins - 1 /\ n_fits = 2 /\ n_fits <= nbins
      /\ Slots = 0 .. capacity - 1
    BY <1>1, CallSizes, KeySpace DEF TypeOK
<1>4. TypeOK'
    BY <1>1, <1>2, <1>3 DEF TypeOK, n
<1>5. Modes' /\ Loops'
    BY <1>1, <1>2, <1>3, UnchangedCall DEF Modes, Loops
<1>6. Keyed'
    BY <1>1, <1>2, UnchangedCall DEF Keyed
<1>7. Counted'
    <2>1. \A b \in Bins : counts'[b] = StartOf(b)' + Ahead(b, i)'
        <3>1. SUFFICES ASSUME NEW b \in Bins PROVE counts[b] = StartOf(b) + Ahead(b, 0)
            BY <1>2, UnchangedCall DEF Ahead
        <3>2. StartOf(b) \in 0 .. n /\ Ahead(b, 0) = 0 /\ b < i
            BY <1>1, <1>2, <1>3, OneStart, NoneAhead
        <3>3. counts[b] = StartOf(b)
            BY <1>1, <1>2, <3>2 DEF Counted
        <3>4. QED  BY <3>2, <3>3
    <2>2. QED  BY <1>2, <2>1, UnchangedCall DEF Counted
<1>8. Ranked'
    <2>1. pc' \in {"scatter", "place"} /\ PackedBelow(i)' /\ PlacedBelow(i)'
        BY <1>2 DEF PackedBelow, PlacedBelow
    <2>2. QED  BY <2>1 DEF Ranked
<1>9. Evaluated'
    BY <1>1, <1>2, UnchangedCall DEF Evaluated, EvaluatedBelow
<1>10. OutputOf(Answered)'
    <2>1. Answered' = Answered
        BY <1>2 DEF Answered
    <2>2. QED  BY <1>1, <1>2, <2>1, KeepsOutput
<1>11. QED
    BY <1>1, <1>2, <1>4, <1>5, <1>6, <1>7, <1>8, <1>9, <1>10 DEF IInv, Stages

LEMMA EndScatterStep ==
    ASSUME IInv, EndScatter
    PROVE  IInv'
<1>1. /\ xp \in Batches \cup {<<>>} /\ TypeOK /\ Modes /\ Loops /\ Keyed /\ Counted /\ Ranked
      /\ Evaluated /\ OutputOf(Answered)
    BY DEF IInv
<1>2. /\ pc = "scatter" /\ i = n /\ i' = 0 /\ pc' = "run" /\ acc = 0
      /\ UNCHANGED << calls, mode, xp, keys, counts, rank, packed, out_packed, out, acc >>
    BY <1>1 DEF EndScatter, EndLoop, Loops
<1>3. /\ n \in Nat /\ n <= capacity /\ capacity \in Nat /\ nbins \in Nat /\ i \in Nat /\ acc \in 0 .. capacity
      /\ InBatch = 0 .. n - 1 /\ InBatch \subseteq Slots /\ Bins = 0 .. ScanSize - 1
      /\ ScanSize \in 1 .. nbins /\ Bins \subseteq 0 .. nbins - 1 /\ n_fits = 2 /\ n_fits <= nbins
      /\ Slots = 0 .. capacity - 1
    BY <1>1, CallSizes, KeySpace DEF TypeOK
<1>4. TypeOK'
    BY <1>1, <1>2, <1>3 DEF TypeOK, n
<1>5. Modes' /\ Loops'
    BY <1>1, <1>2, <1>3, UnchangedCall DEF Modes, Loops
<1>6. Keyed'
    BY <1>1, <1>2, UnchangedCall DEF Keyed
<1>7. Counted'
    <2>1. acc' = StartOf(i)'
        BY <1>1, <1>2, CallSort, UnchangedCall DEF StartOf
    <2>2. \A b \in Bins : counts[b] = StartOf(b + 1)
        BY <1>1, <1>2, OneStart DEF Counted
    <2>3. QED  BY <1>2, <2>1, <2>2, UnchangedCall DEF Counted
<1>8. Ranked'
    BY <1>1, <1>2, UnchangedCall DEF Ranked, PackedBelow, PlacedBelow
<1>9. Evaluated'
    <2>1. \A k \in InBatch : ~ (BinOf[k] < 0)
        BY <1>1, <1>3, CallSizes
    <2>2. EvaluatedBelow(i)'
        BY <1>2, <2>1, UnchangedCall DEF EvaluatedBelow
    <2>3. QED  BY <1>2, <2>2 DEF Evaluated
<1>10. OutputOf(Answered)'
    <2>1. Answered' = Answered
        BY <1>2 DEF Answered
    <2>2. QED  BY <1>1, <1>2, <2>1, KeepsOutput
<1>11. QED
    BY <1>1, <1>2, <1>4, <1>5, <1>6, <1>7, <1>8, <1>9, <1>10 DEF IInv, Stages

LEMMA EndPlaceStep ==
    ASSUME IInv, EndPlace
    PROVE  IInv'
<1>1. /\ xp \in Batches \cup {<<>>} /\ TypeOK /\ Modes /\ Loops /\ Keyed /\ Counted /\ Ranked
      /\ Evaluated /\ OutputOf(Answered)
    BY DEF IInv
<1>2. /\ pc = "place" /\ i = n /\ i' = 0 /\ pc' = "dispatch" /\ acc = 0
      /\ UNCHANGED << calls, mode, xp, keys, counts, rank, packed, out_packed, out, acc >>
    BY <1>1 DEF EndPlace, EndLoop, Loops
<1>3. /\ n \in Nat /\ n <= capacity /\ capacity \in Nat /\ nbins \in Nat /\ i \in Nat /\ acc \in 0 .. capacity
      /\ InBatch = 0 .. n - 1 /\ InBatch \subseteq Slots /\ Bins = 0 .. ScanSize - 1
      /\ ScanSize \in 1 .. nbins /\ Bins \subseteq 0 .. nbins - 1 /\ n_fits = 2 /\ n_fits <= nbins
      /\ Slots = 0 .. capacity - 1
    BY <1>1, CallSizes, KeySpace DEF TypeOK
<1>4. TypeOK'
    BY <1>1, <1>2, <1>3 DEF TypeOK, n
<1>5. Modes' /\ Loops'
    BY <1>1, <1>2, <1>3, UnchangedCall DEF Modes, Loops
<1>6. Keyed'
    BY <1>1, <1>2, UnchangedCall DEF Keyed
<1>7. Counted'
    <2>1. acc' = StartOf(i)'
        BY <1>1, <1>2, CallSort, UnchangedCall DEF StartOf
    <2>2. \A b \in Bins : counts[b] = StartOf(b + 1)
        BY <1>1, <1>2, OneStart DEF Counted
    <2>3. QED  BY <1>2, <2>1, <2>2, UnchangedCall DEF Counted
<1>8. Ranked'
    BY <1>1, <1>2, UnchangedCall DEF Ranked, PackedBelow, PlacedBelow
<1>9. Evaluated'
    BY <1>1, <1>2, UnchangedCall DEF Evaluated, EvaluatedBelow
<1>10. OutputOf(Answered)'
    <2>1. Answered = {}
        BY <1>2 DEF Answered
    <2>2. Answered' = {}
        <3>1. \A k \in InBatch : ~ (Bin(k) < 0)
            BY <1>1, <1>3, CallSizes
        <3>2. QED  BY <1>2, <3>1, UnchangedCall DEF Answered
    <2>3. QED  BY <1>1, <1>2, <2>1, <2>2, KeepsOutput
<1>11. QED
    BY <1>1, <1>2, <1>4, <1>5, <1>6, <1>7, <1>8, <1>9, <1>10 DEF IInv, Stages

LEMMA EndRunsStep ==
    ASSUME IInv, EndRuns
    PROVE  IInv'
<1>1. /\ xp \in Batches \cup {<<>>} /\ TypeOK /\ Modes /\ Loops /\ Keyed /\ Counted /\ Ranked
      /\ Evaluated /\ OutputOf(Answered)
    BY DEF IInv
<1>2. /\ pc = "run" /\ i = nbins /\ i' = 0 /\ pc' = "gather"
      /\ UNCHANGED << calls, mode, xp, keys, counts, rank, packed, out_packed, out, acc >>
    BY <1>1 DEF EndRuns, EndLoop
<1>3. /\ n \in Nat /\ n <= capacity /\ capacity \in Nat /\ nbins \in Nat /\ i \in Nat /\ acc \in 0 .. capacity
      /\ InBatch = 0 .. n - 1 /\ InBatch \subseteq Slots /\ Bins = 0 .. ScanSize - 1
      /\ ScanSize \in 1 .. nbins /\ Bins \subseteq 0 .. nbins - 1 /\ n_fits = 2 /\ n_fits <= nbins
      /\ Slots = 0 .. capacity - 1
    BY <1>1, CallSizes, KeySpace DEF TypeOK
<1>4. TypeOK'
    BY <1>1, <1>2, <1>3 DEF TypeOK, n
<1>5. Modes' /\ Loops'
    BY <1>1, <1>2, <1>3, UnchangedCall DEF Modes, Loops
<1>6. Keyed'
    BY <1>1, <1>2, UnchangedCall DEF Keyed
<1>7. Counted'
    BY <1>1, <1>2, <1>3, UnchangedCall DEF Counted
<1>8. Ranked'
    BY <1>1, <1>2, UnchangedCall DEF Ranked, PackedBelow, PlacedBelow
<1>9. Evaluated'
    <2>1. EvaluatedBelow(nbins)
        BY <1>1, <1>2 DEF Evaluated
    <2>2. EvaluatedBelow(nbins)'
        BY <1>2, <2>1, UnchangedCall DEF EvaluatedBelow
    <2>3. QED  BY <1>2, <2>2 DEF Evaluated
<1>10. OutputOf(Answered)'
    <2>1. Answered' = Answered
        BY <1>2 DEF Answered
    <2>2. QED  BY <1>1, <1>2, <2>1, KeepsOutput
<1>11. QED
    BY <1>1, <1>2, <1>4, <1>5, <1>6, <1>7, <1>8, <1>9, <1>10 DEF IInv, Stages

LEMMA EndGatherStep ==
    ASSUME IInv, EndGather
    PROVE  IInv'
<1>1. /\ xp \in Batches \cup {<<>>} /\ TypeOK /\ Modes /\ Loops /\ Keyed /\ Counted /\ Ranked
      /\ Evaluated /\ OutputOf(Answered)
    BY DEF IInv
<1>2. /\ pc = "gather" /\ i = n /\ i' = 0 /\ pc' = "idle"
      /\ UNCHANGED << calls, mode, xp, keys, counts, rank, packed, out_packed, out, acc >>
    BY <1>1 DEF EndGather, EndLoop
<1>3. /\ n \in Nat /\ n <= capacity /\ capacity \in Nat /\ nbins \in Nat /\ i \in Nat /\ acc \in 0 .. capacity
      /\ InBatch = 0 .. n - 1 /\ InBatch \subseteq Slots /\ Bins = 0 .. ScanSize - 1
      /\ ScanSize \in 1 .. nbins /\ Bins \subseteq 0 .. nbins - 1 /\ n_fits = 2 /\ n_fits <= nbins
      /\ Slots = 0 .. capacity - 1
    BY <1>1, CallSizes, KeySpace DEF TypeOK
<1>4. TypeOK'
    BY <1>1, <1>2, <1>3 DEF TypeOK, n
<1>5. Modes' /\ Loops'
    BY <1>1, <1>2, <1>3, UnchangedCall DEF Modes, Loops
<1>6. Keyed'
    BY <1>1, <1>2, UnchangedCall DEF Keyed
<1>7. Counted'
    BY <1>1, <1>2, <1>3, UnchangedCall DEF Counted
<1>8. Ranked'
    BY <1>1, <1>2, UnchangedCall DEF Ranked, PackedBelow, PlacedBelow
<1>9. Evaluated'
    BY <1>1, <1>2, UnchangedCall DEF Evaluated, EvaluatedBelow
<1>10. OutputOf(Answered)'
    <2>1. Answered' = Answered
        BY <1>2, <1>3, UnchangedCall DEF Answered
    <2>2. QED  BY <1>1, <1>2, <2>1, KeepsOutput
<1>11. QED
    BY <1>1, <1>2, <1>4, <1>5, <1>6, <1>7, <1>8, <1>9, <1>10 DEF IInv, Stages

LEMMA EndDispatchStep ==
    ASSUME IInv, EndDispatch
    PROVE  IInv'
<1>1. /\ xp \in Batches \cup {<<>>} /\ TypeOK /\ Modes /\ Loops /\ Keyed /\ Counted /\ Ranked
      /\ Evaluated /\ OutputOf(Answered)
    BY DEF IInv
<1>2. /\ pc = "dispatch" /\ i = n_fits /\ i' = 0 /\ pc' = "idle"
      /\ UNCHANGED << calls, mode, xp, keys, counts, rank, packed, out_packed, out, acc >>
    BY <1>1 DEF EndDispatch, EndLoop
<1>3. /\ n \in Nat /\ n <= capacity /\ capacity \in Nat /\ nbins \in Nat /\ i \in Nat /\ acc \in 0 .. capacity
      /\ InBatch = 0 .. n - 1 /\ InBatch \subseteq Slots /\ Bins = 0 .. ScanSize - 1
      /\ ScanSize \in 1 .. nbins /\ Bins \subseteq 0 .. nbins - 1 /\ n_fits = 2 /\ n_fits <= nbins
      /\ Slots = 0 .. capacity - 1
    BY <1>1, CallSizes, KeySpace DEF TypeOK
<1>4. TypeOK'
    BY <1>1, <1>2, <1>3 DEF TypeOK, n
<1>5. Modes' /\ Loops'
    BY <1>1, <1>2, <1>3, UnchangedCall DEF Modes, Loops
<1>6. Keyed'
    BY <1>1, <1>2, UnchangedCall DEF Keyed
<1>7. Counted'
    BY <1>1, <1>2, <1>3, UnchangedCall DEF Counted
<1>8. Ranked'
    BY <1>1, <1>2, UnchangedCall DEF Ranked, PackedBelow, PlacedBelow
<1>9. Evaluated'
    BY <1>1, <1>2, UnchangedCall DEF Evaluated, EvaluatedBelow
<1>10. OutputOf(Answered)'
    <2>1. ScanSize = n_fits
        BY <1>1, <1>2 DEF ScanSize, Modes
    <2>2. \A k \in InBatch : Bin(k) < n_fits
        BY <1>1, <1>3, <2>1, CallSizes
    <2>3. Answered' = Answered
        BY <1>2, <2>2, UnchangedCall DEF Answered
    <2>4. QED  BY <1>1, <1>2, <2>3, KeepsOutput
<1>11. QED
    BY <1>1, <1>2, <1>4, <1>5, <1>6, <1>7, <1>8, <1>9, <1>10 DEF IInv, Stages

LEMMA ClearStep ==
    ASSUME IInv, Clear
    PROVE  IInv'
<1>1. /\ xp \in Batches \cup {<<>>} /\ TypeOK /\ Modes /\ Loops /\ Keyed /\ Counted /\ Ranked
      /\ Evaluated /\ OutputOf(Answered)
    BY DEF IInv
<1>2. /\ pc = "classify" /\ i = n /\ i' = 0 /\ acc' = 0
      /\ pc' = (IF mode = "fused" THEN "scan" ELSE "histogram")
      /\ counts' = (IF mode = "fused" /\ n > 0 THEN counts ELSE [b \in DOMAIN counts |-> 0])
      /\ DOMAIN counts = 0 .. nbins - 1 /\ mode # "fits"
      /\ UNCHANGED << calls, mode, xp, keys, rank, packed, out_packed, out >>
    BY <1>1 DEF Clear, EndLoop, Fill, TypeOK, Modes
<1>3. /\ n \in Nat /\ n <= capacity /\ capacity \in Nat /\ nbins \in Nat /\ i \in Nat /\ acc \in 0 .. capacity
      /\ InBatch = 0 .. n - 1 /\ InBatch \subseteq Slots /\ Bins = 0 .. ScanSize - 1
      /\ ScanSize \in 1 .. nbins /\ Bins \subseteq 0 .. nbins - 1 /\ n_fits = 2 /\ n_fits <= nbins
      /\ Slots = 0 .. capacity - 1
    BY <1>1, CallSizes, KeySpace DEF TypeOK
<1>4. TypeOK'
    <2>1. counts' \in [0 .. nbins - 1 -> Pending(0 .. capacity)]
        BY <1>1, <1>2, <1>3 DEF TypeOK, Pending
    <2>2. /\ i' = 0 /\ acc' = 0 /\ n' = n
          /\ UNCHANGED << calls, mode, keys, rank, packed, out_packed, out >>
        BY <1>2, UnchangedCall
    <2>3. QED  BY <1>1, <1>3, <2>1, <2>2 DEF TypeOK
<1>5. Modes' /\ Loops'
    BY <1>1, <1>2, <1>3, UnchangedCall DEF Modes, Loops
<1>6. Keyed'
    BY <1>1, <1>2, <1>3, UnchangedCall DEF Keyed
<1>7. Counted'
    <2>1. CASE mode = "fused"
        <3>1. \A b \in Bins : counts'[b] = Ahead(b, n)
            <4>1. CASE n > 0
                BY <1>1, <1>2, <2>1, <4>1 DEF Counted
            <4>2. CASE ~ (n > 0)
                BY <1>2, <1>3, <4>2, NoneAhead
            <4>3. QED  BY <4>1, <4>2
        <3>2. acc' = StartOf(i)' /\ pc' = "scan"
            BY <1>1, <1>2, <2>1, CallSort, UnchangedCall DEF StartOf
        <3>3. \A b \in Bins : counts'[b] = IF b < i' THEN StartOf(b)' ELSE Ahead(b, n)'
            BY <1>2, <1>3, <3>1, UnchangedCall
        <3>4. QED  BY <3>2, <3>3, UnchangedCall, <1>2 DEF Counted
    <2>2. CASE mode # "fused"
        <3>1. \A b \in Bins : counts'[b] = Ahead(b, i)'
            BY <1>2, <1>3, <2>2, NoneAhead, UnchangedCall DEF Ahead
        <3>2. QED  BY <1>2, <2>2, <3>1, UnchangedCall DEF Counted
    <2>3. QED  BY <2>1, <2>2
<1>8. Ranked'
    BY <1>1, <1>2, UnchangedCall DEF Ranked, PackedBelow, PlacedBelow
<1>9. Evaluated'
    BY <1>1, <1>2, UnchangedCall DEF Evaluated, EvaluatedBelow
<1>10. OutputOf(Answered)'
    <2>1. Answered' = Answered
        BY <1>2 DEF Answered
    <2>2. QED  BY <1>1, <1>2, <2>1, KeepsOutput
<1>11. QED
    BY <1>1, <1>2, <1>4, <1>5, <1>6, <1>7, <1>8, <1>9, <1>10 DEF IInv, Stages

-----------------------------------------------------------------------------
(* The invariant: inside the loops.                                        *)

LEMMA HistogramStep ==
    ASSUME IInv, Histogram
    PROVE  IInv'
<1>1. /\ xp \in Batches \cup {<<>>} /\ TypeOK /\ Modes /\ Loops /\ Keyed /\ Counted /\ Ranked
      /\ Evaluated /\ OutputOf(Answered)
    BY DEF IInv
<1>2. /\ pc = "histogram" /\ i < n /\ i' = i + 1 /\ pc' = "histogram"
      /\ counts' = [counts EXCEPT ![keys[i]] = @ + 1]
      /\ UNCHANGED << calls, mode, xp, keys, rank, packed, out_packed, out, acc >>
    BY <1>1 DEF Histogram, Turn
<1>3. /\ n \in Nat /\ n <= capacity /\ capacity \in Nat /\ nbins \in Nat /\ i \in Nat /\ acc \in 0 .. capacity
      /\ InBatch = 0 .. n - 1 /\ InBatch \subseteq Slots /\ Bins = 0 .. ScanSize - 1
      /\ ScanSize \in 1 .. nbins /\ Bins \subseteq 0 .. nbins - 1 /\ n_fits = 2 /\ n_fits <= nbins
      /\ Slots = 0 .. capacity - 1
    BY <1>1, CallSizes, KeySpace DEF TypeOK
<1>4. /\ i \in InBatch /\ keys[i] = BinOf[i] /\ BinOf[i] \in Bins
      /\ counts \in [0 .. nbins - 1 -> Pending(0 .. capacity)]
    <2>1. i \in InBatch
        BY <1>2, <1>3
    <2>2. QED  BY <1>1, <1>2, <2>1, CallSizes DEF Keyed, TypeOK
<1>5. \A b \in Bins : counts'[b] = Ahead(b, i + 1) /\ Ahead(b, i + 1) \in 0 .. n
    <2>1. SUFFICES ASSUME NEW b \in Bins
                   PROVE  counts'[b] = Ahead(b, i + 1) /\ Ahead(b, i + 1) \in 0 .. n
        OBVIOUS
    <2>2. counts[b] = Ahead(b, i)
        BY <1>1, <1>2 DEF Counted
    <2>3. /\ Ahead(b, i) \in 0 .. i /\ Ahead(b, i + 1) \in 0 .. i + 1
          /\ Ahead(b, i + 1) = Ahead(b, i) + IF BinOf[i] = b THEN 1 ELSE 0
        BY <1>1, <1>2, <1>3, OneAhead
    <2>4. QED  BY <1>2, <1>3, <1>4, <2>2, <2>3
<1>6. TypeOK'
    <2>1. counts' \in [0 .. nbins - 1 -> Pending(0 .. capacity)]
        BY <1>2, <1>3, <1>4, <1>5 DEF Pending
    <2>2. QED  BY <1>1, <1>2, <1>3, <2>1, UnchangedCall DEF TypeOK
<1>7. Modes' /\ Loops'
    BY <1>1, <1>2, <1>3, UnchangedCall DEF Modes, Loops
<1>8. Keyed'
    BY <1>1, <1>2, UnchangedCall DEF Keyed
<1>9. Counted'
    <2>1. \A b \in Bins : counts'[b] = Ahead(b, i)'
        BY <1>2, <1>5, UnchangedCall DEF Ahead
    <2>2. QED  BY <1>2, <2>1, UnchangedCall DEF Counted
<1>10. Ranked'
    BY <1>1, <1>2, UnchangedCall DEF Ranked, PackedBelow, PlacedBelow
<1>11. Evaluated'
    BY <1>1, <1>2, UnchangedCall DEF Evaluated, EvaluatedBelow
<1>12. OutputOf(Answered)'
    <2>1. Answered' = Answered
        BY <1>2 DEF Answered
    <2>2. QED  BY <1>1, <1>2, <2>1, KeepsOutput
<1>13. QED
    BY <1>1, <1>2, <1>4, <1>5, <1>6, <1>7, <1>8, <1>9, <1>10, <1>11, <1>12 DEF IInv, Stages

LEMMA CountStep ==
    ASSUME IInv, Count
    PROVE  IInv'
<1>1. /\ xp \in Batches \cup {<<>>} /\ TypeOK /\ Modes /\ Loops /\ Keyed /\ Counted /\ Ranked
      /\ Evaluated /\ OutputOf(Answered)
    BY DEF IInv
<1>2. /\ pc = "count" /\ i < n /\ i' = i + 1 /\ pc' = "count"
      /\ counts' = [counts EXCEPT ![keys[i]] = @ + 1]
      /\ UNCHANGED << calls, mode, xp, keys, rank, packed, out_packed, out, acc >>
    BY <1>1 DEF Count, Turn
<1>3. /\ n \in Nat /\ n <= capacity /\ capacity \in Nat /\ nbins \in Nat /\ i \in Nat /\ acc \in 0 .. capacity
      /\ InBatch = 0 .. n - 1 /\ InBatch \subseteq Slots /\ Bins = 0 .. ScanSize - 1
      /\ ScanSize \in 1 .. nbins /\ Bins \subseteq 0 .. nbins - 1 /\ n_fits = 2 /\ n_fits <= nbins
      /\ Slots = 0 .. capacity - 1
    BY <1>1, CallSizes, KeySpace DEF TypeOK
<1>4. /\ i \in InBatch /\ keys[i] = BinOf[i] /\ BinOf[i] \in Bins
      /\ counts \in [0 .. nbins - 1 -> Pending(0 .. capacity)]
    <2>1. i \in InBatch
        BY <1>2, <1>3
    <2>2. QED  BY <1>1, <1>2, <2>1, CallSizes DEF Keyed, TypeOK
<1>5. \A b \in Bins : counts'[b] = Ahead(b, i + 1) /\ Ahead(b, i + 1) \in 0 .. n
    <2>1. SUFFICES ASSUME NEW b \in Bins
                   PROVE  counts'[b] = Ahead(b, i + 1) /\ Ahead(b, i + 1) \in 0 .. n
        OBVIOUS
    <2>2. counts[b] = Ahead(b, i)
        BY <1>1, <1>2 DEF Counted
    <2>3. /\ Ahead(b, i) \in 0 .. i /\ Ahead(b, i + 1) \in 0 .. i + 1
          /\ Ahead(b, i + 1) = Ahead(b, i) + IF BinOf[i] = b THEN 1 ELSE 0
        BY <1>1, <1>2, <1>3, OneAhead
    <2>4. QED  BY <1>2, <1>3, <1>4, <2>2, <2>3
<1>6. TypeOK'
    <2>1. counts' \in [0 .. nbins - 1 -> Pending(0 .. capacity)]
        BY <1>2, <1>3, <1>4, <1>5 DEF Pending
    <2>2. QED  BY <1>1, <1>2, <1>3, <2>1, UnchangedCall DEF TypeOK
<1>7. Modes' /\ Loops'
    BY <1>1, <1>2, <1>3, UnchangedCall DEF Modes, Loops
<1>8. Keyed'
    BY <1>1, <1>2, UnchangedCall DEF Keyed
<1>9. Counted'
    <2>1. \A b \in Bins : counts'[b] = Ahead(b, i)'
        BY <1>2, <1>5, UnchangedCall DEF Ahead
    <2>2. QED  BY <1>2, <2>1, UnchangedCall DEF Counted
<1>10. Ranked'
    BY <1>1, <1>2, UnchangedCall DEF Ranked, PackedBelow, PlacedBelow
<1>11. Evaluated'
    BY <1>1, <1>2, UnchangedCall DEF Evaluated, EvaluatedBelow
<1>12. OutputOf(Answered)'
    <2>1. Answered' = Answered
        BY <1>2 DEF Answered
    <2>2. QED  BY <1>1, <1>2, <2>1, KeepsOutput
<1>13. QED
    BY <1>1, <1>2, <1>4, <1>5, <1>6, <1>7, <1>8, <1>9, <1>10, <1>11, <1>12 DEF IInv, Stages

LEMMA ScanStep ==
    ASSUME IInv, Scan
    PROVE  IInv'
<1>1. /\ xp \in Batches \cup {<<>>} /\ TypeOK /\ Modes /\ Loops /\ Keyed /\ Counted /\ Ranked
      /\ Evaluated /\ OutputOf(Answered)
    BY DEF IInv
<1>2. /\ pc = "scan" /\ i < ScanSize /\ i' = i + 1 /\ pc' = "scan"
      /\ counts' = [counts EXCEPT ![i] = acc] /\ acc' = acc + counts[i]
      /\ UNCHANGED << calls, mode, xp, keys, rank, packed, out_packed, out >>
    BY <1>1 DEF Scan, Turn, ExclusiveSum
<1>3. /\ n \in Nat /\ n <= capacity /\ capacity \in Nat /\ nbins \in Nat /\ i \in Nat /\ acc \in 0 .. capacity
      /\ InBatch = 0 .. n - 1 /\ InBatch \subseteq Slots /\ Bins = 0 .. ScanSize - 1
      /\ ScanSize \in 1 .. nbins /\ Bins \subseteq 0 .. nbins - 1 /\ n_fits = 2 /\ n_fits <= nbins
      /\ Slots = 0 .. capacity - 1
    BY <1>1, CallSizes, KeySpace DEF TypeOK
<1>4. /\ i \in Bins /\ acc = StartOf(i) /\ acc' = StartOf(i + 1)
      /\ StartOf(i) \in 0 .. n /\ StartOf(i + 1) \in 0 .. n
    <2>1. i \in Bins
        BY <1>2, <1>3, KeySpace
    <2>2. /\ StartOf(i) \in 0 .. n /\ StartOf(i + 1) \in 0 .. n
          /\ StartOf(i + 1) = StartOf(i) + Ahead(i, n)
        BY <1>1, <2>1, OneStart
    <2>3. acc = StartOf(i) /\ counts[i] = Ahead(i, n)
        BY <1>1, <1>2, <1>3, <2>1 DEF Counted
    <2>4. QED  BY <1>2, <2>1, <2>2, <2>3
<1>5. TypeOK'
    <2>1. counts' \in [0 .. nbins - 1 -> Pending(0 .. capacity)] /\ acc' \in 0 .. capacity
        BY <1>1, <1>2, <1>3, <1>4 DEF TypeOK, Pending
    <2>2. QED  BY <1>1, <1>2, <1>3, <2>1, UnchangedCall DEF TypeOK
<1>6. Modes' /\ Loops'
    BY <1>1, <1>2, <1>3, UnchangedCall DEF Modes, Loops
<1>7. Keyed'
    BY <1>1, <1>2, UnchangedCall DEF Keyed
<1>8. Counted'
    <2>1. acc' = StartOf(i)'
        BY <1>2, <1>4, UnchangedCall DEF StartOf
    <2>2. ASSUME NEW b \in Bins PROVE counts'[b] = IF b < i + 1 THEN StartOf(b) ELSE Ahead(b, n)
        <3>1. counts[b] = IF b < i THEN StartOf(b) ELSE Ahead(b, n)
            BY <1>1, <1>2 DEF Counted
        <3>2. counts' = [counts EXCEPT ![i] = StartOf(i)] /\ b \in DOMAIN counts
            BY <1>1, <1>2, <1>3, <1>4 DEF TypeOK
        <3>3. QED  BY <1>3, <3>1, <3>2
    <2>3. \A b \in Bins : counts'[b] = IF b < i' THEN StartOf(b)' ELSE Ahead(b, n)'
        BY <1>2, <2>2, UnchangedCall
    <2>4. QED  BY <1>2, <2>1, <2>3, UnchangedCall DEF Counted
<1>9. Ranked'
    BY <1>1, <1>2, UnchangedCall DEF Ranked, PackedBelow, PlacedBelow
<1>10. Evaluated'
    BY <1>1, <1>2, UnchangedCall DEF Evaluated, EvaluatedBelow
<1>11. OutputOf(Answered)'
    <2>1. Answered' = Answered
        BY <1>2 DEF Answered
    <2>2. QED  BY <1>1, <1>2, <2>1, KeepsOutput
<1>12. QED
    BY <1>1, <1>2, <1>4, <1>5, <1>6, <1>7, <1>8, <1>9, <1>10, <1>11 DEF IInv, Stages

LEMMA ScatterStep ==
    ASSUME IInv, Scatter
    PROVE  IInv'
<1>1. /\ xp \in Batches \cup {<<>>} /\ TypeOK /\ Modes /\ Loops /\ Keyed /\ Counted /\ Ranked
      /\ Evaluated /\ OutputOf(Answered)
    BY DEF IInv
<1>2. /\ pc = "scatter" /\ i < n /\ i' = i + 1 /\ pc' = "scatter"
      /\ counts' = [counts EXCEPT ![keys[i]] = @ + 1]
      /\ rank' = [rank EXCEPT ![i] = counts[keys[i]]]
      /\ packed' = [packed EXCEPT ![counts[keys[i]]] = x(i)]
      /\ UNCHANGED << calls, mode, xp, keys, out_packed, out, acc >>
    BY <1>1 DEF Scatter, Turn
<1>3. /\ n \in Nat /\ n <= capacity /\ capacity \in Nat /\ nbins \in Nat /\ i \in Nat /\ acc \in 0 .. capacity
      /\ InBatch = 0 .. n - 1 /\ InBatch \subseteq Slots /\ Bins = 0 .. ScanSize - 1
      /\ ScanSize \in 1 .. nbins /\ Bins \subseteq 0 .. nbins - 1 /\ n_fits = 2 /\ n_fits <= nbins
      /\ Slots = 0 .. capacity - 1
    BY <1>1, CallSizes, KeySpace DEF TypeOK
<1>4. /\ i \in InBatch /\ keys[i] = BinOf[i] /\ BinOf[i] \in Bins
      /\ counts \in [0 .. nbins - 1 -> Pending(0 .. capacity)]
    <2>1. i \in InBatch
        BY <1>2, <1>3
    <2>2. QED  BY <1>1, <1>2, <2>1, CallSizes DEF Keyed, TypeOK
<1>5. counts[keys[i]] = Slot(i) /\ Slot(i) \in InBatch
    <2>1. counts[BinOf[i]] = StartOf(BinOf[i]) + Ahead(BinOf[i], i)
        BY <1>1, <1>2, <1>4 DEF Counted
    <2>2. QED  BY <1>1, <1>3, <1>4, <2>1, CallSort
<1>6. \A b \in Bins :
         /\ counts'[b] = StartOf(b) + Ahead(b, i + 1) /\ counts'[b] \in 0 .. n
    <2>1. SUFFICES ASSUME NEW b \in Bins
                   PROVE  counts'[b] = StartOf(b) + Ahead(b, i + 1) /\ counts'[b] \in 0 .. n
        OBVIOUS
    <2>2. counts[b] = StartOf(b) + Ahead(b, i)
        BY <1>1, <1>2 DEF Counted
    <2>3. /\ StartOf(b) \in 0 .. n /\ StartOf(b + 1) \in 0 .. n
          /\ StartOf(b + 1) = StartOf(b) + Ahead(b, n) /\ Ahead(b, n) \in 0 .. n
        BY <1>1, OneStart
    <2>4. /\ Ahead(b, i) \in 0 .. i /\ Ahead(b, i + 1) \in 0 .. i + 1
          /\ Ahead(b, i + 1) = Ahead(b, i) + IF BinOf[i] = b THEN 1 ELSE 0
          /\ Ahead(b, i + 1) <= Ahead(b, n)
        BY <1>1, <1>2, <1>3, OneAhead
    <2>5. counts'[b] = StartOf(b) + Ahead(b, i + 1)
        <3>1. counts' = [counts EXCEPT ![BinOf[i]] = @ + 1] /\ b \in DOMAIN counts
            BY <1>2, <1>3, <1>4
        <3>2. CASE BinOf[i] = b
            BY <2>2, <2>3, <2>4, <3>1, <3>2
        <3>3. CASE BinOf[i] # b
            BY <2>2, <2>4, <3>1, <3>3
        <3>4. QED  BY <3>2, <3>3
    <2>6. n \in Nat /\ i \in Nat
        BY <1>3
    <2>7. counts'[b] \in 0 .. n
        BY <2>3, <2>4, <2>5, <2>6
    <2>8. QED  BY <2>5, <2>7
<1>7. TypeOK'
    <2>1. /\ counts' \in [0 .. nbins - 1 -> Pending(0 .. capacity)]
          /\ rank' \in [Slots -> Pending(Slots)] /\ packed' \in [Slots -> Pending(Points)]
        <3>1. x(i) \in Points
            BY <1>1, <1>4, CallSizes
        <3>2. counts' \in [0 .. nbins - 1 -> Pending(0 .. capacity)]
            BY <1>2, <1>3, <1>4, <1>6 DEF Pending
        <3>3. rank' \in [Slots -> Pending(Slots)] /\ packed' \in [Slots -> Pending(Points)]
            BY <1>1, <1>2, <1>3, <1>4, <1>5, <3>1 DEF TypeOK, Pending
        <3>4. QED  BY <3>2, <3>3
    <2>2. QED  BY <1>1, <1>2, <1>3, <2>1, UnchangedCall DEF TypeOK
<1>8. Modes' /\ Loops'
    BY <1>1, <1>2, <1>3, UnchangedCall DEF Modes, Loops
<1>9. Keyed'
    BY <1>1, <1>2, UnchangedCall DEF Keyed
<1>10. Counted'
    <2>1. \A b \in Bins : counts'[b] = StartOf(b)' + Ahead(b, i)'
        BY <1>2, <1>6, UnchangedCall DEF Ahead
    <2>2. QED  BY <1>2, <2>1, UnchangedCall DEF Counted
<1>11. Ranked'
    <2>1. ASSUME NEW k \in 0 .. i PROVE rank'[k] = Slot(k) /\ packed'[Slot(k)] = x(k)
        <3>1. k \in InBatch
            BY <1>2, <1>3
        <3>2. Slot(k) \in InBatch /\ (k # i => Slot(k) # Slot(i))
            <4>1. /\ \A l \in InBatch : Slot(l) \in InBatch
                  /\ \A l, m \in InBatch : Slot(l) = Slot(m) => l = m
                BY <1>1, CallSort
            <4>2. QED  BY <1>4, <3>1, <4>1
        <3>3. k # i => rank[k] = Slot(k) /\ packed[Slot(k)] = x(k)
            BY <1>1, <1>2, <1>3 DEF Ranked, PackedBelow
        <3>4. /\ rank' = [rank EXCEPT ![i] = Slot(i)] /\ packed' = [packed EXCEPT ![Slot(i)] = x(i)]
              /\ DOMAIN rank = Slots /\ DOMAIN packed = Slots
            BY <1>1, <1>2, <1>5 DEF TypeOK
        <3>5. QED  BY <1>3, <1>4, <1>5, <3>1, <3>2, <3>3, <3>4
    <2>2. 0 .. i' - 1 = 0 .. i
        BY <1>2, <1>3
    <2>3. PackedBelow(i)'
        BY <1>2, <2>1, <2>2, UnchangedCall DEF PackedBelow
    <2>4. QED  BY <1>2, <2>3 DEF Ranked
<1>12. Evaluated'
    BY <1>1, <1>2, UnchangedCall DEF Evaluated, EvaluatedBelow
<1>13. OutputOf(Answered)'
    <2>1. Answered' = Answered
        BY <1>2 DEF Answered
    <2>2. QED  BY <1>1, <1>2, <2>1, KeepsOutput
<1>14. QED
    BY <1>1, <1>2, <1>4, <1>5, <1>6, <1>7, <1>8, <1>9, <1>10, <1>11, <1>12, <1>13 DEF IInv, Stages

LEMMA PlaceStep ==
    ASSUME IInv, Place
    PROVE  IInv'
<1>1. /\ xp \in Batches \cup {<<>>} /\ TypeOK /\ Modes /\ Loops /\ Keyed /\ Counted /\ Ranked
      /\ Evaluated /\ OutputOf(Answered)
    BY DEF IInv
<1>2. /\ pc = "place" /\ i < n /\ i' = i + 1 /\ pc' = "place"
      /\ counts' = [counts EXCEPT ![keys[i]] = @ + 1]
      /\ rank' = [rank EXCEPT ![counts[keys[i]]] = i]
      /\ UNCHANGED << calls, mode, xp, keys, packed, out_packed, out, acc >>
    BY <1>1 DEF Place, Turn, ForwardPlace
<1>3. /\ n \in Nat /\ n <= capacity /\ capacity \in Nat /\ nbins \in Nat /\ i \in Nat /\ acc \in 0 .. capacity
      /\ InBatch = 0 .. n - 1 /\ InBatch \subseteq Slots /\ Bins = 0 .. ScanSize - 1
      /\ ScanSize \in 1 .. nbins /\ Bins \subseteq 0 .. nbins - 1 /\ n_fits = 2 /\ n_fits <= nbins
      /\ Slots = 0 .. capacity - 1
    BY <1>1, CallSizes, KeySpace DEF TypeOK
<1>4. /\ i \in InBatch /\ keys[i] = BinOf[i] /\ BinOf[i] \in Bins
      /\ counts \in [0 .. nbins - 1 -> Pending(0 .. capacity)]
    <2>1. i \in InBatch
        BY <1>2, <1>3
    <2>2. QED  BY <1>1, <1>2, <2>1, CallSizes DEF Keyed, TypeOK
<1>5. counts[keys[i]] = Slot(i) /\ Slot(i) \in InBatch
    <2>1. counts[BinOf[i]] = StartOf(BinOf[i]) + Ahead(BinOf[i], i)
        BY <1>1, <1>2, <1>4 DEF Counted
    <2>2. QED  BY <1>1, <1>3, <1>4, <2>1, CallSort
<1>6. \A b \in Bins :
         /\ counts'[b] = StartOf(b) + Ahead(b, i + 1) /\ counts'[b] \in 0 .. n
    <2>1. SUFFICES ASSUME NEW b \in Bins
                   PROVE  counts'[b] = StartOf(b) + Ahead(b, i + 1) /\ counts'[b] \in 0 .. n
        OBVIOUS
    <2>2. counts[b] = StartOf(b) + Ahead(b, i)
        BY <1>1, <1>2 DEF Counted
    <2>3. /\ StartOf(b) \in 0 .. n /\ StartOf(b + 1) \in 0 .. n
          /\ StartOf(b + 1) = StartOf(b) + Ahead(b, n) /\ Ahead(b, n) \in 0 .. n
        BY <1>1, OneStart
    <2>4. /\ Ahead(b, i) \in 0 .. i /\ Ahead(b, i + 1) \in 0 .. i + 1
          /\ Ahead(b, i + 1) = Ahead(b, i) + IF BinOf[i] = b THEN 1 ELSE 0
          /\ Ahead(b, i + 1) <= Ahead(b, n)
        BY <1>1, <1>2, <1>3, OneAhead
    <2>5. counts'[b] = StartOf(b) + Ahead(b, i + 1)
        <3>1. counts' = [counts EXCEPT ![BinOf[i]] = @ + 1] /\ b \in DOMAIN counts
            BY <1>2, <1>3, <1>4
        <3>2. CASE BinOf[i] = b
            BY <2>2, <2>3, <2>4, <3>1, <3>2
        <3>3. CASE BinOf[i] # b
            BY <2>2, <2>4, <3>1, <3>3
        <3>4. QED  BY <3>2, <3>3
    <2>6. n \in Nat /\ i \in Nat
        BY <1>3
    <2>7. counts'[b] \in 0 .. n
        BY <2>3, <2>4, <2>5, <2>6
    <2>8. QED  BY <2>5, <2>7
<1>7. TypeOK'
    <2>1. /\ counts' \in [0 .. nbins - 1 -> Pending(0 .. capacity)]
          /\ rank' \in [Slots -> Pending(Slots)]
        <3>1. counts' \in [0 .. nbins - 1 -> Pending(0 .. capacity)]
            BY <1>2, <1>3, <1>4, <1>6 DEF Pending
        <3>2. rank' \in [Slots -> Pending(Slots)]
            BY <1>1, <1>2, <1>3, <1>4, <1>5 DEF TypeOK, Pending
        <3>3. QED  BY <3>1, <3>2
    <2>2. QED  BY <1>1, <1>2, <1>3, <2>1, UnchangedCall DEF TypeOK
<1>8. Modes' /\ Loops'
    BY <1>1, <1>2, <1>3, UnchangedCall DEF Modes, Loops
<1>9. Keyed'
    BY <1>1, <1>2, UnchangedCall DEF Keyed
<1>10. Counted'
    <2>1. \A b \in Bins : counts'[b] = StartOf(b)' + Ahead(b, i)'
        BY <1>2, <1>6, UnchangedCall DEF Ahead
    <2>2. QED  BY <1>2, <2>1, UnchangedCall DEF Counted
<1>11. Ranked'
    <2>1. ASSUME NEW k \in 0 .. i PROVE rank'[Slot(k)] = k
        <3>1. k \in InBatch
            BY <1>2, <1>3
        <3>2. Slot(k) \in InBatch /\ (k # i => Slot(k) # Slot(i))
            <4>1. /\ \A l \in InBatch : Slot(l) \in InBatch
                  /\ \A l, m \in InBatch : Slot(l) = Slot(m) => l = m
                BY <1>1, CallSort
            <4>2. QED  BY <1>4, <3>1, <4>1
        <3>3. k # i => rank[Slot(k)] = k
            BY <1>1, <1>2, <1>3 DEF Ranked, PlacedBelow
        <3>4. rank' = [rank EXCEPT ![Slot(i)] = i] /\ DOMAIN rank = Slots
            BY <1>1, <1>2, <1>5 DEF TypeOK
        <3>5. QED  BY <1>3, <1>5, <3>1, <3>2, <3>3, <3>4
    <2>2. 0 .. i' - 1 = 0 .. i
        BY <1>2, <1>3
    <2>3. PlacedBelow(i)'
        BY <1>2, <2>1, <2>2, UnchangedCall DEF PlacedBelow
    <2>4. QED  BY <1>2, <2>3 DEF Ranked
<1>12. Evaluated'
    BY <1>1, <1>2, UnchangedCall DEF Evaluated, EvaluatedBelow
<1>13. OutputOf(Answered)'
    <2>1. Answered' = Answered
        BY <1>2 DEF Answered
    <2>2. QED  BY <1>1, <1>2, <2>1, KeepsOutput
<1>14. QED
    BY <1>1, <1>2, <1>4, <1>5, <1>6, <1>7, <1>8, <1>9, <1>10, <1>11, <1>12, <1>13 DEF IInv, Stages

LEMMA BeginCallStep ==
    ASSUME IInv, BeginCall
    PROVE  IInv'
<1>1. TypeOK /\ Loops
    BY DEF IInv
<1>2. /\ pc = "idle" /\ i = 0 /\ i' = 0 /\ calls' \in 0 .. MaxCalls /\ mode' \in {"sort", "fused", "fits"}
      /\ xp' \in Batches /\ out' = Memory(Len(xp'))
      /\ pc' = (IF mode' = "fits" THEN "prepare" ELSE "classify")
      /\ UNCHANGED << keys, counts, rank, packed, out_packed, i, acc >>
    BY <1>1, SortConstants DEF BeginCall, Loops, TypeOK
<1>3. n' \in Nat /\ n' = Len(xp') /\ InBatch' = 0 .. n' - 1
    BY <1>2, SortConstants DEF n, InBatch
<1>4. TypeOK'
    <2>1. DOMAIN out' = 0 .. n' - 1
        BY <1>2, <1>3 DEF Memory
    <2>2. QED  BY <1>1, <1>2, <2>1 DEF TypeOK
<1>5. Modes' /\ Loops'
    BY <1>2, <1>3 DEF Modes, Loops
<1>6. Keyed' /\ Counted' /\ Ranked' /\ Evaluated'
    BY <1>2 DEF Keyed, Counted, Ranked, Evaluated
<1>7. OutputOf(Answered)'
    <2>1. Answered' = {}
        BY <1>2 DEF Answered
    <2>2. \A k \in InBatch' : out'[k] = Garbage
        BY <1>2, <1>3 DEF Memory
    <2>3. QED  BY <2>1, <2>2 DEF OutputOf
<1>8. QED  BY <1>2, <1>4, <1>5, <1>6, <1>7 DEF IInv, Stages

LEMMA ClassifyStep ==
    ASSUME IInv, Classify
    PROVE  IInv'
<1>1. /\ xp \in Batches \cup {<<>>} /\ TypeOK /\ Modes /\ Loops /\ Keyed /\ Counted /\ Ranked
      /\ Evaluated /\ OutputOf(Answered)
    BY DEF IInv
<1>2. /\ pc = "classify" /\ i < n /\ i' = i + 1 /\ pc' = "classify" /\ mode # "fits"
      /\ keys' = [keys EXCEPT ![i] = Key(x(i))]
      /\ UNCHANGED << calls, mode, xp, rank, packed, out_packed, out, acc >>
    BY <1>1 DEF Classify, Turn, Modes
<1>3. /\ n \in Nat /\ n <= capacity /\ capacity \in Nat /\ nbins \in Nat /\ i \in Nat /\ acc \in 0 .. capacity
      /\ InBatch = 0 .. n - 1 /\ InBatch \subseteq Slots /\ Bins = 0 .. ScanSize - 1
      /\ ScanSize \in 1 .. nbins /\ Bins \subseteq 0 .. nbins - 1 /\ n_fits = 2 /\ n_fits <= nbins
      /\ Slots = 0 .. capacity - 1
    BY <1>1, CallSizes, KeySpace DEF TypeOK
<1>4. /\ i \in InBatch /\ Key(x(i)) = BinOf[i] /\ BinOf[i] \in Bins
      /\ counts \in [0 .. nbins - 1 -> Pending(0 .. capacity)]
    <2>1. i \in InBatch
        BY <1>2, <1>3
    <2>2. Bin(i) = Key(x(i))
        BY <1>2 DEF Bin
    <2>3. QED  BY <1>1, <2>1, <2>2, CallSizes DEF TypeOK
<1>5. mode = "fused" =>
         /\ counts' \in [0 .. nbins - 1 -> Pending(0 .. capacity)]
         /\ \A b \in Bins : counts'[b] = Ahead(b, i + 1)
    <2>1. SUFFICES ASSUME mode = "fused"
                   PROVE  /\ counts' \in [0 .. nbins - 1 -> Pending(0 .. capacity)]
                          /\ \A b \in Bins : counts'[b] = Ahead(b, i + 1)
        OBVIOUS
    <2> DEFINE cleared == IF i = 0 THEN Fill ELSE counts
    <2>2. counts' = [cleared EXCEPT ![BinOf[i]] = @ + 1]
        BY <1>4, <2>1 DEF Classify
    <2>3. cleared \in [0 .. nbins - 1 -> Pending(0 .. capacity)]
        BY <1>3, <1>4 DEF Fill, Pending
    <2>4. \A b \in Bins : cleared[b] = Ahead(b, i)
        <3>1. CASE i = 0
            BY <1>3, <1>4, <3>1, NoneAhead DEF Fill
        <3>2. CASE i # 0
            BY <1>1, <1>2, <1>3, <2>1, <3>2 DEF Counted
        <3>3. QED  BY <3>1, <3>2
    <2> HIDE DEF cleared
    <2>5. \A b \in Bins : counts'[b] = Ahead(b, i + 1) /\ Ahead(b, i + 1) \in 0 .. n
        <3>1. SUFFICES ASSUME NEW b \in Bins
                       PROVE  counts'[b] = Ahead(b, i + 1) /\ Ahead(b, i + 1) \in 0 .. n
            OBVIOUS
        <3>2. /\ Ahead(b, i) \in 0 .. i /\ Ahead(b, i + 1) \in 0 .. i + 1
              /\ Ahead(b, i + 1) = Ahead(b, i) + IF BinOf[i] = b THEN 1 ELSE 0
            BY <1>1, <1>2, <1>3, OneAhead
        <3>3. QED  BY <1>2, <1>3, <2>2, <2>3, <2>4, <3>2
    <2>6. ASSUME NEW b \in 0 .. nbins - 1
          PROVE  counts'[b] \in Pending(0 .. capacity)
        <3>1. b = BinOf[i] => counts'[b] \in 0 .. n /\ 0 .. n \subseteq 0 .. capacity
            BY <1>3, <1>4, <2>5
        <3>2. b # BinOf[i] => counts'[b] = cleared[b]
            BY <2>2, <2>3
        <3>3. QED  BY <2>3, <3>1, <3>2 DEF Pending
    <2>7. counts' = [b \in 0 .. nbins - 1 |-> counts'[b]]
        BY <2>2, <2>3
    <2>8. counts' \in [0 .. nbins - 1 -> Pending(0 .. capacity)]
        BY <2>6, <2>7
    <2>9. QED  BY <2>5, <2>8
<1>6. TypeOK'
    <2>1. /\ counts' \in [0 .. nbins - 1 -> Pending(0 .. capacity)]
          /\ keys' \in [Slots -> Pending(0 .. nbins - 1)]
        <3>1. keys' \in [Slots -> Pending(0 .. nbins - 1)]
            BY <1>1, <1>2, <1>3, <1>4 DEF TypeOK, Pending
        <3>2. mode # "fused" => counts' = counts
            BY DEF Classify
        <3>3. QED  BY <1>4, <1>5, <3>1, <3>2
    <2>2. QED  BY <1>1, <1>2, <1>3, <2>1, UnchangedCall DEF TypeOK
<1>7. Modes' /\ Loops'
    BY <1>1, <1>2, <1>3, UnchangedCall DEF Modes, Loops
<1>8. Keyed'
    <2>1. ASSUME NEW k \in 0 .. i PROVE keys'[k] = BinOf[k]
        <3>1. k # i => keys[k] = BinOf[k]
            BY <1>1, <1>2, <1>3 DEF Keyed
        <3>2. DOMAIN keys = Slots /\ k \in Slots
            BY <1>1, <1>2, <1>3 DEF TypeOK
        <3>3. QED  BY <1>2, <1>4, <3>1, <3>2
    <2>2. 0 .. i' - 1 = 0 .. i
        BY <1>2, <1>3
    <2>3. QED  BY <1>2, <2>1, <2>2, UnchangedCall DEF Keyed
<1>9. Counted'
    <2>1. mode = "fused" => \A b \in Bins : counts'[b] = Ahead(b, i)'
        BY <1>2, <1>5, UnchangedCall DEF Ahead
    <2>2. QED  BY <1>2, <2>1, UnchangedCall DEF Counted
<1>10. Ranked'
    BY <1>1, <1>2, UnchangedCall DEF Ranked, PackedBelow, PlacedBelow
<1>11. Evaluated'
    BY <1>1, <1>2, UnchangedCall DEF Evaluated, EvaluatedBelow
<1>12. OutputOf(Answered)'
    <2>1. Answered' = Answered
        BY <1>2 DEF Answered
    <2>2. QED  BY <1>1, <1>2, <2>1, KeepsOutput
<1>13. QED
    BY <1>1, <1>2, <1>4, <1>5, <1>6, <1>7, <1>8, <1>9, <1>10, <1>11, <1>12 DEF IInv, Stages

LEMMA RunStep ==
    ASSUME IInv, Run
    PROVE  IInv'
<1>1. /\ xp \in Batches \cup {<<>>} /\ TypeOK /\ Modes /\ Loops /\ Keyed /\ Counted /\ Ranked
      /\ Evaluated /\ OutputOf(Answered)
    BY DEF IInv
<1>2. /\ pc = "run" /\ i < nbins /\ i' = i + 1 /\ pc' = "run" /\ mode # "fits" /\ ScanSize = nbins
      /\ out_packed' = [s \in DOMAIN out_packed |->
                          IF acc <= s /\ s < counts[i] THEN EvalBin(i, packed[s])
                          ELSE out_packed[s]]
      /\ acc' = (IF acc < counts[i] THEN counts[i] ELSE acc)
      /\ UNCHANGED << calls, mode, xp, keys, counts, rank, packed, out >>
    BY <1>1 DEF Run, Turn, Modes, ScanSize
<1>3. /\ n \in Nat /\ n <= capacity /\ capacity \in Nat /\ nbins \in Nat /\ i \in Nat /\ acc \in 0 .. capacity
      /\ InBatch = 0 .. n - 1 /\ InBatch \subseteq Slots /\ Bins = 0 .. ScanSize - 1
      /\ ScanSize \in 1 .. nbins /\ Bins \subseteq 0 .. nbins - 1 /\ n_fits = 2 /\ n_fits <= nbins
      /\ Slots = 0 .. capacity - 1
    BY <1>1, CallSizes, KeySpace DEF TypeOK
<1>4. /\ i \in Bins /\ acc = StartOf(i) /\ counts[i] = StartOf(i + 1) /\ acc' = StartOf(i + 1)
      /\ StartOf(i) \in 0 .. n /\ StartOf(i + 1) \in 0 .. n
    <2>1. i \in Bins
        BY <1>2, <1>3
    <2>2. /\ StartOf(i) \in 0 .. n /\ StartOf(i + 1) \in 0 .. n /\ StartOf(i) <= StartOf(i + 1)
        BY <1>1, <2>1, OneStart
    <2>3. acc = StartOf(i) /\ counts[i] = StartOf(i + 1)
        BY <1>1, <1>2, <1>3, <2>1 DEF Counted
    <2>4. QED  BY <1>2, <2>1, <2>2, <2>3
<1>5. TypeOK'
    <2>1. DOMAIN out_packed' = Slots /\ acc' \in 0 .. capacity
        BY <1>1, <1>2, <1>3, <1>4 DEF TypeOK
    <2>2. QED  BY <1>1, <1>2, <1>3, <2>1, UnchangedCall DEF TypeOK
<1>6. Modes' /\ Loops'
    BY <1>1, <1>2, <1>3, UnchangedCall DEF Modes, Loops
<1>7. Keyed'
    BY <1>1, <1>2, UnchangedCall DEF Keyed
<1>8. Counted'
    <2>1. acc' = StartOf(i)'
        BY <1>2, <1>4, UnchangedCall DEF StartOf
    <2>2. QED  BY <1>1, <1>2, <2>1, UnchangedCall DEF Counted
<1>9. Ranked'
    BY <1>1, <1>2, UnchangedCall DEF Ranked, PackedBelow, PlacedBelow
<1>10. Evaluated'
    <2>1. ASSUME NEW k \in InBatch, BinOf[k] < i + 1
          PROVE  out_packed'[Slot(k)] = EvalBin(BinOf[k], x(k))
        <3>1. /\ Slot(k) \in InBatch /\ BinOf[k] \in Int
              /\ Slot(k) \in StartOf(i) .. StartOf(i + 1) - 1 <=> BinOf[k] = i
            <4>1. \A l \in InBatch : Slot(l) \in InBatch
                BY <1>1, CallSort
            <4>2. \A l \in InBatch, b \in Int : Slot(l) \in StartOf(b) .. StartOf(b + 1) - 1 <=> BinOf[l] = b
                BY <1>1, CallSort
            <4>3. BinOf[k] \in Int
                BY <1>1, CallSizes
            <4>4. QED  BY <1>3, <4>1, <4>2, <4>3
        <3>2. packed[Slot(k)] = x(k)
            BY <1>1, <1>2, <1>3 DEF Ranked, PackedBelow
        <3>3. Slot(k) \in DOMAIN out_packed /\ Slot(k) \in Int
            BY <1>1, <1>3, <3>1 DEF TypeOK
        <3>4. CASE BinOf[k] = i
            BY <1>2, <1>3, <1>4, <3>1, <3>2, <3>3, <3>4
        <3>5. CASE BinOf[k] # i
            <4>1. BinOf[k] < i
                BY <1>3, <2>1, <3>1, <3>5
            <4>2. out_packed[Slot(k)] = EvalBin(BinOf[k], x(k))
                BY <1>1, <1>2, <4>1 DEF Evaluated, EvaluatedBelow
            <4>3. QED  BY <1>2, <1>3, <1>4, <3>1, <3>3, <3>5, <4>2
        <3>6. QED  BY <3>4, <3>5
    <2>2. EvaluatedBelow(i)'
        BY <1>2, <2>1, UnchangedCall DEF EvaluatedBelow
    <2>3. QED  BY <1>2, <2>2 DEF Evaluated
<1>11. OutputOf(Answered)'
    <2>1. Answered' = Answered
        BY <1>2 DEF Answered
    <2>2. QED  BY <1>1, <1>2, <2>1, KeepsOutput
<1>12. QED
    BY <1>1, <1>2, <1>4, <1>5, <1>6, <1>7, <1>8, <1>9, <1>10, <1>11 DEF IInv, Stages

LEMMA GatherStep ==
    ASSUME IInv, Gather
    PROVE  IInv'
<1>1. /\ xp \in Batches \cup {<<>>} /\ TypeOK /\ Modes /\ Loops /\ Keyed /\ Counted /\ Ranked
      /\ Evaluated /\ OutputOf(Answered)
    BY DEF IInv
<1>2. /\ pc = "gather" /\ i < n /\ i' = i + 1 /\ pc' = "gather" /\ mode # "fits"
      /\ out' = [out EXCEPT ![i] = out_packed[rank[i]]]
      /\ UNCHANGED << calls, mode, xp, keys, counts, rank, packed, out_packed, acc >>
    BY <1>1 DEF Gather, Turn, GatherBack, Modes
<1>3. /\ n \in Nat /\ n <= capacity /\ capacity \in Nat /\ nbins \in Nat /\ i \in Nat /\ acc \in 0 .. capacity
      /\ InBatch = 0 .. n - 1 /\ InBatch \subseteq Slots /\ Bins = 0 .. ScanSize - 1
      /\ ScanSize \in 1 .. nbins /\ Bins \subseteq 0 .. nbins - 1 /\ n_fits = 2 /\ n_fits <= nbins
      /\ Slots = 0 .. capacity - 1
    BY <1>1, CallSizes, KeySpace DEF TypeOK
<1>4. TypeOK'
    <2>1. DOMAIN out' = 0 .. n - 1
        BY <1>1, <1>2 DEF TypeOK
    <2>2. QED  BY <1>1, <1>2, <1>3, <2>1, UnchangedCall DEF TypeOK
<1>5. Modes' /\ Loops'
    BY <1>1, <1>2, <1>3, UnchangedCall DEF Modes, Loops
<1>6. Keyed'
    BY <1>1, <1>2, UnchangedCall DEF Keyed
<1>7. Counted'
    BY <1>1, <1>2, <1>3, UnchangedCall DEF Counted
<1>8. Ranked'
    BY <1>1, <1>2, UnchangedCall DEF Ranked, PackedBelow, PlacedBelow
<1>9. Evaluated'
    BY <1>1, <1>2, UnchangedCall DEF Evaluated, EvaluatedBelow
<1>10. OutputOf(Answered)'
    <2>1. out'[i] = Scalar(RegimeOf[x(i)], x(i))
        <3>1. i \in InBatch /\ DOMAIN out = InBatch
            BY <1>1, <1>2, <1>3 DEF TypeOK
        <3>2. x(i) \in Points /\ BinOf[i] = Key(x(i)) /\ BinOf[i] < nbins
            BY <1>1, <1>2, <1>3, <3>1, CallSizes DEF Bin
        <3>3. rank[i] = Slot(i) /\ out_packed[Slot(i)] = EvalBin(BinOf[i], x(i))
            BY <1>1, <1>2, <1>3, <3>1, <3>2 DEF Ranked, PackedBelow, Evaluated, EvaluatedBelow
        <3>4. QED  BY <1>2, <3>1, <3>2, <3>3, EvalBinOfKey
    <2>2. Answered = 0 .. i - 1 /\ Answered' = 0 .. i
        BY <1>2, <1>3 DEF Answered
    <2>3. ASSUME NEW k \in InBatch
          PROVE  out'[k] = IF k \in 0 .. i THEN Scalar(RegimeOf[x(k)], x(k)) ELSE Garbage
        <3>1. CASE k = i
            BY <1>3, <2>1, <3>1
        <3>2. CASE k # i
            <4>1. out'[k] = out[k]
                BY <1>1, <1>2, <1>3, <3>2 DEF TypeOK
            <4>2. k \in 0 .. i <=> k \in 0 .. i - 1
                BY <1>3, <3>2
            <4>3. QED  BY <1>1, <2>2, <4>1, <4>2 DEF OutputOf
        <3>3. QED  BY <3>1, <3>2
    <2>4. QED  BY <1>2, <2>2, <2>3, UnchangedCall DEF OutputOf
<1>11. QED
    BY <1>1, <1>2, <1>4, <1>5, <1>6, <1>7, <1>8, <1>9, <1>10 DEF IInv, Stages

LEMMA PrepareStep ==
    ASSUME IInv, Prepare
    PROVE  IInv'
<1>1. /\ xp \in Batches \cup {<<>>} /\ TypeOK /\ Modes /\ Loops /\ Keyed /\ Counted /\ Ranked
      /\ Evaluated /\ OutputOf(Answered)
    BY DEF IInv
<1>2. /\ pc = "prepare" /\ i = 0 /\ mode = "fits" /\ pc' = (IF n = 0 THEN "idle" ELSE "count")
      /\ keys' = [k \in DOMAIN keys |-> IF k < n THEN RegimeOf[x(k)] ELSE keys[k]]
      /\ counts' = [b \in DOMAIN counts |-> IF b < n_fits THEN 0 ELSE counts[b]]
      /\ UNCHANGED << calls, mode, xp, rank, packed, out_packed, out, i, acc >>
    BY <1>1 DEF Prepare, CleanScratch, Modes, Loops
<1>3. /\ n \in Nat /\ n <= capacity /\ capacity \in Nat /\ nbins \in Nat /\ i \in Nat /\ acc \in 0 .. capacity
      /\ InBatch = 0 .. n - 1 /\ InBatch \subseteq Slots /\ Bins = 0 .. ScanSize - 1
      /\ ScanSize \in 1 .. nbins /\ Bins \subseteq 0 .. nbins - 1 /\ n_fits = 2 /\ n_fits <= nbins
      /\ Slots = 0 .. capacity - 1
    BY <1>1, CallSizes, KeySpace DEF TypeOK
<1>4. TypeOK'
    <2>1. /\ counts' \in [0 .. nbins - 1 -> Pending(0 .. capacity)]
          /\ keys' \in [Slots -> Pending(0 .. nbins - 1)]
        <3>1. counts' \in [0 .. nbins - 1 -> Pending(0 .. capacity)]
            BY <1>1, <1>2, <1>3 DEF TypeOK, Pending
        <3>2. \A k \in Slots : k < n => RegimeOf[x(k)] \in 0 .. nbins - 1
            <4>1. \A k \in InBatch : x(k) \in Points
                BY <1>1, CallSizes
            <4>2. \A p \in Points : RegimeOf[p] \in 0 .. nbins - 1
                BY <1>3, KeySpace
            <4>3. \A k \in Slots : k < n => k \in InBatch
                BY <1>3
            <4>4. QED  BY <4>1, <4>2, <4>3
        <3>3. keys' \in [Slots -> Pending(0 .. nbins - 1)]
            BY <1>1, <1>2, <3>2 DEF TypeOK, Pending
        <3>4. QED  BY <3>1, <3>3
    <2>2. QED  BY <1>1, <1>2, <1>3, <2>1, UnchangedCall DEF TypeOK
<1>5. Modes' /\ Loops'
    BY <1>1, <1>2, <1>3, UnchangedCall DEF Modes, Loops
<1>6. Keyed'
    <2>1. ASSUME NEW k \in InBatch PROVE keys'[k] = BinOf[k]
        <3>1. BinOf[k] = RegimeOf[x(k)] /\ k < n /\ k \in DOMAIN keys
            BY <1>1, <1>2, <1>3, CallSizes DEF Bin, TypeOK
        <3>2. QED  BY <1>2, <3>1
    <2>2. QED  BY <1>2, <2>1, UnchangedCall DEF Keyed
<1>7. Counted'
    <2>1. ASSUME NEW b \in Bins PROVE counts'[b] = Ahead(b, 0)
        <3>1. ScanSize = n_fits /\ b < n_fits /\ b \in DOMAIN counts
            BY <1>1, <1>2, <1>3 DEF ScanSize, TypeOK
        <3>2. QED  BY <1>2, <3>1, NoneAhead
    <2>2. \A b \in Bins : counts'[b] = Ahead(b, i)'
        BY <1>2, <2>1, UnchangedCall DEF Ahead
    <2>3. QED  BY <1>2, <2>2, UnchangedCall DEF Counted
<1>8. Ranked'
    BY <1>1, <1>2, UnchangedCall DEF Ranked, PackedBelow, PlacedBelow
<1>9. Evaluated'
    BY <1>1, <1>2, UnchangedCall DEF Evaluated, EvaluatedBelow
<1>10. OutputOf(Answered)'
    <2>1. Answered' = Answered
        BY <1>2, <1>3, UnchangedCall DEF Answered
    <2>2. QED  BY <1>1, <1>2, <2>1, KeepsOutput
<1>11. QED
    BY <1>1, <1>2, <1>4, <1>5, <1>6, <1>7, <1>8, <1>9, <1>10 DEF IInv, Stages

LEMMA DispatchStep ==
    ASSUME IInv, Dispatch
    PROVE  IInv'
<1>1. /\ xp \in Batches \cup {<<>>} /\ TypeOK /\ Modes /\ Loops /\ Keyed /\ Counted /\ Ranked
      /\ Evaluated /\ OutputOf(Answered)
    BY DEF IInv
<1>2. /\ pc = "dispatch" /\ i < n_fits /\ i' = i + 1 /\ pc' = "dispatch" /\ mode = "fits" /\ ScanSize = n_fits
      /\ out' = [k \in DOMAIN out |->
                   IF \E s \in acc .. counts[i] - 1 : rank[s] = k THEN Scalar(i, x(k)) ELSE out[k]]
      /\ acc' = counts[i]
      /\ UNCHANGED << calls, mode, xp, keys, counts, rank, packed, out_packed >>
    BY <1>1 DEF Dispatch, Turn, Modes, ScanSize
<1>3. /\ n \in Nat /\ n <= capacity /\ capacity \in Nat /\ nbins \in Nat /\ i \in Nat /\ acc \in 0 .. capacity
      /\ InBatch = 0 .. n - 1 /\ InBatch \subseteq Slots /\ Bins = 0 .. ScanSize - 1
      /\ ScanSize \in 1 .. nbins /\ Bins \subseteq 0 .. nbins - 1 /\ n_fits = 2 /\ n_fits <= nbins
      /\ Slots = 0 .. capacity - 1
    BY <1>1, CallSizes, KeySpace DEF TypeOK
<1>4. /\ i \in Bins /\ acc = StartOf(i) /\ counts[i] = StartOf(i + 1) /\ acc' = StartOf(i + 1)
      /\ StartOf(i) \in 0 .. n /\ StartOf(i + 1) \in 0 .. n
    <2>1. i \in Bins
        BY <1>2, <1>3
    <2>2. /\ StartOf(i) \in 0 .. n /\ StartOf(i + 1) \in 0 .. n /\ StartOf(i) <= StartOf(i + 1)
        BY <1>1, <2>1, OneStart
    <2>3. acc = StartOf(i) /\ counts[i] = StartOf(i + 1)
        BY <1>1, <1>2, <1>3, <2>1 DEF Counted
    <2>4. QED  BY <1>2, <2>1, <2>2, <2>3
<1>5. TypeOK'
    <2>1. DOMAIN out' = 0 .. n - 1 /\ acc' \in 0 .. capacity
        BY <1>1, <1>2, <1>3, <1>4 DEF TypeOK
    <2>2. QED  BY <1>1, <1>2, <1>3, <2>1, UnchangedCall DEF TypeOK
<1>6. Modes' /\ Loops'
    BY <1>1, <1>2, <1>3, UnchangedCall DEF Modes, Loops
<1>7. Keyed'
    BY <1>1, <1>2, UnchangedCall DEF Keyed
<1>8. Counted'
    <2>1. acc' = StartOf(i)'
        BY <1>2, <1>4, UnchangedCall DEF StartOf
    <2>2. QED  BY <1>1, <1>2, <2>1, UnchangedCall DEF Counted
<1>9. Ranked'
    BY <1>1, <1>2, UnchangedCall DEF Ranked, PackedBelow, PlacedBelow
<1>10. Evaluated'
    BY <1>1, <1>2, UnchangedCall DEF Evaluated, EvaluatedBelow
<1>11. OutputOf(Answered)'
    <2>1. ASSUME NEW k \in InBatch
          PROVE  (\E s \in acc .. counts[i] - 1 : rank[s] = k) <=> Bin(k) = i
        <3>1. /\ \A l \in InBatch : Slot(l) \in InBatch
              /\ \A s \in InBatch : \E l \in InBatch : Slot(l) = s
            BY <1>1, CallSort
        <3>2. \A l \in InBatch, b \in Int : Slot(l) \in StartOf(b) .. StartOf(b + 1) - 1 <=> BinOf[l] = b
            BY <1>1, CallSort
        <3>3. \A l \in InBatch : rank[Slot(l)] = l
            BY <1>1, <1>2, <1>3 DEF Ranked, PlacedBelow
        <3>4. BinOf[k] = Bin(k)
            BY <1>1, CallSizes
        <3>5. acc .. counts[i] - 1 = StartOf(i) .. StartOf(i + 1) - 1 /\ acc .. counts[i] - 1 \subseteq InBatch
            BY <1>3, <1>4
        <3>6. ASSUME NEW s \in acc .. counts[i] - 1, rank[s] = k PROVE Bin(k) = i
            <4>1. PICK l \in InBatch : Slot(l) = s
                BY <3>1, <3>5
            <4>2. l = k
                BY <3>3, <3>6, <4>1
            <4>3. Slot(k) \in StartOf(i) .. StartOf(i + 1) - 1 /\ i \in Int
                BY <1>3, <1>4, <4>1, <4>2
            <4>4. QED  BY <3>2, <3>4, <4>3
        <3>7. ASSUME Bin(k) = i PROVE \E s \in acc .. counts[i] - 1 : rank[s] = k
            <4>1. i \in Int /\ BinOf[k] = i
                BY <1>3, <3>4, <3>7
            <4>2. Slot(k) \in StartOf(i) .. StartOf(i + 1) - 1
                BY <3>2, <4>1
            <4>3. Slot(k) \in acc .. counts[i] - 1 /\ rank[Slot(k)] = k
                BY <3>3, <3>5, <4>2
            <4>4. QED  BY <4>3
        <3>8. QED  BY <3>6, <3>7
    <2>2. ASSUME NEW k \in InBatch
          PROVE  out'[k] = IF Bin(k) < i + 1 THEN Scalar(RegimeOf[x(k)], x(k)) ELSE Garbage
        <3>1. /\ out[k] = IF Bin(k) < i THEN Scalar(RegimeOf[x(k)], x(k)) ELSE Garbage
              /\ Bin(k) \in Int /\ Bin(k) = RegimeOf[x(k)]
            BY <1>1, <1>2, CallSizes DEF OutputOf, Answered, Bin
        <3>2. out'[k] = IF Bin(k) = i THEN Scalar(i, x(k)) ELSE out[k]
            BY <1>1, <1>2, <1>3, <2>1 DEF TypeOK
        <3>3. QED  BY <1>3, <3>1, <3>2
    <2>3. Answered' = {k \in InBatch : Bin(k) < i + 1}
        BY <1>2, UnchangedCall DEF Answered
    <2>4. QED  BY <1>2, <2>2, <2>3, UnchangedCall DEF OutputOf
<1>12. QED
    BY <1>1, <1>2, <1>4, <1>5, <1>6, <1>7, <1>8, <1>9, <1>10, <1>11 DEF IInv, Stages

LEMMA StutterStep ==
    ASSUME IInv, UNCHANGED vars
    PROVE  IInv'
<1>1. /\ UNCHANGED << calls, mode, xp, keys, counts, rank, packed, out_packed, out, i, acc, pc >>
      /\ xp \in Batches \cup {<<>>} /\ pc \in Stages
      /\ TypeOK /\ Modes /\ Loops /\ Keyed /\ Counted /\ Ranked /\ Evaluated /\ OutputOf(Answered)
    BY DEF vars, IInv
<1>2. TypeOK' /\ Modes' /\ Loops' /\ Keyed' /\ Counted'
    BY <1>1, UnchangedCall DEF TypeOK, Modes, Loops, Keyed, Counted
<1>3. Ranked' /\ Evaluated'
    BY <1>1, UnchangedCall DEF Ranked, PackedBelow, PlacedBelow, Evaluated, EvaluatedBelow
<1>4. OutputOf(Answered)'
    <2>1. InBatch' = InBatch /\ \A k : (Bin(k) < i)' <=> Bin(k) < i
        BY <1>1, UnchangedCall
    <2>2. Answered' = Answered
        BY <1>1, <2>1 DEF Answered
    <2>3. QED  BY <1>1, <2>2, KeepsOutput
<1>5. QED  BY <1>1, <1>2, <1>3, <1>4 DEF IInv, Stages

LEMMA InitInv == Init => IInv
<1> SUFFICES ASSUME Init PROVE IInv
    OBVIOUS
<1>1. /\ xp = <<>> /\ pc = "idle" /\ mode = "sort" /\ i = 0 /\ acc = 0 /\ calls = 0 /\ n = 0
      /\ capacity \in Nat /\ nbins \in Nat /\ MaxCalls \in Nat
    BY KeySpace, SortConstants DEF Init, n
<1>2. \A S, m : Memory(m) \in [0 .. m - 1 -> Pending(S)] /\ DOMAIN Memory(m) = 0 .. m - 1
    BY DEF Memory, Pending
<1>3. TypeOK
    <2>1. /\ keys = Memory(capacity) /\ counts = Memory(nbins) /\ rank = Memory(capacity)
          /\ packed = Memory(capacity) /\ out_packed = Memory(capacity) /\ out = Memory(0)
        BY DEF Init
    <2>2. /\ keys \in [Slots -> Pending(0 .. nbins - 1)] /\ rank \in [Slots -> Pending(Slots)]
          /\ packed \in [Slots -> Pending(Points)] /\ counts \in [0 .. nbins - 1 -> Pending(0 .. capacity)]
          /\ DOMAIN out_packed = Slots /\ DOMAIN out = 0 .. n - 1
        BY <1>1, <1>2, <2>1 DEF Slots
    <2>3. calls \in 0 .. MaxCalls /\ i \in 0 .. nbins + capacity /\ acc \in 0 .. capacity
        BY <1>1
    <2>4. QED  BY <1>1, <2>2, <2>3 DEF TypeOK
<1>4. Modes /\ Loops /\ Keyed /\ Counted /\ Ranked /\ Evaluated
    BY <1>1 DEF Modes, Loops, Keyed, Counted, Ranked, Evaluated
<1>5. OutputOf(Answered)
    BY <1>1 DEF OutputOf, InBatch
<1>6. QED  BY <1>1, <1>3, <1>4, <1>5 DEF IInv, Stages

LEMMA NextInv == IInv /\ [Next]_vars => IInv'
<1> SUFFICES ASSUME IInv, [Next]_vars PROVE IInv'
    OBVIOUS
<1>1. CASE BeginCall \/ Classify \/ Clear \/ Histogram \/ EndHistogram
    BY <1>1, BeginCallStep, ClassifyStep, ClearStep, HistogramStep, EndHistogramStep
<1>2. CASE Scan \/ EndScan \/ Scatter \/ EndScatter
    BY <1>2, ScanStep, EndScanStep, ScatterStep, EndScatterStep
<1>3. CASE Run \/ EndRuns \/ Gather \/ EndGather
    BY <1>3, RunStep, EndRunsStep, GatherStep, EndGatherStep
<1>4. CASE Prepare \/ Count \/ EndCount \/ Place \/ EndPlace
    BY <1>4, PrepareStep, CountStep, EndCountStep, PlaceStep, EndPlaceStep
<1>5. CASE Dispatch \/ EndDispatch
    BY <1>5, DispatchStep, EndDispatchStep
<1>6. CASE UNCHANGED vars
    BY <1>6, StutterStep
<1>7. QED  BY <1>1, <1>2, <1>3, <1>4, <1>5, <1>6 DEF Next

LEMMA Invariance == Spec => []IInv
<1>1. QED  BY InitInv, NextInv, PTL DEF Spec

-----------------------------------------------------------------------------
(* What follows.                                                           *)

\* Every index that a call stores or reads lies in the caller's buffers
\* (exclusive_scan, scatter, for_each_run, eval_scatter_sorted).
THEOREM CallersBuffersSuffice == Spec => []TypeOK
<1>1. IInv => TypeOK
    BY DEF IInv
<1>2. QED  BY <1>1, Invariance, PTL

\* One array serves as histogram, starts, cursors and ends, in both recipes
\* and call after call (histogram, exclusive_scan, scatter; eval_scatter_sorted).
THEOREM CountsOfEveryStage == Spec => []CountsStage
<1>1. IInv => CountsStage
    <2> SUFFICES ASSUME IInv PROVE CountsStage
        OBVIOUS
    <2>1. xp \in Batches \cup {<<>>} /\ TypeOK /\ Loops /\ Counted
        BY DEF IInv
    <2>2. n \in Nat /\ InBatch = 0 .. n - 1 /\ (\A k \in InBatch : BinOf[k] = Bin(k)) /\ i \in Nat
        BY <2>1, CallSizes DEF TypeOK
    <2>3. \A b : Below(b) = StartOf(b)
        <3>1. SUFFICES ASSUME NEW b PROVE Below(b) = StartOf(b)
            OBVIOUS
        <3>2. {k \in InBatch : Bin(k) < b} = {t \in 0 .. n - 1 : BinOf[t] < b}
            BY <2>2
        <3>3. QED  BY <3>2 DEF Below, StartOf, NBelow
    <2>4. \A b, k \in Nat : k <= n => UpTo(b, k) = Ahead(b, k)
        <3>1. SUFFICES ASSUME NEW b, NEW k \in Nat, k <= n PROVE UpTo(b, k) = Ahead(b, k)
            OBVIOUS
        <3>2. 0 .. k - 1 \subseteq InBatch
            BY <2>2, <3>1
        <3>3. {l \in 0 .. k - 1 : Bin(l) = b} = {t \in 0 .. k - 1 : BinOf[t] = b}
            BY <2>2, <3>2
        <3>4. QED  BY <3>3 DEF UpTo, Ahead, NEqual
    <2>5. Bins \subseteq Nat
        BY <2>1, CallSizes
    <2>6. CASE pc \in {"histogram", "count", "scatter", "place"}
        <3>1. i <= n
            BY <2>1, <2>6 DEF Loops
        <3>2. QED  BY <2>1, <2>2, <2>3, <2>4, <2>5, <2>6, <3>1 DEF CountsStage, Counted
    <2>7. CASE pc = "scan"
        BY <2>1, <2>2, <2>3, <2>4, <2>5, <2>7 DEF CountsStage, Counted
    <2>8. CASE pc \in {"run", "dispatch"}
        BY <2>1, <2>3, <2>8 DEF CountsStage, Counted
    <2>9. CASE pc \notin {"histogram", "count", "scatter", "place", "scan", "run", "dispatch"}
        BY <2>9 DEF CountsStage
    <2>10. QED  BY <2>6, <2>7, <2>8, <2>9
<1>2. QED  BY <1>1, Invariance, PTL

\* rank and perm permute the batch and keep the order within a bin (scatter,
\* gather; eval_scatter_sorted), on buffers that hold an earlier batch.
THEOREM RanksPermute == Spec => []Permutation
<1>1. IInv => Permutation
    <2> SUFFICES ASSUME IInv PROVE Permutation
        OBVIOUS
    <2>1. xp \in Batches \cup {<<>>} /\ Ranked
        BY DEF IInv
    <2>2. n \in Nat /\ InBatch = 0 .. n - 1 /\ (\A k \in InBatch : BinOf[k] = Bin(k) /\ BinOf[k] \in Int)
        BY <2>1, CallSizes
    <2>3. /\ \A k \in InBatch : Slot(k) \in InBatch
          /\ \A k, l \in InBatch : Slot(k) = Slot(l) => k = l
          /\ \A k, l \in InBatch : k < l /\ BinOf[k] = BinOf[l] => Slot(k) < Slot(l)
          /\ \A k, l \in InBatch : BinOf[k] < BinOf[l] => Slot(k) < Slot(l)
          /\ \A s \in InBatch : \E k \in InBatch : Slot(k) = s
        BY <2>1, CallSort
    <2>4. ASSUME pc \in {"run", "gather"}
          PROVE  /\ {rank[k] : k \in InBatch} = InBatch
                 /\ \A k \in InBatch : packed[rank[k]] = x(k)
                 /\ \A k, l \in InBatch : k < l /\ Bin(k) = Bin(l) => rank[k] < rank[l]
        <3>1. \A k \in InBatch : rank[k] = Slot(k) /\ packed[Slot(k)] = x(k)
            BY <2>1, <2>2, <2>4 DEF Ranked, PackedBelow
        <3>2. {rank[k] : k \in InBatch} = InBatch
            BY <2>3, <3>1
        <3>3. \A k \in InBatch : packed[rank[k]] = x(k)
            BY <3>1
        <3>4. ASSUME NEW k \in InBatch, NEW l \in InBatch, k < l, Bin(k) = Bin(l)
              PROVE  rank[k] < rank[l]
            <4>1. BinOf[k] = BinOf[l]
                BY <2>2, <3>4
            <4>2. Slot(k) < Slot(l)
                BY <2>3, <3>4, <4>1
            <4>3. QED  BY <3>1, <4>2
        <3>5. QED  BY <3>2, <3>3, <3>4
    <2>5. ASSUME pc = "dispatch"
          PROVE  /\ {rank[s] : s \in InBatch} = InBatch
                 /\ \A s, t \in InBatch : s < t =>
                      \/ Bin(rank[s]) < Bin(rank[t])
                      \/ Bin(rank[s]) = Bin(rank[t]) /\ rank[s] < rank[t]
        <3>1. \A k \in InBatch : rank[Slot(k)] = k
            BY <2>1, <2>2, <2>5 DEF Ranked, PlacedBelow
        <3>2. \A s \in InBatch : rank[s] \in InBatch /\ Slot(rank[s]) = s
            BY <2>3, <3>1
        <3>3. {rank[s] : s \in InBatch} = InBatch
            BY <2>3, <3>1, <3>2
        <3>4. ASSUME NEW s \in InBatch, NEW t \in InBatch, s < t
              PROVE  \/ Bin(rank[s]) < Bin(rank[t])
                     \/ Bin(rank[s]) = Bin(rank[t]) /\ rank[s] < rank[t]
            <4> DEFINE k == rank[s]
                       l == rank[t]
            <4>1. k \in InBatch /\ l \in InBatch /\ Slot(k) < Slot(l) /\ s \in Int /\ t \in Int
                BY <2>2, <3>2, <3>4
            <4> HIDE DEF k, l
            <4>2. Slot(k) \in Int /\ Slot(l) \in Int /\ k \in Int /\ l \in Int
                BY <2>2, <2>3, <4>1
            <4>3. ~ (BinOf[l] < BinOf[k])
                BY <2>3, <4>1, <4>2
            <4>4. BinOf[k] = BinOf[l] => k < l
                <5>1. BinOf[k] = BinOf[l] => ~ (l < k)
                    BY <2>3, <4>1, <4>2
                <5>2. k # l
                    BY <4>1, <4>2
                <5>3. QED  BY <4>2, <5>1, <5>2
            <4>5. Bin(k) < Bin(l) \/ (Bin(k) = Bin(l) /\ k < l)
                BY <2>2, <4>1, <4>3, <4>4
            <4>6. QED  BY <4>5 DEF k, l
        <3>5. QED  BY <3>3, <3>4
    <2>6. QED  BY <2>4, <2>5 DEF Permutation
<1>2. QED  BY <1>1, Invariance, PTL

-----------------------------------------------------------------------------
(* The refinement of Pointwise.                                            *)

\* A step inside a call answers more points of the same batch.
LEMMA AnswersGrow ==
    ASSUME IInv, Next, ~ BeginCall
    PROVE  xp' = xp /\ n' = n /\ Answered \subseteq Answered'
<1>1. /\ xp \in Batches \cup {<<>>} /\ TypeOK /\ Modes /\ Loops
      /\ n \in Nat /\ InBatch = 0 .. n - 1 /\ i \in Nat /\ n_fits = 2
    BY CallSizes, KeySpace DEF IInv, TypeOK
<1>2. CASE Classify \/ Clear \/ Histogram \/ EndHistogram \/ Scan \/ EndScan \/ Scatter \/ EndScatter
           \/ Run \/ EndRuns \/ Prepare \/ Count \/ EndCount \/ Place \/ EndPlace
    <2>1. xp' = xp /\ pc \notin {"idle", "gather", "dispatch"}
        BY <1>2
        DEF Classify, Clear, Histogram, EndHistogram, Scan, EndScan, Scatter, EndScatter,
            Run, EndRuns, Prepare, Count, EndCount, Place, EndPlace, Turn, EndLoop
    <2>2. QED  BY <2>1 DEF Answered, n
<1>3. CASE Gather
    BY <1>1, <1>3 DEF Gather, Turn, Answered, n
<1>4. CASE EndGather
    <2>1. pc = "gather" /\ pc' = "idle" /\ i = n /\ xp' = xp /\ mode' = mode
        BY <1>4 DEF EndGather, EndLoop
    <2>2. QED  BY <1>1, <2>1, UnchangedCall DEF Answered
<1>5. CASE Dispatch
    <2>1. pc = "dispatch" /\ pc' = "dispatch" /\ i' = i + 1 /\ xp' = xp /\ mode' = mode
        BY <1>5 DEF Dispatch, Turn
    <2>2. \A k \in InBatch : Bin(k) \in Int
        BY <1>1, CallSizes
    <2>3. QED  BY <1>1, <2>1, <2>2, UnchangedCall DEF Answered
<1>6. CASE EndDispatch
    <2>1. pc = "dispatch" /\ pc' = "idle" /\ xp' = xp /\ mode' = mode
        BY <1>6 DEF EndDispatch, EndLoop
    <2>2. QED  BY <2>1, UnchangedCall DEF Answered
<1>7. QED  BY <1>2, <1>3, <1>4, <1>5, <1>6 DEF Next

\* Both interfaces answer every batch as its fits answer point by point, on
\* buffers that earlier calls of either kind left dirty.
THEOREM CallsArePointwise == Spec => ImplementsPointwise
<1> DEFINE ans == [p \in Points |-> Scalar(RegimeOf[p], p)]
           seen == [p \in 1 .. n |-> out[p - 1]]
<1>1. Init => Answers!Init
    <2> SUFFICES ASSUME Init PROVE Answers!Init
        OBVIOUS
    <2>1. xp = <<>> /\ n = 0
        BY DEF Init, n
    <2>2. 1 .. n = {} /\ 1 .. Len(xp) = {}
        BY <2>1
    <2>3. QED  BY <2>1, <2>2 DEF Answers!Init
<1>2. ASSUME IInv, BeginCall PROVE Answers!NewBatch
    <2>1. pc = "idle" /\ xp \in Batches \cup {<<>>} /\ OutputOf(InBatch)
        BY <1>2 DEF IInv, BeginCall, Answered
    <2>2. n \in Nat /\ InBatch = 0 .. n - 1 /\ \A k \in InBatch : x(k) \in Points
        BY <2>1, CallSizes
    <2>3. \A p \in 1 .. n : seen[p] # Garbage
        <3>1. SUFFICES ASSUME NEW p \in 1 .. n PROVE out[p - 1] # Garbage
            OBVIOUS
        <3>2. p - 1 \in InBatch
            BY <2>2
        <3>3. QED  BY <2>1, <2>2, <3>2, GarbageIsNoAnswer DEF OutputOf
    <2>4. xp' \in Batches /\ out' = Memory(Len(xp')) /\ n' = Len(xp') /\ n' \in Nat
        BY <1>2, SortConstants DEF BeginCall, n
    <2>5. seen' = [p \in 1 .. Len(xp') |-> Garbage]
        <3>1. \A p \in 1 .. n' : out'[p - 1] = Garbage
            BY <2>4 DEF Memory
        <3>2. seen' = [p \in 1 .. n' |-> out'[p - 1]]
            OBVIOUS
        <3> HIDE DEF seen
        <3>3. QED  BY <2>4, <3>1, <3>2
    <2>6. DOMAIN seen = 1 .. n
        OBVIOUS
    <2>7. QED  BY <2>3, <2>4, <2>5, <2>6 DEF Answers!NewBatch
<1>3. ASSUME IInv, IInv', Next, ~ BeginCall PROVE Answers!AnswerSome
    <2>1. /\ xp' = xp /\ n' = n /\ Answered \subseteq Answered' /\ OutputOf(Answered) /\ OutputOf(Answered)'
          /\ xp \in Batches \cup {<<>>}
        BY <1>3, AnswersGrow DEF IInv
    <2>2. n \in Nat /\ InBatch = 0 .. n - 1 /\ \A k \in InBatch : x(k) \in Points
        BY <2>1, CallSizes
    <2>3. InBatch' = InBatch /\ \A k : x(k)' = x(k)
        BY <2>1 DEF InBatch, x
    <2>4. ASSUME NEW p \in 1 .. n
          PROVE  out'[p - 1] = out[p - 1] \/ (out[p - 1] = Garbage /\ out'[p - 1] = ans[xp[p]])
        <3>1. p - 1 \in InBatch /\ x(p - 1) = xp[p] /\ xp[p] \in Points
            <4>1. p - 1 \in InBatch /\ (p - 1) + 1 = p
                BY <2>2
            <4>2. QED  BY <2>2, <4>1 DEF x
        <3>2. out[p - 1] = IF p - 1 \in Answered THEN Scalar(RegimeOf[xp[p]], xp[p]) ELSE Garbage
            BY <2>1, <3>1 DEF OutputOf
        <3>3. out'[p - 1] = IF p - 1 \in Answered' THEN Scalar(RegimeOf[xp[p]], xp[p]) ELSE Garbage
            BY <2>1, <2>3, <3>1 DEF OutputOf
        <3>4. ans[xp[p]] = Scalar(RegimeOf[xp[p]], xp[p])
            BY <3>1
        <3> HIDE DEF ans
        <3>5. QED  BY <2>1, <3>2, <3>3, <3>4
    <2>5. /\ DOMAIN seen = 1 .. n /\ DOMAIN seen' = 1 .. n
          /\ \A p \in 1 .. n : seen[p] = out[p - 1] /\ seen'[p] = out'[p - 1]
        BY <2>1
    <2>6. /\ DOMAIN seen' = DOMAIN seen
          /\ \A p \in DOMAIN seen : seen'[p] = seen[p] \/ (seen[p] = Garbage /\ seen'[p] = ans[xp[p]])
        <3> HIDE DEF seen, ans
        <3>1. QED  BY <2>4, <2>5
    <2>7. QED  BY <2>1, <2>6 DEF Answers!AnswerSome
<1>4. UNCHANGED vars => UNCHANGED << xp, seen >>
    BY DEF vars, n
<1>5. IInv /\ IInv' /\ [Next]_vars => [Answers!Next]_<< xp, seen >>
    BY <1>2, <1>3, <1>4 DEF Answers!Next
<1>6. QED  BY <1>1, <1>5, Invariance, PTL DEF Spec, ImplementsPointwise, Answers!Spec
================================================================================
