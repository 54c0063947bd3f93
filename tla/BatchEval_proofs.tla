--------------------------- MODULE BatchEval_proofs ---------------------------
(***************************************************************************)
(* The evaluation of an unsorted batch, proved for every batch, tree, tile *)
(* size and output layout: the bounds of the buffers, the counting sort of *)
(* a tile, and the refinement of Pointwise.                                *)
(***************************************************************************)
EXTENDS BatchEval, CountingLemmas

InTile == {"clear", "histogram", "scan", "scatter", "dispatch", "permute", "next"}

\* The leaf ids of the tile; the first slot of bucket b; the points of the
\* bucket before k; and the slot a stable sort gives to point k.
Ids == [k \in TilePoints |-> LeafOf[x(k)]]
StartOf(b) == NBelow(Ids, tile_n, b)
Ahead(b, k) == NEqual(Ids, b, k)
Slot(k) == SlotOf(Ids, tile_n, k)

Loops ==
  /\ pc \in {"start", "clear", "next"} => i = 0
  /\ pc = "scalar" => i < n_trg
  /\ pc \in {"histogram", "scatter", "permute"} => i < tile_n
  /\ pc \in {"scan", "dispatch"} => i <= n_leaves
  /\ pc \in {"start", "scalar"} => tile_off = 0
  /\ pc = "start" => acc = 0

Tiled ==
  pc \in InTile =>
    /\ tile_off < n_trg
    /\ tile_cap = Least(n_trg, tile_K)
    /\ DOMAIN counts = 0 .. n_leaves

\* What counts and acc hold at every stage of a tile.
Counted ==
  /\ pc = "histogram" => \A b \in 0 .. n_leaves : counts[b] = Ahead(b, i)
  /\ pc = "scan" =>
       /\ acc = StartOf(i)
       /\ \A b \in 0 .. n_leaves :
            counts[b] = IF b < i THEN StartOf(b) ELSE Ahead(b, tile_n)
  /\ pc = "scatter" => \A b \in 0 .. n_leaves : counts[b] = StartOf(b) + Ahead(b, i)
  /\ pc \in {"dispatch", "permute"} => \A b \in 0 .. n_leaves : counts[b] = StartOf(b + 1)
  /\ pc = "dispatch" => acc = StartOf(i)

\* The ids of the first pass, where they are kept.
Remembered ==
  ~ table =>
    /\ pc = "histogram" => \A k \in 0 .. i - 1 : leaf_ids[k] = Ids[k]
    /\ pc \in {"scan", "scatter"} => \A k \in TilePoints : leaf_ids[k] = Ids[k]

PackedBelow(m) ==
  \A k \in 0 .. m - 1 : perm_inv[k] = Slot(k) /\ xp_packed[Slot(k)] = x(k)
Packed ==
  /\ pc = "scatter" => PackedBelow(i)
  /\ pc \in {"dispatch", "permute", "next"} => PackedBelow(tile_n)

EvaluatedBelow(b) ==
  \A k \in TilePoints : Ids[k] < b =>
    \A d \in components : out_packed[PackedSlot(Slot(k), d)] = Eval(Ids[k], x(k), d)
Evaluated ==
  /\ pc = "dispatch" => EvaluatedBelow(i)
  /\ pc = "permute" => EvaluatedBelow(n_leaves + 1)

\* The caller's points are answered in order, tile by tile.
AnsweredBelow(m) ==
  \A p \in 0 .. n_trg - 1, d \in components :
    res[CallerSlot(p, d)] = IF p < m THEN Eval(LeafOf[xp[p + 1]], xp[p + 1], d) ELSE Garbage
NAnswered ==
  CASE pc = "scalar" -> i
    [] pc = "permute" -> tile_off + i
    [] pc = "next" -> tile_off + tile_n
    [] pc = "done" -> n_trg
    [] OTHER -> tile_off

IInv ==
  /\ xp \in Batches
  /\ TypeOK
  /\ Loops
  /\ Tiled
  /\ Counted
  /\ Remembered
  /\ Packed
  /\ Evaluated
  /\ AnsweredBelow(NAnswered)

-----------------------------------------------------------------------------
(* Arithmetic.                                                             *)

\* Rows of width w: a slot determines its row and its column.
LEMMA Division ==
    ASSUME NEW w \in Nat, NEW a \in Nat, NEW b \in Nat, NEW r \in 0 .. w - 1, NEW q \in 0 .. w - 1,
           w * a + r = w * b + q
    PROVE  a = b /\ r = q
<1>1. ASSUME NEW s \in Nat, NEW t \in Nat, s < t PROVE w * s + w <= w * t
    <2>1. PICK e \in Nat : t = s + 1 + e
        <3>1. t - s - 1 \in Nat /\ t = s + 1 + (t - s - 1)
            BY <1>1
        <3>2. QED  BY <3>1
    <2>2. w * t = w * s + w + w * e /\ w * e \in Nat /\ w * s \in Nat
        BY <2>1
    <2>3. QED  BY <2>2
<1>2. w * a \in Nat /\ w * b \in Nat
    OBVIOUS
<1>3. ~ (a < b) /\ ~ (b < a)
    BY <1>1, <1>2
<1>4. QED  BY <1>2, <1>3

\* h rows of width w, numbered through.
LEMMA InRows ==
    ASSUME NEW w \in Nat, NEW h \in Nat, NEW a \in 0 .. h - 1, NEW r \in 0 .. w - 1
    PROVE  w * a + r \in 0 .. w * h - 1 /\ w * h = h * w /\ w * a = a * w
<1>1. PICK e \in Nat : h = a + 1 + e
    <2>1. h - a - 1 \in Nat /\ h = a + 1 + (h - a - 1)
        OBVIOUS
    <2>2. QED  BY <2>1
<1>2. w * h = w * a + w + w * e /\ w * e \in Nat /\ w * a \in Nat
    BY <1>1
<1>3. QED  BY <1>2

\* The constants and the sizes.
LEMMA Sizes ==
    ASSUME xp \in Batches
    PROVE  /\ n_trg \in Nat /\ n_leaves \in Nat /\ output_dim \in Nat /\ output_dim > 0
           /\ xp \in Seq(Points) /\ \A p \in 0 .. n_trg - 1 : xp[p + 1] \in Points
           /\ tile_K \in Nat /\ tile_K > 0
           /\ LeafOf \in [Points -> 0 .. n_leaves] /\ Garbage \notin Int \cup Points
           /\ kSortThreshold > 0 /\ kSortThreshold \in Nat
<1>1. n_leaves * kMinPtsPerLeaf \in Nat
    BY BatchConstants
<1>2. tile_K \in Nat /\ tile_K > 0
    BY <1>1, BatchConstants DEF tile_K, Most
<1>3. xp \in Seq(Points) /\ n_trg \in Nat
    BY BatchConstants DEF n_trg
<1>4. \A p \in 0 .. n_trg - 1 : xp[p + 1] \in Points
    BY <1>3 DEF n_trg
<1>5. QED  BY <1>2, <1>3, <1>4, BatchConstants

-----------------------------------------------------------------------------
(* A tile and its sort.                                                    *)

\* The points of a tile and their ids.
LEMMA TileType ==
    ASSUME xp \in Batches, Tiled, tile_off \in Nat, pc \in InTile
    PROVE  /\ tile_n \in Nat /\ 0 < tile_n /\ tile_n <= tile_cap /\ tile_off + tile_n <= n_trg
           /\ TilePoints = 0 .. tile_n - 1 /\ tile_cap \in Nat /\ tile_cap <= n_trg
           /\ tile_cap <= tile_K /\ Slots = 0 .. tile_cap - 1
           /\ \A k \in TilePoints : x(k) \in Points /\ Ids[k] = LeafOf[x(k)] /\ x(k) = xp[tile_off + k + 1]
           /\ Ids \in [0 .. tile_n - 1 -> 0 .. n_leaves] /\ Ids \in [0 .. tile_n - 1 -> Int]
<1>1. /\ tile_n \in Nat /\ 0 < tile_n /\ tile_n <= tile_cap /\ tile_off + tile_n <= n_trg
      /\ tile_cap \in Nat /\ tile_cap <= n_trg /\ tile_cap <= tile_K
    BY Sizes DEF Tiled, tile_n, Least
<1>2. \A k \in TilePoints : x(k) \in Points /\ x(k) = xp[tile_off + k + 1]
    <2>1. SUFFICES ASSUME NEW k \in TilePoints PROVE x(k) \in Points /\ x(k) = xp[tile_off + k + 1]
        OBVIOUS
    <2>2. tile_off + k \in 0 .. n_trg - 1
        BY <1>1, Sizes DEF TilePoints
    <2>3. xp[(tile_off + k) + 1] \in Points
        BY <2>2, Sizes
    <2>4. QED  BY <2>3 DEF x
<1>3. Ids \in [0 .. tile_n - 1 -> 0 .. n_leaves]
    BY <1>2, Sizes DEF Ids, TilePoints
<1>4. \A k \in TilePoints : Ids[k] = LeafOf[x(k)]
    BY DEF Ids
<1>5. Ids \in [0 .. tile_n - 1 -> Int]
    BY <1>3, Sizes
<1>6. QED  BY <1>1, <1>2, <1>3, <1>4, <1>5 DEF TilePoints, Slots

\* The stable sort of a tile: slices that follow one another, and in each the
\* slots of the points of one leaf.
LEMMA TileSort ==
    ASSUME xp \in Batches, Tiled, tile_off \in Nat, pc \in InTile
    PROVE  /\ StartOf(0) = 0 /\ StartOf(n_leaves + 1) = tile_n
           /\ \A b \in Int : /\ StartOf(b) \in 0 .. tile_n
                             /\ StartOf(b + 1) = StartOf(b) + Ahead(b, tile_n)
           /\ \A b \in Int, k \in Nat :
                /\ Ahead(b, k) \in 0 .. k /\ Ahead(b, 0) = 0
                /\ Ahead(b, k + 1) = Ahead(b, k) + IF Ids[k] = b THEN 1 ELSE 0
           /\ \A b \in Int, k \in 0 .. tile_n : Ahead(b, k) <= Ahead(b, tile_n)
           /\ \A k \in TilePoints : /\ Slot(k) \in TilePoints
                                    /\ Slot(k) = StartOf(Ids[k]) + Ahead(Ids[k], k)
           /\ \A k \in TilePoints, b \in Int :
                Slot(k) \in StartOf(b) .. StartOf(b + 1) - 1 <=> Ids[k] = b
           /\ \A k, l \in TilePoints : Slot(k) = Slot(l) => k = l
           /\ \A k, l \in TilePoints : k < l /\ Ids[k] = Ids[l] => Slot(k) < Slot(l)
           /\ \A p \in TilePoints : \E k \in TilePoints : Slot(k) = p
<1>1. /\ tile_n \in Nat /\ n_leaves \in Nat /\ Ids \in [0 .. tile_n - 1 -> 0 .. n_leaves]
      /\ TilePoints = 0 .. tile_n - 1
    BY TileType, Sizes
<1>2. StablySorted(Ids, tile_n, n_leaves)
    BY <1>1, StableSort
<1>3. QED  BY <1>1, <1>2 DEF StablySorted, StartOf, Ahead, Slot

\* One point of the tile: its slot lies in the slice of its leaf, in no other.
LEMMA SlotInTile ==
    ASSUME xp \in Batches, Tiled, tile_off \in Nat, pc \in InTile,
           NEW k \in TilePoints, NEW b \in Int
    PROVE  /\ Slot(k) \in TilePoints
           /\ Slot(k) \in StartOf(b) .. StartOf(b + 1) - 1 <=> Ids[k] = b
<1>1. \A l \in TilePoints : Slot(l) \in TilePoints
    BY TileSort
<1>2. \A l \in TilePoints, c \in Int :
         Slot(l) \in StartOf(c) .. StartOf(c + 1) - 1 <=> Ids[l] = c
    BY TileSort, Zenon
<1>3. QED  BY <1>1, <1>2

\* The same facts, for one bucket and one point.
LEMMA OneStart ==
    ASSUME xp \in Batches, Tiled, tile_off \in Nat, pc \in InTile, NEW b \in 0 .. n_leaves
    PROVE  /\ StartOf(b) \in 0 .. tile_n /\ StartOf(b + 1) \in 0 .. tile_n
           /\ StartOf(b + 1) = StartOf(b) + Ahead(b, tile_n) /\ Ahead(b, tile_n) \in 0 .. tile_n
           /\ StartOf(0) = 0 /\ StartOf(n_leaves + 1) = tile_n /\ n_leaves \in Nat
<1>1. n_leaves \in Nat /\ tile_n \in Nat
    BY Sizes, TileType
<1>2. b \in Int /\ b + 1 \in Int
    BY <1>1
<1>3. /\ StartOf(b) \in 0 .. tile_n /\ StartOf(b + 1) \in 0 .. tile_n
      /\ StartOf(b + 1) = StartOf(b) + Ahead(b, tile_n)
    BY <1>2, TileSort
<1>4. Ahead(b, tile_n) \in 0 .. tile_n
    BY <1>1, <1>2, TileSort
<1>5. QED  BY <1>1, <1>3, <1>4, TileSort

LEMMA OneAhead ==
    ASSUME xp \in Batches, Tiled, tile_off \in Nat, pc \in InTile,
           NEW b \in 0 .. n_leaves, NEW k \in Nat, k < tile_n
    PROVE  /\ Ahead(b, k) \in 0 .. k /\ Ahead(b, k + 1) \in 0 .. k + 1 /\ Ahead(b, 0) = 0
           /\ Ahead(b, k + 1) = Ahead(b, k) + IF Ids[k] = b THEN 1 ELSE 0
           /\ Ahead(b, k + 1) <= Ahead(b, tile_n)
<1>1. n_leaves \in Nat /\ tile_n \in Nat
    BY Sizes, TileType
<1>2. b \in Int /\ k + 1 \in Nat /\ k + 1 \in 0 .. tile_n
    BY <1>1
<1>3. /\ Ahead(b, k) \in 0 .. k /\ Ahead(b, 0) = 0
      /\ Ahead(b, k + 1) = Ahead(b, k) + IF Ids[k] = b THEN 1 ELSE 0
    BY <1>2, TileSort
<1>4. Ahead(b, k + 1) \in 0 .. k + 1
    BY <1>2, TileSort
<1>5. Ahead(b, k + 1) <= Ahead(b, tile_n)
    BY <1>2, TileSort
<1>6. QED  BY <1>3, <1>4, <1>5

\* A step that stays in the tile keeps the sort.
LEMMA UnchangedTile ==
    ASSUME UNCHANGED << xp, tile_off >>
    PROVE  /\ n_trg' = n_trg /\ tile_n' = tile_n /\ TilePoints' = TilePoints /\ Ids' = Ids
           /\ tile_K' = tile_K
           /\ \A k : x(k)' = x(k) /\ Slot(k)' = Slot(k)
           /\ \A b : StartOf(b)' = StartOf(b)
           /\ \A b, k : Ahead(b, k)' = Ahead(b, k)
<1>1. n_trg' = n_trg /\ tile_n' = tile_n /\ TilePoints' = TilePoints /\ (\A k : x(k)' = x(k)) /\ tile_K' = tile_K
    BY DEF n_trg, tile_n, tile_K, TilePoints, x
<1>2. Ids' = Ids
    BY <1>1 DEF Ids
<1>3. QED  BY <1>1, <1>2 DEF StartOf, Ahead, Slot

-----------------------------------------------------------------------------
(* Where components live.                                                  *)

\* No two components of two points share a slot of the packed buffer.
LEMMA PackedSlots ==
    ASSUME output_dim \in Nat, tile_cap \in Nat, soa \in BOOLEAN
    PROVE  /\ \A p \in Slots, d \in components : PackedSlot(p, d) \in 0 .. output_dim * tile_cap - 1
           /\ \A p, q \in Slots, d, e \in components :
                PackedSlot(p, d) = PackedSlot(q, e) => p = q /\ d = e
<1>1. CASE soa
    <2>1. \A p, d : PackedSlot(p, d) = d * tile_cap + p
        BY <1>1 DEF PackedSlot
    <2>2. \A p \in Slots, d \in components :
            /\ tile_cap * d + p \in 0 .. tile_cap * output_dim - 1
            /\ tile_cap * output_dim = output_dim * tile_cap /\ tile_cap * d = d * tile_cap
        BY InRows DEF Slots, components
    <2>3. \A p, q \in Slots, d, e \in components :
            tile_cap * d + p = tile_cap * e + q => p = q /\ d = e
        BY Division DEF Slots, components
    <2>4. QED  BY <2>1, <2>2, <2>3
<1>2. CASE ~ soa
    <2>1. \A p, d : PackedSlot(p, d) = output_dim * p + d
        BY <1>2 DEF PackedSlot
    <2>2. \A p \in Slots, d \in components : output_dim * p + d \in 0 .. output_dim * tile_cap - 1
        BY InRows DEF Slots, components
    <2>3. \A p, q \in Slots, d, e \in components :
            output_dim * p + d = output_dim * q + e => p = q /\ d = e
        BY Division DEF Slots, components
    <2>4. QED  BY <2>1, <2>2, <2>3
<1>3. QED  BY <1>1, <1>2

\* Nor of the caller's.
LEMMA CallerSlots ==
    ASSUME output_dim \in Nat, n_trg \in Nat, soa \in BOOLEAN
    PROVE  /\ \A p \in 0 .. n_trg - 1, d \in components : CallerSlot(p, d) \in 0 .. output_dim * n_trg - 1
           /\ \A p, q \in 0 .. n_trg - 1, d, e \in components :
                CallerSlot(p, d) = CallerSlot(q, e) => p = q /\ d = e
<1>1. CASE soa
    <2>1. \A p, d : CallerSlot(p, d) = d * n_trg + p
        BY <1>1 DEF CallerSlot
    <2>2. \A p \in 0 .. n_trg - 1, d \in components :
            /\ n_trg * d + p \in 0 .. n_trg * output_dim - 1
            /\ n_trg * output_dim = output_dim * n_trg /\ n_trg * d = d * n_trg
        BY InRows DEF components
    <2>3. \A p, q \in 0 .. n_trg - 1, d, e \in components :
            n_trg * d + p = n_trg * e + q => p = q /\ d = e
        BY Division DEF components
    <2>4. QED  BY <2>1, <2>2, <2>3
<1>2. CASE ~ soa
    <2>1. \A p, d : CallerSlot(p, d) = output_dim * p + d
        BY <1>2 DEF CallerSlot
    <2>2. \A p \in 0 .. n_trg - 1, d \in components : output_dim * p + d \in 0 .. output_dim * n_trg - 1
        BY InRows DEF components
    <2>3. \A p, q \in 0 .. n_trg - 1, d, e \in components :
            output_dim * p + d = output_dim * q + e => p = q /\ d = e
        BY Division DEF components
    <2>4. QED  BY <2>1, <2>2, <2>3
<1>3. QED  BY <1>1, <1>2

\* A tile's slot is the caller's slot of the point.
LEMMA ResSlotIsCallers ==
    ASSUME output_dim \in Nat, n_trg \in Nat, tile_off \in Nat, NEW k \in Nat, NEW d \in components
    PROVE  ResSlot(k, d) = CallerSlot(tile_off + k, d)
<1>1. /\ output_dim * (tile_off + k) = output_dim * tile_off + output_dim * k
      /\ output_dim * tile_off \in Nat /\ output_dim * k \in Nat /\ d \in Nat /\ d * n_trg \in Nat
    BY DEF components
<1>2. QED  BY <1>1 DEF ResSlot, CallerSlot

\* The choices that Put makes: the one point, and component, of a slot.
LEMMA PackedChoice ==
    ASSUME output_dim \in Nat, tile_cap \in Nat, soa \in BOOLEAN,
           NEW ks \in SUBSET Slots, NEW p \in ks, NEW d \in components
    PROVE  (CHOOSE k \in ks : \E e \in components : PackedSlot(p, d) = PackedSlot(k, e)) = p
<1>1. \A q \in ks, e \in components : PackedSlot(p, d) = PackedSlot(q, e) => p = q /\ d = e
    BY PackedSlots
<1>2. QED  BY <1>1

LEMMA ResChoice ==
    ASSUME output_dim \in Nat, n_trg \in Nat, tile_off \in Nat, soa \in BOOLEAN,
           NEW k \in Nat, tile_off + k \in 0 .. n_trg - 1, NEW d \in components
    PROVE  /\ (CHOOSE l \in {k} : \E e \in components : ResSlot(k, d) = ResSlot(l, e)) = k
           /\ (CHOOSE e \in components : ResSlot(k, d) = ResSlot(k, e)) = d
<1>1. \A e \in components : ResSlot(k, d) = ResSlot(k, e) => d = e
    BY ResSlotIsCallers, CallerSlots
<1>2. \E l \in {k} : \E e \in components : ResSlot(k, d) = ResSlot(l, e)
    OBVIOUS
<1>3. QED  BY <1>1, <1>2

\* What a dispatch writes: the slots of its slice.
LEMMA DispatchWrites ==
    ASSUME output_dim \in Nat, tile_cap \in Nat, soa \in BOOLEAN,
           DOMAIN out_packed = 0 .. output_dim * tile_cap - 1,
           Slice \subseteq Slots, Dispatch
    PROVE  /\ DOMAIN out_packed' = DOMAIN out_packed
           /\ \A p \in Slots, d \in components :
                out_packed'[PackedSlot(p, d)] =
                  IF p \in Slice THEN Eval(i, xp_packed[p], d) ELSE out_packed[PackedSlot(p, d)]
<1> DEFINE Hit(s) == \E k \in Slice, d \in components : s = PackedSlot(k, d)
           Point(s) == CHOOSE k \in Slice : \E d \in components : s = PackedSlot(k, d)
           Component(s) == CHOOSE d \in components : s = PackedSlot(Point(s), d)
<1>1. out_packed' = [s \in DOMAIN out_packed |->
                       IF Hit(s) THEN Eval(i, xp_packed[Point(s)], Component(s)) ELSE out_packed[s]]
    BY DEF Dispatch, Put
<1>2. ASSUME NEW p \in Slots, NEW d \in components
      PROVE  out_packed'[PackedSlot(p, d)] =
               IF p \in Slice THEN Eval(i, xp_packed[p], d) ELSE out_packed[PackedSlot(p, d)]
    <2>1. PackedSlot(p, d) \in DOMAIN out_packed
        BY PackedSlots
    <2>2. CASE p \in Slice
        <3>1. Hit(PackedSlot(p, d))
            BY <2>2
        <3>2. Point(PackedSlot(p, d)) = p
            <4>1. Slice \in SUBSET Slots
                OBVIOUS
            <4>2. QED  BY <2>2, <4>1, PackedChoice
        <3>3. Component(PackedSlot(p, d)) = d
            <4>1. (CHOOSE e \in components : PackedSlot(p, d) = PackedSlot(p, e)) = d
                BY PackedSlots
            <4>2. QED  BY <3>2, <4>1
        <3> HIDE DEF Hit, Point, Component
        <3>4. QED  BY <1>1, <2>1, <2>2, <3>1, <3>2, <3>3
    <2>3. CASE p \notin Slice
        <3>1. ~ Hit(PackedSlot(p, d))
            BY <2>3, PackedSlots
        <3> HIDE DEF Hit, Point, Component
        <3>2. QED  BY <1>1, <2>1, <2>3, <3>1
    <2>4. QED  BY <2>2, <2>3
<1>3. DOMAIN out_packed' = DOMAIN out_packed
    <2> HIDE DEF Hit, Point, Component
    <2>1. QED  BY <1>1
<1>4. QED  BY <1>2, <1>3

\* What the loops over the caller's output write: the components of one point.
LEMMA EvalOneWrites ==
    ASSUME output_dim \in Nat, n_trg \in Nat, tile_off \in Nat, soa \in BOOLEAN,
           DOMAIN res = 0 .. output_dim * n_trg - 1,
           i \in Nat, tile_off + i < n_trg, EvalOne
    PROVE  /\ DOMAIN res' = DOMAIN res
           /\ \A p \in 0 .. n_trg - 1, d \in components :
                res'[CallerSlot(p, d)] =
                  IF p = tile_off + i THEN Eval(LeafOf[x(i)], x(i), d) ELSE res[CallerSlot(p, d)]
<1> DEFINE Hit(s) == \E k \in {i}, d \in components : s = ResSlot(k, d)
           Point(s) == CHOOSE k \in {i} : \E d \in components : s = ResSlot(k, d)
           Component(s) == CHOOSE d \in components : s = ResSlot(Point(s), d)
<1>1. res' = [s \in DOMAIN res |->
                IF Hit(s) THEN Eval(LeafOf[x(Point(s))], x(Point(s)), Component(s)) ELSE res[s]]
    BY DEF EvalOne, Put
<1>2. tile_off + i \in 0 .. n_trg - 1
    OBVIOUS
<1>3. ASSUME NEW p \in 0 .. n_trg - 1, NEW d \in components
      PROVE  res'[CallerSlot(p, d)] =
               IF p = tile_off + i THEN Eval(LeafOf[x(i)], x(i), d) ELSE res[CallerSlot(p, d)]
    <2>1. CallerSlot(p, d) \in DOMAIN res
        BY CallerSlots
    <2>2. CASE p = tile_off + i
        <3>1. CallerSlot(p, d) = ResSlot(i, d)
            BY <2>2, ResSlotIsCallers
        <3>2. Hit(ResSlot(i, d)) /\ Point(ResSlot(i, d)) = i /\ Component(ResSlot(i, d)) = d
            BY <1>2, ResChoice
        <3> HIDE DEF Hit, Point, Component
        <3>3. QED  BY <1>1, <2>1, <2>2, <3>1, <3>2
    <2>3. CASE p # tile_off + i
        <3>1. ~ Hit(CallerSlot(p, d))
            BY <1>2, <2>3, ResSlotIsCallers, CallerSlots
        <3> HIDE DEF Hit, Point, Component
        <3>2. QED  BY <1>1, <2>1, <2>3, <3>1
    <2>4. QED  BY <2>2, <2>3
<1>4. DOMAIN res' = DOMAIN res
    <2> HIDE DEF Hit, Point, Component
    <2>1. QED  BY <1>1
<1>5. QED  BY <1>3, <1>4

LEMMA PermuteWrites ==
    ASSUME output_dim \in Nat, n_trg \in Nat, tile_off \in Nat, soa \in BOOLEAN,
           DOMAIN res = 0 .. output_dim * n_trg - 1,
           i \in Nat, tile_off + i < n_trg, Permute
    PROVE  /\ DOMAIN res' = DOMAIN res
           /\ \A p \in 0 .. n_trg - 1, d \in components :
                res'[CallerSlot(p, d)] =
                  IF p = tile_off + i THEN out_packed[PackedSlot(perm_inv[i], d)]
                  ELSE res[CallerSlot(p, d)]
<1> DEFINE Hit(s) == \E k \in {i}, d \in components : s = ResSlot(k, d)
           Point(s) == CHOOSE k \in {i} : \E d \in components : s = ResSlot(k, d)
           Component(s) == CHOOSE d \in components : s = ResSlot(Point(s), d)
<1>1. res' = [s \in DOMAIN res |->
                IF Hit(s) THEN out_packed[PackedSlot(perm_inv[Point(s)], Component(s))] ELSE res[s]]
    BY DEF Permute, Put
<1>2. tile_off + i \in 0 .. n_trg - 1
    OBVIOUS
<1>3. ASSUME NEW p \in 0 .. n_trg - 1, NEW d \in components
      PROVE  res'[CallerSlot(p, d)] =
               IF p = tile_off + i THEN out_packed[PackedSlot(perm_inv[i], d)]
               ELSE res[CallerSlot(p, d)]
    <2>1. CallerSlot(p, d) \in DOMAIN res
        BY CallerSlots
    <2>2. CASE p = tile_off + i
        <3>1. CallerSlot(p, d) = ResSlot(i, d)
            BY <2>2, ResSlotIsCallers
        <3>2. Hit(ResSlot(i, d)) /\ Point(ResSlot(i, d)) = i /\ Component(ResSlot(i, d)) = d
            BY <1>2, ResChoice
        <3> HIDE DEF Hit, Point, Component
        <3>3. QED  BY <1>1, <2>1, <2>2, <3>1, <3>2
    <2>3. CASE p # tile_off + i
        <3>1. ~ Hit(CallerSlot(p, d))
            BY <1>2, <2>3, ResSlotIsCallers, CallerSlots
        <3> HIDE DEF Hit, Point, Component
        <3>2. QED  BY <1>1, <2>1, <2>3, <3>1
    <2>4. QED  BY <2>2, <2>3
<1>4. DOMAIN res' = DOMAIN res
    <2> HIDE DEF Hit, Point, Component
    <2>1. QED  BY <1>1
<1>5. QED  BY <1>3, <1>4

-----------------------------------------------------------------------------
(* The invariant, action by action.                                        *)

\* The parts of the invariant that hold before the first tile.
LEMMA OutsideTiles ==
    ASSUME pc \notin InTile
    PROVE  Tiled /\ Counted /\ Remembered /\ Packed /\ Evaluated
BY DEF InTile, Tiled, Counted, Remembered, Packed, Evaluated

\* A step that answers no point keeps the answers.
LEMMA KeepsAnswers ==
    ASSUME AnsweredBelow(NAnswered), UNCHANGED << xp, soa, res >>, NAnswered' = NAnswered
    PROVE  AnsweredBelow(NAnswered)'
<1>1. n_trg' = n_trg /\ \A p, d : CallerSlot(p, d)' = CallerSlot(p, d)
    BY DEF n_trg, CallerSlot
<1>2. QED  BY <1>1 DEF AnsweredBelow

LEMMA InitInv == Init => IInv
<1> SUFFICES ASSUME Init PROVE IInv
    OBVIOUS
<1>1. /\ xp \in Batches /\ pc = "start" /\ tile_off = 0 /\ tile_cap = 0 /\ i = 0 /\ acc = 0
      /\ n_trg \in Nat /\ xp \in Seq(Points) /\ tile_K \in Nat /\ output_dim \in Nat
    BY Sizes DEF Init
<1>2. Slots = {} /\ 0 .. output_dim * tile_cap - 1 = {} /\ DOMAIN Memory(0) = {} /\ 0 .. 0 - 1 = {}
    BY <1>1 DEF Slots, Memory
<1>3. TypeOK
    <2>1. /\ counts = Memory(0) /\ leaf_ids = Memory(0) /\ perm_inv = Memory(0)
          /\ xp_packed = Memory(0) /\ out_packed = Memory(0) /\ soa \in BOOLEAN /\ table \in BOOLEAN
          /\ res = Memory(output_dim * n_trg)
        BY DEF Init
    <2>2. DOMAIN res = 0 .. output_dim * n_trg - 1
        BY <2>1 DEF Memory
    <2>3. \A S : Memory(0) \in [{} -> S]
        BY <1>2 DEF Memory
    <2>4. (IF table THEN {} ELSE Slots) = {}
        BY <1>2
    <2>5. tile_cap \in 0 .. tile_K /\ acc \in 0 .. tile_cap /\ tile_off \in Nat /\ i \in Nat
        BY <1>1
    <2>6. DOMAIN counts = {} /\ counts \in [DOMAIN counts -> Pending(0 .. tile_cap)]
        BY <2>1, <2>3, <1>2
    <2>7. QED  BY <1>1, <1>2, <2>1, <2>2, <2>3, <2>4, <2>5, <2>6 DEF TypeOK
<1>4. Loops
    BY <1>1 DEF Loops
<1>5. AnsweredBelow(NAnswered)
    <2>1. NAnswered = 0
        BY <1>1 DEF NAnswered
    <2>2. \A p \in 0 .. n_trg - 1, d \in components : res[CallerSlot(p, d)] = Garbage
        BY <1>1, CallerSlots DEF Init, Memory
    <2>3. QED  BY <2>1, <2>2 DEF AnsweredBelow
<1>6. QED  BY <1>1, <1>3, <1>4, <1>5, OutsideTiles DEF IInv, InTile

LEMMA EmptyBatchStep ==
    ASSUME IInv, EmptyBatch
    PROVE  IInv'
<1>1. xp \in Batches /\ TypeOK /\ Loops /\ AnsweredBelow(NAnswered)
    BY DEF IInv
<1>2. pc = "start" /\ n_trg = 0 /\ pc' = "done" /\ i = 0 /\ tile_off = 0
    BY <1>1 DEF EmptyBatch, Loops
<1>3. TypeOK'
    BY <1>1, <1>2 DEF EmptyBatch, TypeOK, Slots, n_trg, tile_K
<1>4. Loops'
    BY <1>2 DEF EmptyBatch, Loops
<1>5. AnsweredBelow(NAnswered)'
    <2>1. NAnswered' = NAnswered
        BY <1>2 DEF NAnswered, EmptyBatch, n_trg
    <2>2. QED  BY <1>1, <2>1, KeepsAnswers DEF EmptyBatch
<1>6. (Tiled /\ Counted /\ Remembered /\ Packed /\ Evaluated)'
    BY <1>2 DEF InTile, Tiled, Counted, Remembered, Packed, Evaluated
<1>7. QED  BY <1>1, <1>3, <1>4, <1>5, <1>6 DEF IInv, EmptyBatch

LEMMA ShortBatchStep ==
    ASSUME IInv, ShortBatch
    PROVE  IInv'
<1>1. xp \in Batches /\ TypeOK /\ Loops /\ AnsweredBelow(NAnswered)
    BY DEF IInv
<1>2. pc = "start" /\ n_trg > 0 /\ pc' = "scalar" /\ i = 0 /\ tile_off = 0 /\ i' = 0 /\ tile_off' = 0
    BY <1>1 DEF ShortBatch, Loops
<1>3. TypeOK'
    BY <1>1, <1>2 DEF ShortBatch, TypeOK, Slots, n_trg, tile_K
<1>4. Loops'
    BY <1>2 DEF ShortBatch, Loops, n_trg
<1>5. AnsweredBelow(NAnswered)'
    <2>1. NAnswered' = NAnswered
        BY <1>2 DEF NAnswered
    <2>2. QED  BY <1>1, <2>1, KeepsAnswers DEF ShortBatch
<1>6. (Tiled /\ Counted /\ Remembered /\ Packed /\ Evaluated)'
    BY <1>2 DEF InTile, Tiled, Counted, Remembered, Packed, Evaluated
<1>7. QED  BY <1>1, <1>3, <1>4, <1>5, <1>6 DEF IInv, ShortBatch

LEMMA EvalOneStep ==
    ASSUME IInv, EvalOne
    PROVE  IInv'
<1>1. xp \in Batches /\ TypeOK /\ Loops /\ AnsweredBelow(NAnswered)
    BY DEF IInv
<1>2. /\ pc = "scalar" /\ i \in Nat /\ i < n_trg /\ tile_off = 0 /\ soa \in BOOLEAN
      /\ DOMAIN res = 0 .. output_dim * n_trg - 1 /\ xp' = xp /\ soa' = soa /\ tile_off' = 0
      /\ n_trg \in Nat /\ output_dim \in Nat /\ n_trg' = n_trg
    BY <1>1, Sizes DEF EvalOne, Loop, Loops, TypeOK, n_trg
<1>3. /\ i' = IF i = n_trg - 1 THEN 0 ELSE i + 1
      /\ pc' = IF i = n_trg - 1 THEN "done" ELSE "scalar"
    BY <1>2 DEF EvalOne, Loop
<1>4. /\ DOMAIN res' = DOMAIN res
      /\ \A p \in 0 .. n_trg - 1, d \in components :
           res'[CallerSlot(p, d)] = IF p = i THEN Eval(LeafOf[x(i)], x(i), d) ELSE res[CallerSlot(p, d)]
    BY <1>2, EvalOneWrites
<1>5. TypeOK'
    <2>1. UNCHANGED << table, tile_cap, counts, leaf_ids, perm_inv, xp_packed, out_packed, acc >>
        BY DEF EvalOne
    <2>2. i' \in Nat /\ pc' \in {"scalar", "done"} /\ tile_off' \in Nat
        BY <1>2, <1>3
    <2>3. DOMAIN res' = 0 .. output_dim * n_trg' - 1 /\ tile_K' = tile_K /\ Slots' = Slots
        BY <1>2, <1>4, <2>1 DEF tile_K, Slots
    <2>4. QED  BY <1>1, <1>2, <2>1, <2>2, <2>3 DEF TypeOK
<1>6. Loops'
    BY <1>2, <1>3 DEF Loops
<1>7. AnsweredBelow(NAnswered)'
    <2>1. NAnswered = i /\ NAnswered' = i + 1
        BY <1>2, <1>3 DEF NAnswered
    <2>2. \A p, d : CallerSlot(p, d)' = CallerSlot(p, d)
        BY <1>2 DEF CallerSlot
    <2>3. x(i) = xp[i + 1]
        BY <1>2 DEF x
    <2>4. \A p \in 0 .. n_trg - 1, d \in components :
             res'[CallerSlot(p, d)] =
               IF p < i + 1 THEN Eval(LeafOf[xp[p + 1]], xp[p + 1], d) ELSE Garbage
        BY <1>1, <1>2, <1>4, <2>1, <2>3 DEF AnsweredBelow
    <2>5. QED  BY <1>2, <2>1, <2>2, <2>4 DEF AnsweredBelow
<1>8. (Tiled /\ Counted /\ Remembered /\ Packed /\ Evaluated)'
    BY <1>3 DEF InTile, Tiled, Counted, Remembered, Packed, Evaluated
<1>9. QED  BY <1>1, <1>2, <1>5, <1>6, <1>7, <1>8 DEF IInv

LEMMA ReserveStep ==
    ASSUME IInv, Reserve
    PROVE  IInv'
<1>1. xp \in Batches /\ TypeOK /\ Loops /\ AnsweredBelow(NAnswered)
    BY DEF IInv
<1>2. /\ pc = "start" /\ n_trg >= kSortThreshold /\ pc' = "clear" /\ i = 0 /\ tile_off = 0 /\ acc = 0
      /\ UNCHANGED << xp, soa, table, res, tile_off, i, acc >>
    BY <1>1 DEF Reserve, Loops
<1>3. n_trg \in Nat /\ n_trg > 0 /\ tile_K \in Nat /\ n_leaves \in Nat /\ n_trg' = n_trg /\ tile_K' = tile_K
    BY <1>1, <1>2, Sizes DEF n_trg, tile_K
<1>4. /\ tile_cap' = Least(n_trg, tile_K) /\ tile_cap' \in 0 .. tile_K
      /\ perm_inv' = Memory(tile_cap') /\ xp_packed' = Memory(tile_cap')
      /\ out_packed' = Memory(output_dim * tile_cap') /\ counts' = Memory(n_leaves + 1)
      /\ leaf_ids' = IF table THEN leaf_ids ELSE Memory(tile_cap')
    BY <1>3 DEF Reserve, Least
<1>5. TypeOK'
    <2>1. Slots' = 0 .. tile_cap' - 1
        BY DEF Slots
    <2>2. \A S, m : Memory(m) \in [0 .. m - 1 -> Pending(S)] /\ DOMAIN Memory(m) = 0 .. m - 1
        BY DEF Memory, Pending
    <2>3. DOMAIN counts' = 0 .. n_leaves /\ counts' \in [DOMAIN counts' -> Pending(0 .. tile_cap')]
        <3>1. 0 .. (n_leaves + 1) - 1 = 0 .. n_leaves
            BY <1>3
        <3>2. QED  BY <1>4, <2>2, <3>1
    <2>4. leaf_ids' \in [IF table THEN {} ELSE Slots' -> Pending(0 .. n_leaves)]
        BY <1>1, <1>4, <2>1, <2>2 DEF TypeOK
    <2>5. perm_inv' \in [Slots' -> Pending(Slots')] /\ xp_packed' \in [Slots' -> Pending(Points)]
        BY <1>4, <2>1, <2>2
    <2>6. DOMAIN out_packed' = 0 .. output_dim * tile_cap' - 1
        BY <1>4, <2>2
    <2>7. DOMAIN res' = 0 .. output_dim * n_trg' - 1 /\ xp' \in Seq(Points) /\ soa' \in BOOLEAN /\ table' \in BOOLEAN
        BY <1>1, <1>2, <1>3 DEF TypeOK
    <2>8. acc' \in 0 .. tile_cap' /\ i' \in Nat /\ tile_off' \in Nat
        BY <1>2, <1>4
    <2>9. QED
        BY <1>2, <1>3, <1>4, <2>3, <2>4, <2>5, <2>6, <2>7, <2>8 DEF TypeOK
<1>6. Loops'
    BY <1>2 DEF Loops
<1>7. Tiled'
    <2>1. DOMAIN counts' = 0 .. n_leaves
        BY <1>3, <1>4 DEF Memory
    <2>2. QED  BY <1>2, <1>3, <1>4, <2>1 DEF Tiled
<1>8. (Counted /\ Remembered /\ Packed /\ Evaluated)'
    BY <1>2 DEF Counted, Remembered, Packed, Evaluated
<1>9. AnsweredBelow(NAnswered)'
    <2>1. NAnswered' = NAnswered
        BY <1>2 DEF NAnswered
    <2>2. QED  BY <1>1, <1>2, <2>1, KeepsAnswers
<1>10. QED  BY <1>1, <1>2, <1>5, <1>6, <1>7, <1>8, <1>9 DEF IInv

LEMMA ClearStep ==
    ASSUME IInv, Clear
    PROVE  IInv'
<1>1. xp \in Batches /\ TypeOK /\ Loops /\ Tiled /\ AnsweredBelow(NAnswered)
    BY DEF IInv
<1>2. /\ pc = "clear" /\ pc' = "histogram" /\ i = 0 /\ counts' = [b \in DOMAIN counts |-> 0]
      /\ UNCHANGED << xp, soa, table, res, tile_cap, tile_off, leaf_ids, perm_inv,
                      xp_packed, out_packed, i, acc >>
    BY <1>1 DEF Clear, Cleared, Loops
<1>3. pc \in InTile /\ tile_off \in Nat /\ DOMAIN counts = 0 .. n_leaves /\ tile_cap \in Nat /\ n_leaves \in Nat
    BY <1>1, <1>2, Sizes DEF InTile, Tiled, TypeOK
<1>4. tile_n \in Nat /\ 0 < tile_n /\ \A b \in Int : Ahead(b, 0) = 0
    BY <1>1, <1>3, TileType, TileSort
<1>5. TypeOK'
    <2>1. counts' \in [DOMAIN counts' -> Pending(0 .. tile_cap)] /\ DOMAIN counts' = 0 .. n_leaves
        BY <1>2, <1>3 DEF Pending
    <2>2. QED  BY <1>1, <1>2, <2>1 DEF TypeOK, Slots, n_trg, tile_K
<1>6. Loops'
    BY <1>2, <1>4, UnchangedTile DEF Loops
<1>7. Tiled'
    BY <1>1, <1>2, <1>3, UnchangedTile DEF Tiled
<1>8. Counted'
    <2>1. \A b \in 0 .. n_leaves : counts'[b] = Ahead(b, 0)
        BY <1>2, <1>3, <1>4
    <2>2. \A b \in 0 .. n_leaves : counts'[b] = Ahead(b, i)'
        BY <1>2, <2>1, UnchangedTile DEF Ahead
    <2>3. QED  BY <1>2, <2>2 DEF Counted
<1>9. (Remembered /\ Packed /\ Evaluated)'
    BY <1>2 DEF Remembered, Packed, Evaluated
<1>10. AnsweredBelow(NAnswered)'
    <2>1. NAnswered' = NAnswered
        BY <1>2 DEF NAnswered
    <2>2. QED  BY <1>1, <1>2, <2>1, KeepsAnswers
<1>11. QED  BY <1>1, <1>2, <1>5, <1>6, <1>7, <1>8, <1>9, <1>10 DEF IInv


LEMMA HistogramStep ==
    ASSUME IInv, Histogram
    PROVE  IInv'
<1>1. xp \in Batches /\ TypeOK /\ Loops /\ Tiled /\ Counted /\ Remembered /\ AnsweredBelow(NAnswered)
    BY DEF IInv
<1>2. /\ pc = "histogram" /\ i' = (IF i = tile_n - 1 THEN 0 ELSE i + 1)
      /\ pc' = (IF i = tile_n - 1 THEN "scan" ELSE "histogram") /\ acc' = 0
      /\ UNCHANGED << xp, soa, table, res, tile_cap, tile_off, perm_inv, xp_packed, out_packed >>
    BY DEF Histogram, Loop
<1>3. /\ pc \in InTile /\ tile_off \in Nat /\ DOMAIN counts = 0 .. n_leaves /\ tile_cap \in Nat
      /\ n_leaves \in Nat /\ i \in Nat /\ i < tile_n
      /\ counts \in [0 .. n_leaves -> Pending(0 .. tile_cap)]
    BY <1>1, <1>2, Sizes DEF InTile, Tiled, TypeOK, Loops
<1>4. /\ tile_n \in Nat /\ tile_n <= tile_cap /\ i \in TilePoints /\ i \in Slots
      /\ Ids[i] = LeafOf[x(i)] /\ Ids[i] \in 0 .. n_leaves
      /\ TilePoints = 0 .. tile_n - 1
    BY <1>1, <1>3, TileType
<1>5. \A b \in 0 .. n_leaves : counts'[b] = Ahead(b, i + 1) /\ Ahead(b, i + 1) \in 0 .. tile_cap
    <2>1. SUFFICES ASSUME NEW b \in 0 .. n_leaves
                   PROVE  counts'[b] = Ahead(b, i + 1) /\ Ahead(b, i + 1) \in 0 .. tile_cap
        OBVIOUS
    <2>2. counts[b] = Ahead(b, i)
        BY <1>1, <1>2 DEF Counted
    <2>3. /\ Ahead(b, i) \in 0 .. i /\ Ahead(b, i + 1) \in 0 .. i + 1
          /\ Ahead(b, i + 1) = Ahead(b, i) + IF Ids[i] = b THEN 1 ELSE 0
          /\ Ahead(b, i + 1) <= Ahead(b, tile_n)
        BY <1>1, <1>3, OneAhead
    <2>4. counts' = [counts EXCEPT ![Ids[i]] = @ + 1]
        BY <1>4 DEF Histogram
    <2>5. QED  BY <1>3, <1>4, <2>2, <2>3, <2>4
<1>6. DOMAIN counts' = 0 .. n_leaves /\ counts' = [b \in 0 .. n_leaves |-> counts'[b]]
    BY <1>3 DEF Histogram
<1>7. ~ table => leaf_ids' = [leaf_ids EXCEPT ![i] = Ids[i]] /\ leaf_ids \in [Slots -> Pending(0 .. n_leaves)]
    BY <1>1, <1>4 DEF Histogram, TypeOK
<1>8. TypeOK'
    <2>1. counts' \in [DOMAIN counts' -> Pending(0 .. tile_cap)]
        BY <1>5, <1>6 DEF Pending
    <2>2. leaf_ids' \in [IF table THEN {} ELSE Slots -> Pending(0 .. n_leaves)]
        <3>1. CASE table
            BY <1>1, <3>1 DEF Histogram, TypeOK
        <3>2. CASE ~ table
            BY <1>4, <1>7, <3>2 DEF Pending
        <3>3. QED  BY <3>1, <3>2
    <2>3. i' \in Nat /\ pc' \in {"histogram", "scan"} /\ acc' \in 0 .. tile_cap
        BY <1>2, <1>3
    <2>4. QED  BY <1>1, <1>2, <1>6, <2>1, <2>2, <2>3 DEF TypeOK, Slots, n_trg, tile_K
<1>9. Loops'
    BY <1>2, <1>3, <1>4, UnchangedTile DEF Loops
<1>10. Tiled'
    BY <1>1, <1>2, <1>3, <1>6, UnchangedTile DEF Tiled
<1>11. Counted'
    <2>1. CASE i = tile_n - 1
        <3>1. i + 1 = tile_n /\ i' = 0 /\ pc' = "scan" /\ acc' = 0 /\ StartOf(0) = 0
            BY <1>1, <1>2, <1>3, <1>4, <2>1, TileSort
        <3>2. /\ StartOf(i)' = StartOf(0)
              /\ \A b \in 0 .. n_leaves : ~ (b < i') /\ counts'[b] = Ahead(b, tile_n)'
            BY <1>2, <1>5, <3>1, UnchangedTile DEF StartOf, Ahead
        <3>3. QED  BY <3>1, <3>2 DEF Counted
    <2>2. CASE i # tile_n - 1
        <3>1. i' = i + 1 /\ pc' = "histogram"
            BY <1>2, <2>2
        <3>2. \A b \in 0 .. n_leaves : counts'[b] = Ahead(b, i)'
            BY <1>2, <1>5, <3>1, UnchangedTile DEF Ahead
        <3>3. QED  BY <3>1, <3>2 DEF Counted
    <2>3. QED  BY <2>1, <2>2
<1>12. Remembered'
    <2>1. SUFFICES ASSUME ~ table
                   PROVE  \A k \in 0 .. i : leaf_ids'[k] = Ids[k]
        BY <1>2, <1>3, <1>4, UnchangedTile DEF Remembered
    <2>2. \A k \in 0 .. i - 1 : leaf_ids[k] = Ids[k]
        BY <1>1, <1>2, <2>1 DEF Remembered
    <2>3. 0 .. i \subseteq Slots
        BY <1>3, <1>4 DEF Slots
    <2>4. QED  BY <1>3, <1>4, <1>7, <2>1, <2>2, <2>3
<1>13. (Packed /\ Evaluated)'
    BY <1>2 DEF Packed, Evaluated
<1>14. AnsweredBelow(NAnswered)'
    <2>1. NAnswered' = NAnswered
        BY <1>2 DEF NAnswered
    <2>2. QED  BY <1>1, <1>2, <2>1, KeepsAnswers
<1>15. QED  BY <1>1, <1>2, <1>8, <1>9, <1>10, <1>11, <1>12, <1>13, <1>14 DEF IInv

LEMMA ScanStep ==
    ASSUME IInv, Scan
    PROVE  IInv'
<1>1. xp \in Batches /\ TypeOK /\ Loops /\ Tiled /\ Counted /\ Remembered /\ AnsweredBelow(NAnswered)
    BY DEF IInv
<1>2. /\ pc = "scan" /\ i' = (IF i = n_leaves THEN 0 ELSE i + 1)
      /\ pc' = (IF i = n_leaves THEN "scatter" ELSE "scan")
      /\ counts' = [counts EXCEPT ![i] = acc] /\ acc' = acc + counts[i]
      /\ UNCHANGED << xp, soa, table, res, tile_cap, tile_off, leaf_ids, perm_inv,
                      xp_packed, out_packed >>
    BY DEF Scan, Loop, ExclusiveSum
<1>3. /\ pc \in InTile /\ tile_off \in Nat /\ DOMAIN counts = 0 .. n_leaves /\ tile_cap \in Nat
      /\ n_leaves \in Nat /\ i \in Nat /\ i \in 0 .. n_leaves
      /\ counts \in [0 .. n_leaves -> Pending(0 .. tile_cap)]
    BY <1>1, <1>2, Sizes DEF InTile, Tiled, TypeOK, Loops
<1>4. tile_n \in Nat /\ 0 < tile_n /\ tile_n <= tile_cap
    BY <1>1, <1>3, TileType
<1>5. /\ acc = StartOf(i) /\ counts[i] = Ahead(i, tile_n) /\ StartOf(i) \in 0 .. tile_n
      /\ StartOf(i + 1) \in 0 .. tile_n /\ acc' = StartOf(i + 1) /\ StartOf(n_leaves + 1) = tile_n
    <2>1. acc = StartOf(i) /\ counts[i] = Ahead(i, tile_n)
        BY <1>1, <1>2, <1>3 DEF Counted
    <2>2. /\ StartOf(i) \in 0 .. tile_n /\ StartOf(i + 1) \in 0 .. tile_n
          /\ StartOf(i + 1) = StartOf(i) + Ahead(i, tile_n) /\ StartOf(n_leaves + 1) = tile_n
        BY <1>1, <1>3, OneStart
    <2>3. QED  BY <1>2, <2>1, <2>2
<1>6. \A b \in 0 .. n_leaves :
         counts'[b] = IF b < i + 1 THEN StartOf(b) ELSE Ahead(b, tile_n)
    <2>1. SUFFICES ASSUME NEW b \in 0 .. n_leaves
                   PROVE  counts'[b] = IF b < i + 1 THEN StartOf(b) ELSE Ahead(b, tile_n)
        OBVIOUS
    <2>2. counts[b] = IF b < i THEN StartOf(b) ELSE Ahead(b, tile_n)
        BY <1>1, <1>2 DEF Counted
    <2>3. QED  BY <1>2, <1>3, <1>5, <2>2
<1>7. DOMAIN counts' = 0 .. n_leaves /\ counts' \in [0 .. n_leaves -> Pending(0 .. tile_cap)]
    BY <1>2, <1>3, <1>4, <1>5 DEF Pending
<1>8. TypeOK'
    <2>1. i' \in Nat /\ pc' \in {"scan", "scatter"} /\ acc' \in 0 .. tile_cap
        BY <1>2, <1>3, <1>4, <1>5
    <2>2. QED  BY <1>1, <1>2, <1>7, <2>1 DEF TypeOK, Slots, n_trg, tile_K
<1>9. Loops'
    BY <1>2, <1>3, <1>4, UnchangedTile DEF Loops
<1>10. Tiled'
    BY <1>1, <1>2, <1>3, <1>7, UnchangedTile DEF Tiled
<1>11. Counted'
    <2>1. CASE i = n_leaves
        <3>1. i' = 0 /\ pc' = "scatter"
            BY <1>2, <2>1
        <3>2. \A b \in 0 .. n_leaves : counts'[b] = StartOf(b) + Ahead(b, 0)
            <4>1. SUFFICES ASSUME NEW b \in 0 .. n_leaves PROVE counts'[b] = StartOf(b) + Ahead(b, 0)
                OBVIOUS
            <4>2. Ahead(b, 0) = 0 /\ StartOf(b) \in Int
                BY <1>1, <1>3, <1>4, OneStart, OneAhead
            <4>3. QED  BY <1>3, <1>6, <2>1, <4>2
        <3>3. \A b \in 0 .. n_leaves : counts'[b] = StartOf(b)' + Ahead(b, i)'
            BY <1>2, <3>1, <3>2, UnchangedTile DEF Ahead
        <3>4. QED  BY <3>1, <3>3 DEF Counted
    <2>2. CASE i # n_leaves
        <3>1. i' = i + 1 /\ pc' = "scan"
            BY <1>2, <2>2
        <3>2. /\ acc' = StartOf(i)'
              /\ \A b \in 0 .. n_leaves :
                   counts'[b] = IF b < i' THEN StartOf(b)' ELSE Ahead(b, tile_n)'
            BY <1>2, <1>5, <1>6, <3>1, UnchangedTile DEF StartOf, Ahead
        <3>3. QED  BY <3>1, <3>2 DEF Counted
    <2>3. QED  BY <2>1, <2>2
<1>12. Remembered'
    BY <1>1, <1>2, UnchangedTile DEF Remembered
<1>13. Packed'
    <2>1. pc' = "scatter" => i' = 0
        BY <1>2
    <2>2. pc' = "scatter" => PackedBelow(i)'
        BY <2>1 DEF PackedBelow
    <2>3. QED  BY <1>2, <2>2 DEF Packed
<1>14. Evaluated'
    BY <1>2 DEF Evaluated
<1>15. AnsweredBelow(NAnswered)'
    <2>1. NAnswered' = NAnswered
        BY <1>2 DEF NAnswered
    <2>2. QED  BY <1>1, <1>2, <2>1, KeepsAnswers
<1>16. QED  BY <1>1, <1>2, <1>8, <1>9, <1>10, <1>11, <1>12, <1>13, <1>14, <1>15 DEF IInv

LEMMA ScatterStep ==
    ASSUME IInv, Scatter
    PROVE  IInv'
<1>1. /\ xp \in Batches /\ TypeOK /\ Loops /\ Tiled /\ Counted /\ Remembered /\ Packed
      /\ AnsweredBelow(NAnswered)
    BY DEF IInv
<1>2. /\ pc = "scatter" /\ i' = (IF i = tile_n - 1 THEN 0 ELSE i + 1)
      /\ pc' = (IF i = tile_n - 1 THEN "dispatch" ELSE "scatter") /\ acc' = 0
      /\ UNCHANGED << xp, soa, table, res, tile_cap, tile_off, leaf_ids, out_packed >>
    BY DEF Scatter, Loop
<1>3. /\ pc \in InTile /\ tile_off \in Nat /\ DOMAIN counts = 0 .. n_leaves /\ tile_cap \in Nat
      /\ n_leaves \in Nat /\ i \in Nat /\ i < tile_n
      /\ counts \in [0 .. n_leaves -> Pending(0 .. tile_cap)]
      /\ perm_inv \in [Slots -> Pending(Slots)] /\ xp_packed \in [Slots -> Pending(Points)]
    <2>1. pc \in InTile
        BY <1>2 DEF InTile
    <2>2. DOMAIN counts = 0 .. n_leaves
        BY <1>1, <2>1 DEF Tiled
    <2>3. tile_K \in Nat /\ n_leaves \in Nat
        BY <1>1, Sizes
    <2>4. /\ tile_off \in Nat /\ tile_cap \in Nat /\ i \in Nat
          /\ counts \in [0 .. n_leaves -> Pending(0 .. tile_cap)]
          /\ perm_inv \in [Slots -> Pending(Slots)] /\ xp_packed \in [Slots -> Pending(Points)]
        BY <1>1, <2>2, <2>3 DEF TypeOK
    <2>5. i < tile_n
        BY <1>1, <1>2 DEF Loops
    <2>6. QED  BY <2>1, <2>2, <2>3, <2>4, <2>5
<1>4. /\ tile_n \in Nat /\ tile_n <= tile_cap /\ i \in TilePoints /\ i \in Slots
      /\ Ids[i] = LeafOf[x(i)] /\ Ids[i] \in 0 .. n_leaves /\ x(i) \in Points
      /\ TilePoints = 0 .. tile_n - 1 /\ TilePoints \subseteq Slots
    <2>1. /\ tile_n \in Nat /\ tile_n <= tile_cap /\ TilePoints = 0 .. tile_n - 1
          /\ Slots = 0 .. tile_cap - 1
          /\ \A k \in TilePoints : x(k) \in Points /\ Ids[k] = LeafOf[x(k)]
          /\ Ids \in [0 .. tile_n - 1 -> 0 .. n_leaves]
        BY <1>1, <1>3, TileType
    <2>2. QED  BY <1>3, <2>1
<1>5. counts[Ids[i]] = Slot(i) /\ Slot(i) \in TilePoints
    <2>1. counts[Ids[i]] = StartOf(Ids[i]) + Ahead(Ids[i], i)
        BY <1>1, <1>2, <1>4 DEF Counted
    <2>2. QED  BY <1>1, <1>3, <1>4, <2>1, TileSort
<1>6. /\ counts' = [counts EXCEPT ![Ids[i]] = @ + 1]
      /\ perm_inv' = [perm_inv EXCEPT ![i] = Slot(i)]
      /\ xp_packed' = [xp_packed EXCEPT ![Slot(i)] = x(i)]
    <2>1. (IF table THEN LeafOf[x(i)] ELSE leaf_ids[i]) = Ids[i]
        BY <1>1, <1>2, <1>4 DEF Remembered
    <2>2. QED  BY <1>5, <2>1 DEF Scatter, PostIncrement
<1>7. \A b \in 0 .. n_leaves :
         /\ counts'[b] = StartOf(b) + Ahead(b, i + 1) /\ counts'[b] \in 0 .. tile_n
         /\ StartOf(b + 1) = StartOf(b) + Ahead(b, tile_n)
    <2>1. SUFFICES ASSUME NEW b \in 0 .. n_leaves
                   PROVE  /\ counts'[b] = StartOf(b) + Ahead(b, i + 1) /\ counts'[b] \in 0 .. tile_n
                          /\ StartOf(b + 1) = StartOf(b) + Ahead(b, tile_n)
        OBVIOUS
    <2>2. counts[b] = StartOf(b) + Ahead(b, i)
        BY <1>1, <1>2 DEF Counted
    <2>3. /\ StartOf(b) \in 0 .. tile_n /\ StartOf(b + 1) \in 0 .. tile_n
          /\ StartOf(b + 1) = StartOf(b) + Ahead(b, tile_n) /\ Ahead(b, tile_n) \in 0 .. tile_n
        BY <1>1, <1>3, OneStart
    <2>4. /\ Ahead(b, i) \in 0 .. i /\ Ahead(b, i + 1) \in 0 .. i + 1
          /\ Ahead(b, i + 1) = Ahead(b, i) + IF Ids[i] = b THEN 1 ELSE 0
          /\ Ahead(b, i + 1) <= Ahead(b, tile_n)
        BY <1>1, <1>3, OneAhead
    <2>5. counts'[b] = StartOf(b) + Ahead(b, i + 1)
        BY <1>3, <1>4, <1>6, <2>2, <2>3, <2>4
    <2>6. tile_n \in Nat /\ i \in Nat
        BY <1>3, <1>4
    <2>7. counts'[b] \in 0 .. tile_n
        BY <2>3, <2>4, <2>5, <2>6
    <2>8. QED  BY <2>3, <2>5, <2>7
<1>8. DOMAIN counts' = 0 .. n_leaves /\ counts' \in [0 .. n_leaves -> Pending(0 .. tile_cap)]
    BY <1>3, <1>4, <1>6, <1>7 DEF Pending
<1>9. TypeOK'
    <2>1. i' \in Nat /\ pc' \in {"scatter", "dispatch"} /\ acc' \in 0 .. tile_cap
        BY <1>2, <1>3
    <2>2. perm_inv' \in [Slots -> Pending(Slots)] /\ xp_packed' \in [Slots -> Pending(Points)]
        BY <1>3, <1>4, <1>5, <1>6 DEF Pending
    <2>3. QED  BY <1>1, <1>2, <1>8, <2>1, <2>2 DEF TypeOK, Slots, n_trg, tile_K
<1>10. Loops'
    BY <1>2, <1>3, <1>4, UnchangedTile DEF Loops
<1>11. Tiled'
    BY <1>1, <1>2, <1>3, <1>8, UnchangedTile DEF Tiled
<1>12. Counted'
    <2>1. CASE i = tile_n - 1
        <3>1. i + 1 = tile_n /\ i' = 0 /\ pc' = "dispatch" /\ acc' = 0 /\ StartOf(0) = 0
            BY <1>1, <1>2, <1>3, <1>4, <2>1, TileSort
        <3>2. /\ StartOf(i)' = StartOf(0)
              /\ \A b \in 0 .. n_leaves : counts'[b] = StartOf(b + 1)'
            BY <1>2, <1>7, <3>1, UnchangedTile DEF StartOf
        <3>3. QED  BY <3>1, <3>2 DEF Counted
    <2>2. CASE i # tile_n - 1
        <3>1. i' = i + 1 /\ pc' = "scatter"
            BY <1>2, <2>2
        <3>2. \A b \in 0 .. n_leaves : counts'[b] = StartOf(b)' + Ahead(b, i)'
            BY <1>2, <1>7, <3>1, UnchangedTile DEF Ahead
        <3>3. QED  BY <3>1, <3>2 DEF Counted
    <2>3. QED  BY <2>1, <2>2
<1>13. Remembered'
    BY <1>1, <1>2, UnchangedTile DEF Remembered
<1>14. Packed'
    <2>1. SUFFICES ASSUME NEW k \in 0 .. i
                   PROVE  perm_inv'[k] = Slot(k) /\ xp_packed'[Slot(k)] = x(k)
        BY <1>2, <1>3, <1>4, UnchangedTile DEF Packed, PackedBelow
    <2>2. k \in TilePoints /\ Slot(k) \in TilePoints /\ (k # i => Slot(k) # Slot(i))
        <3>1. /\ \A l \in TilePoints : Slot(l) \in TilePoints
              /\ \A l, m \in TilePoints : Slot(l) = Slot(m) => l = m
            BY <1>1, <1>3, TileSort
        <3>2. k \in TilePoints
            BY <1>3, <1>4
        <3>3. QED  BY <1>4, <3>1, <3>2
    <2>3. k # i => perm_inv[k] = Slot(k) /\ xp_packed[Slot(k)] = x(k)
        BY <1>1, <1>2, <1>3 DEF Packed, PackedBelow
    <2>4. QED  BY <1>3, <1>4, <1>5, <1>6, <2>2, <2>3
<1>15. Evaluated'
    <2>1. pc' = "dispatch" => i' = 0
        BY <1>2
    <2>2. \A k \in TilePoints : ~ (Ids[k] < 0)
        BY <1>1, <1>3, TileType
    <2>3. pc' = "dispatch" => EvaluatedBelow(i)'
        BY <1>2, <2>1, <2>2, UnchangedTile DEF EvaluatedBelow
    <2>4. QED  BY <1>2, <2>3 DEF Evaluated
<1>16. AnsweredBelow(NAnswered)'
    <2>1. NAnswered' = NAnswered
        BY <1>2 DEF NAnswered
    <2>2. QED  BY <1>1, <1>2, <2>1, KeepsAnswers
<1>17. QED
    BY <1>1, <1>2, <1>9, <1>10, <1>11, <1>12, <1>13, <1>14, <1>15, <1>16 DEF IInv

LEMMA DispatchStep ==
    ASSUME IInv, Dispatch
    PROVE  IInv'
<1>1. /\ xp \in Batches /\ TypeOK /\ Loops /\ Tiled /\ Counted /\ Packed /\ Evaluated
      /\ AnsweredBelow(NAnswered)
    BY DEF IInv
<1>2. /\ pc = "dispatch" /\ i' = (IF i = n_leaves THEN 0 ELSE i + 1)
      /\ pc' = (IF i = n_leaves THEN "permute" ELSE "dispatch") /\ acc' = counts[i]
      /\ UNCHANGED << xp, soa, table, res, tile_cap, tile_off, counts, leaf_ids, perm_inv, xp_packed >>
    BY DEF Dispatch, Loop
<1>3. /\ pc \in InTile /\ tile_off \in Nat /\ DOMAIN counts = 0 .. n_leaves /\ tile_cap \in Nat
      /\ n_leaves \in Nat /\ i \in Nat /\ i \in 0 .. n_leaves /\ soa \in BOOLEAN
      /\ output_dim \in Nat /\ DOMAIN out_packed = 0 .. output_dim * tile_cap - 1
    BY <1>1, <1>2, Sizes DEF InTile, Tiled, TypeOK, Loops
<1>4. /\ tile_n \in Nat /\ 0 < tile_n /\ tile_n <= tile_cap
      /\ TilePoints = 0 .. tile_n - 1 /\ Slots = 0 .. tile_cap - 1
      /\ Ids \in [0 .. tile_n - 1 -> 0 .. n_leaves]
    BY <1>1, <1>3, TileType
<1>5. /\ Slice = StartOf(i) .. StartOf(i + 1) - 1 /\ Slice \subseteq Slots
      /\ acc' = StartOf(i + 1) /\ StartOf(i + 1) \in 0 .. tile_n
    <2>1. acc = StartOf(i) /\ counts[i] = StartOf(i + 1)
        BY <1>1, <1>2, <1>3 DEF Counted
    <2>2. StartOf(i) \in 0 .. tile_n /\ StartOf(i + 1) \in 0 .. tile_n
        BY <1>1, <1>3, OneStart
    <2>3. Slice = StartOf(i) .. StartOf(i + 1) - 1
        BY <2>1 DEF Slice
    <2>4. StartOf(i) .. StartOf(i + 1) - 1 \subseteq 0 .. tile_cap - 1
        BY <1>3, <1>4, <2>2
    <2>5. QED  BY <1>2, <1>4, <2>1, <2>2, <2>3, <2>4
<1>6. /\ DOMAIN out_packed' = DOMAIN out_packed
      /\ \A p \in Slots, d \in components :
           out_packed'[PackedSlot(p, d)] =
             IF p \in Slice THEN Eval(i, xp_packed[p], d) ELSE out_packed[PackedSlot(p, d)]
    BY <1>3, <1>5, DispatchWrites
<1>7. TypeOK'
    <2>1. i' \in Nat /\ pc' \in {"dispatch", "permute"} /\ acc' \in 0 .. tile_cap
        BY <1>2, <1>3, <1>4, <1>5
    <2>2. Slots' = Slots /\ n_trg' = n_trg /\ tile_K' = tile_K
        BY <1>2 DEF Slots, n_trg, tile_K
    <2>3. QED  BY <1>1, <1>2, <1>6, <2>1, <2>2 DEF TypeOK
<1>8. Loops'
    BY <1>2, <1>3, <1>4, UnchangedTile DEF Loops
<1>9. Tiled'
    BY <1>1, <1>2, <1>3, UnchangedTile DEF Tiled
<1>10. Counted'
    <2>1. \A b \in 0 .. n_leaves : counts'[b] = StartOf(b + 1)'
        BY <1>1, <1>2, UnchangedTile DEF Counted
    <2>2. pc' = "dispatch" => acc' = StartOf(i)'
        BY <1>2, <1>5, UnchangedTile DEF StartOf
    <2>3. QED  BY <1>2, <2>1, <2>2 DEF Counted
<1>11. Remembered'
    BY <1>2 DEF Remembered
<1>12. Packed'
    <2>1. PackedBelow(tile_n)
        BY <1>1, <1>2 DEF Packed
    <2>2. PackedBelow(tile_n)'
        BY <1>2, <2>1, UnchangedTile DEF PackedBelow
    <2>3. QED  BY <1>2, <2>2 DEF Packed
<1>13. Evaluated'
    <2>1. \A k \in TilePoints, d \in components :
             Ids[k] < i + 1 => out_packed'[PackedSlot(Slot(k), d)] = Eval(Ids[k], x(k), d)
        <3>1. SUFFICES ASSUME NEW k \in TilePoints, NEW d \in components, Ids[k] < i + 1
                       PROVE  out_packed'[PackedSlot(Slot(k), d)] = Eval(Ids[k], x(k), d)
            OBVIOUS
        <3>2. Slot(k) \in Slots /\ (Slot(k) \in Slice <=> Ids[k] = i)
            <4>1. i \in Int /\ TilePoints \subseteq Slots
                BY <1>3, <1>4
            <4>2. Slot(k) \in TilePoints /\ (Slot(k) \in StartOf(i) .. StartOf(i + 1) - 1 <=> Ids[k] = i)
                BY <1>1, <1>3, <4>1, SlotInTile
            <4>3. QED  BY <1>5, <4>1, <4>2
        <3>3. xp_packed[Slot(k)] = x(k)
            BY <1>1, <1>2, <1>4 DEF Packed, PackedBelow
        <3>4. CASE Ids[k] = i
            BY <1>6, <3>2, <3>3, <3>4
        <3>5. CASE Ids[k] # i
            <4>1. Ids[k] \in Int /\ Ids[k] < i
                BY <1>3, <1>4, <3>1, <3>5
            <4>2. out_packed[PackedSlot(Slot(k), d)] = Eval(Ids[k], x(k), d)
                BY <1>1, <1>2, <4>1 DEF Evaluated, EvaluatedBelow
            <4>3. QED  BY <1>6, <3>2, <3>5, <4>2
        <3>6. QED  BY <3>4, <3>5
    <2>2. \A k, d : PackedSlot(Slot(k), d)' = PackedSlot(Slot(k), d)
        BY <1>2, UnchangedTile DEF PackedSlot
    <2>3. pc' = "permute" => EvaluatedBelow(n_leaves + 1)'
        BY <1>2, <1>3, <2>1, <2>2, UnchangedTile DEF EvaluatedBelow
    <2>4. pc' = "dispatch" => EvaluatedBelow(i)'
        BY <1>2, <1>3, <2>1, <2>2, UnchangedTile DEF EvaluatedBelow
    <2>5. QED  BY <2>3, <2>4 DEF Evaluated
<1>14. AnsweredBelow(NAnswered)'
    <2>1. NAnswered' = NAnswered
        BY <1>1, <1>2 DEF NAnswered, TypeOK
    <2>2. QED  BY <1>1, <1>2, <2>1, KeepsAnswers
<1>15. QED
    BY <1>1, <1>2, <1>7, <1>8, <1>9, <1>10, <1>11, <1>12, <1>13, <1>14 DEF IInv

LEMMA PermuteStep ==
    ASSUME IInv, Permute
    PROVE  IInv'
<1>1. /\ xp \in Batches /\ TypeOK /\ Loops /\ Tiled /\ Counted /\ Packed /\ Evaluated
      /\ AnsweredBelow(NAnswered)
    BY DEF IInv
<1>2. /\ pc = "permute" /\ i' = (IF i = tile_n - 1 THEN 0 ELSE i + 1)
      /\ pc' = (IF i = tile_n - 1 THEN "next" ELSE "permute")
      /\ UNCHANGED << xp, soa, table, tile_cap, tile_off, counts, leaf_ids, perm_inv,
                      xp_packed, out_packed, acc >>
    BY DEF Permute, Loop
<1>3. /\ pc \in InTile /\ tile_off \in Nat /\ soa \in BOOLEAN
      /\ n_leaves \in Nat /\ i \in Nat /\ i < tile_n /\ n_trg \in Nat
      /\ output_dim \in Nat /\ DOMAIN res = 0 .. output_dim * n_trg - 1
    BY <1>1, <1>2, Sizes DEF InTile, TypeOK, Loops
<1>4. /\ tile_n \in Nat /\ tile_off + tile_n <= n_trg /\ TilePoints = 0 .. tile_n - 1
      /\ i \in TilePoints /\ Ids[i] = LeafOf[x(i)] /\ x(i) = xp[tile_off + i + 1]
      /\ Ids \in [0 .. tile_n - 1 -> 0 .. n_leaves]
    BY <1>1, <1>3, TileType
<1>5. \A d \in components : out_packed[PackedSlot(perm_inv[i], d)] = Eval(LeafOf[x(i)], x(i), d)
    <2>1. perm_inv[i] = Slot(i)
        BY <1>1, <1>2, <1>4 DEF Packed, PackedBelow
    <2>2. Ids[i] < n_leaves + 1
        BY <1>3, <1>4
    <2>3. QED  BY <1>1, <1>2, <1>4, <2>1, <2>2 DEF Evaluated, EvaluatedBelow
<1>6. /\ DOMAIN res' = DOMAIN res
      /\ \A p \in 0 .. n_trg - 1, d \in components :
           res'[CallerSlot(p, d)] =
             IF p = tile_off + i THEN out_packed[PackedSlot(perm_inv[i], d)]
             ELSE res[CallerSlot(p, d)]
    <2>1. tile_off + i < n_trg
        BY <1>3, <1>4
    <2>2. QED  BY <1>3, <2>1, PermuteWrites
<1>7. TypeOK'
    <2>1. i' \in Nat /\ pc' \in {"permute", "next"}
        BY <1>2, <1>3
    <2>2. Slots' = Slots /\ n_trg' = n_trg /\ tile_K' = tile_K
        BY <1>2 DEF Slots, n_trg, tile_K
    <2>3. QED  BY <1>1, <1>2, <1>6, <2>1, <2>2 DEF TypeOK
<1>8. Loops'
    BY <1>2, <1>3, <1>4, UnchangedTile DEF Loops
<1>9. Tiled'
    BY <1>1, <1>2, <1>3, UnchangedTile DEF Tiled
<1>10. Counted'
    BY <1>1, <1>2, UnchangedTile DEF Counted
<1>11. Remembered'
    BY <1>2 DEF Remembered
<1>12. Packed'
    <2>1. PackedBelow(tile_n)
        BY <1>1, <1>2 DEF Packed
    <2>2. PackedBelow(tile_n)'
        BY <1>2, <2>1, UnchangedTile DEF PackedBelow
    <2>3. QED  BY <1>2, <2>2 DEF Packed
<1>13. Evaluated'
    <2>1. \A k, d : PackedSlot(Slot(k), d)' = PackedSlot(Slot(k), d)
        BY <1>2, UnchangedTile DEF PackedSlot
    <2>2. EvaluatedBelow(n_leaves + 1)
        BY <1>1, <1>2 DEF Evaluated
    <2>3. EvaluatedBelow(n_leaves + 1)'
        BY <1>2, <2>1, <2>2, UnchangedTile DEF EvaluatedBelow
    <2>4. QED  BY <1>2, <2>3 DEF Evaluated
<1>14. AnsweredBelow(NAnswered)'
    <2>1. NAnswered = tile_off + i /\ NAnswered' = tile_off + i + 1
        BY <1>2, <1>3, <1>4, UnchangedTile DEF NAnswered
    <2>2. n_trg' = n_trg /\ \A p, d : CallerSlot(p, d)' = CallerSlot(p, d)
        BY <1>2 DEF CallerSlot, n_trg
    <2>3. \A p \in 0 .. n_trg - 1, d \in components :
             res'[CallerSlot(p, d)] =
               IF p < tile_off + i + 1 THEN Eval(LeafOf[xp[p + 1]], xp[p + 1], d) ELSE Garbage
        BY <1>1, <1>3, <1>4, <1>5, <1>6, <2>1 DEF AnsweredBelow
    <2>4. QED  BY <1>2, <2>1, <2>2, <2>3 DEF AnsweredBelow
<1>15. QED
    BY <1>1, <1>2, <1>7, <1>8, <1>9, <1>10, <1>11, <1>12, <1>13, <1>14 DEF IInv

LEMMA NextTileStep ==
    ASSUME IInv, NextTile
    PROVE  IInv'
<1>1. xp \in Batches /\ TypeOK /\ Loops /\ Tiled /\ AnsweredBelow(NAnswered)
    BY DEF IInv
<1>2. /\ pc = "next" /\ i = 0 /\ tile_off' = tile_off + tile_K
      /\ pc' = (IF tile_off + tile_K < n_trg THEN "clear" ELSE "done")
      /\ UNCHANGED << xp, soa, table, res, tile_cap, counts, leaf_ids, perm_inv,
                      xp_packed, out_packed, i, acc >>
    BY <1>1 DEF NextTile, NextOff, Loops
<1>3. /\ pc \in InTile /\ tile_off \in Nat /\ n_trg \in Nat /\ tile_K \in Nat
      /\ n_trg' = n_trg /\ tile_K' = tile_K /\ tile_off' \in Nat
    <2>1. pc \in InTile
        BY <1>2 DEF InTile
    <2>2. n_trg \in Nat /\ tile_K \in Nat /\ tile_off \in Nat
        BY <1>1, Sizes DEF TypeOK
    <2>3. n_trg' = n_trg /\ tile_K' = tile_K
        BY <1>2 DEF n_trg, tile_K
    <2>4. QED  BY <1>2, <2>1, <2>2, <2>3
<1>4. TypeOK'
    BY <1>1, <1>2, <1>3 DEF TypeOK, Slots
<1>5. Loops'
    BY <1>2 DEF Loops
<1>6. Tiled'
    BY <1>1, <1>2, <1>3 DEF Tiled, InTile
<1>7. (Counted /\ Remembered /\ Packed /\ Evaluated)'
    BY <1>2 DEF Counted, Remembered, Packed, Evaluated
<1>8. AnsweredBelow(NAnswered)'
    <2>1. NAnswered' = NAnswered
        BY <1>2, <1>3 DEF NAnswered, tile_n, Least
    <2>2. QED  BY <1>1, <1>2, <2>1, KeepsAnswers
<1>9. QED  BY <1>1, <1>2, <1>4, <1>5, <1>6, <1>7, <1>8 DEF IInv

LEMMA StutterStep ==
    ASSUME IInv, UNCHANGED vars
    PROVE  IInv'
<1>1. /\ UNCHANGED << xp, soa, table, res, tile_cap, tile_off, counts, leaf_ids, perm_inv,
                      xp_packed, out_packed, i, acc, pc >>
      /\ n_trg' = n_trg /\ tile_K' = tile_K /\ Slots' = Slots
    BY DEF vars, n_trg, tile_K, Slots
<1>2. TypeOK' /\ Loops' /\ Tiled' /\ Counted' /\ Remembered'
    BY <1>1, UnchangedTile DEF IInv, TypeOK, Loops, Tiled, Counted, Remembered
<1>3. Packed'
    BY <1>1, UnchangedTile DEF IInv, Packed, PackedBelow
<1>4. Evaluated'
    <2>1. \A k, d : PackedSlot(Slot(k), d)' = PackedSlot(Slot(k), d)
        BY <1>1, UnchangedTile DEF PackedSlot
    <2>2. QED  BY <1>1, <2>1, UnchangedTile DEF IInv, Evaluated, EvaluatedBelow
<1>5. AnsweredBelow(NAnswered)'
    <2>1. NAnswered' = NAnswered
        BY <1>1, UnchangedTile DEF NAnswered
    <2>2. QED  BY <1>1, <2>1, KeepsAnswers DEF IInv
<1>6. QED  BY <1>1, <1>2, <1>3, <1>4, <1>5 DEF IInv

LEMMA NextInv == IInv /\ [Next]_vars => IInv'
<1> SUFFICES ASSUME IInv, [Next]_vars PROVE IInv'
    OBVIOUS
<1>1. CASE EmptyBatch
    BY <1>1, EmptyBatchStep
<1>2. CASE ShortBatch
    BY <1>2, ShortBatchStep
<1>3. CASE EvalOne
    BY <1>3, EvalOneStep
<1>4. CASE Reserve
    BY <1>4, ReserveStep
<1>5. CASE Clear
    BY <1>5, ClearStep
<1>6. CASE Histogram
    BY <1>6, HistogramStep
<1>7. CASE Scan
    BY <1>7, ScanStep
<1>8. CASE Scatter
    BY <1>8, ScatterStep
<1>9. CASE Dispatch
    BY <1>9, DispatchStep
<1>10. CASE Permute
    BY <1>10, PermuteStep
<1>11. CASE NextTile
    BY <1>11, NextTileStep
<1>12. CASE UNCHANGED vars
    BY <1>12, StutterStep
<1>13. QED
    BY <1>1, <1>2, <1>3, <1>4, <1>5, <1>6, <1>7, <1>8, <1>9, <1>10, <1>11, <1>12 DEF Next

LEMMA Invariance == Spec => []IInv
<1>1. QED  BY InitInv, NextInv, PTL DEF Spec

-----------------------------------------------------------------------------
(* What follows.                                                           *)

\* Every index that the sort stores or reads lies in the buffer that was
\* reserved for the largest tile (Scratch::reserve).
THEOREM BuffersSuffice == Spec => []TypeOK
<1>1. IInv => TypeOK
    BY DEF IInv
<1>2. QED  BY <1>1, Invariance, PTL

\* The array that is histogram, starts and cursors holds what the next loop
\* reads it for, in every tile (eval_batch_tile, partition).
THEOREM CursorsOfEveryTile == Spec => []Cursors
<1>1. IInv => Cursors
    <2> SUFFICES ASSUME IInv PROVE Cursors
        OBVIOUS
    <2>1. xp \in Batches /\ TypeOK /\ Loops /\ Tiled /\ Counted
        BY DEF IInv
    <2>2. CASE pc \in {"scatter", "dispatch", "permute"}
        <3>1. pc \in InTile /\ tile_off \in Nat /\ i \in Nat /\ n_leaves \in Nat
            BY <2>1, <2>2, Sizes DEF InTile, TypeOK
        <3>2. tile_n \in Nat /\ TilePoints = 0 .. tile_n - 1 /\ \A k \in TilePoints : Ids[k] = LeafOf[x(k)]
            BY <2>1, <3>1, TileType
        <3>3. \A b : Before(b) = StartOf(b)
            <4>1. SUFFICES ASSUME NEW b PROVE Before(b) = StartOf(b)
                OBVIOUS
            <4>2. {k \in TilePoints : LeafOf[x(k)] < b} = {t \in 0 .. tile_n - 1 : Ids[t] < b}
                BY <3>2
            <4>3. QED  BY <4>2 DEF Before, StartOf, NBelow
        <3>4. pc = "scatter" => \A b : SoFar(b, i) = Ahead(b, i)
            <4>1. SUFFICES ASSUME pc = "scatter", NEW b PROVE SoFar(b, i) = Ahead(b, i)
                OBVIOUS
            <4>2. 0 .. i - 1 \subseteq TilePoints
                BY <2>1, <3>1, <3>2, <4>1 DEF Loops
            <4>3. {l \in 0 .. i - 1 : LeafOf[x(l)] = b} = {t \in 0 .. i - 1 : Ids[t] = b}
                BY <3>2, <4>2
            <4>4. QED  BY <4>3 DEF SoFar, Ahead, NEqual
        <3>5. QED  BY <2>1, <3>3, <3>4 DEF Cursors, Counted
    <2>3. CASE pc \notin {"scatter", "dispatch", "permute"}
        BY <2>3 DEF Cursors
    <2>4. QED  BY <2>2, <2>3
<1>2. QED  BY <1>1, Invariance, PTL

\* The packing permutes the tile and keeps the order of the points of a leaf.
THEOREM EveryTilePacked == Spec => []StablePacking
<1>1. IInv => StablePacking
    <2> SUFFICES ASSUME IInv, pc \in {"dispatch", "permute", "next"}
                 PROVE  /\ {perm_inv[k] : k \in TilePoints} = TilePoints
                        /\ \A k \in TilePoints : xp_packed[perm_inv[k]] = x(k)
                        /\ \A k, l \in TilePoints :
                             k < l /\ LeafOf[x(k)] = LeafOf[x(l)] => perm_inv[k] < perm_inv[l]
        BY DEF StablePacking
    <2>1. xp \in Batches /\ TypeOK /\ Tiled /\ PackedBelow(tile_n) /\ tile_off \in Nat /\ pc \in InTile
        BY DEF IInv, Packed, TypeOK, InTile
    <2>2. TilePoints = 0 .. tile_n - 1 /\ \A k \in TilePoints : Ids[k] = LeafOf[x(k)]
        BY <2>1, TileType
    <2>3. \A k \in TilePoints : perm_inv[k] = Slot(k) /\ xp_packed[Slot(k)] = x(k)
        BY <2>1, <2>2 DEF PackedBelow
    <2>4. /\ \A k \in TilePoints : Slot(k) \in TilePoints
          /\ \A k, l \in TilePoints : k < l /\ Ids[k] = Ids[l] => Slot(k) < Slot(l)
          /\ \A p \in TilePoints : \E k \in TilePoints : Slot(k) = p
        BY <2>1, TileSort
    <2>5. {perm_inv[k] : k \in TilePoints} = TilePoints
        BY <2>3, <2>4
    <2>6. \A k \in TilePoints : xp_packed[perm_inv[k]] = x(k)
        BY <2>3
    <2>7. ASSUME NEW k \in TilePoints, NEW l \in TilePoints, k < l, LeafOf[x(k)] = LeafOf[x(l)]
          PROVE  perm_inv[k] < perm_inv[l]
        <3>1. Ids[k] = Ids[l]
            BY <2>2, <2>7
        <3>2. Slot(k) < Slot(l)
            BY <2>4, <2>7, <3>1
        <3>3. QED  BY <2>3, <3>2
    <2>8. QED  BY <2>5, <2>6, <2>7
<1>2. QED  BY <1>1, Invariance, PTL

\* A kernel call gets written points, all of its own leaf (the dispatch loop).
THEOREM KernelsGetOwnPoints == Spec => []OwnPoints
<1>1. IInv => OwnPoints
    <2> SUFFICES ASSUME IInv, pc = "dispatch", NEW p \in Slice
                 PROVE  xp_packed[p] \in Points /\ LeafOf[xp_packed[p]] = i
        BY DEF OwnPoints
    <2>1. /\ xp \in Batches /\ TypeOK /\ Loops /\ Tiled /\ Counted /\ PackedBelow(tile_n)
          /\ tile_off \in Nat /\ pc \in InTile
        BY DEF IInv, Packed, TypeOK, InTile
    <2>2. /\ n_leaves \in Nat /\ i \in 0 .. n_leaves /\ i \in Int
        BY <2>1, Sizes DEF Loops, TypeOK
    <2>3. /\ tile_n \in Nat /\ TilePoints = 0 .. tile_n - 1
          /\ \A k \in TilePoints : Ids[k] = LeafOf[x(k)] /\ x(k) \in Points
        BY <2>1, TileType
    <2>4. p \in StartOf(i) .. StartOf(i + 1) - 1 /\ p \in TilePoints
        <3>1. acc = StartOf(i) /\ counts[i] = StartOf(i + 1)
            BY <2>1, <2>2 DEF Counted
        <3>2. StartOf(i) \in 0 .. tile_n /\ StartOf(i + 1) \in 0 .. tile_n
            BY <2>1, <2>2, OneStart
        <3>3. QED  BY <2>3, <3>1, <3>2 DEF Slice
    <2>5. PICK k \in TilePoints : Slot(k) = p
        <3>1. \A q \in TilePoints : \E k \in TilePoints : Slot(k) = q
            BY <2>1, TileSort
        <3>2. QED  BY <2>4, <3>1
    <2>6. Ids[k] = i
        <3>1. \A l \in TilePoints, b \in Int :
                 Slot(l) \in StartOf(b) .. StartOf(b + 1) - 1 <=> Ids[l] = b
            BY <2>1, TileSort
        <3>2. QED  BY <2>2, <2>4, <2>5, <3>1
    <2>7. xp_packed[p] = x(k)
        BY <2>1, <2>3, <2>5 DEF PackedBelow
    <2>8. QED  BY <2>3, <2>6, <2>7
<1>2. QED  BY <1>1, Invariance, PTL

-----------------------------------------------------------------------------
(* The refinement of Pointwise.                                            *)

\* A step answers points from the first without an answer on.
LEMMA AnswersGrow ==
    ASSUME IInv, Next
    PROVE  xp' = xp /\ soa' = soa /\ NAnswered <= NAnswered' /\ NAnswered \in Nat /\ NAnswered' \in Nat
<1>1. xp \in Batches /\ TypeOK /\ Loops /\ Tiled
    BY DEF IInv
<1>2. /\ n_trg \in Nat /\ tile_K \in Nat /\ i \in Nat /\ tile_off \in Nat /\ n_leaves \in Nat
      /\ pc \in InTile => tile_n \in Nat /\ 0 < tile_n
    BY <1>1, Sizes, TileType DEF TypeOK
<1>3. CASE EmptyBatch
    BY <1>1, <1>2, <1>3 DEF EmptyBatch, NAnswered, Loops, n_trg
<1>4. CASE ShortBatch
    BY <1>1, <1>2, <1>4 DEF ShortBatch, NAnswered, Loops
<1>5. CASE EvalOne
    <2>1. /\ pc = "scalar" /\ xp' = xp /\ soa' = soa
          /\ i' = (IF i = n_trg - 1 THEN 0 ELSE i + 1)
          /\ pc' = (IF i = n_trg - 1 THEN "done" ELSE "scalar")
        BY <1>5 DEF EvalOne, Loop
    <2>2. QED  BY <1>2, <2>1 DEF NAnswered, n_trg
<1>6. CASE Reserve
    BY <1>1, <1>2, <1>6 DEF Reserve, NAnswered, Loops
<1>7. CASE Clear
    BY <1>2, <1>7 DEF Clear, NAnswered
<1>8. CASE Histogram
    BY <1>2, <1>8 DEF Histogram, Loop, NAnswered
<1>9. CASE Scan
    BY <1>2, <1>9 DEF Scan, Loop, NAnswered
<1>10. CASE Scatter
    BY <1>2, <1>10 DEF Scatter, Loop, NAnswered
<1>11. CASE Dispatch
    <2>1. /\ pc = "dispatch" /\ xp' = xp /\ soa' = soa /\ tile_off' = tile_off
          /\ i' = (IF i = n_leaves THEN 0 ELSE i + 1)
          /\ pc' = (IF i = n_leaves THEN "permute" ELSE "dispatch")
        BY <1>11 DEF Dispatch, Loop
    <2>2. QED  BY <1>2, <2>1 DEF NAnswered
<1>12. CASE Permute
    <2>1. /\ pc = "permute" /\ xp' = xp /\ soa' = soa /\ tile_off' = tile_off
          /\ i' = (IF i = tile_n - 1 THEN 0 ELSE i + 1)
          /\ pc' = (IF i = tile_n - 1 THEN "next" ELSE "permute")
        BY <1>12 DEF Permute, Loop
    <2>2. tile_n' = tile_n /\ tile_n \in Nat
        BY <1>2, <2>1, UnchangedTile DEF InTile
    <2>3. QED  BY <1>2, <2>1, <2>2 DEF NAnswered
<1>13. CASE NextTile
    <2>1. /\ pc = "next" /\ xp' = xp /\ soa' = soa /\ tile_off' = tile_off + tile_K
          /\ pc' = (IF tile_off + tile_K < n_trg THEN "clear" ELSE "done") /\ n_trg' = n_trg
        BY <1>13 DEF NextTile, NextOff, n_trg
    <2>2. QED  BY <1>1, <1>2, <2>1 DEF NAnswered, tile_n, Least, Tiled, InTile
<1>14. QED
    BY <1>3, <1>4, <1>5, <1>6, <1>7, <1>8, <1>9, <1>10, <1>11, <1>12, <1>13 DEF Next

\* What the caller sees of point q.
LEMMA SeenOfPoint ==
    ASSUME IInv, NEW q \in 0 .. n_trg - 1
    PROVE  OfPoint(q) = [d \in components |->
                           IF q < NAnswered THEN Eval(LeafOf[xp[q + 1]], xp[q + 1], d) ELSE Garbage]
BY DEF IInv, AnsweredBelow, OfPoint

\* The batch is answered as the scalar operator() answers each of its points
\* (eval_batch and eval_batch_soa, over any number of tiles).
THEOREM BatchIsPointwise == Spec => ImplementsPointwise
<1> DEFINE ans == [p \in Points |-> [d \in components |-> Eval(LeafOf[p], p, d)]]
           none == [d \in components |-> Garbage]
           out == [p \in 1 .. n_trg |-> OfPoint(p - 1)]
<1>1. Init => Answers!Init
    <2> SUFFICES ASSUME Init PROVE Answers!Init
        OBVIOUS
    <2>1. IInv /\ xp \in Batches /\ NAnswered = 0 /\ n_trg \in Nat
        BY InitInv, Sizes DEF Init, NAnswered
    <2>2. \A p \in 1 .. n_trg : OfPoint(p - 1) = none
        <3>1. SUFFICES ASSUME NEW p \in 1 .. n_trg PROVE OfPoint(p - 1) = none
            OBVIOUS
        <3>2. p - 1 \in 0 .. n_trg - 1 /\ ~ (p - 1 < NAnswered)
            BY <2>1
        <3>3. QED  BY <2>1, <3>2, SeenOfPoint
    <2>3. out = [p \in 1 .. n_trg |-> none]
        BY <2>2
    <2>4. QED  BY <2>1, <2>3 DEF Answers!Init, n_trg
<1>2. IInv /\ IInv' /\ Next => Answers!AnswerSome
    <2> SUFFICES ASSUME IInv, IInv', Next PROVE Answers!AnswerSome
        OBVIOUS
    <2>1. xp' = xp /\ n_trg' = n_trg /\ NAnswered \in Nat /\ NAnswered' \in Nat /\ NAnswered <= NAnswered'
        BY AnswersGrow DEF n_trg
    <2>2. n_trg \in Nat /\ \A p \in 1 .. n_trg : xp[p] \in Points
        BY Sizes DEF IInv, n_trg
    <2>3. ASSUME NEW p \in 1 .. n_trg
          PROVE  OfPoint(p - 1)' = OfPoint(p - 1) \/ (OfPoint(p - 1) = none /\ OfPoint(p - 1)' = ans[xp[p]])
        <3>1. p - 1 \in 0 .. n_trg - 1 /\ (p - 1) + 1 = p /\ xp[p] \in Points
            BY <2>2
        <3>2. OfPoint(p - 1) = [d \in components |->
                 IF p - 1 < NAnswered THEN Eval(LeafOf[xp[p]], xp[p], d) ELSE Garbage]
            BY <3>1, SeenOfPoint
        <3>3. OfPoint(p - 1)' = [d \in components |->
                 IF p - 1 < NAnswered' THEN Eval(LeafOf[xp[p]], xp[p], d) ELSE Garbage]
            BY <2>1, <3>1 DEF IInv, AnsweredBelow, OfPoint
        <3>4. ans[xp[p]] = [d \in components |-> Eval(LeafOf[xp[p]], xp[p], d)]
            BY <3>1
        <3> HIDE DEF ans
        <3>5. CASE p - 1 < NAnswered
            BY <2>1, <3>1, <3>2, <3>3, <3>5
        <3>6. CASE ~ (p - 1 < NAnswered) /\ p - 1 < NAnswered'
            BY <3>2, <3>3, <3>4, <3>6
        <3>7. CASE ~ (p - 1 < NAnswered')
            BY <2>1, <3>1, <3>2, <3>3, <3>7
        <3>8. QED  BY <3>5, <3>6, <3>7
    <2>4. /\ DOMAIN out = 1 .. n_trg /\ DOMAIN out' = 1 .. n_trg
          /\ \A p \in 1 .. n_trg : out[p] = OfPoint(p - 1) /\ out'[p] = OfPoint(p - 1)'
        BY <2>1
    <2>5. /\ DOMAIN out' = DOMAIN out
          /\ \A p \in DOMAIN out : out'[p] = out[p] \/ (out[p] = none /\ out'[p] = ans[xp[p]])
        <3> HIDE DEF out, ans, none
        <3>1. QED  BY <2>3, <2>4
    <2>6. QED  BY <2>1, <2>5 DEF Answers!AnswerSome
<1>3. UNCHANGED vars => UNCHANGED << xp, out >>
    BY DEF vars, n_trg, OfPoint, CallerSlot
<1>4. IInv /\ IInv' /\ [Next]_vars => [Answers!Next]_<< xp, out >>
    BY <1>2, <1>3 DEF Answers!Next
<1>5. QED  BY <1>1, <1>4, Invariance, PTL DEF Spec, ImplementsPointwise, Answers!Spec
============================================================================
