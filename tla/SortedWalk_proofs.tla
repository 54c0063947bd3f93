-------------------------- MODULE SortedWalk_proofs --------------------------
(***************************************************************************)
(* The walk over ascending points, proved for every fit, every cutoff and  *)
(* every batch, with any number of NaNs in it.                             *)
(***************************************************************************)
EXTENDS SortedWalk, SequenceTheorems, CountingLemmas

Positions == 0 .. n - 1
Record == [id : 0 .. NLeaves, begin : 0 .. n, count : 1 .. n]
InRun == {"ahead", "gallop", "bisect", "linear"}

\* The position up to which the callback has seen the points.
Covered == IF calls = <<>> THEN 0 ELSE End(calls[Len(calls)])

Chained == \A c \in 1 .. Len(calls) : calls[c].begin = IF c = 1 THEN 0 ELSE End(calls[c - 1])

WalkType ==
  /\ xs \in Inputs
  /\ i \in 0 .. n /\ j \in 0 .. n /\ k \in Nat /\ step \in Nat
  /\ id \in 0 .. NLeaves
  /\ first_nan \in 0 .. n /\ scanned \in BOOLEAN
  /\ calls \in Seq(Record)
  /\ pc \in {"prefix", "top", "ahead", "gallop", "bisect", "linear", "done"}

\* The callback has seen every point up to the start of the run.
Progress ==
  /\ Chained
  /\ pc = "prefix" => calls = <<>> /\ \A p \in 0 .. i - 1 : lt(x(p), Lo)
  /\ pc \in InRun \cup {"top"} => Covered = i
  /\ pc = "done" => Covered = n

\* The points of the run so far have its leaf, and j does not pass k.
RunSoFar ==
  pc \in InRun =>
    /\ i < j /\ id # ood_id
    /\ \A p \in i .. j - 1 : LeafId(x(p)) = id
    /\ pc \in {"gallop", "bisect"} => j <= k
    /\ pc = "bisect" => k <= n
    /\ pc = "gallop" => step > 0

\* A scan that found no NaN has a point above the domain before every NaN
\* that is left, so none lies between two points of one leaf.
NaNsHidden ==
  /\ pc \in {"gallop", "bisect"} => scanned /\ first_nan = n
  /\ scanned /\ first_nan = n =>
       \A p \in i .. n - 1 : x(p) = NaN => \E r \in 0 .. p - 1 : lt(Hi, x(r))

IInv == WalkType /\ Progress /\ RunSoFar /\ NaNsHidden /\ RunsPure

-----------------------------------------------------------------------------
(* Points and leaves                                                       *)

LEMMA Batch ==
  ASSUME xs \in Inputs
  PROVE  /\ n \in Nat /\ xs \in [1 .. n -> Coord]
         /\ \A p \in Positions : x(p) \in Coord
         /\ \A p, r \in Positions : p <= r /\ x(p) # NaN /\ x(r) # NaN => x(p) <= x(r)
<1>1. xs \in Seq(Coord) /\ Ascending(xs)
  BY WalkConstants
<1>2. n \in Nat /\ xs \in [1 .. n -> Coord]
  BY <1>1, LenProperties DEF n
<1>3. \A p \in Positions : p \in Int /\ p + 1 \in 1 .. n
  BY <1>2 DEF Positions
<1>4. \A p \in Positions : x(p) \in Coord
  BY <1>2, <1>3 DEF x
<1>5. ASSUME NEW p \in Positions, NEW r \in Positions, p <= r, x(p) # NaN, x(r) # NaN
      PROVE  x(p) <= x(r)
  <2>1. CASE p = r
    BY <2>1, <1>4, <1>5, WalkConstants DEF Coord
  <2>2. CASE p < r
    BY <2>2, <1>1, <1>3, <1>5 DEF Ascending, x, n
  <2>3. QED  BY <2>1, <2>2, <1>5 DEF Positions
<1>6. QED  BY <1>2, <1>4, <1>5

\* sorted_leaf_id_at is the leaf of a point, or the sentinel.
LEMMA LeafIdIsLeaf ==
  ASSUME NEW c \in Coord
  PROVE  /\ LeafId(c) = LeafOfPoint(c) /\ LeafId(c) \in 0 .. NLeaves
         /\ LeafId(c) # ood_id <=> c \in Lo .. Hi
BY WalkConstants DEF LeafId, LeafOfPoint, Coord, le, ood_id

\* Between two points of one leaf with no NaN in between, all have the leaf.
LEMMA NothingSkipped ==
  ASSUME xs \in Inputs, NEW p \in Positions, NEW r \in Positions, NEW t \in Positions,
         p <= t, t <= r, x(t) # NaN, LeafId(x(p)) = LeafId(x(r)), LeafId(x(p)) # ood_id
  PROVE  LeafId(x(t)) = LeafId(x(p))
<1>1. x(p) \in Lo .. Hi /\ x(r) \in Lo .. Hi /\ x(t) \in Int
  BY Batch, LeafIdIsLeaf DEF Coord
<1>2. x(p) <= x(t) /\ x(t) <= x(r)
  BY <1>1, Batch, WalkConstants
<1>3. LeafOf[x(p)] = LeafOf[x(r)] /\ LeafId(x(p)) = LeafOf[x(p)]
  BY <1>1, WalkConstants DEF LeafId, le
<1>4. x(t) \in Lo .. Hi
  BY <1>1, <1>2, WalkConstants
<1>5. LeafOf[x(t)] = LeafOf[x(p)]
  BY <1>1, <1>2, <1>3, <1>4, WalkConstants
<1>6. QED  BY <1>3, <1>4, <1>5, WalkConstants DEF LeafId, le

\* The gallop and the bisection move over points of the run only.
LEMMA NoJumpOverNaN ==
  ASSUME IInv, pc \in {"gallop", "bisect"}, NEW r \in Positions, i <= r, Same(r)
  PROVE  \A p \in i .. r : LeafId(x(p)) = id
<1>1. SUFFICES ASSUME NEW p \in i .. r PROVE LeafId(x(p)) = id
  OBVIOUS
<1>2. /\ i \in Positions /\ p \in Positions /\ i <= p /\ p <= r
      /\ LeafId(x(i)) = id /\ id # ood_id
  <2>1. n \in Nat /\ i \in Nat /\ j \in Nat /\ i < j /\ id # ood_id
    BY Batch DEF IInv, WalkType, RunSoFar, InRun
  <2>2. LeafId(x(i)) = id
    BY <2>1 DEF IInv, RunSoFar, InRun
  <2>3. QED  BY <2>1, <2>2 DEF Positions
<1>3. LeafId(x(r)) = id
  BY DEF Same
<1>4. x(p) # NaN
  <2>1. SUFFICES ASSUME x(p) = NaN PROVE FALSE
    OBVIOUS
  <2>2. PICK a \in 0 .. p - 1 : lt(Hi, x(a))
    BY <1>2, <2>1 DEF IInv, NaNsHidden, Positions
  <2>3. a \in Positions /\ a <= r /\ x(a) # NaN
    <3>1. n \in Nat
      BY Batch DEF IInv, WalkType
    <3>2. QED  BY <3>1, <1>2, <2>2 DEF Positions, lt
  <2>4. x(r) \in Lo .. Hi
    BY <1>2, <1>3, Batch, LeafIdIsLeaf DEF IInv, WalkType
  <2>5. x(a) <= x(r)
    BY <2>3, <2>4, Batch, WalkConstants DEF IInv, WalkType
  <2>6. x(a) \in Int /\ Hi < x(a)
    BY <2>2, <2>3, Batch DEF Coord, lt, IInv, WalkType
  <2>7. QED  BY <2>4, <2>5, <2>6, WalkConstants
<1>5. QED  BY <1>2, <1>3, <1>4, NothingSkipped DEF IInv, WalkType

-----------------------------------------------------------------------------
(* The runs                                                                *)

\* A run that begins where the last one ended, and is pure, may be handed on.
LEMMA RunHanded ==
  ASSUME IInv, NEW leaf \in 0 .. NLeaves, NEW begin \in 0 .. n, NEW count \in 1 .. n,
         begin = Covered, begin + count <= n,
         \A p \in begin .. begin + count - 1 : LeafId(x(p)) = leaf,
         calls' = Append(calls, Call(leaf, begin, count)), xs' = xs
  PROVE  calls' \in Seq(Record)' /\ Chained' /\ RunsPure' /\ Covered' = begin + count
<1> DEFINE run == Call(leaf, begin, count)
<1>1. n' = n /\ n \in Nat /\ Record' = Record /\ run \in Record /\ calls \in Seq(Record)
  BY Batch DEF n, IInv, WalkType, Record, Call
<1>2. /\ calls' \in Seq(Record) /\ Len(calls') = Len(calls) + 1 /\ Len(calls) \in Nat
      /\ \A c \in 1 .. Len(calls) : calls'[c] = calls[c]
      /\ calls'[Len(calls) + 1] = run /\ calls' # <<>>
  BY <1>1, AppendProperties, LenProperties
<1>3. run.begin = begin /\ run.count = count /\ run.id = leaf /\ End(run) = begin + count
  BY DEF Call, End
<1>4. Covered' = begin + count
  BY <1>2, <1>3 DEF Covered, End
<1>5. Chained'
  <2>1. SUFFICES ASSUME NEW c \in 1 .. Len(calls) + 1
                 PROVE  calls'[c].begin = IF c = 1 THEN 0 ELSE End(calls'[c - 1])
    BY <1>2 DEF Chained, End
  <2>2. CASE c \in 1 .. Len(calls)
    BY <2>2, <1>2 DEF IInv, Progress, Chained
  <2>3. CASE c = Len(calls) + 1
    <3>1. CASE Len(calls) = 0
      BY <2>3, <3>1, <1>1, <1>2, <1>3, EmptySeq DEF Covered
    <3>2. CASE Len(calls) > 0
      BY <2>3, <3>2, <1>1, <1>2, <1>3, EmptySeq DEF Covered
    <3>3. QED  BY <3>1, <3>2, <1>2
  <2>4. QED  BY <2>2, <2>3, <1>2
<1>6. RunsPure'
  <2>1. SUFFICES ASSUME NEW c \in 1 .. Len(calls) + 1, NEW p \in calls'[c].begin .. End(calls'[c]) - 1
                 PROVE  LeafOfPoint(xs[p + 1]) = calls'[c].id
    BY <1>2 DEF RunsPure, End, LeafOfPoint, ood_id
  <2>2. CASE c \in 1 .. Len(calls)
    BY <2>2, <1>2 DEF IInv, RunsPure
  <2>3. CASE c = Len(calls) + 1
    <3>1. p \in begin .. begin + count - 1 /\ p \in Positions
      BY <2>1, <2>3, <1>1, <1>2, <1>3 DEF Positions
    <3>2. LeafId(x(p)) = leaf /\ x(p) \in Coord
      BY <3>1, Batch DEF IInv, WalkType
    <3>3. QED  BY <2>3, <3>2, <1>2, <1>3, LeafIdIsLeaf DEF x
  <2>4. QED  BY <2>2, <2>3, <1>2
<1>7. QED  BY <1>1, <1>2, <1>4, <1>5, <1>6

-----------------------------------------------------------------------------
(* The steps                                                               *)

LEMMA InitInv == Init => IInv
<1> SUFFICES ASSUME Init PROVE IInv
  OBVIOUS
<1>1. n \in Nat
  BY Batch DEF Init
<1>2. WalkType
  <2>1. calls \in Seq(Record)
    BY EmptySeq DEF Init
  <2>2. id \in 0 .. NLeaves
    BY WalkConstants DEF Init, ood_id
  <2>3. i \in 0 .. n /\ j \in 0 .. n /\ k \in Nat /\ step \in Nat /\ first_nan \in 0 .. n
    BY <1>1 DEF Init
  <2>4. QED  BY <2>1, <2>2, <2>3 DEF Init, WalkType
<1>3. Len(calls) = 0
  BY EmptySeq DEF Init
<1>4. Progress /\ RunSoFar /\ NaNsHidden /\ RunsPure
  BY <1>1, <1>3 DEF Init, Progress, Chained, RunSoFar, InRun, NaNsHidden, RunsPure
<1>5. QED  BY <1>2, <1>4 DEF IInv

\* A step that hands nothing on leaves what was handed on as it is.
LEMMA NothingHanded ==
  ASSUME IInv, UNCHANGED << xs, calls >>
  PROVE  /\ n' = n /\ n \in Nat /\ Covered' = Covered /\ Chained' /\ RunsPure'
         /\ calls' \in Seq(Record)'
         /\ \A p : x(p)' = x(p) /\ LeafId(x(p))' = LeafId(x(p))
<1>1. n' = n /\ n \in Nat
  BY Batch DEF n, IInv, WalkType
<1>2. Covered' = Covered /\ Chained' /\ RunsPure'
  BY DEF Covered, Chained, RunsPure, End, LeafOfPoint, ood_id, IInv, Progress
<1>3. calls' \in Seq(Record)'
  BY <1>1 DEF IInv, WalkType, Record
<1>4. QED  BY <1>1, <1>2, <1>3 DEF x, LeafId, ood_id

LEMMA SkipPrefixInv == ASSUME IInv, SkipPrefix PROVE IInv'
<1>1. UNCHANGED << xs, j, k, step, id, first_nan, scanned, calls, pc >> /\ i' = i + 1 /\ i < n
      /\ pc = "prefix" /\ lt(x(i), Lo)
  BY DEF SkipPrefix
<1>2. WalkType'
  BY <1>1, NothingHanded DEF IInv, WalkType
<1>3. Progress'
  BY <1>1, NothingHanded DEF IInv, WalkType, Progress, InRun
<1>4. RunSoFar' /\ NaNsHidden'
  BY <1>1, NothingHanded DEF IInv, WalkType, RunSoFar, NaNsHidden, InRun
<1>5. QED  BY <1>1, <1>2, <1>3, <1>4, NothingHanded DEF IInv

LEMMA EndPrefixInv == ASSUME IInv, EndPrefix PROVE IInv'
<1>1. /\ UNCHANGED << xs, i, j, k, step, id, first_nan, scanned >> /\ pc' = "top"
      /\ pc = "prefix" /\ calls = <<>>
  BY DEF EndPrefix, IInv, Progress
<1>2. n' = n /\ n \in Nat /\ \A p : x(p)' = x(p)
  BY <1>1, Batch DEF n, x, IInv, WalkType
<1>3. calls' \in Seq(Record)' /\ Chained' /\ RunsPure' /\ Covered' = i
  <2>1. CASE i > 0
    <3>1. calls' = Append(calls, Call(ood_id, 0, i))
      BY <2>1 DEF EndPrefix
    <3>2. ood_id \in 0 .. NLeaves /\ 0 \in 0 .. n /\ i \in 1 .. n /\ 0 = Covered /\ 0 + i <= n
      BY <1>1, <1>2, <2>1, WalkConstants DEF ood_id, IInv, WalkType, Covered
    <3>3. ASSUME NEW p \in 0 .. 0 + i - 1 PROVE LeafId(x(p)) = ood_id
      <4>1. p \in 0 .. i - 1 /\ p \in Positions
        BY <1>2, <3>2 DEF Positions, IInv, WalkType
      <4>2. x(p) \notin Lo .. Hi /\ x(p) \in Coord
        <5>1. lt(x(p), Lo)
          BY <1>1, <4>1 DEF IInv, Progress
        <5>2. QED  BY <4>1, <5>1, Batch, WalkConstants DEF lt, IInv, WalkType, Coord
      <4>3. QED  BY <4>2, LeafIdIsLeaf
    <3>4. QED  BY <1>1, <1>2, <3>1, <3>2, <3>3, RunHanded
  <2>2. CASE ~(i > 0)
    <3>1. calls' = calls /\ i = 0
      BY <1>2, <2>2 DEF EndPrefix, IInv, WalkType
    <3>2. Covered = 0
      BY <1>1 DEF Covered
    <3>3. QED  BY <1>1, <3>1, <3>2, NothingHanded
  <2>3. QED  BY <2>1, <2>2
<1>4. WalkType' /\ RunSoFar' /\ NaNsHidden' /\ Progress'
  BY <1>1, <1>2, <1>3 DEF IInv, WalkType, RunSoFar, NaNsHidden, Progress, InRun
<1>5. QED  BY <1>3, <1>4 DEF IInv

LEMMA SuffixInv == ASSUME IInv, Suffix PROVE IInv'
<1>1. /\ UNCHANGED << xs, i, j, k, step, id, first_nan, scanned >> /\ pc' = "done" /\ pc = "top"
      /\ calls' = Append(calls, Call(ood_id, i, n - i)) /\ i < n /\ lt(Hi, x(i))
  BY DEF Suffix, SuffixRun
<1>2. n' = n /\ n \in Nat /\ \A p : x(p)' = x(p)
  BY <1>1, Batch DEF n, x, IInv, WalkType
<1>3. ood_id \in 0 .. NLeaves /\ i \in 0 .. n /\ n - i \in 1 .. n /\ i = Covered /\ i + (n - i) = n
  BY <1>1, <1>2, WalkConstants DEF ood_id, IInv, WalkType, Progress
<1>4. ASSUME NEW p \in i .. i + (n - i) - 1 PROVE LeafId(x(p)) = ood_id
  <2>1. p \in Positions /\ i \in Positions /\ i <= p
    BY <1>1, <1>2, <1>3 DEF Positions
  <2>2. x(p) \in Coord /\ x(i) \in Int /\ Hi < x(i)
    BY <1>1, <2>1, Batch DEF lt, Coord, IInv, WalkType
  <2>3. x(p) \notin Lo .. Hi
    BY <2>1, <2>2, Batch, WalkConstants DEF IInv, WalkType
  <2>4. QED  BY <2>2, <2>3, LeafIdIsLeaf
<1>5. calls' \in Seq(Record)' /\ Chained' /\ RunsPure' /\ Covered' = n
  BY <1>1, <1>2, <1>3, <1>4, RunHanded
<1>6. WalkType' /\ RunSoFar' /\ NaNsHidden' /\ Progress'
  BY <1>1, <1>2, <1>5 DEF IInv, WalkType, RunSoFar, NaNsHidden, Progress, InRun
<1>7. QED  BY <1>5, <1>6 DEF IInv

LEMMA OutOfDomainPointInv == ASSUME IInv, OutOfDomainPoint PROVE IInv'
<1>1. /\ UNCHANGED << xs, j, k, step, id, first_nan, scanned, pc >> /\ pc = "top" /\ i' = i + 1
      /\ calls' = Append(calls, Call(ood_id, i, 1)) /\ i < n /\ LeafId(x(i)) = ood_id
  BY DEF OutOfDomainPoint
<1>2. n' = n /\ n \in Nat /\ \A p : x(p)' = x(p)
  BY <1>1, Batch DEF n, x, IInv, WalkType
<1>3. ood_id \in 0 .. NLeaves /\ i \in 0 .. n /\ 1 \in 1 .. n /\ i = Covered /\ i + 1 <= n
  BY <1>1, <1>2, WalkConstants DEF ood_id, IInv, WalkType, Progress
<1>4. ASSUME NEW p \in i .. i + 1 - 1 PROVE LeafId(x(p)) = ood_id
  <2>1. p = i
    BY <1>3
  <2>2. QED  BY <2>1, <1>1
<1>5. calls' \in Seq(Record)' /\ Chained' /\ RunsPure' /\ Covered' = i + 1
  BY <1>1, <1>2, <1>3, <1>4, RunHanded
<1>6. WalkType' /\ RunSoFar' /\ NaNsHidden' /\ Progress'
  BY <1>1, <1>2, <1>3, <1>5 DEF IInv, WalkType, RunSoFar, NaNsHidden, Progress, InRun
<1>7. QED  BY <1>5, <1>6 DEF IInv

LEMMA StartRunInv == ASSUME IInv, StartRun PROVE IInv'
<1>1. /\ UNCHANGED << xs, i, k, step, first_nan, scanned, calls >> /\ pc = "top" /\ pc' = "ahead"
      /\ i < n /\ j' = i + 1 /\ id' = LeafId(x(i)) /\ id' # ood_id
  BY DEF StartRun
<1>2. i \in Positions /\ x(i) \in Coord /\ id' \in 0 .. NLeaves
  BY <1>1, Batch, LeafIdIsLeaf, NothingHanded DEF IInv, WalkType, Positions
<1>3. WalkType' /\ Progress' /\ NaNsHidden'
  BY <1>1, <1>2, NothingHanded DEF IInv, WalkType, Progress, NaNsHidden, InRun
<1>4. RunSoFar'
  <2>1. \A p \in i .. i + 1 - 1 : p = i
    BY DEF IInv, WalkType
  <2>2. i < i + 1
    BY DEF IInv, WalkType
  <2>3. \A p \in i .. i + 1 - 1 : LeafId(x(p)) = LeafId(x(i))
    BY <2>1
  <2>4. \A p \in i' .. j' - 1 : LeafId(x(p))' = id'
    <3>1. \A p : LeafId(x(p))' = LeafId(x(p))
      BY <1>1, NothingHanded
    <3>2. i' = i /\ j' - 1 = i + 1 - 1 /\ i \in Nat
      BY <1>1 DEF IInv, WalkType
    <3>3. QED  BY <1>1, <2>3, <3>1, <3>2, Zenon
  <2>5. QED  BY <1>1, <2>2, <2>4 DEF RunSoFar, ood_id
<1>5. QED  BY <1>1, <1>3, <1>4, NothingHanded DEF IInv

\* A turn of the loop that looks at one more point of the run.
LEMMA OneMore ==
  ASSUME IInv, pc \in {"ahead", "linear"}, j < n, Same(j), j' = j + 1,
         UNCHANGED << xs, i, k, step, id, first_nan, scanned, calls, pc >>
  PROVE  IInv'
<1>1. WalkType' /\ Progress' /\ NaNsHidden'
  BY NothingHanded DEF IInv, WalkType, Progress, NaNsHidden, InRun
<1>2. RunSoFar'
  <2>1. i \in Nat /\ j \in Nat /\ i < j /\ id # ood_id /\ \A p \in i .. j - 1 : LeafId(x(p)) = id
    BY DEF IInv, WalkType, RunSoFar, InRun
  <2>2. \A p \in i .. j + 1 - 1 : p \in i .. j - 1 \/ p = j
    BY <2>1
  <2>3. QED  BY <2>1, <2>2, NothingHanded DEF RunSoFar, InRun, ood_id, Same
<1>3. QED  BY <1>1, <1>2, NothingHanded DEF IInv

\* The end of a run, whichever loop found it.
LEMMA EndRunInv == ASSUME IInv, pc \in InRun, EndRun PROVE IInv'
<1>1. /\ UNCHANGED << xs, j, k, step, id, first_nan, scanned >> /\ pc' = "top" /\ i' = j
      /\ calls' = Append(calls, Call(id, i, j - i))
  BY DEF EndRun
<1>2. n' = n /\ n \in Nat /\ \A p : x(p)' = x(p)
  BY <1>1, Batch DEF n, x, IInv, WalkType
<1>3. /\ id \in 0 .. NLeaves /\ i \in 0 .. n /\ j - i \in 1 .. n /\ i = Covered /\ i + (j - i) = j
      /\ j \in 0 .. n /\ i < j
      /\ \A p \in i .. i + (j - i) - 1 : LeafId(x(p)) = id
  BY <1>2 DEF IInv, WalkType, Progress, RunSoFar
<1>4. calls' \in Seq(Record)' /\ Chained' /\ RunsPure' /\ Covered' = j
  BY <1>1, <1>2, <1>3, RunHanded
<1>5. WalkType' /\ RunSoFar' /\ NaNsHidden' /\ Progress'
  BY <1>1, <1>2, <1>3, <1>4 DEF IInv, WalkType, RunSoFar, NaNsHidden, Progress, InRun
<1>6. QED  BY <1>4, <1>5 DEF IInv

\* A scan that answers n has met a point above the domain before any NaN.
LEMMA ScanFindsNaN ==
  ASSUME IInv
  PROVE  /\ ScanNaN \in 0 .. n
         /\ ScanNaN = n => \A p \in i .. n - 1 : x(p) = NaN => \E r \in 0 .. p - 1 : lt(Hi, x(r))
<1> DEFINE stop == {p \in i .. n - 1 : x(p) = NaN \/ lt(Hi, x(p))}
           first == CHOOSE p \in stop : \A r \in stop : p <= r
<1>1. n \in Nat /\ i \in Nat
  BY Batch DEF IInv, WalkType
<1>2. CASE stop = {}
  <2>1. ScanNaN = n
    BY <1>2 DEF ScanNaN
  <2>2. QED  BY <1>1, <1>2, <2>1
<1>3. CASE stop # {}
  <2>1. \E p \in stop : \A r \in stop : p <= r
    <3>1. stop \subseteq Nat
      BY <1>1
    <3> HIDE DEF stop
    <3>2. QED  BY <1>3, <3>1, NatMin
  <2>2. first \in stop /\ \A r \in stop : first <= r
    BY <2>1
  <2>3. ScanNaN = IF x(first) = NaN THEN first ELSE n
    BY <1>3 DEF ScanNaN
  <2> HIDE DEF first
  <2>4. ASSUME ScanNaN = n, NEW p \in i .. n - 1, x(p) = NaN PROVE \E r \in 0 .. p - 1 : lt(Hi, x(r))
    <3>1. first # n /\ x(first) # NaN /\ first <= p
      BY <1>1, <2>2, <2>3, <2>4
    <3>2. lt(Hi, x(first)) /\ first # p /\ first \in 0 .. n - 1
      BY <1>1, <2>2, <2>4, <3>1
    <3>3. QED  BY <1>1, <3>1, <3>2
  <2>5. QED  BY <1>1, <2>2, <2>3, <2>4
<1>4. QED  BY <1>2, <1>3

LEMMA LongRunInv == ASSUME IInv, LongRun PROVE IInv'
<1>1. /\ UNCHANGED << xs, i, j, id, calls >> /\ pc = "ahead" /\ k' = j /\ step' = small_run_cutoff
      /\ first_nan' = IF scanned THEN first_nan ELSE ScanNaN
      /\ scanned' = TRUE
      /\ pc' = IF first_nan' = n THEN "gallop" ELSE "linear"
  BY DEF LongRun
<1>2. /\ first_nan' \in 0 .. n
      /\ first_nan' = n => \A p \in i .. n - 1 : x(p) = NaN => \E r \in 0 .. p - 1 : lt(Hi, x(r))
  BY <1>1, ScanFindsNaN DEF IInv, WalkType, NaNsHidden
<1>3. WalkType' /\ Progress'
  BY <1>1, <1>2, NothingHanded, WalkConstants DEF IInv, WalkType, Progress, InRun
<1>4. NaNsHidden'
  BY <1>1, <1>2, NothingHanded DEF NaNsHidden
<1>5. RunSoFar'
  BY <1>1, NothingHanded, WalkConstants DEF IInv, WalkType, RunSoFar, InRun, ood_id
<1>6. QED  BY <1>1, <1>3, <1>4, <1>5, NothingHanded DEF IInv

LEMMA GallopInv == ASSUME IInv, Gallop PROVE IInv'
<1>1. /\ UNCHANGED << xs, i, id, first_nan, scanned, calls, pc >> /\ pc = "gallop"
      /\ k < n /\ Same(k) /\ j' = k + 1 /\ k' = k + step /\ step' = 2 * step
  BY DEF Gallop
<1>2. /\ n \in Nat /\ i \in Nat /\ j \in Nat /\ k \in Nat /\ step \in Nat
      /\ step > 0 /\ i < j /\ j <= k /\ id # ood_id
  BY <1>1, Batch DEF IInv, WalkType, RunSoFar, InRun
<1>3. \A p \in i .. k + 1 - 1 : LeafId(x(p)) = id
  BY <1>1, <1>2, NoJumpOverNaN DEF Positions
<1>4. WalkType' /\ Progress' /\ NaNsHidden'
  BY <1>1, <1>2, NothingHanded DEF IInv, WalkType, Progress, NaNsHidden, InRun
<1>5. RunSoFar'
  BY <1>1, <1>2, <1>3, NothingHanded DEF RunSoFar, InRun, ood_id
<1>6. QED  BY <1>1, <1>4, <1>5, NothingHanded DEF IInv

LEMMA EndGallopInv == ASSUME IInv, EndGallop PROVE IInv'
<1>1. /\ UNCHANGED << xs, i, j, step, id, first_nan, scanned, calls >>
      /\ pc = "gallop" /\ pc' = "bisect" /\ k' = AtMostN(k)
  BY DEF EndGallop
<1>2. /\ n \in Nat /\ i \in Nat /\ j \in Nat /\ k \in Nat /\ j <= n /\ j <= k
      /\ i < j /\ id # ood_id /\ \A p \in i .. j - 1 : LeafId(x(p)) = id
  BY <1>1, Batch DEF IInv, WalkType, RunSoFar, InRun
<1>3. k' \in Nat /\ j <= k' /\ k' <= n
  BY <1>1, <1>2 DEF AtMostN
<1>4. WalkType' /\ Progress' /\ NaNsHidden'
  BY <1>1, <1>3, NothingHanded DEF IInv, WalkType, Progress, NaNsHidden, InRun
<1>5. RunSoFar'
  BY <1>1, <1>2, <1>3, NothingHanded DEF RunSoFar, InRun, ood_id
<1>6. QED  BY <1>1, <1>4, <1>5, NothingHanded DEF IInv

LEMMA BisectInv == ASSUME IInv, Bisect PROVE IInv'
<1>1. /\ UNCHANGED << xs, i, step, id, first_nan, scanned, calls, pc >> /\ pc = "bisect" /\ j < k
      /\ IF Same(Mid) THEN j' = Mid + 1 /\ k' = k ELSE k' = Mid /\ j' = j
  BY DEF Bisect, PastMid
<1>2. /\ n \in Nat /\ i \in Nat /\ j \in Nat /\ k \in Nat /\ k <= n
      /\ i < j /\ id # ood_id /\ \A p \in i .. j - 1 : LeafId(x(p)) = id
  BY <1>1, Batch DEF IInv, WalkType, RunSoFar, InRun
<1>3. Mid \in Nat /\ j <= Mid /\ Mid < k
  BY <1>1, <1>2 DEF Mid
<1>4. Same(Mid) => \A p \in i .. Mid + 1 - 1 : LeafId(x(p)) = id
  BY <1>1, <1>2, <1>3, NoJumpOverNaN DEF Positions
<1>5. j' \in 0 .. n /\ k' \in Nat /\ j' <= k' /\ k' <= n /\ i < j'
  BY <1>1, <1>2, <1>3
<1>6. WalkType' /\ Progress' /\ NaNsHidden'
  BY <1>1, <1>5, NothingHanded DEF IInv, WalkType, Progress, NaNsHidden, InRun
<1>7. \A p \in i .. j' - 1 : LeafId(x(p)) = id
  <2>1. CASE Same(Mid)
    <3>1. j' = Mid + 1
      BY <1>1, <2>1
    <3>2. i .. j' - 1 = i .. Mid + 1 - 1
      BY <3>1, <1>2, <1>3
    <3>3. QED  BY <1>4, <2>1, <3>2
  <2>2. CASE ~Same(Mid)
    BY <1>1, <1>2, <2>2
  <2>3. QED  BY <2>1, <2>2
<1>8. RunSoFar'
  BY <1>1, <1>2, <1>5, <1>7, NothingHanded DEF RunSoFar, InRun, ood_id
<1>9. QED  BY <1>1, <1>6, <1>8, NothingHanded DEF IInv

LEMMA FinishInv == ASSUME IInv, Finish PROVE IInv'
<1>1. /\ UNCHANGED << xs, i, j, k, step, id, first_nan, scanned, calls >>
      /\ pc = "top" /\ ~(i < n) /\ pc' = "done"
  BY DEF Finish
<1>2. n \in Nat /\ i = n /\ Covered = i
  BY <1>1, Batch DEF IInv, WalkType, Progress
<1>3. WalkType' /\ Progress' /\ NaNsHidden' /\ RunSoFar'
  BY <1>1, <1>2, NothingHanded DEF IInv, WalkType, Progress, NaNsHidden, RunSoFar, InRun
<1>4. QED  BY <1>1, <1>3, NothingHanded DEF IInv

LEMMA NextInv == IInv /\ [Next]_vars => IInv'
<1> SUFFICES ASSUME IInv, [Next]_vars PROVE IInv'
  OBVIOUS
<1>1. CASE SkipPrefix        BY <1>1, SkipPrefixInv
<1>2. CASE EndPrefix         BY <1>2, EndPrefixInv
<1>3. CASE Suffix            BY <1>3, SuffixInv
<1>4. CASE OutOfDomainPoint  BY <1>4, OutOfDomainPointInv
<1>5. CASE StartRun          BY <1>5, StartRunInv
<1>6. CASE LookAhead         BY <1>6, OneMore DEF LookAhead
<1>7. CASE ShortRun          BY <1>7, EndRunInv DEF ShortRun, InRun
<1>8. CASE LongRun           BY <1>8, LongRunInv
<1>9. CASE Gallop            BY <1>9, GallopInv
<1>10. CASE EndGallop        BY <1>10, EndGallopInv
<1>11. CASE Bisect           BY <1>11, BisectInv
<1>12. CASE EndBisect        BY <1>12, EndRunInv DEF EndBisect, InRun
<1>13. CASE Linear           BY <1>13, OneMore DEF Linear
<1>14. CASE EndLinear        BY <1>14, EndRunInv DEF EndLinear, InRun
<1>15. CASE Finish           BY <1>15, FinishInv
<1>16. CASE UNCHANGED vars
  <2>1. UNCHANGED << xs, calls >>
    BY <1>16 DEF vars
  <2>2. WalkType' /\ Progress' /\ NaNsHidden' /\ RunSoFar'
    BY <1>16, <2>1, NothingHanded
       DEF vars, IInv, WalkType, Progress, NaNsHidden, RunSoFar, InRun, ood_id
  <2>3. QED  BY <2>1, <2>2, NothingHanded DEF IInv
<1>17. QED
  BY <1>1, <1>2, <1>3, <1>4, <1>5, <1>6, <1>7, <1>8, <1>9, <1>10, <1>11, <1>12, <1>13,
     <1>14, <1>15, <1>16 DEF Next

LEMMA AlwaysIInv == Spec => []IInv
BY InitInv, NextInv, PTL DEF Spec

-----------------------------------------------------------------------------
(* The theorems                                                            *)

\* No lookup and no run reaches past the batch, though the gallop's k may,
\* whatever its length and the cutoff.
THEOREM CursorsInBatch == Spec => []TypeOK
<1>1. IInv => TypeOK
  <2> SUFFICES ASSUME IInv PROVE TypeOK
    OBVIOUS
  <2>1. \A c \in 1 .. Len(calls) : calls[c] \in Record
    BY ElementOfSeq DEF IInv, WalkType
  <2>2. QED  BY <2>1 DEF IInv, WalkType, RunSoFar, InRun, TypeOK, Record
<1>2. QED  BY <1>1, AlwaysIInv, PTL

\* The callback sees every point once, in order, and when the walk is done
\* all of them, over gallops, bisections and NaNs (function.hpp 88-177).
THEOREM EveryPointOnce == Spec => []RunsPartition
<1>1. IInv => RunsPartition
  <2> SUFFICES ASSUME IInv PROVE RunsPartition
    OBVIOUS
  <2>1. ASSUME pc = "done", n > 0 PROVE calls # <<>> /\ End(calls[Len(calls)]) = n
    <3>1. Covered = n /\ n \in Nat
      BY <2>1, Batch DEF IInv, WalkType, Progress
    <3>2. QED  BY <2>1, <3>1 DEF Covered
  <2>2. QED  BY <2>1 DEF RunsPartition, IInv, Progress, Chained
<1>2. QED  BY <1>1, AlwaysIInv, PTL

\* Every point of a run has the leaf of the run: no gallop swallows a point of
\* another leaf or a NaN, on any ascending batch.
THEOREM RunsAlwaysPure == Spec => []RunsPure
<1>1. IInv => RunsPure
  BY DEF IInv
<1>2. QED  BY <1>1, AlwaysIInv, PTL
=============================================================================
