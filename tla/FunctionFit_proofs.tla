-------------------------- MODULE FunctionFit_proofs --------------------------
(***************************************************************************)
(* What PolyTree guarantees of one subtree, and FunctionFit of a whole     *)
(* fit, for every dimension, every number of bins and every measurement.   *)
(* The first half is about PolyTree alone.  The second is how the subtrees *)
(* share one pool and one scale, what is reported at the end, and the      *)
(* refinement of Tiling by all bins together.                              *)
(***************************************************************************)
EXTENDS FunctionFit, SequenceTheorems, CountingLemmas, TLAPS

-----------------------------------------------------------------------------
(* Operators.                                                              *)

LEMMA NChildType == NChild \in Nat \ {0}
BY ConstantsOK DEF NChild

(* Popping back to the length before one append undoes the append.         *)
LEMMA PopUndoesAppend ==
  ASSUME NEW S, NEW s \in Seq(S), NEW e \in S
  PROVE  PopTo(Append(s, e), Len(s)) = s
<1>1. /\ Append(s, e) \in Seq(S)
      /\ Len(Append(s, e)) = Len(s) + 1
      /\ \A i \in 1 .. Len(s) : Append(s, e)[i] = s[i]
  BY AppendProperties
<1>2. DEFINE t == SubSeq(Append(s, e), 1, Len(s))
<1>3. /\ t \in Seq(S) /\ Len(t) = Len(s)
      /\ \A i \in 1 .. Len(s) : t[i] = s[i]
  BY <1>1, SubSeqProperties, LenProperties
<1>4. QED
  BY <1>3, SeqEqual DEF PopTo

LEMMA PopToOwnLength ==
  ASSUME NEW S, NEW s \in Seq(S)
  PROVE  PopTo(s, Len(s)) = s
BY SubSeqProperties, LenProperties, SeqEqual DEF PopTo

(* A rejected panel leaves the pool as it found it, whether its own fit    *)
(* failed or uniform refinement undid it.                                  *)
LEMMA RejectKeepsPool ==
  ASSUME polyfits \in Seq(Box), Head(q) \in Box, NEW s \in Samples
  PROVE  PoolAfterReject(s) = polyfits
<1>1. PopTo(Append(polyfits, Head(q)), Len(polyfits)) = polyfits
  BY PopUndoesAppend
<1>2. PopTo(polyfits, Len(polyfits)) = polyfits
  BY PopToOwnLength
<1>3. CASE ExceedsTol(s)
  BY <1>1, <1>2, <1>3 DEF PoolAfterReject, FitPool
<1>4. CASE ~ExceedsTol(s)
  BY <1>1, <1>4 DEF PoolAfterReject, FitPool
<1>5. QED
  BY <1>3, <1>4

LEMMA CastRange ==
  ASSUME NEW n \in Nat
  PROVE  /\ Cast32(n) \in 0 .. kLeafSentinel
         /\ n <= kLeafSentinel => Cast32(n) = n
BY ConstantsOK DEF Cast32

LEMMA ChildrenType ==
  ASSUME NEW b \in Box
  PROVE  /\ Children(b) \in Seq(Box)
         /\ Len(Children(b)) = NChild
         /\ \A c \in 0 .. NChild - 1 : Children(b)[c + 1] = Child(b, c)
<1>1. \A c \in 0 .. NChild - 1 : Child(b, c) \in Box
  BY AppendProperties DEF Child, Box
<1>2. QED
  BY <1>1, NChildType DEF Children

LEMMA ScaleType ==
  ASSUME max_abs_f \in Nat, NEW s \in Samples
  PROVE  /\ PanelMax(s) \in Nat
         /\ CommittedScale(s) \in Nat
         /\ CommittedScale(s) >= max_abs_f
BY ConstantsOK DEF PanelMax, PanelScale, CommittedScale, Larger, Sample, Grid

-----------------------------------------------------------------------------
(* The inductive invariant.                                                *)

(* Where the search stands: the flags of a level are those of its depth,   *)
(* the panels still to visit are at that depth and the queued ones below,  *)
(* and nothing is queued below the last level.                             *)
Level ==
  /\ pc = "head" => \A k \in 1 .. Len(q) : Depth(q[k]) = max_depth_
  /\ pc = "level" =>
       /\ left <= Len(q)
       /\ at_max_depth = AtMaxDepth
       /\ force_subdivide = ForceSubdivide
       /\ at_max_depth => Len(q) = left
       /\ \A k \in 1 .. Len(q) :
            Depth(q[k]) = IF k <= left THEN max_depth_ ELSE max_depth_ + 1
  /\ input.max_depth >= 0 => max_depth_ <= input.max_depth

(* Every index handed out belongs to a visited or a queued panel, and the  *)
(* pool never shrinks below what the subtree found.                        *)
Counted == curr_child_idx = Planned /\ start.pool <= Len(polyfits)

IInv ==
  /\ TypeOK /\ Level /\ Counted
  /\ ChildLinks /\ LeafPool /\ LeafDepth /\ ScaleIsLoudest /\ Accurate

-----------------------------------------------------------------------------
(* What the actions do, in the terms of the invariant.                     *)

(* Taking the head of the queue inside a level.                            *)
LEMMA VisitFacts ==
  ASSUME TypeOK, Level, NEW s \in Samples, Visit(s)
  PROVE  /\ Len(q) \in Nat \ {0}
         /\ Head(q) \in Box /\ Head(q) = q[1] /\ Depth(Head(q)) = max_depth_
         /\ Tail(q) \in Seq(Box) /\ Len(Tail(q)) = Len(q) - 1
         /\ \A k \in 1 .. Len(q) - 1 : Tail(q)[k] = q[k + 1]
         /\ PoolAfterReject(s) = polyfits
         /\ s \in Sample
<1>1. Len(q) \in Nat \ {0} /\ q \in Seq(Box) /\ q # <<>>
  BY EmptySeq DEF TypeOK, Level, Visit
<1>2. /\ Head(q) \in Box /\ Head(q) = q[1]
      /\ Tail(q) \in Seq(Box) /\ Len(Tail(q)) = Len(q) - 1
      /\ \A k \in 1 .. Len(q) - 1 : Tail(q)[k] = q[k + 1]
  BY <1>1, HeadTailProperties, ElementOfSeq
<1>3. Depth(Head(q)) = max_depth_
  <2>1. 1 \in 1 .. Len(q) /\ 1 <= left
    BY <1>1 DEF TypeOK, Visit
  <2>2. Depth(q[1]) = IF 1 <= left THEN max_depth_ ELSE max_depth_ + 1
    BY <2>1 DEF Level, Visit
  <2>3. QED
    BY <1>2, <2>1, <2>2
<1>4. PoolAfterReject(s) = polyfits
  BY <1>2, RejectKeepsPool DEF TypeOK
<1>5. s \in Sample
  BY ConstantsOK
<1>6. QED
  BY <1>1, <1>2, <1>3, <1>4, <1>5

(* An accepted and a forced leaf change the tree alike: the next pool      *)
(* entry is the panel's, and the node refers to it.                        *)
AddsLeaf(s) ==
  /\ Visit(s)
  /\ polyfits' = Append(polyfits, Head(q))
  /\ nodes' = Append(nodes, Leaf(Len(polyfits), s))
  /\ q' = Tail(q)
  /\ UNCHANGED curr_child_idx

LEMMA LeafActions ==
  ASSUME TypeOK, Level, NEW s \in Samples, AcceptLeaf(s) \/ ForceLeaf(s)
  PROVE  AddsLeaf(s)
<1>1. CASE AcceptLeaf(s)
  <2>1. FitPool(Head(q), s) = Append(polyfits, Head(q))
    BY <1>1 DEF AcceptLeaf, Rejected, FitPool
  <2>2. QED
    BY <1>1, <2>1 DEF AcceptLeaf, AddsLeaf
<1>2. CASE ForceLeaf(s)
  <2>1. PoolAfterReject(s) = polyfits /\ Head(q) \in Box
    BY <1>2, VisitFacts DEF ForceLeaf
  <2>2. polyfits' = Append(polyfits, Head(q)) /\ polyfits \in Seq(Box)
    BY <1>2, <2>1 DEF ForceLeaf, TypeOK
  <2>3. Len(polyfits') - 1 = Len(polyfits)
    BY <2>1, <2>2, AppendProperties, LenProperties
  <2>4. nodes' = Append(nodes, Leaf(Len(polyfits), s))
    BY <1>2, <2>3 DEF ForceLeaf
  <2>5. QED
    BY <1>2, <2>2, <2>4 DEF ForceLeaf, AddsLeaf
<1>3. QED
  BY <1>1, <1>2

(* The shape of the state after a leaf.                                    *)
LEMMA LeafFacts ==
  ASSUME TypeOK, Level, NEW s \in Samples, AddsLeaf(s)
  PROVE  /\ polyfits' \in Seq(Box)
         /\ Len(polyfits') = Len(polyfits) + 1
         /\ \A i \in 1 .. Len(polyfits) : polyfits'[i] = polyfits[i]
         /\ polyfits'[Len(polyfits) + 1] = Head(q)
         /\ Len(nodes) \in Nat
         /\ Len(nodes') = Len(nodes) + 1
         /\ \A i \in 1 .. Len(nodes) : nodes'[i] = nodes[i]
         /\ nodes'[Len(nodes) + 1] = Leaf(Len(polyfits), s)
<1>1. Head(q) \in Box
  BY VisitFacts DEF AddsLeaf
<1>2. polyfits \in Seq(Box) /\ Len(polyfits) \in Nat /\ Len(nodes) \in Nat
  BY LenProperties DEF TypeOK
<1>3. QED
  BY <1>1, <1>2, AppendProperties DEF AddsLeaf, TypeOK

NodeRecord == [first_child : 0 .. kLeafSentinel, poly_eval_id : 0 .. kLeafSentinel,
               box : Box, seen : Sample]

LEMMA LeafIsNode ==
  ASSUME TypeOK, Level, NEW s \in Samples, Visit(s), NEW n \in Nat
  PROVE  Leaf(n, s) \in NodeRecord
BY VisitFacts, CastRange, ConstantsOK DEF Leaf, Node, NodeRecord

Interior(s) == Node(Cast32(curr_child_idx), kLeafSentinel, Head(q), s)

LEMMA SubdivideFacts ==
  ASSUME TypeOK, Level, NEW s \in Samples, Subdivide(s)
  PROVE  /\ polyfits' = polyfits
         /\ Interior(s) \in NodeRecord
         /\ Len(nodes) \in Nat
         /\ Len(nodes') = Len(nodes) + 1
         /\ \A i \in 1 .. Len(nodes) : nodes'[i] = nodes[i]
         /\ nodes'[Len(nodes) + 1] = Interior(s)
         /\ nodes' \in Seq(NodeRecord)
         /\ q' \in Seq(Box)
         /\ Len(q') = Len(q) - 1 + NChild
         /\ \A k \in 1 .. Len(q) - 1 : q'[k] = q[k + 1]
         /\ \A c \in 0 .. NChild - 1 : q'[Len(q) + c] = Child(Head(q), c)
         /\ curr_child_idx' = curr_child_idx + NChild
<1>1. Visit(s)
  BY DEF Subdivide
<1>2. polyfits' = polyfits
  BY <1>1, VisitFacts DEF Subdivide
<1>3. Interior(s) \in NodeRecord
  BY <1>1, VisitFacts, CastRange, ConstantsOK DEF Interior, Node, NodeRecord, TypeOK
<1>4. nodes \in Seq(NodeRecord) /\ Len(nodes) \in Nat
  BY LenProperties DEF TypeOK, NodeRecord
<1>5. nodes' = Append(nodes, Interior(s))
  BY DEF Subdivide, Interior
<1>6. /\ Len(nodes') = Len(nodes) + 1
      /\ \A i \in 1 .. Len(nodes) : nodes'[i] = nodes[i]
      /\ nodes'[Len(nodes) + 1] = Interior(s)
      /\ nodes' \in Seq(NodeRecord)
  BY <1>3, <1>4, <1>5, AppendProperties
<1>7. DEFINE t == Tail(q)
             u == Children(Head(q))
<1>8. /\ t \in Seq(Box) /\ Len(t) = Len(q) - 1 /\ Len(q) \in Nat \ {0}
      /\ \A k \in 1 .. Len(q) - 1 : t[k] = q[k + 1]
  BY <1>1, VisitFacts
<1>9. /\ u \in Seq(Box) /\ Len(u) = NChild
      /\ \A c \in 0 .. NChild - 1 : u[c + 1] = Child(Head(q), c)
  BY <1>1, VisitFacts, ChildrenType
<1>10. q' = t \o u
  BY DEF Subdivide
<1>11. /\ q' \in Seq(Box) /\ Len(q') = Len(t) + Len(u)
       /\ \A k \in 1 .. Len(t) + Len(u) :
            q'[k] = IF k <= Len(t) THEN t[k] ELSE u[k - Len(t)]
  <2>. HIDE DEF t, u
  <2>. QED  BY <1>8, <1>9, <1>10, ConcatProperties
<1>12. \A k \in 1 .. Len(q) - 1 : q'[k] = q[k + 1]
  <2>. HIDE DEF t, u
  <2>. QED  BY <1>8, <1>9, <1>11, NChildType
<1>13. \A c \in 0 .. NChild - 1 : q'[Len(q) + c] = Child(Head(q), c)
  <2>. HIDE DEF t, u
  <2>. SUFFICES ASSUME NEW c \in 0 .. NChild - 1
                PROVE  q'[Len(q) + c] = Child(Head(q), c)
    OBVIOUS
  <2>1. Len(q) + c \in 1 .. Len(t) + Len(u) /\ ~(Len(q) + c <= Len(t))
        /\ Len(q) + c - Len(t) = c + 1
    BY <1>8, <1>9, NChildType
  <2>. QED  BY <1>9, <1>11, <2>1
<1>14. Len(q') = Len(q) - 1 + NChild
  BY <1>8, <1>9, <1>11
<1>15. QED
  BY <1>2, <1>3, <1>4, <1>6, <1>11, <1>12, <1>13, <1>14 DEF Subdivide, AfterChildren

-----------------------------------------------------------------------------
(* The initial states, and those a fit starts its next subtree in.         *)

Fresh(b) ==
  /\ input \in Input /\ max_abs_f \in Nat /\ polyfits \in Seq(Box)
  /\ start = [pool |-> Len(polyfits), scale |-> max_abs_f]
  /\ q = << <<b>> >>
  /\ nodes = <<>> /\ panels = <<>>
  /\ curr_child_idx = 1 /\ max_depth_ = 0 /\ left = 0
  /\ at_max_depth = FALSE /\ force_subdivide = FALSE
  /\ pc = "head"
Started == \E b \in Nat : Fresh(b)

LEMMA InitStarted == Init => Started
<1>. SUFFICES ASSUME Init PROVE Started
  OBVIOUS
<1>1. PICK bin \in Bins : q = << <<bin>> >>
  BY DEF Init
<1>2. bin \in Nat /\ input \in Input /\ polyfits \in Seq(Box) /\ max_abs_f \in Nat
  BY ConstantsOK DEF Init, Box
<1>3. Fresh(bin)
  BY <1>1, <1>2 DEF Init, Fresh
<1>4. QED
  BY <1>2, <1>3 DEF Started

LEMMA StartedIInv == Started => IInv
<1>. SUFFICES ASSUME NEW b \in Nat, Fresh(b) PROVE IInv
  BY DEF Started
<1>1. Len(polyfits) \in Nat
  BY LenProperties DEF Fresh
<1>2. <<b>> \in Box /\ q \in Seq(Box) /\ Len(q) = 1 /\ Len(q[1]) = 1
  BY DEF Fresh, Box
<1>3. nodes = <<>> /\ Len(nodes) = 0 /\ nodes \in Seq(NodeRecord)
      /\ panels = <<>> /\ panels \in Seq([box : Box, depth : Nat])
  BY EmptySeq DEF Fresh
<1>4. TypeOK
  BY <1>1, <1>2, <1>3 DEF Fresh, TypeOK, NodeRecord
<1>5. Level
  BY <1>2 DEF Fresh, Level, Depth, Input
<1>6. Counted
  BY <1>1, <1>2, <1>3 DEF Fresh, Counted, Planned
<1>7. ChildLinks /\ LeafDepth /\ Accurate
  BY <1>3 DEF ChildLinks, LeafDepth, Accurate, LeafNodes
<1>8. LeafPool
  BY <1>1, <1>3 DEF Fresh, LeafPool, LeafNodes
<1>9. ScaleIsLoudest
  BY <1>3 DEF Fresh, ScaleIsLoudest, Heard
<1>10. QED
  BY <1>4, <1>5, <1>6, <1>7, <1>8, <1>9 DEF IInv

LEMMA InitIInv == Init => IInv
BY InitStarted, StartedIInv

-----------------------------------------------------------------------------
(* Every step keeps the types and the place of the search.                 *)

LEMMA StepType ==
  ASSUME TypeOK, Level, Next
  PROVE  TypeOK'
<1>1. CASE StartLevel
  BY <1>1, LenProperties DEF StartLevel, TypeOK, AtMaxDepth, ForceSubdivide
<1>2. ASSUME NEW s \in Samples, AcceptLeaf(s) \/ ForceLeaf(s)
      PROVE  TypeOK'
  <2>1. AddsLeaf(s)
    BY <1>2, LeafActions
  <2>2. nodes' \in Seq(NodeRecord)
    <3>1. Leaf(Len(polyfits), s) \in NodeRecord
      BY <2>1, LeafIsNode, LenProperties DEF AddsLeaf, TypeOK
    <3>2. nodes \in Seq(NodeRecord)
      BY DEF TypeOK, NodeRecord
    <3>3. QED
      BY <2>1, <3>1, <3>2, AppendProperties DEF AddsLeaf
  <2>3. panels' \in Seq([box : Box, depth : Nat])
    <3>1. CASE AcceptLeaf(s)
      BY <3>1 DEF AcceptLeaf, TypeOK
    <3>2. CASE ForceLeaf(s)
      <4>1. [box |-> Head(q), depth |-> max_depth_] \in [box : Box, depth : Nat]
        BY <2>1, VisitFacts DEF AddsLeaf, TypeOK
      <4>2. QED
        BY <3>2, <4>1, AppendProperties DEF ForceLeaf, TypeOK
    <3>3. QED
      BY <1>2, <3>1, <3>2
  <2>4. polyfits' \in Seq(Box) /\ q' \in Seq(Box)
    BY <2>1, LeafFacts, VisitFacts DEF AddsLeaf
  <2>5. max_abs_f' \in Nat /\ left' \in Nat
    BY <2>1, ScaleType DEF AddsLeaf, Visit, TypeOK
  <2>6. QED
    BY <2>1, <2>2, <2>3, <2>4, <2>5 DEF AddsLeaf, Visit, TypeOK, NodeRecord
<1>3. ASSUME NEW s \in Samples, Subdivide(s)
      PROVE  TypeOK'
  <2>1. max_abs_f' \in Nat /\ left' \in Nat
    BY <1>3, ScaleType DEF Subdivide, Visit, TypeOK
  <2>2. curr_child_idx' \in Nat
    BY <1>3, SubdivideFacts, NChildType DEF TypeOK
  <2>3. QED
    BY <1>3, <2>1, <2>2, SubdivideFacts DEF Subdivide, Visit, TypeOK, NodeRecord
<1>4. CASE RejectTolKind
  <2>1. Head(q) \in Box
    BY <1>4, EmptySeq, HeadTailProperties DEF RejectTolKind, TypeOK, Level
  <2>2. polyfits' \in Seq(Box)
    BY <1>4, <2>1, AppendProperties DEF RejectTolKind, TypeOK
  <2>3. QED
    BY <1>4, <2>2 DEF RejectTolKind, TypeOK
<1>5. CASE EndLevel
  BY <1>5 DEF EndLevel, TypeOK
<1>6. CASE BuildLeafTable
  BY <1>6 DEF BuildLeafTable, TypeOK
<1>7. QED
  BY <1>1, <1>2, <1>3, <1>4, <1>5, <1>6 DEF Next

LEMMA StepLevel ==
  ASSUME TypeOK, Level, Next
  PROVE  Level'
<1>1. CASE StartLevel
  BY <1>1, LenProperties DEF StartLevel, TypeOK, Level, AtMaxDepth, ForceSubdivide
<1>2. ASSUME NEW s \in Samples, AddsLeaf(s)
      PROVE  Level'
  <2>1. /\ Len(q') = Len(q) - 1 /\ left' = left - 1 /\ pc' = "level" /\ pc = "level"
        /\ UNCHANGED <<input, max_depth_, at_max_depth, force_subdivide>>
        /\ left <= Len(q) /\ left \in Nat /\ Len(q) \in Nat \ {0}
    BY <1>2, VisitFacts DEF AddsLeaf, Visit, Level, TypeOK
  <2>2. ASSUME NEW k \in 1 .. Len(q')
        PROVE  Depth(q'[k]) = IF k <= left' THEN max_depth_ ELSE max_depth_ + 1
    <3>1. q'[k] = q[k + 1] /\ k + 1 \in 1 .. Len(q) /\ k + 1 <= left <=> k <= left'
      BY <1>2, <2>1, VisitFacts DEF AddsLeaf
    <3>2. Depth(q[k + 1]) = IF k + 1 <= left THEN max_depth_ ELSE max_depth_ + 1
      BY <2>1, <3>1 DEF Level
    <3>3. QED
      BY <3>1, <3>2, <1>2, <2>1, VisitFacts DEF AddsLeaf
  <2>3. QED
    BY <2>1, <2>2 DEF Level, AtMaxDepth, ForceSubdivide, TypeOK
<1>3. ASSUME NEW s \in Samples, Subdivide(s)
      PROVE  Level'
  <2>1. /\ Len(q') = Len(q) - 1 + NChild /\ left' = left - 1
        /\ pc' = "level" /\ pc = "level"
        /\ UNCHANGED <<input, max_depth_, at_max_depth, force_subdivide>>
        /\ left <= Len(q) /\ left \in Nat \ {0} /\ Len(q) \in Nat \ {0}
        /\ ~at_max_depth /\ NChild \in Nat \ {0}
    <3>1. /\ left' = left - 1 /\ pc' = "level" /\ pc = "level"
          /\ UNCHANGED <<input, max_depth_, at_max_depth, force_subdivide>>
          /\ left \in Nat \ {0} /\ ~at_max_depth /\ Visit(s)
      BY <1>3 DEF Subdivide, Visit, TypeOK
    <3>2. left <= Len(q)
      BY <3>1 DEF Level
    <3>3. Len(q') = Len(q) - 1 + NChild /\ Len(q) \in Nat \ {0}
      BY <1>3, <3>1, VisitFacts, SubdivideFacts
    <3>4. QED
      BY <3>1, <3>2, <3>3, NChildType
  <2>2. ASSUME NEW k \in 1 .. Len(q')
        PROVE  Depth(q'[k]) = IF k <= left' THEN max_depth_ ELSE max_depth_ + 1
    <3>1. CASE k <= Len(q) - 1
      <4>1. q'[k] = q[k + 1] /\ k + 1 \in 1 .. Len(q)
        BY <1>3, <2>1, <3>1, SubdivideFacts
      <4>2. Depth(q[k + 1]) = IF k + 1 <= left THEN max_depth_ ELSE max_depth_ + 1
        BY <2>1, <4>1 DEF Level
      <4>3. k + 1 <= left <=> k <= left'
        BY <2>1
      <4>4. QED
        BY <4>1, <4>2, <4>3
    <3>2. CASE ~(k <= Len(q) - 1)
      <4>1. PICK c \in 0 .. NChild - 1 : k = Len(q) + c
        <5>1. k - Len(q) \in 0 .. NChild - 1 /\ k = Len(q) + (k - Len(q))
          BY <2>1, <3>2
        <5>2. QED
          BY <5>1
      <4>2. q'[k] = Child(Head(q), c)
        BY <1>3, <4>1, SubdivideFacts
      <4>3. Head(q) \in Box /\ Depth(Head(q)) = max_depth_
        BY <1>3, VisitFacts DEF Subdivide
      <4>4. Depth(q'[k]) = Depth(Head(q)) + 1
        BY <4>2, <4>3, AppendProperties, LenProperties DEF Child, Depth, Box
      <4>5. ~(k <= left')
        BY <2>1, <3>2
      <4>6. QED
        BY <4>3, <4>4, <4>5
    <3>3. QED
      BY <3>1, <3>2
  <2>3. QED
    BY <2>1, <2>2 DEF Level, AtMaxDepth, ForceSubdivide, TypeOK
<1>4. CASE RejectTolKind
  BY <1>4 DEF RejectTolKind, Level
<1>5. CASE EndLevel
  <2>1. CASE q = <<>>
    BY <1>5, <2>1, EmptySeq DEF EndLevel, OverBudget, Level
  <2>2. CASE q # <<>>
    <3>1. Len(q) \in Nat \ {0}
      BY <2>2, EmptySeq DEF TypeOK
    <3>2. max_depth_' = max_depth_ + 1 /\ q' = q /\ input' = input /\ pc' # "level"
      BY <1>5, <2>2 DEF EndLevel
    <3>3. \A k \in 1 .. Len(q) : Depth(q[k]) = max_depth_ + 1
      <4>. SUFFICES ASSUME NEW k \in 1 .. Len(q)
                    PROVE  Depth(q[k]) = max_depth_ + 1
        OBVIOUS
      <4>1. Depth(q[k]) = IF k <= left THEN max_depth_ ELSE max_depth_ + 1
        BY <1>5 DEF EndLevel, Level
      <4>2. QED
        BY <1>5, <3>1, <4>1 DEF EndLevel
    <3>4. max_depth_ # input.max_depth
      BY <1>5, <3>1 DEF EndLevel, Level, AtMaxDepth
    <3>5. input.max_depth >= 0 => max_depth_ + 1 <= input.max_depth
      BY <3>4 DEF Level, TypeOK, Input
    <3>6. QED
      BY <3>2, <3>3, <3>5 DEF Level
  <2>3. QED
    BY <2>1, <2>2
<1>6. CASE BuildLeafTable
  BY <1>6 DEF BuildLeafTable, Level
<1>7. QED
  BY <1>1, <1>2, <1>3, <1>4, <1>5, <1>6, LeafActions DEF Next

-----------------------------------------------------------------------------
(* The three kinds of steps the remaining parts tell apart.                *)

(* A step that touches neither tree, queue, pool nor scale.                *)
Idle ==
  /\ UNCHANGED << input, max_abs_f, polyfits, start, q, nodes, curr_child_idx,
                  panels >>
  /\ pc # "UnsupportedTolKind" /\ pc' # "UnsupportedTolKind"

LEMMA StepKinds ==
  ASSUME TypeOK, Level, Next
  PROVE  \/ Idle
         \/ RejectTolKind
         \/ \E s \in Samples : AddsLeaf(s) /\ (AcceptLeaf(s) \/ ForceLeaf(s))
         \/ \E s \in Samples : Subdivide(s)
<1>1. StartLevel => Idle
  BY DEF StartLevel, Idle
<1>2. EndLevel => Idle
  BY DEF EndLevel, Idle
<1>3. BuildLeafTable => Idle
  BY DEF BuildLeafTable, Idle
<1>4. QED
  BY <1>1, <1>2, <1>3, LeafActions DEF Next

LEMMA StepCounted ==
  ASSUME TypeOK, Level, Counted, Next
  PROVE  Counted'
<1>1. CASE Idle
  BY <1>1 DEF Idle, Counted, Planned
<1>2. CASE RejectTolKind
  <2>1. Head(q) \in Box
    BY <1>2, EmptySeq, HeadTailProperties DEF RejectTolKind, TypeOK, Level
  <2>2. Len(polyfits') = Len(polyfits) + 1 /\ Len(polyfits) \in Nat
    BY <1>2, <2>1, AppendProperties, LenProperties DEF RejectTolKind, TypeOK
  <2>3. QED
    BY <1>2, <2>2 DEF RejectTolKind, Counted, Planned, TypeOK
<1>3. ASSUME NEW s \in Samples, AddsLeaf(s)
      PROVE  Counted'
  <2>1. Len(q') = Len(q) - 1 /\ Len(q) \in Nat \ {0} /\ Len(polyfits) \in Nat
    BY <1>3, VisitFacts, LenProperties DEF AddsLeaf, TypeOK
  <2>2. /\ Len(nodes') = Len(nodes) + 1 /\ Len(polyfits') = Len(polyfits) + 1
        /\ Len(nodes) \in Nat
    BY <1>3, LeafFacts
  <2>3. UNCHANGED << curr_child_idx, start >>
    BY <1>3 DEF AddsLeaf, Visit
  <2>4. QED
    BY <2>1, <2>2, <2>3 DEF Counted, Planned, TypeOK
<1>4. ASSUME NEW s \in Samples, Subdivide(s)
      PROVE  Counted'
  <2>1. /\ Len(q') = Len(q) - 1 + NChild /\ Len(nodes') = Len(nodes) + 1
        /\ curr_child_idx' = curr_child_idx + NChild /\ polyfits' = polyfits
        /\ Len(nodes) \in Nat
    BY <1>4, SubdivideFacts
  <2>2. start' = start /\ Len(q) \in Nat
    BY <1>4, VisitFacts DEF Subdivide, Visit
  <2>3. QED
    BY <2>1, <2>2, NChildType DEF Counted, Planned
<1>5. QED
  BY <1>1, <1>2, <1>3, <1>4, StepKinds

(* Once the 32-bit links overflow they stay overflowed.                    *)
LEMMA FitsBefore ==
  ASSUME TypeOK, Level, Next, Fits32'
  PROVE  Fits32
<1>1. CASE Idle
  BY <1>1 DEF Idle, Fits32
<1>2. CASE RejectTolKind
  <2>1. Head(q) \in Box
    BY <1>2, EmptySeq, HeadTailProperties DEF RejectTolKind, TypeOK, Level
  <2>2. Len(polyfits') = Len(polyfits) + 1 /\ Len(polyfits) \in Nat
    BY <1>2, <2>1, AppendProperties, LenProperties DEF RejectTolKind, TypeOK
  <2>3. QED
    BY <1>2, <2>2, ConstantsOK DEF RejectTolKind, Fits32
<1>3. ASSUME NEW s \in Samples, AddsLeaf(s)
      PROVE  Fits32
  <2>1. Len(polyfits') = Len(polyfits) + 1 /\ Len(polyfits) \in Nat
    BY <1>3, LeafFacts, LenProperties DEF TypeOK
  <2>2. QED
    BY <1>3, <2>1, ConstantsOK DEF AddsLeaf, Fits32
<1>4. ASSUME NEW s \in Samples, Subdivide(s)
      PROVE  Fits32
  BY <1>4, SubdivideFacts, NChildType, ConstantsOK DEF Fits32, TypeOK
<1>5. QED
  BY <1>1, <1>2, <1>3, <1>4, StepKinds

(* The leaves after a step: one more, or the same ones.                    *)
LEMMA LeavesAfterLeaf ==
  ASSUME TypeOK, Level, NEW s \in Samples, AddsLeaf(s)
  PROVE  LeafNodes' = LeafNodes \cup {Len(nodes) + 1}
<1>1. nodes'[Len(nodes) + 1].first_child = kLeafSentinel
  <2>1. nodes'[Len(nodes) + 1] = Leaf(Len(polyfits), s)
    BY LeafFacts
  <2>2. Leaf(Len(polyfits), s).first_child = kLeafSentinel
    BY DEF Leaf, Node
  <2>3. QED
    BY <2>1, <2>2
<1>2. QED
  BY <1>1, LeafFacts DEF LeafNodes, IsLeaf

LEMMA LeavesAfterSubdivide ==
  ASSUME TypeOK, Level, Fits32', NEW s \in Samples, Subdivide(s)
  PROVE  /\ LeafNodes' = LeafNodes
         /\ nodes'[Len(nodes) + 1].first_child = curr_child_idx
<1>1. curr_child_idx < kLeafSentinel
  BY SubdivideFacts, NChildType, ConstantsOK DEF Fits32, TypeOK
<1>2. Cast32(curr_child_idx) = curr_child_idx
  BY <1>1, CastRange, ConstantsOK DEF TypeOK
<1>3. nodes'[Len(nodes) + 1].first_child = curr_child_idx
  <2>1. nodes'[Len(nodes) + 1] = Interior(s)
    BY SubdivideFacts
  <2>2. Interior(s).first_child = curr_child_idx
    BY <1>2 DEF Interior, Node
  <2>3. QED
    BY <2>1, <2>2
<1>4. LeafNodes' = LeafNodes
  <2>1. /\ Len(nodes) \in Nat /\ Len(nodes') = Len(nodes) + 1
        /\ \A i \in 1 .. Len(nodes) : nodes'[i] = nodes[i]
    BY SubdivideFacts
  <2>2. nodes'[Len(nodes) + 1].first_child # kLeafSentinel
    BY <1>1, <1>3, ConstantsOK DEF TypeOK
  <2>3. QED
    BY <2>1, <2>2 DEF LeafNodes, IsLeaf
<1>5. QED
  BY <1>3, <1>4

-----------------------------------------------------------------------------
(* The links of the nodes.                                                 *)

(* A panel keeps its index from the moment it is queued.                   *)
LEMMA PanelAtKept ==
  ASSUME TypeOK, Level, NEW s \in Samples, AddsLeaf(s) \/ Subdivide(s),
         NEW i \in 0 .. Planned - 1
  PROVE  PanelAt(i)' = PanelAt(i)
<1>1. /\ Len(nodes) \in Nat /\ Len(nodes') = Len(nodes) + 1
      /\ \A j \in 1 .. Len(nodes) : nodes'[j] = nodes[j]
      /\ nodes'[Len(nodes) + 1].box = Head(q)
  <2>1. CASE AddsLeaf(s)
    <3>1. Leaf(Len(polyfits), s).box = Head(q)
      BY DEF Leaf, Node
    <3>2. QED
      BY <2>1, <3>1, LeafFacts
  <2>2. CASE Subdivide(s)
    <3>1. Interior(s).box = Head(q)
      BY DEF Interior, Node
    <3>2. QED
      BY <2>2, <3>1, SubdivideFacts
  <2>3. QED
    BY <2>1, <2>2
<1>2. /\ Len(q) \in Nat \ {0} /\ Head(q) = q[1]
      /\ \A k \in 1 .. Len(q) - 1 : q'[k] = q[k + 1]
  BY VisitFacts, SubdivideFacts DEF AddsLeaf, Subdivide
<1>3. CASE i < Len(nodes)
  BY <1>1, <1>3 DEF PanelAt, Planned
<1>4. CASE i = Len(nodes)
  BY <1>1, <1>2, <1>4 DEF PanelAt
<1>5. CASE i > Len(nodes)
  <2>1. i - Len(nodes) \in 1 .. Len(q) - 1
    BY <1>1, <1>2, <1>5 DEF Planned
  <2>2. q'[i - Len(nodes)] = q[i - Len(nodes) + 1]
    BY <1>2, <2>1
  <2>3. PanelAt(i)' = q'[i - Len(nodes)]
    BY <1>1, <1>5 DEF PanelAt
  <2>4. PanelAt(i) = q[i - Len(nodes) + 1]
    BY <1>1, <1>5 DEF PanelAt
  <2>5. QED
    BY <2>2, <2>3, <2>4
<1>6. QED
  BY <1>1, <1>3, <1>4, <1>5

(* The link of node i, with its value f apart from the state.              *)
Linked(i, f, c) == f + c < Planned /\ PanelAt(f + c) = Child(nodes[i].box, c)

LEMMA StepChildLinks ==
  ASSUME TypeOK, Level, Counted, ChildLinks, Next
  PROVE  ChildLinks'
<1>. SUFFICES ASSUME Fits32',
                     NEW i \in 1 .. Len(nodes') \ LeafNodes',
                     NEW c \in 0 .. NChild - 1,
                     NEW f, f = nodes'[i].first_child
              PROVE  Linked(i, f, c)'
  BY DEF ChildLinks, Linked, PanelAt
<1>0. Fits32
  BY FitsBefore
<1>1. CASE Idle \/ RejectTolKind
  <2>1. UNCHANGED << nodes, q >>
    BY <1>1 DEF Idle, RejectTolKind
  <2>2. i \in 1 .. Len(nodes) \ LeafNodes
    BY <2>1 DEF LeafNodes, IsLeaf
  <2>3. QED
    BY <1>0, <2>1, <2>2 DEF ChildLinks, Planned, PanelAt, Linked
<1>2. ASSUME NEW s \in Samples, AddsLeaf(s) \/ Subdivide(s), i <= Len(nodes)
      PROVE  Linked(i, f, c)'
  <2>1. /\ Len(nodes) \in Nat /\ Len(nodes') = Len(nodes) + 1
        /\ nodes'[i] = nodes[i] /\ i \in 1 .. Len(nodes)
    BY <1>2, LeafFacts, SubdivideFacts
  <2>2. i \in 1 .. Len(nodes) \ LeafNodes
    BY <2>1 DEF LeafNodes, IsLeaf
  <2>3. f + c < Planned /\ PanelAt(f + c) = Child(nodes[i].box, c)
    BY <1>0, <2>1, <2>2 DEF ChildLinks
  <2>4. Planned <= Planned' /\ Planned \in Nat /\ Planned' \in Nat
    <3>1. Len(q) \in Nat \ {0}
      BY <1>2, VisitFacts DEF AddsLeaf, Subdivide
    <3>2. Len(q') >= Len(q) - 1 /\ Len(q') \in Nat
      BY <1>2, <3>1, VisitFacts, SubdivideFacts, NChildType DEF AddsLeaf
    <3>3. QED
      BY <2>1, <3>1, <3>2 DEF Planned
  <2>5. f \in Nat
    <3>1. nodes[i] \in NodeRecord
      BY <2>1, ElementOfSeq DEF TypeOK, NodeRecord
    <3>2. QED
      BY <2>1, <3>1, ConstantsOK DEF NodeRecord
  <2>6. f + c \in 0 .. Planned - 1
    BY <2>3, <2>4, <2>5
  <2>7. PanelAt(f + c)' = PanelAt(f + c)
    BY <1>2, <2>6, PanelAtKept
  <2>8. QED
    BY <2>1, <2>3, <2>4, <2>5, <2>7 DEF Linked
<1>3. ASSUME NEW s \in Samples, AddsLeaf(s), ~(i <= Len(nodes))
      PROVE  FALSE
  BY <1>3, LeafFacts, LeavesAfterLeaf
<1>4. ASSUME NEW s \in Samples, Subdivide(s), ~(i <= Len(nodes))
      PROVE  Linked(i, f, c)'
  <2>1. /\ Len(nodes) \in Nat /\ Len(nodes') = Len(nodes) + 1 /\ i = Len(nodes) + 1
        /\ Len(q') = Len(q) - 1 + NChild
    BY <1>4, SubdivideFacts
  <2>2. Len(q) \in Nat \ {0}
    BY <1>4, VisitFacts DEF Subdivide
  <2>3. f = Len(nodes) + Len(q)
    BY <1>4, <2>1, LeavesAfterSubdivide DEF Counted, Planned
  <2>4. nodes'[i].box = Head(q)
    <3>1. Interior(s).box = Head(q)
      BY DEF Interior, Node
    <3>2. QED
      BY <1>4, <2>1, <3>1, SubdivideFacts
  <2>5. Planned' = Len(nodes) + Len(q) + NChild
    BY <2>1, <2>2, NChildType DEF Planned
  <2>6. PanelAt(f + c)' = q'[Len(q) + c]
    <3>1. ~(f + c < Len(nodes')) /\ f + c + 1 - Len(nodes') = Len(q) + c
      BY <2>1, <2>2, <2>3
    <3>2. QED
      BY <3>1 DEF PanelAt
  <2>7. q'[Len(q) + c] = Child(Head(q), c)
    BY <1>4, SubdivideFacts
  <2>8. QED
    BY <2>1, <2>2, <2>3, <2>4, <2>5, <2>6, <2>7, NChildType DEF Linked
<1>5. QED
  BY <1>1, <1>2, <1>3, <1>4, StepKinds

-----------------------------------------------------------------------------
(* The pool.                                                               *)

LEMMA StepLeafPool ==
  ASSUME TypeOK, Level, Counted, LeafPool, Next
  PROVE  LeafPool'
<1>. SUFFICES ASSUME Fits32', pc' # "UnsupportedTolKind"
              PROVE  /\ \A i \in LeafNodes' :
                         /\ nodes'[i].poly_eval_id \in start'.pool .. Len(polyfits') - 1
                         /\ polyfits'[nodes'[i].poly_eval_id + 1] = nodes'[i].box
                     /\ \A i, j \in LeafNodes' :
                         i < j => nodes'[i].poly_eval_id < nodes'[j].poly_eval_id
                     /\ \A k \in start'.pool .. Len(polyfits') - 1 :
                         \E i \in LeafNodes' : nodes'[i].poly_eval_id = k
  BY DEF LeafPool
<1>0. Fits32
  BY FitsBefore
<1>1. CASE Idle
  BY <1>0, <1>1 DEF Idle, LeafPool, LeafNodes, IsLeaf
<1>2. CASE RejectTolKind
  BY <1>2 DEF RejectTolKind
<1>p. ASSUME pc # "UnsupportedTolKind"
      PROVE  /\ \A i \in LeafNodes :
                  /\ nodes[i].poly_eval_id \in start.pool .. Len(polyfits) - 1
                  /\ polyfits[nodes[i].poly_eval_id + 1] = nodes[i].box
             /\ \A i, j \in LeafNodes :
                  i < j => nodes[i].poly_eval_id < nodes[j].poly_eval_id
             /\ \A k \in start.pool .. Len(polyfits) - 1 :
                  \E i \in LeafNodes : nodes[i].poly_eval_id = k
  BY <1>0, <1>p DEF LeafPool
<1>3. CASE \E s \in Samples : AddsLeaf(s)
  <2>1. PICK s \in Samples : AddsLeaf(s)
    BY <1>3
  <2>. DEFINE n == Len(nodes)
              m == Len(polyfits)
  <2>2. /\ n \in Nat /\ m \in Nat /\ Len(polyfits') = m + 1
        /\ start' = start /\ start.pool \in Nat /\ start.pool <= m
        /\ pc = "level" /\ LeafNodes \subseteq 1 .. n
    BY <2>1, LeafFacts, LenProperties DEF AddsLeaf, Visit, TypeOK, Counted, LeafNodes
  <2>3. LeafNodes' = LeafNodes \cup {n + 1}
    BY <2>1, LeavesAfterLeaf
  <2>4. nodes'[n + 1].poly_eval_id = m /\ nodes'[n + 1].box = Head(q)
    <3>1. Cast32(m) = m
      BY <1>0, <2>2, CastRange DEF Fits32
    <3>2. Leaf(m, s).poly_eval_id = m /\ Leaf(m, s).box = Head(q)
      BY <3>1 DEF Leaf, Node
    <3>3. QED
      BY <2>1, <3>2, LeafFacts
  <2>5. /\ \A i \in 1 .. n : nodes'[i] = nodes[i]
        /\ \A i \in 1 .. m : polyfits'[i] = polyfits[i]
        /\ polyfits'[m + 1] = Head(q)
    BY <2>1, LeafFacts
  <2>. HIDE DEF n, m
  <2>6. ASSUME NEW i \in LeafNodes
        PROVE  /\ nodes'[i].poly_eval_id \in start'.pool .. Len(polyfits') - 1
               /\ nodes'[i].poly_eval_id < m
               /\ polyfits'[nodes'[i].poly_eval_id + 1] = nodes'[i].box
    <3>1. nodes'[i] = nodes[i]
      BY <2>2, <2>5
    <3>2. /\ nodes[i].poly_eval_id \in start.pool .. m - 1
          /\ polyfits[nodes[i].poly_eval_id + 1] = nodes[i].box
      BY <1>p, <2>2 DEF m
    <3>3. nodes[i].poly_eval_id + 1 \in 1 .. m
      BY <2>2, <3>2
    <3>4. polyfits'[nodes[i].poly_eval_id + 1] = polyfits[nodes[i].poly_eval_id + 1]
      BY <2>5, <3>3
    <3>5. QED
      BY <2>2, <3>1, <3>2, <3>4
  <2>7. ASSUME NEW i \in LeafNodes', NEW j \in LeafNodes', i < j
        PROVE  nodes'[i].poly_eval_id < nodes'[j].poly_eval_id
    <3>1. i \in LeafNodes /\ i \in 1 .. n
      BY <2>2, <2>3, <2>7
    <3>2. CASE j \in LeafNodes
      BY <1>p, <2>2, <2>5, <2>7, <3>1, <3>2
    <3>3. CASE j = n + 1
      BY <2>4, <2>6, <3>1, <3>3
    <3>4. QED
      BY <2>3, <3>2, <3>3
  <2>8. ASSUME NEW k \in start'.pool .. Len(polyfits') - 1
        PROVE  \E i \in LeafNodes' : nodes'[i].poly_eval_id = k
    <3>1. CASE k = m
      BY <2>3, <2>4, <3>1
    <3>2. CASE k # m
      <4>1. k \in start.pool .. m - 1
        BY <2>2, <3>2
      <4>2. PICK i \in LeafNodes : nodes[i].poly_eval_id = k
        BY <1>p, <2>2, <4>1 DEF m
      <4>3. QED
        BY <2>2, <2>3, <2>5, <4>2
    <3>3. QED
      BY <3>1, <3>2
  <2>9. nodes'[n + 1].poly_eval_id \in start'.pool .. Len(polyfits') - 1
    BY <2>2, <2>4
  <2>10. QED
    BY <2>2, <2>3, <2>4, <2>5, <2>6, <2>7, <2>8, <2>9
<1>4. CASE \E s \in Samples : Subdivide(s)
  <2>1. PICK s \in Samples : Subdivide(s)
    BY <1>4
  <2>2. /\ polyfits' = polyfits /\ start' = start /\ pc = "level"
        /\ LeafNodes' = LeafNodes
        /\ \A i \in LeafNodes : nodes'[i] = nodes[i]
    BY <2>1, SubdivideFacts, LeavesAfterSubdivide DEF Subdivide, Visit, LeafNodes
  <2>3. QED
    BY <1>p, <2>2
<1>5. QED
  BY <1>1, <1>2, <1>3, <1>4, StepKinds

-----------------------------------------------------------------------------
(* Depths, scale and accuracy.                                             *)

LEMMA StepLeafDepth ==
  ASSUME TypeOK, Level, LeafDepth, Next
  PROVE  LeafDepth'
<1>. DEFINE Placed(d) == /\ input.max_depth >= 0 => d <= input.max_depth
                         /\ d >= input.min_uniform_depth \/ d = input.max_depth
<1>2. input' = input
  BY DEF Next, StartLevel, AcceptLeaf, ForceLeaf, Subdivide, Visit,
         RejectTolKind, EndLevel, BuildLeafTable
<1>. SUFFICES ASSUME Fits32', NEW i \in LeafNodes'
              PROVE  Placed(Depth(nodes'[i].box))
  BY <1>2 DEF LeafDepth
<1>0. Fits32
  BY FitsBefore
<1>1. \A j \in LeafNodes : Placed(Depth(nodes[j].box))
  BY <1>0 DEF LeafDepth
<1>3. CASE Idle \/ RejectTolKind
  <2>1. nodes' = nodes
    BY <1>3 DEF Idle, RejectTolKind
  <2>2. LeafNodes' = LeafNodes
    BY <2>1 DEF LeafNodes, IsLeaf
  <2>3. QED
    BY <1>1, <1>2, <2>1, <2>2
<1>4. ASSUME NEW s \in Samples, AddsLeaf(s), AcceptLeaf(s) \/ ForceLeaf(s)
      PROVE  Placed(Depth(nodes'[i].box))
  <2>1. LeafNodes' = LeafNodes \cup {Len(nodes) + 1}
    BY <1>4, LeavesAfterLeaf
  <2>2. CASE i \in LeafNodes
    <3>1. nodes'[i] = nodes[i]
      BY <1>4, <2>2, LeafFacts DEF LeafNodes
    <3>2. QED
      BY <1>1, <1>2, <2>2, <3>1
  <2>3. CASE i = Len(nodes) + 1
    <3>1. nodes'[i].box = Head(q)
      <4>1. Leaf(Len(polyfits), s).box = Head(q)
        BY DEF Leaf, Node
      <4>2. QED
        BY <1>4, <2>3, <4>1, LeafFacts
    <3>2. Depth(Head(q)) = max_depth_ /\ pc = "level"
      BY <1>4, VisitFacts DEF AddsLeaf, Visit
    <3>3. input.max_depth >= 0 => max_depth_ <= input.max_depth
      BY DEF Level
    <3>4. max_depth_ >= input.min_uniform_depth \/ max_depth_ = input.max_depth
      <4>1. ~force_subdivide \/ at_max_depth
        BY <1>4 DEF AcceptLeaf, ForceLeaf, Rejected
      <4>2. ~ForceSubdivide \/ AtMaxDepth
        BY <3>2, <4>1 DEF Level
      <4>3. QED
        BY <4>2 DEF ForceSubdivide, AtMaxDepth, TypeOK, Input
    <3>5. Placed(Depth(nodes'[i].box))
      BY <3>1, <3>2, <3>3, <3>4
    <3>6. QED
      BY <1>2, <3>5
  <2>4. QED
    BY <2>1, <2>2, <2>3
<1>5. ASSUME NEW s \in Samples, Subdivide(s)
      PROVE  Placed(Depth(nodes'[i].box))
  <2>1. i \in LeafNodes /\ nodes'[i] = nodes[i]
    BY <1>5, LeavesAfterSubdivide, SubdivideFacts DEF LeafNodes
  <2>2. QED
    BY <1>1, <1>2, <2>1
<1>6. QED
  BY <1>3, <1>4, <1>5, StepKinds

(* One more node has been seen.                                            *)
LEMMA SeenAfterVisit ==
  ASSUME TypeOK, Level, NEW s \in Samples, AddsLeaf(s) \/ Subdivide(s)
  PROVE  /\ Len(nodes) \in Nat /\ Len(nodes') = Len(nodes) + 1
         /\ \A i \in 1 .. Len(nodes) : nodes'[i] = nodes[i]
         /\ nodes'[Len(nodes) + 1].seen = s
         /\ max_abs_f' = CommittedScale(s)
         /\ UNCHANGED << input, start >>
<1>1. CASE AddsLeaf(s)
  <2>1. Leaf(Len(polyfits), s).seen = s
    BY DEF Leaf, Node
  <2>2. QED
    BY <1>1, <2>1, LeafFacts DEF AddsLeaf, Visit
<1>2. CASE Subdivide(s)
  <2>1. Interior(s).seen = s
    BY DEF Interior, Node
  <2>2. QED
    BY <1>2, <2>1, SubdivideFacts DEF Subdivide, Visit
<1>3. QED
  BY <1>1, <1>2

LEMMA StepScale ==
  ASSUME TypeOK, Level, ScaleIsLoudest, Next
  PROVE  ScaleIsLoudest'
<1>1. CASE Idle \/ RejectTolKind
  BY <1>1 DEF Idle, RejectTolKind, ScaleIsLoudest, Heard, UsesTail, Kind,
              LowDegree, BothFinite, PanelMax, Larger
<1>2. ASSUME NEW s \in Samples, AddsLeaf(s) \/ Subdivide(s)
      PROVE  ScaleIsLoudest'
  <2>. DEFINE n == Len(nodes)
              sampled == ~UsesTail /\ Kind = "RelativeMax"
  <2>1. /\ n \in Nat /\ Len(nodes') = n + 1
        /\ \A i \in 1 .. n : nodes'[i] = nodes[i]
        /\ nodes'[n + 1].seen = s
        /\ max_abs_f' = CommittedScale(s)
        /\ UNCHANGED << input, start >>
    BY <1>2, SeenAfterVisit
  <2>2. Heard' = IF sampled /\ BothFinite(s) THEN Heard \cup {n + 1} ELSE Heard
    <3>1. UNCHANGED << UsesTail, Kind >>
      BY <2>1 DEF UsesTail, Kind, LowDegree
    <3>2. CASE sampled
      BY <2>1, <3>1, <3>2 DEF Heard, BothFinite
    <3>3. CASE ~sampled
      BY <3>1, <3>3 DEF Heard
    <3>4. QED
      BY <3>2, <3>3
  <2>3. /\ Heard \subseteq 1 .. n /\ max_abs_f \in Nat /\ start.scale \in Nat
        /\ PanelMax(s) \in Nat
    BY ScaleType DEF Heard, TypeOK
  <2>4. \A i \in Heard : PanelMax(nodes'[i].seen) = PanelMax(nodes[i].seen)
    BY <2>1, <2>3
  <2>5. CASE sampled /\ BothFinite(s)
    <3>1. max_abs_f' = Larger(max_abs_f, PanelMax(s))
      BY <2>1, <2>5 DEF CommittedScale, PanelScale
    <3>2. max_abs_f' >= max_abs_f /\ max_abs_f' >= PanelMax(s)
          /\ (max_abs_f' = max_abs_f \/ max_abs_f' = PanelMax(s))
      BY <2>3, <3>1 DEF Larger
    <3>3. \A i \in Heard : PanelMax(nodes[i].seen) \in Nat
      <4>1. \A i \in 1 .. n : nodes[i] \in NodeRecord
        BY <2>1, ElementOfSeq DEF TypeOK, NodeRecord
      <4>2. QED
        BY <2>3, <4>1 DEF NodeRecord, Sample, Grid, PanelMax, Larger
    <3>4. max_abs_f' >= start'.scale
      BY <2>1, <2>3, <3>2 DEF ScaleIsLoudest, TypeOK
    <3>5. \A i \in Heard' : max_abs_f' >= PanelMax(nodes'[i].seen)
      <4>1. \A i \in Heard : max_abs_f >= PanelMax(nodes[i].seen)
        BY DEF ScaleIsLoudest
      <4>2. max_abs_f' \in Nat
        BY <2>3, <3>2
      <4>3. QED
        BY <2>1, <2>2, <2>3, <2>4, <2>5, <3>2, <3>3, <4>1, <4>2
    <3>6. max_abs_f' = start'.scale \/ \E i \in Heard' : max_abs_f' = PanelMax(nodes'[i].seen)
      <4>1. CASE max_abs_f' = PanelMax(s)
        <5>1. n + 1 \in Heard'
          BY <2>2, <2>5
        <5>2. PanelMax(nodes'[n + 1].seen) = PanelMax(s)
          BY <2>1
        <5>3. QED
          BY <4>1, <5>1, <5>2
      <4>2. CASE max_abs_f' = max_abs_f
        BY <2>1, <2>2, <2>4, <4>2 DEF ScaleIsLoudest
      <4>3. QED
        BY <3>2, <4>1, <4>2
    <3>7. QED
      BY <3>4, <3>5, <3>6 DEF ScaleIsLoudest, PanelMax, Larger
  <2>6. CASE ~(sampled /\ BothFinite(s))
    <3>1. max_abs_f' = max_abs_f
      BY <2>1, <2>6 DEF CommittedScale
    <3>2. QED
      BY <2>1, <2>2, <2>4, <2>6, <3>1 DEF ScaleIsLoudest, PanelMax, Larger
  <2>7. QED
    BY <2>5, <2>6
<1>3. QED
  BY <1>1, <1>2, StepKinds

(* What a measurement satisfies against a scale m.                         *)
MeetsAt(g, m) ==
  /\ g.finite
  /\ IF Kind = "RelativeMax" THEN g.err <= Tol * m ELSE ~g.local
PassesAt(s, m) ==
  IF UsesTail THEN ~s.tail ELSE MeetsAt(s.open, m) /\ MeetsAt(s.closed, m)

LEMMA AccurateAfter ==
  ASSUME input' = input
  PROVE  Accurate' <=>
           (Fits32' => \A i \in LeafNodes' : nodes'[i].box \notin Reported' =>
                         PassesAt(nodes'[i].seen, max_abs_f'))
<1>1. UNCHANGED << UsesTail, Kind >>
  BY DEF UsesTail, Kind, LowDegree
<1>2. QED
  BY <1>1 DEF Accurate, Meets, MeetsAt, PassesAt

LEMMA AcceptedPasses ==
  ASSUME TypeOK, NEW s \in Samples, ~ExceedsTol(s)
  PROVE  PassesAt(s, CommittedScale(s))
<1>1. CASE UsesTail
  BY <1>1 DEF ExceedsTol, PassesAt
<1>2. CASE ~UsesTail
  <2>1. \A g \in {s.open, s.closed} : ~GridExceeds(g, PanelScale(s))
    BY <1>2 DEF ExceedsTol
  <2>2. BothFinite(s)
    BY <2>1 DEF GridExceeds, BothFinite
  <2>3. CASE Kind = "RelativeMax"
    <3>1. CommittedScale(s) = PanelScale(s)
      BY <1>2, <2>2, <2>3 DEF CommittedScale
    <3>2. Tol * PanelScale(s) \in Nat /\ s.open.err \in Nat /\ s.closed.err \in Nat
      <4>1. PanelScale(s) \in Nat
        BY ScaleType DEF PanelScale, Larger, TypeOK
      <4>2. s \in Sample /\ Tol \in Nat
        BY ConstantsOK
      <4>3. QED
        BY <4>1, <4>2 DEF Sample, Grid
    <3>3. s.open.err <= Tol * PanelScale(s) /\ s.closed.err <= Tol * PanelScale(s)
      BY <2>1, <2>3, <3>2 DEF GridExceeds
    <3>4. QED
      BY <1>2, <2>2, <2>3, <3>1, <3>3 DEF PassesAt, MeetsAt, BothFinite
  <2>4. CASE Kind # "RelativeMax"
    BY <1>2, <2>1, <2>4 DEF PassesAt, MeetsAt, GridExceeds
  <2>5. QED
    BY <2>3, <2>4
<1>3. QED
  BY <1>1, <1>2

LEMMA TimesMonotone ==
  ASSUME NEW t \in Nat, NEW a \in Nat, NEW b \in Nat, a <= b
  PROVE  t * a \in Nat /\ t * b \in Nat /\ t * a <= t * b
<1>1. PICK d \in Nat : b = a + d
  <2>1. b - a \in Nat /\ b = a + (b - a)
    OBVIOUS
  <2>2. QED
    BY <2>1
<1>2. t * (a + d) = t * a + t * d /\ t * a \in Nat /\ t * d \in Nat
  OBVIOUS
<1>3. QED
  BY <1>1, <1>2

(* A larger scale only loosens the test.                                   *)
LEMMA StillPasses ==
  ASSUME NEW s \in Sample, NEW m \in Nat, NEW n \in Nat, m <= n, PassesAt(s, m)
  PROVE  PassesAt(s, n)
<1>1. Tol * m \in Nat /\ Tol * n \in Nat /\ Tol * m <= Tol * n
  BY TimesMonotone, ConstantsOK
<1>2. s.open.err \in Nat /\ s.closed.err \in Nat
  BY DEF Sample, Grid
<1>3. QED
  BY <1>1, <1>2 DEF PassesAt, MeetsAt

LEMMA ReportedAfterLeaf ==
  ASSUME TypeOK, Level, NEW s \in Samples, AddsLeaf(s), AcceptLeaf(s) \/ ForceLeaf(s)
  PROVE  Reported \subseteq Reported' /\ (ForceLeaf(s) => Head(q) \in Reported')
<1>1. CASE AcceptLeaf(s)
  <2>1. panels' = panels
    BY <1>1 DEF AcceptLeaf
  <2>2. ~ForceLeaf(s)
    BY <1>1 DEF AcceptLeaf, ForceLeaf
  <2>3. QED
    BY <2>1, <2>2 DEF Reported
<1>2. CASE ForceLeaf(s)
  <2>. DEFINE p == [box |-> Head(q), depth |-> max_depth_]
  <2>1. p \in [box : Box, depth : Nat]
    BY VisitFacts DEF AddsLeaf, TypeOK
  <2>2. panels' = Append(panels, p) /\ panels \in Seq([box : Box, depth : Nat])
    BY <1>2 DEF ForceLeaf, TypeOK
  <2>3. p.box = Head(q)
    OBVIOUS
  <2>. HIDE DEF p
  <2>4. /\ Len(panels) \in Nat /\ Len(panels') = Len(panels) + 1
        /\ \A k \in 1 .. Len(panels) : panels'[k] = panels[k]
        /\ panels'[Len(panels) + 1] = p
    BY <2>1, <2>2, AppendProperties, LenProperties
  <2>5. QED
    BY <2>3, <2>4 DEF Reported
<1>3. QED
  BY <1>1, <1>2

LEMMA StepAccurate ==
  ASSUME TypeOK, Level, Accurate, Next
  PROVE  Accurate'
<1>1. CASE Idle \/ RejectTolKind
  <2>1. UNCHANGED << input, max_abs_f, nodes, panels >>
    BY <1>1 DEF Idle, RejectTolKind
  <2>2. UNCHANGED << LeafNodes, Reported, UsesTail, Kind >>
    BY <2>1 DEF LeafNodes, IsLeaf, Reported, UsesTail, Kind, LowDegree
  <2>3. QED
    BY <2>1, <2>2, FitsBefore DEF Accurate, Meets
<1>2. ASSUME NEW s \in Samples, AddsLeaf(s) \/ Subdivide(s), Fits32',
             NEW i \in LeafNodes, nodes'[i].box \notin Reported',
             Reported \subseteq Reported'
      PROVE  PassesAt(nodes'[i].seen, max_abs_f')
  <2>1. /\ i \in 1 .. Len(nodes) /\ nodes'[i] = nodes[i]
        /\ max_abs_f' = CommittedScale(s) /\ input' = input
    BY <1>2, SeenAfterVisit DEF LeafNodes
  <2>2. nodes[i].box \notin Reported
    BY <1>2, <2>1
  <2>3. PassesAt(nodes[i].seen, max_abs_f)
    BY <1>2, <2>2, FitsBefore DEF Accurate, PassesAt, MeetsAt, Meets
  <2>4. nodes[i].seen \in Sample
    <3>1. nodes[i] \in NodeRecord
      BY <2>1, ElementOfSeq DEF TypeOK, NodeRecord
    <3>2. QED
      BY <3>1 DEF NodeRecord
  <2>5. max_abs_f \in Nat /\ max_abs_f' \in Nat /\ max_abs_f <= max_abs_f'
    BY <2>1, ScaleType DEF TypeOK
  <2>6. QED
    BY <2>1, <2>3, <2>4, <2>5, StillPasses
<1>3. ASSUME NEW s \in Samples, AddsLeaf(s), AcceptLeaf(s) \/ ForceLeaf(s)
      PROVE  Accurate'
  <2>1. SUFFICES ASSUME Fits32', NEW i \in LeafNodes', nodes'[i].box \notin Reported'
                 PROVE  PassesAt(nodes'[i].seen, max_abs_f')
    <3>1. input' = input
      BY <1>3, SeenAfterVisit
    <3>2. QED
      BY <3>1, AccurateAfter
  <2>2. LeafNodes' = LeafNodes \cup {Len(nodes) + 1}
    BY <1>3, LeavesAfterLeaf
  <2>3. Reported \subseteq Reported' /\ (ForceLeaf(s) => Head(q) \in Reported')
    BY <1>3, ReportedAfterLeaf
  <2>4. CASE i \in LeafNodes
    BY <1>2, <1>3, <2>1, <2>3, <2>4
  <2>5. CASE i = Len(nodes) + 1
    <3>1. nodes'[i].box = Head(q)
      <4>1. Leaf(Len(polyfits), s).box = Head(q)
        BY DEF Leaf, Node
      <4>2. QED
        BY <1>3, <2>5, <4>1, LeafFacts
    <3>2. AcceptLeaf(s)
      BY <1>3, <2>1, <2>3, <3>1
    <3>3. nodes'[i].seen = s /\ max_abs_f' = CommittedScale(s) /\ input' = input
      BY <1>3, <2>5, SeenAfterVisit
    <3>4. ~ExceedsTol(s)
      BY <3>2 DEF AcceptLeaf, Rejected
    <3>5. QED
      BY <3>3, <3>4, AcceptedPasses
  <2>6. QED
    BY <2>2, <2>4, <2>5
<1>4. ASSUME NEW s \in Samples, Subdivide(s)
      PROVE  Accurate'
  <2>1. SUFFICES ASSUME Fits32', NEW i \in LeafNodes', nodes'[i].box \notin Reported'
                 PROVE  PassesAt(nodes'[i].seen, max_abs_f')
    <3>1. input' = input
      BY <1>4, SeenAfterVisit
    <3>2. QED
      BY <3>1, AccurateAfter
  <2>2. LeafNodes' = LeafNodes /\ Reported' = Reported
    BY <1>4, <2>1, LeavesAfterSubdivide DEF Subdivide, Reported
  <2>3. QED
    BY <1>2, <1>4, <2>1, <2>2
<1>5. QED
  BY <1>1, <1>3, <1>4, StepKinds

-----------------------------------------------------------------------------
(* The theorems.                                                           *)

(* Every step keeps the inductive invariant.                               *)
LEMMA StepIInv == IInv /\ [Next]_vars => IInv'
<1>. SUFFICES ASSUME IInv, [Next]_vars PROVE IInv'
  OBVIOUS
<1>1. CASE Next
  BY <1>1, StepType, StepLevel, StepCounted, StepChildLinks, StepLeafPool,
     StepLeafDepth, StepScale, StepAccurate DEF IInv
<1>2. CASE UNCHANGED vars
  <2>. USE <1>2 DEF vars, treeVars
  <2>1. TypeOK'
    BY DEF IInv, TypeOK
  <2>2. Level' /\ Counted'
    BY DEF IInv, Level, AtMaxDepth, ForceSubdivide, Counted, Planned
  <2>3. ChildLinks' /\ LeafPool' /\ LeafDepth'
    BY DEF IInv, ChildLinks, LeafPool, LeafDepth, Fits32, LeafNodes, IsLeaf,
           Planned, PanelAt
  <2>4. ScaleIsLoudest' /\ Accurate'
    <3>1. UNCHANGED << UsesTail, Kind, LeafNodes, Fits32, Reported >>
      BY DEF UsesTail, Kind, LowDegree, LeafNodes, IsLeaf, Fits32, Reported
    <3>2. QED
      BY <3>1 DEF IInv, ScaleIsLoudest, Accurate, Heard, BothFinite, PanelMax,
                  Larger, Meets
  <2>5. QED
    BY <2>1, <2>2, <2>3, <2>4 DEF IInv
<1>3. QED
  BY <1>1, <1>2

(* Every state of a build is one that the inductive invariant describes.   *)
THEOREM IInvHolds == Spec => []IInv
BY InitIInv, StepIInv, PTL DEF Spec

(* The variables keep their types; in particular no link and no pool index *)
(* ever leaves the range of an uint32.                                     *)
THEOREM TypeCorrect == Spec => []TypeOK
BY IInvHolds, PTL DEF IInv

(* The child indices handed out in advance are those of the children, for  *)
(* every dimension and every order of leaves and interior nodes.           *)
THEOREM ChildrenLinked == Spec => []ChildLinks
BY IInvHolds, PTL DEF IInv

(* Leaves and pool entries of the subtree correspond one to one and in     *)
(* order, through every rollback.                                          *)
THEOREM PoolMatchesLeaves == Spec => []LeafPool
BY IInvHolds, PTL DEF IInv

(* Leaves keep to max_depth and to min_uniform_depth.                      *)
THEOREM DepthsBounded == Spec => []LeafDepth
BY IInvHolds, PTL DEF IInv

(* max_abs_f is the loudest finite panel sampled so far.                   *)
THEOREM ScaleTracksLoudest == Spec => []ScaleIsLoudest
BY IInvHolds, PTL DEF IInv

(* Unreported leaves meet the tolerance.                                   *)
THEOREM LeavesAccurate == Spec => []Accurate
BY IInvHolds, PTL DEF IInv

-----------------------------------------------------------------------------
(* No panel is planned twice: the reported panels and the refinement of    *)
(* Tiling rest on it.                                                      *)

(* The index of a panel is its only one.                                   *)
Distinct == \A i, j \in 0 .. Planned - 1 : PanelAt(i) = PanelAt(j) => i = j

(* Every panel but the root is a child of a visited one.                   *)
Ancestry ==
  /\ Planned > 0 /\ Len(PanelAt(0)) = 1
  /\ \A i \in 0 .. Planned - 1 :
       \/ Len(PanelAt(i)) = 1
       \/ \E j \in 1 .. Len(nodes), c \in 0 .. NChild - 1 :
            PanelAt(i) = Child(nodes[j].box, c)

(* No visited panel lies below the level the search has reached.           *)
Above == \A i \in 1 .. Len(nodes) : Depth(nodes[i].box) <= max_depth_

PInv == IInv /\ Distinct /\ Ancestry /\ Above /\ PanelsExact

LEMMA PlannedFacts ==
  ASSUME TypeOK
  PROVE  /\ Len(nodes) \in Nat /\ Len(q) \in Nat /\ Planned \in Nat
         /\ \A i \in 1 .. Len(nodes) : nodes[i] \in NodeRecord /\ nodes[i].box = PanelAt(i - 1)
         /\ \A k \in 1 .. Len(q) : q[k] = PanelAt(Len(nodes) + k - 1)
         /\ \A i \in 0 .. Planned - 1 : PanelAt(i) \in Box
<1>1. nodes \in Seq(NodeRecord) /\ q \in Seq(Box)
  BY DEF TypeOK, NodeRecord
<1>2. /\ Len(nodes) \in Nat /\ Len(q) \in Nat /\ Planned \in Nat
      /\ \A i \in 1 .. Len(nodes) : nodes[i] \in NodeRecord
      /\ \A k \in 1 .. Len(q) : q[k] \in Box
  BY <1>1, LenProperties, ElementOfSeq DEF Planned
<1>3. \A i \in 1 .. Len(nodes) : nodes[i].box \in Box
  BY <1>2 DEF NodeRecord
<1>4. \A i \in 1 .. Len(nodes) : nodes[i].box = PanelAt(i - 1)
  BY <1>2 DEF PanelAt
<1>5. \A k \in 1 .. Len(q) : q[k] = PanelAt(Len(nodes) + k - 1)
  BY <1>2 DEF PanelAt
<1>6. \A i \in 0 .. Planned - 1 : PanelAt(i) \in Box
  BY <1>2, <1>3 DEF PanelAt, Planned
<1>7. QED
  BY <1>2, <1>4, <1>5, <1>6

LEMMA ChildType ==
  ASSUME NEW b \in Box, NEW c \in Nat
  PROVE  /\ Child(b, c) \in Box /\ Len(Child(b, c)) = Len(b) + 1 /\ Len(b) \in Nat
         /\ \A i \in 1 .. Len(b) : Child(b, c)[i] = b[i]
         /\ Child(b, c)[Len(b) + 1] = c
BY AppendProperties, LenProperties DEF Child, Box

LEMMA ChildInjective ==
  ASSUME NEW a \in Box, NEW b \in Box, NEW c \in Nat, NEW d \in Nat,
         Child(a, c) = Child(b, d)
  PROVE  a = b /\ c = d
<1>. DEFINE x == Child(a, c)
            y == Child(b, d)
<1>1. /\ Len(x) = Len(a) + 1 /\ Len(a) \in Nat
      /\ \A i \in 1 .. Len(a) : x[i] = a[i]
      /\ x[Len(a) + 1] = c
  BY ChildType
<1>2. /\ Len(y) = Len(b) + 1 /\ Len(b) \in Nat
      /\ \A i \in 1 .. Len(b) : y[i] = b[i]
      /\ y[Len(b) + 1] = d
  BY ChildType
<1>3. x = y
  OBVIOUS
<1>. HIDE DEF x, y
<1>4. Len(a) = Len(b) /\ \A i \in 1 .. Len(a) : a[i] = b[i]
  BY <1>1, <1>2, <1>3
<1>5. a = b
  BY <1>4, SeqEqual DEF Box
<1>6. QED
  BY <1>1, <1>2, <1>3, <1>4, <1>5

(* The panels planned after a visit: those planned before it, and for a    *)
(* rejected panel its children.                                            *)
LEMMA PlannedAfterLeaf ==
  ASSUME TypeOK, Level, NEW s \in Samples, AddsLeaf(s)
  PROVE  /\ Planned' = Planned /\ Len(nodes') = Len(nodes) + 1
         /\ Len(nodes) \in Nat /\ Planned \in Nat /\ Len(nodes) < Planned
         /\ nodes'[Len(nodes) + 1].box = Head(q)
         /\ Head(q) = PanelAt(Len(nodes))
         /\ \A i \in 1 .. Len(nodes) : nodes'[i] = nodes[i]
         /\ \A i \in 0 .. Planned - 1 : PanelAt(i)' = PanelAt(i)
<1>1. Len(q) \in Nat \ {0} /\ Head(q) = q[1] /\ Len(q') = Len(q) - 1
  BY VisitFacts DEF AddsLeaf
<1>2. /\ Len(nodes) \in Nat /\ Len(nodes') = Len(nodes) + 1
      /\ \A i \in 1 .. Len(nodes) : nodes'[i] = nodes[i]
  BY LeafFacts
<1>3. nodes'[Len(nodes) + 1].box = Head(q)
  <2>1. Leaf(Len(polyfits), s).box = Head(q)
    BY DEF Leaf, Node
  <2>2. QED
    BY <2>1, LeafFacts
<1>4. Head(q) = PanelAt(Len(nodes))
  BY <1>1, <1>2, PlannedFacts
<1>5. Planned' = Planned /\ Planned \in Nat /\ Len(nodes) < Planned
  BY <1>1, <1>2 DEF Planned
<1>6. \A i \in 0 .. Planned - 1 : PanelAt(i)' = PanelAt(i)
  <2>1. SUFFICES ASSUME NEW i \in 0 .. Planned - 1 PROVE PanelAt(i)' = PanelAt(i)
    OBVIOUS
  <2>2. QED
    BY PanelAtKept
<1>7. QED
  BY <1>2, <1>3, <1>4, <1>5, <1>6

LEMMA PlannedAfterSubdivide ==
  ASSUME TypeOK, Level, NEW s \in Samples, Subdivide(s)
  PROVE  /\ Planned' = Planned + NChild /\ Len(nodes') = Len(nodes) + 1
         /\ Len(nodes) \in Nat /\ Planned \in Nat /\ Len(nodes) < Planned
         /\ nodes'[Len(nodes) + 1].box = Head(q)
         /\ Head(q) = PanelAt(Len(nodes))
         /\ \A i \in 1 .. Len(nodes) : nodes'[i] = nodes[i]
         /\ \A i \in 0 .. Planned - 1 : PanelAt(i)' = PanelAt(i)
         /\ \A i \in Planned .. Planned + NChild - 1 :
              i - Planned \in 0 .. NChild - 1 /\ PanelAt(i)' = Child(Head(q), i - Planned)
<1>1. Len(q) \in Nat \ {0} /\ Head(q) = q[1] /\ NChild \in Nat \ {0}
  BY VisitFacts, NChildType DEF Subdivide
<1>2. /\ Len(nodes) \in Nat /\ Len(nodes') = Len(nodes) + 1
      /\ \A i \in 1 .. Len(nodes) : nodes'[i] = nodes[i]
      /\ Len(q') = Len(q) - 1 + NChild
      /\ \A c \in 0 .. NChild - 1 : q'[Len(q) + c] = Child(Head(q), c)
  BY SubdivideFacts
<1>3. nodes'[Len(nodes) + 1].box = Head(q)
  <2>1. Interior(s).box = Head(q)
    BY DEF Interior, Node
  <2>2. QED
    BY <2>1, SubdivideFacts
<1>4. Head(q) = PanelAt(Len(nodes))
  BY <1>1, <1>2, PlannedFacts
<1>5. Planned' = Planned + NChild /\ Planned \in Nat /\ Len(nodes) < Planned
  BY <1>1, <1>2 DEF Planned
<1>6. \A i \in 0 .. Planned - 1 : PanelAt(i)' = PanelAt(i)
  <2>1. SUFFICES ASSUME NEW i \in 0 .. Planned - 1 PROVE PanelAt(i)' = PanelAt(i)
    OBVIOUS
  <2>2. QED
    BY PanelAtKept
<1>7. ASSUME NEW i \in Planned .. Planned + NChild - 1
      PROVE  i - Planned \in 0 .. NChild - 1 /\ PanelAt(i)' = Child(Head(q), i - Planned)
  <2>1. PanelAt(i)' = IF i < Len(nodes') THEN nodes'[i + 1].box ELSE q'[i + 1 - Len(nodes')]
    BY DEF PanelAt
  <2>2. /\ ~(i < Len(nodes')) /\ i + 1 - Len(nodes') = Len(q) + (i - Planned)
        /\ i - Planned \in 0 .. NChild - 1
    BY <1>1, <1>2 DEF Planned
  <2>3. QED
    BY <1>2, <2>1, <2>2
<1>8. QED
  BY <1>2, <1>3, <1>4, <1>5, <1>6, <1>7

LEMMA StepDistinct ==
  ASSUME TypeOK, Level, Distinct, Ancestry, Next
  PROVE  Distinct'
<1>1. CASE Idle \/ RejectTolKind
  BY <1>1 DEF Idle, RejectTolKind, Distinct, Planned, PanelAt
<1>2. ASSUME NEW s \in Samples, AddsLeaf(s)
      PROVE  Distinct'
  <2>1. Planned' = Planned /\ \A i \in 0 .. Planned - 1 : PanelAt(i)' = PanelAt(i)
    BY <1>2, PlannedAfterLeaf
  <2>2. SUFFICES ASSUME NEW i \in 0 .. Planned - 1, NEW j \in 0 .. Planned - 1,
                        PanelAt(i)' = PanelAt(j)'
                 PROVE  i = j
    BY <2>1 DEF Distinct
  <2>3. PanelAt(i) = PanelAt(j)
    BY <2>1, <2>2
  <2>4. QED
    BY <2>3 DEF Distinct
<1>3. ASSUME NEW s \in Samples, Subdivide(s)
      PROVE  Distinct'
  <2>1. /\ Planned' = Planned + NChild /\ Planned \in Nat /\ NChild \in Nat
        /\ Len(nodes) \in Nat /\ Len(nodes) < Planned
        /\ Head(q) = PanelAt(Len(nodes)) /\ Head(q) \in Box /\ Len(Head(q)) \in Nat \ {0}
        /\ \A i \in 0 .. Planned - 1 : PanelAt(i)' = PanelAt(i)
    <3>1. Head(q) \in Box /\ Depth(Head(q)) = max_depth_ /\ max_depth_ \in Nat
      BY <1>3, VisitFacts DEF Subdivide, TypeOK
    <3>2. Len(Head(q)) \in Nat \ {0}
      BY <3>1, LenProperties DEF Depth, Box
    <3>3. QED
      BY <1>3, <3>1, <3>2, PlannedAfterSubdivide, NChildType
  <2>2. \A i \in Planned .. Planned + NChild - 1 :
          i - Planned \in 0 .. NChild - 1 /\ PanelAt(i)' = Child(Head(q), i - Planned)
    BY <1>3, PlannedAfterSubdivide
  <2>3. ASSUME NEW i \in 0 .. Planned - 1, NEW j \in Planned .. Planned + NChild - 1,
               PanelAt(i)' = PanelAt(j)'
        PROVE  FALSE
    <3>1. PICK c \in 0 .. NChild - 1 : PanelAt(i) = Child(Head(q), c)
      BY <2>1, <2>2, <2>3
    <3>2. Len(PanelAt(i)) # 1 /\ c \in Nat
      <4>1. c \in Nat
        BY <2>1
      <4>2. Len(Child(Head(q), c)) = Len(Head(q)) + 1
        BY <2>1, <4>1, ChildType
      <4>3. Len(Head(q)) + 1 # 1
        BY <2>1
      <4>4. Len(PanelAt(i)) = Len(Head(q)) + 1
        BY <3>1, <4>2
      <4>5. QED
        BY <4>1, <4>3, <4>4
    <3>3. PICK k \in 1 .. Len(nodes), d \in 0 .. NChild - 1 : PanelAt(i) = Child(nodes[k].box, d)
      BY <3>2 DEF Ancestry
    <3>4. nodes[k].box = PanelAt(k - 1) /\ nodes[k].box \in Box /\ d \in Nat
      BY <3>3, PlannedFacts DEF NodeRecord
    <3>5. PanelAt(k - 1) = PanelAt(Len(nodes))
      <4>1. Child(Head(q), c) = Child(nodes[k].box, d)
        BY <3>1, <3>3
      <4>2. Head(q) = nodes[k].box
        BY <2>1, <3>2, <3>4, <4>1, ChildInjective
      <4>3. QED
        BY <2>1, <3>4, <4>2
    <3>6. k - 1 \in 0 .. Planned - 1 /\ Len(nodes) \in 0 .. Planned - 1 /\ k - 1 # Len(nodes)
      BY <2>1
    <3>7. QED
      BY <3>5, <3>6 DEF Distinct
  <2>4. ASSUME NEW i \in Planned .. Planned + NChild - 1,
               NEW j \in Planned .. Planned + NChild - 1, PanelAt(i)' = PanelAt(j)'
        PROVE  i = j
    <3>1. /\ i - Planned \in Nat /\ j - Planned \in Nat
          /\ Child(Head(q), i - Planned) = Child(Head(q), j - Planned)
      BY <2>1, <2>2, <2>4
    <3>2. i - Planned = j - Planned
      BY <2>1, <3>1, ChildInjective
    <3>3. QED
      BY <2>1, <3>2
  <2>5. SUFFICES ASSUME NEW i \in 0 .. Planned' - 1, NEW j \in 0 .. Planned' - 1,
                        PanelAt(i)' = PanelAt(j)'
                 PROVE  i = j
    BY DEF Distinct
  <2>6. /\ i \in 0 .. Planned - 1 \/ i \in Planned .. Planned + NChild - 1
        /\ j \in 0 .. Planned - 1 \/ j \in Planned .. Planned + NChild - 1
    BY <2>1
  <2>7. CASE i \in 0 .. Planned - 1 /\ j \in 0 .. Planned - 1
    BY <2>1, <2>5, <2>7 DEF Distinct
  <2>8. QED
    BY <2>3, <2>4, <2>5, <2>6, <2>7
<1>4. QED
  BY <1>1, <1>2, <1>3, StepKinds

(* A visited panel stays one, so what descends from it still does.         *)
LEMMA AncestryKept ==
  ASSUME TypeOK, Ancestry, Planned' \in Nat, Planned <= Planned',
         Len(nodes') = Len(nodes) + 1,
         \A i \in 1 .. Len(nodes) : nodes'[i] = nodes[i],
         \A i \in 0 .. Planned - 1 : PanelAt(i)' = PanelAt(i)
  PROVE  /\ Planned' > 0 /\ Len(PanelAt(0)') = 1
         /\ \A i \in 0 .. Planned - 1 :
              \/ Len(PanelAt(i)') = 1
              \/ \E j \in 1 .. Len(nodes'), c \in 0 .. NChild - 1 :
                   PanelAt(i)' = Child(nodes'[j].box, c)
<1>1. Len(nodes) \in Nat /\ Planned \in Nat /\ Planned > 0
  BY PlannedFacts DEF Ancestry
<1>2. ASSUME NEW i \in 0 .. Planned - 1, Len(PanelAt(i)') # 1
      PROVE  \E j \in 1 .. Len(nodes'), c \in 0 .. NChild - 1 :
               PanelAt(i)' = Child(nodes'[j].box, c)
  <2>1. PanelAt(i)' = PanelAt(i)
    OBVIOUS
  <2>2. PICK j \in 1 .. Len(nodes), c \in 0 .. NChild - 1 : PanelAt(i) = Child(nodes[j].box, c)
    BY <1>2, <2>1 DEF Ancestry
  <2>3. j \in 1 .. Len(nodes') /\ nodes'[j] = nodes[j]
    BY <1>1
  <2>4. QED
    BY <2>1, <2>2, <2>3
<1>3. PanelAt(0)' = PanelAt(0) /\ Len(PanelAt(0)) = 1
  <2>1. 0 \in 0 .. Planned - 1
    BY <1>1
  <2>2. QED
    BY <2>1 DEF Ancestry
<1>4. QED
  BY <1>1, <1>2, <1>3

LEMMA StepAncestry ==
  ASSUME TypeOK, Level, Ancestry, Next
  PROVE  Ancestry'
<1>1. CASE Idle \/ RejectTolKind
  BY <1>1 DEF Idle, RejectTolKind, Ancestry, Planned, PanelAt
<1>2. ASSUME NEW s \in Samples, AddsLeaf(s)
      PROVE  Ancestry'
  <2>1. /\ Planned' = Planned /\ Planned \in Nat /\ Len(nodes') = Len(nodes) + 1
        /\ \A i \in 1 .. Len(nodes) : nodes'[i] = nodes[i]
        /\ \A i \in 0 .. Planned - 1 : PanelAt(i)' = PanelAt(i)
    BY <1>2, PlannedAfterLeaf
  <2>2. QED
    BY <2>1, AncestryKept DEF Ancestry
<1>3. ASSUME NEW s \in Samples, Subdivide(s)
      PROVE  Ancestry'
  <2>1. /\ Planned' = Planned + NChild /\ Planned \in Nat /\ NChild \in Nat
        /\ Len(nodes) \in Nat /\ Len(nodes') = Len(nodes) + 1
        /\ nodes'[Len(nodes) + 1].box = Head(q)
        /\ \A i \in 1 .. Len(nodes) : nodes'[i] = nodes[i]
        /\ \A i \in 0 .. Planned - 1 : PanelAt(i)' = PanelAt(i)
        /\ \A i \in Planned .. Planned + NChild - 1 :
             i - Planned \in 0 .. NChild - 1 /\ PanelAt(i)' = Child(Head(q), i - Planned)
    BY <1>3, PlannedAfterSubdivide, NChildType
  <2>2. /\ Planned' > 0 /\ Len(PanelAt(0)') = 1
        /\ \A i \in 0 .. Planned - 1 :
             \/ Len(PanelAt(i)') = 1
             \/ \E j \in 1 .. Len(nodes'), c \in 0 .. NChild - 1 :
                  PanelAt(i)' = Child(nodes'[j].box, c)
    BY <2>1, AncestryKept
  <2>3. \A i \in Planned .. Planned + NChild - 1 :
          \E j \in 1 .. Len(nodes'), c \in 0 .. NChild - 1 :
            PanelAt(i)' = Child(nodes'[j].box, c)
    <3>1. Len(nodes) + 1 \in 1 .. Len(nodes')
      BY <2>1
    <3>2. QED
      BY <2>1, <3>1
  <2>4. 0 .. Planned' - 1 = (0 .. Planned - 1) \cup (Planned .. Planned + NChild - 1)
    BY <2>1
  <2>5. QED
    BY <2>2, <2>3, <2>4 DEF Ancestry
<1>4. QED
  BY <1>1, <1>2, <1>3, StepKinds

LEMMA StepAbove ==
  ASSUME TypeOK, Level, Above, Next
  PROVE  Above'
<1>1. ASSUME NEW s \in Samples, AddsLeaf(s) \/ Subdivide(s)
      PROVE  Above'
  <2>1. /\ Len(nodes) \in Nat /\ Len(nodes') = Len(nodes) + 1
        /\ nodes'[Len(nodes) + 1].box = Head(q)
        /\ \A i \in 1 .. Len(nodes) : nodes'[i] = nodes[i]
    BY <1>1, PlannedAfterLeaf, PlannedAfterSubdivide
  <2>2. Depth(Head(q)) = max_depth_ /\ max_depth_' = max_depth_ /\ max_depth_ \in Nat
    BY <1>1, VisitFacts DEF AddsLeaf, Subdivide, Visit, TypeOK
  <2>3. QED
    BY <2>1, <2>2 DEF Above
<1>2. ASSUME Idle \/ RejectTolKind
      PROVE  Above'
  <2>1. nodes' = nodes
    BY <1>2 DEF Idle, RejectTolKind
  <2>2. max_depth_ \in Nat /\ (max_depth_' = max_depth_ \/ max_depth_' = max_depth_ + 1)
    <3>1. \A s \in Samples : Visit(s) => max_depth_' = max_depth_
      BY DEF Visit
    <3>2. QED
      BY <3>1 DEF TypeOK, Next, StartLevel, AcceptLeaf, ForceLeaf, Subdivide,
                  RejectTolKind, EndLevel, BuildLeafTable
  <2>3. ASSUME NEW i \in 1 .. Len(nodes)
        PROVE  Depth(nodes[i].box) <= max_depth_'
    <3>1. nodes[i].box \in Box
      BY PlannedFacts DEF NodeRecord
    <3>2. Depth(nodes[i].box) \in Int
      BY <3>1, LenProperties DEF Depth, Box
    <3>3. QED
      BY <2>2, <3>2 DEF Above
  <2>4. QED
    BY <2>1, <2>3 DEF Above, Depth
<1>3. QED
  BY <1>1, <1>2, StepKinds

(* Kind and ExceedsTol are those of the input, whatever the scale, unless  *)
(* the kind is RelativeMax.                                                *)
LEMMA VerdictKept ==
  ASSUME input' = input, NEW s
  PROVE  /\ Kind' = Kind
         /\ Kind # "RelativeMax" => (ExceedsTol(s)' <=> ExceedsTol(s))
BY DEF Kind, LowDegree, ExceedsTol, UsesTail, GridExceeds

(* What PanelsExact says of entry k.                                       *)
Justified(k) ==
  \E i \in 1 .. Len(nodes) :
    /\ nodes[i].box = panels[k].box
    /\ Fits32 => i \in LeafNodes
    /\ Kind = "RelativeMax" \/ ExceedsTol(nodes[i].seen)

LEMMA JustifiedKept ==
  ASSUME TypeOK, Level, PanelsExact, Next,
         NEW s \in Samples, AddsLeaf(s) \/ Subdivide(s),
         NEW k \in 1 .. Len(panels), panels'[k] = panels[k]
  PROVE  Justified(k)'
<1>1. PICK i \in 1 .. Len(nodes) :
           /\ nodes[i].box = panels[k].box
           /\ Fits32 => i \in LeafNodes
           /\ Kind = "RelativeMax" \/ ExceedsTol(nodes[i].seen)
  BY DEF PanelsExact
<1>2. /\ i \in 1 .. Len(nodes') /\ nodes'[i] = nodes[i]
      /\ input' = input
  BY SeenAfterVisit
<1>3. Fits32' => i \in LeafNodes'
  <2>1. SUFFICES ASSUME Fits32' PROVE i \in LeafNodes'
    OBVIOUS
  <2>2. i \in LeafNodes
    BY <1>1, <2>1, FitsBefore
  <2>3. QED
    BY <1>2, <2>2 DEF LeafNodes, IsLeaf
<1>4. (Kind = "RelativeMax")' \/ ExceedsTol(nodes[i].seen)'
  BY <1>1, <1>2, VerdictKept DEF ExceedsTol
<1>5. QED
  BY <1>1, <1>2, <1>3, <1>4 DEF Justified, ExceedsTol, UsesTail, GridExceeds, PanelScale, PanelMax

LEMMA StepPanelsExact ==
  ASSUME TypeOK, Level, Distinct, PanelsExact, Next
  PROVE  PanelsExact'
<1>. DEFINE Reports(k) == /\ panels[k].depth = input.max_depth
                          /\ Depth(panels[k].box) = input.max_depth
                          /\ \A m \in 1 .. k - 1 : panels[m].box # panels[k].box
<1>1. \A k \in 1 .. Len(panels) : Reports(k) /\ Justified(k)
  BY DEF PanelsExact, Justified
<1>2. Len(panels) \in Nat
  BY LenProperties DEF TypeOK
<1>3. SUFFICES \A k \in 1 .. Len(panels') : Reports(k)' /\ Justified(k)'
  BY DEF PanelsExact, Justified
<1>4. CASE Idle \/ RejectTolKind
  <2>1. UNCHANGED << input, nodes, panels >>
    BY <1>4 DEF Idle, RejectTolKind
  <2>2. Fits32' => Fits32
    BY FitsBefore
  <2>3. LeafNodes' = LeafNodes
    BY <2>1 DEF LeafNodes, IsLeaf
  <2>4. \A s : /\ Kind' = Kind
               /\ Kind # "RelativeMax" => (ExceedsTol(s)' <=> ExceedsTol(s))
    BY <2>1, VerdictKept
  <2>5. ASSUME NEW k \in 1 .. Len(panels)
        PROVE  Justified(k)'
    <3>1. PICK i \in 1 .. Len(nodes) :
               /\ nodes[i].box = panels[k].box
               /\ Fits32 => i \in LeafNodes
               /\ Kind = "RelativeMax" \/ ExceedsTol(nodes[i].seen)
      BY <1>1 DEF Justified
    <3>2. PICK s : s = nodes[i].seen
      OBVIOUS
    <3>3. (Kind = "RelativeMax")' \/ ExceedsTol(s)'
      BY <2>4, <3>1, <3>2
    <3>4. nodes'[i].seen = s
      BY <2>1, <3>2
    <3>5. QED
      BY <2>1, <2>2, <2>3, <3>1, <3>3, <3>4
      DEF Justified, ExceedsTol, UsesTail, GridExceeds, PanelScale, PanelMax
  <2>6. QED
    BY <1>1, <2>1, <2>5
<1>5. ASSUME NEW s \in Samples, AddsLeaf(s) \/ Subdivide(s), panels' = panels
      PROVE  \A k \in 1 .. Len(panels') : Reports(k)' /\ Justified(k)'
  <2>1. input' = input
    BY <1>5, SeenAfterVisit
  <2>2. SUFFICES ASSUME NEW k \in 1 .. Len(panels) PROVE Reports(k)' /\ Justified(k)'
    BY <1>5
  <2>3. Justified(k)'
    BY <1>5, JustifiedKept
  <2>4. QED
    BY <1>1, <1>5, <2>1, <2>3
<1>6. ASSUME NEW s \in Samples, ForceLeaf(s)
      PROVE  \A k \in 1 .. Len(panels') : Reports(k)' /\ Justified(k)'
  <2>. DEFINE p == [box |-> Head(q), depth |-> max_depth_]
  <2>0. PICK n \in Nat : n = Len(panels)
    BY <1>2
  <2>1. AddsLeaf(s)
    BY <1>6, LeafActions
  <2>2. /\ Head(q) \in Box /\ Depth(Head(q)) = max_depth_ /\ max_depth_ \in Nat
        /\ max_depth_ = input.max_depth /\ input' = input /\ ExceedsTol(s)
    <3>1. Head(q) \in Box /\ Depth(Head(q)) = max_depth_ /\ max_depth_ \in Nat
      BY <2>1, VisitFacts DEF AddsLeaf, TypeOK
    <3>2. /\ pc = "level" /\ at_max_depth /\ input' = input
          /\ ExceedsTol(s) \/ force_subdivide
      BY <1>6 DEF ForceLeaf, Visit, Rejected
    <3>3. AtMaxDepth /\ ~ForceSubdivide /\ ~force_subdivide
      BY <3>2 DEF Level, ForceSubdivide
    <3>4. QED
      BY <3>1, <3>2, <3>3 DEF AtMaxDepth
  <2>3. /\ p.box = Head(q) /\ p.depth = max_depth_ /\ p \in [box : Box, depth : Nat]
    BY <2>2
  <2>. HIDE DEF p
  <2>4. /\ Len(panels') = n + 1 /\ panels'[n + 1] = p
        /\ \A k \in 1 .. n : panels'[k] = panels[k]
    <3>1. panels' = Append(panels, p) /\ panels \in Seq([box : Box, depth : Nat])
      BY <1>6 DEF ForceLeaf, TypeOK, p
    <3>2. QED
      BY <2>0, <2>3, <3>1, AppendProperties
  <2>5. ASSUME NEW k \in 1 .. n
        PROVE  Reports(k)' /\ Justified(k)'
    <3>1. \A m \in 1 .. k : panels'[m] = panels[m]
      BY <2>0, <2>4
    <3>2. Justified(k)'
      BY <2>0, <2>1, <2>4, JustifiedKept
    <3>3. Reports(k)'
      BY <1>1, <2>0, <2>2, <2>4, <3>1
    <3>4. QED
      BY <3>2, <3>3
  <2>6. /\ Len(nodes) \in Nat /\ Len(nodes') = Len(nodes) + 1
        /\ nodes'[Len(nodes) + 1].box = Head(q) /\ Head(q) = PanelAt(Len(nodes))
        /\ Planned \in Nat /\ Len(nodes) < Planned
    BY <2>1, PlannedAfterLeaf
  <2>7. Justified(n + 1)'
    <3>1. Len(nodes) + 1 \in LeafNodes'
      BY <2>1, LeavesAfterLeaf
    <3>2. Len(nodes) + 1 \in 1 .. Len(nodes')
      BY <2>6
    <3>3. nodes'[Len(nodes) + 1].seen = s
      BY <2>1, SeenAfterVisit
    <3>4. (Kind = "RelativeMax")' \/ ExceedsTol(s)'
      BY <2>2, VerdictKept
    <3>5. nodes'[Len(nodes) + 1].box = panels'[n + 1].box
      BY <2>3, <2>4, <2>6
    <3>6. PICK i \in 1 .. Len(nodes') :
             nodes'[i].box = panels'[n + 1].box /\ i \in LeafNodes' /\ nodes'[i].seen = s
      BY <3>1, <3>2, <3>3, <3>5
    <3>7. QED
      BY <3>4, <3>6 DEF Justified, ExceedsTol, UsesTail, GridExceeds, PanelScale, PanelMax
  <2>8. Reports(n + 1)'
    <3>1. ASSUME NEW m \in 1 .. n
          PROVE  panels'[m].box # Head(q)
      <4>1. PICK i \in 1 .. Len(nodes) : nodes[i].box = panels[m].box
        BY <1>1, <2>0 DEF Justified
      <4>2. panels'[m].box = PanelAt(i - 1)
        BY <2>4, <4>1, PlannedFacts
      <4>3. /\ i - 1 \in 0 .. Planned - 1 /\ Len(nodes) \in 0 .. Planned - 1
            /\ i - 1 # Len(nodes)
        BY <2>6
      <4>4. QED
        BY <2>6, <4>2, <4>3 DEF Distinct
    <3>2. QED
      BY <2>0, <2>2, <2>3, <2>4, <3>1
  <2>9. QED
    BY <2>0, <2>4, <2>5, <2>7, <2>8
<1>7. QED
  <2>1. \A s \in Samples : AcceptLeaf(s) \/ Subdivide(s) => panels' = panels
    BY DEF AcceptLeaf, Subdivide
  <2>2. QED
    BY <1>4, <1>5, <1>6, <2>1, StepKinds

LEMMA StartedPInv == Started => PInv
<1>. SUFFICES ASSUME NEW b \in Nat, Fresh(b) PROVE PInv
  BY DEF Started
<1>1. IInv
  BY StartedIInv DEF Started
<1>2. Len(q) = 1 /\ q[1] = <<b>> /\ Len(<<b>>) = 1 /\ nodes = <<>> /\ Len(nodes) = 0
      /\ panels = <<>> /\ Len(panels) = 0
  BY DEF Fresh
<1>3. Planned = 1 /\ PanelAt(0) = <<b>>
  BY <1>2 DEF Planned, PanelAt
<1>4. Distinct /\ Ancestry /\ Above
  BY <1>2, <1>3 DEF Distinct, Ancestry, Above
<1>5. PanelsExact
  BY <1>2 DEF PanelsExact
<1>6. QED
  BY <1>1, <1>4, <1>5 DEF PInv

LEMMA InitPInv == Init => PInv
BY InitStarted, StartedPInv

LEMMA StepPInv == PInv /\ [Next]_vars => PInv'
<1>. SUFFICES ASSUME PInv, [Next]_vars PROVE PInv'
  OBVIOUS
<1>1. IInv'
  BY StepIInv DEF PInv
<1>2. CASE Next
  <2>1. TypeOK /\ Level
    BY DEF PInv, IInv
  <2>2. QED
    BY <1>1, <1>2, <2>1, StepDistinct, StepAncestry, StepAbove, StepPanelsExact DEF PInv
<1>3. CASE UNCHANGED vars
  <2>. USE <1>3 DEF vars, treeVars
  <2>1. Distinct' /\ Ancestry' /\ Above'
    BY DEF PInv, Distinct, Ancestry, Above, Planned, PanelAt
  <2>2. PanelsExact'
    BY DEF PInv, PanelsExact, Fits32, LeafNodes, IsLeaf, Kind, LowDegree, ExceedsTol,
           UsesTail, GridExceeds, PanelScale, PanelMax
  <2>3. QED
    BY <1>1, <2>1, <2>2 DEF PInv
<1>4. QED
  BY <1>2, <1>3

(* Panels are distinct, and what is reported is exact, in every state too. *)
THEOREM PInvHolds == Spec => []PInv
BY InitPInv, StepPInv, PTL DEF Spec

(* Each panel reported as non-converged is reported once, and is a leaf of *)
(* the last allowed level that fails its own test, for every dimension and *)
(* every order in which the search meets converged and failing panels.     *)
THEOREM ReportsExact == Spec => []PanelsExact
BY PInvHolds, PTL DEF PInv

-----------------------------------------------------------------------------
(* The refinement of Tiling.                                               *)

Queued == {q[k] : k \in 1 .. Len(q)}
Closed == {nodes[i].box : i \in {j \in 1 .. Len(nodes) : nodes[j].poly_eval_id # kLeafSentinel}}
RootSets == {{<<bin>>} : bin \in Bins}

LEMMA InitTiles == Init => Queued \in RootSets /\ Closed = {}
<1>. SUFFICES ASSUME Init PROVE Queued \in RootSets /\ Closed = {}
  OBVIOUS
<1>1. PICK bin \in Bins : q = << <<bin>> >>
  BY DEF Init
<1>2. 1 .. Len(q) = {1} /\ q[1] = <<bin>>
  BY <1>1
<1>3. Queued = {<<bin>>}
  BY <1>2 DEF Queued
<1>4. 1 .. Len(nodes) = {}
  BY DEF Init
<1>5. QED
  BY <1>3, <1>4 DEF RootSets, Closed

(* The head of the queue is queued once.                                   *)
LEMMA HeadQueuedOnce ==
  ASSUME TypeOK, Level, Distinct, NEW s \in Samples, Visit(s)
  PROVE  /\ Head(q) \in Queued
         /\ {q[k] : k \in 2 .. Len(q)} = Queued \ {Head(q)}
<1>1. Len(q) \in Nat \ {0} /\ Head(q) = q[1]
  BY VisitFacts
<1>2. ASSUME NEW k \in 2 .. Len(q)
      PROVE  q[k] # q[1]
  <2>1. /\ q[k] = PanelAt(Len(nodes) + k - 1) /\ q[1] = PanelAt(Len(nodes) + 1 - 1)
        /\ Len(nodes) \in Nat
    BY <1>1, PlannedFacts
  <2>2. /\ Len(nodes) + k - 1 \in 0 .. Planned - 1
        /\ Len(nodes) + 1 - 1 \in 0 .. Planned - 1
        /\ Len(nodes) + k - 1 # Len(nodes) + 1 - 1
    BY <1>1, <2>1 DEF Planned
  <2>3. QED
    BY <2>1, <2>2 DEF Distinct
<1>3. 1 .. Len(q) = {1} \cup 2 .. Len(q)
  BY <1>1
<1>4. QED
  BY <1>1, <1>2, <1>3 DEF Queued

(* A leaf closes its panel.                                                *)
LEMMA LeafCloses ==
  ASSUME TypeOK, Level, Distinct, Len(polyfits') <= kLeafSentinel,
         NEW s \in Samples, AddsLeaf(s)
  PROVE  Queued' = Queued \ {Head(q)} /\ Closed' = Closed \cup {Head(q)}
<1>1. /\ Len(q) \in Nat \ {0} /\ Len(q') = Len(q) - 1
      /\ \A k \in 1 .. Len(q) - 1 : q'[k] = q[k + 1]
  BY VisitFacts DEF AddsLeaf
<1>2. Queued' = {q[k] : k \in 2 .. Len(q)}
  <2>1. ASSUME NEW k \in 1 .. Len(q')
        PROVE  k + 1 \in 2 .. Len(q) /\ q'[k] = q[k + 1]
    BY <1>1
  <2>2. ASSUME NEW k \in 2 .. Len(q)
        PROVE  k - 1 \in 1 .. Len(q') /\ q'[k - 1] = q[k]
    BY <1>1
  <2>3. Queued' \subseteq {q[k] : k \in 2 .. Len(q)}
    BY <2>1 DEF Queued
  <2>4. \A k \in 2 .. Len(q) : q[k] \in Queued'
    BY <2>2 DEF Queued
  <2>5. QED
    BY <2>3, <2>4
<1>3. Queued' = Queued \ {Head(q)}
  BY <1>2, HeadQueuedOnce DEF AddsLeaf
<1>4. /\ Len(nodes) \in Nat /\ Len(nodes') = Len(nodes) + 1
      /\ nodes'[Len(nodes) + 1].box = Head(q)
      /\ \A i \in 1 .. Len(nodes) : nodes'[i] = nodes[i]
  BY PlannedAfterLeaf
<1>5. nodes'[Len(nodes) + 1].poly_eval_id # kLeafSentinel
  <2>1. Len(polyfits) \in Nat /\ Len(polyfits) < kLeafSentinel
    BY LeafFacts, LenProperties, ConstantsOK DEF TypeOK
  <2>2. Cast32(Len(polyfits)) # kLeafSentinel
    BY <2>1, CastRange, ConstantsOK
  <2>3. Leaf(Len(polyfits), s).poly_eval_id = Cast32(Len(polyfits))
    BY DEF Leaf, Node
  <2>4. QED
    BY <2>2, <2>3, LeafFacts
<1>6. {j \in 1 .. Len(nodes') : nodes'[j].poly_eval_id # kLeafSentinel}
        = {j \in 1 .. Len(nodes) : nodes[j].poly_eval_id # kLeafSentinel} \cup {Len(nodes) + 1}
  BY <1>4, <1>5
<1>7. Closed' = Closed \cup {Head(q)}
  BY <1>4, <1>6 DEF Closed
<1>8. QED
  BY <1>3, <1>7

(* A rejected panel above the last level is replaced by its children.      *)
LEMMA SubdivideSplits ==
  ASSUME TypeOK, Level, Distinct, NEW s \in Samples, Subdivide(s)
  PROVE  /\ Queued' = (Queued \ {Head(q)}) \cup {Append(Head(q), c) : c \in 0 .. NChild - 1}
         /\ Closed' = Closed
<1>1. Len(q) \in Nat \ {0} /\ NChild \in Nat \ {0}
  BY VisitFacts, NChildType DEF Subdivide
<1>2. /\ Len(q') = Len(q) - 1 + NChild
      /\ \A k \in 1 .. Len(q) - 1 : q'[k] = q[k + 1]
      /\ \A c \in 0 .. NChild - 1 : q'[Len(q) + c] = Append(Head(q), c)
  BY SubdivideFacts DEF Child
<1>3. Queued' = {q[k] : k \in 2 .. Len(q)} \cup {Append(Head(q), c) : c \in 0 .. NChild - 1}
  <2>1. ASSUME NEW k \in 1 .. Len(q')
        PROVE  q'[k] \in {q[i] : i \in 2 .. Len(q)} \cup {Append(Head(q), c) : c \in 0 .. NChild - 1}
    <3>1. CASE k <= Len(q) - 1
      <4>1. k + 1 \in 2 .. Len(q) /\ q'[k] = q[k + 1]
        BY <1>1, <1>2, <3>1
      <4>2. QED
        BY <4>1
    <3>2. CASE ~(k <= Len(q) - 1)
      <4>1. PICK c : c = k - Len(q)
        OBVIOUS
      <4>2. c \in 0 .. NChild - 1 /\ k = Len(q) + c
        BY <1>1, <1>2, <3>2, <4>1
      <4>3. q'[k] = Append(Head(q), c)
        BY <1>2, <4>2
      <4>4. QED
        BY <4>2, <4>3
    <3>3. QED
      BY <3>1, <3>2
  <2>2. ASSUME NEW k \in 2 .. Len(q)
        PROVE  q[k] \in Queued'
    <3>1. k - 1 \in 1 .. Len(q') /\ q'[k - 1] = q[k]
      BY <1>1, <1>2
    <3>2. QED
      BY <3>1 DEF Queued
  <2>3. ASSUME NEW c \in 0 .. NChild - 1
        PROVE  Append(Head(q), c) \in Queued'
    <3>1. Len(q) + c \in 1 .. Len(q') /\ q'[Len(q) + c] = Append(Head(q), c)
      <4>1. Len(q) + c \in 1 .. Len(q')
        BY <1>1, <1>2
      <4>2. QED
        BY <1>2, <4>1
    <3>2. QED
      BY <3>1 DEF Queued
  <2>4. QED
    BY <2>1, <2>2, <2>3 DEF Queued
<1>4. {q[k] : k \in 2 .. Len(q)} = Queued \ {Head(q)}
  BY HeadQueuedOnce DEF Subdivide
<1>5. /\ Len(nodes) \in Nat /\ Len(nodes') = Len(nodes) + 1
      /\ \A i \in 1 .. Len(nodes) : nodes'[i] = nodes[i]
      /\ nodes'[Len(nodes) + 1].poly_eval_id = kLeafSentinel
  <2>1. Interior(s).poly_eval_id = kLeafSentinel
    BY DEF Interior, Node
  <2>2. QED
    BY <2>1, SubdivideFacts
<1>6. {j \in 1 .. Len(nodes') : nodes'[j].poly_eval_id # kLeafSentinel}
        = {j \in 1 .. Len(nodes) : nodes[j].poly_eval_id # kLeafSentinel}
  BY <1>5
<1>7. Closed' = Closed
  BY <1>5, <1>6 DEF Closed
<1>8. QED
  BY <1>3, <1>4, <1>7

(* Whatever the order of the search and the verdicts on the panels, each   *)
(* visit closes one panel of the tiling or replaces it by its children, as *)
(* long as the pool has room for the 32-bit numbers of the leaves: a leaf  *)
(* numbered kLeafSentinel would read as an interior node.                  *)
THEOREM BuildTiles ==
  Spec /\ [](Len(polyfits) <= kLeafSentinel) => ImplementsTiling
<1>1. Init => Tiling!Init
  BY InitTiles DEF Tiling!Init, Queued, Closed, RootSets
<1>2. ASSUME PInv, Len(polyfits') <= kLeafSentinel, Next
      PROVE  Tiling!Next \/ UNCHANGED << Queued, Closed >>
  <2>1. TypeOK /\ Level /\ Distinct
    BY <1>2 DEF PInv, IInv
  <2>2. CASE Idle \/ RejectTolKind
    BY <2>2 DEF Idle, RejectTolKind, Queued, Closed
  <2>3. ASSUME NEW s \in Samples, AddsLeaf(s)
        PROVE  Tiling!Next
    <3>1. Queued' = Queued \ {Head(q)} /\ Closed' = Closed \cup {Head(q)} /\ Head(q) \in Queued
      BY <1>2, <2>1, <2>3, LeafCloses, HeadQueuedOnce DEF AddsLeaf
    <3>2. PICK b : b = Head(q)
      OBVIOUS
    <3>3. Tiling!Close(b) /\ b \in Queued
      BY <3>1, <3>2 DEF Tiling!Close, Queued, Closed
    <3>4. QED
      BY <3>3 DEF Tiling!Next, Queued
  <2>4. ASSUME NEW s \in Samples, Subdivide(s)
        PROVE  Tiling!Next
    <3>1. /\ Queued' = (Queued \ {Head(q)}) \cup {Append(Head(q), c) : c \in 0 .. NChild - 1}
          /\ Closed' = Closed /\ Head(q) \in Queued
      BY <2>1, <2>4, SubdivideSplits, HeadQueuedOnce DEF Subdivide
    <3>2. PICK b : b = Head(q)
      OBVIOUS
    <3>3. Tiling!Split(b) /\ b \in Queued
      BY <3>1, <3>2 DEF Tiling!Split, Tiling!ChildrenOf, Queued, Closed
    <3>4. QED
      BY <3>3 DEF Tiling!Next, Queued
  <2>5. QED
    BY <1>2, <2>1, <2>2, <2>3, <2>4, StepKinds
<1>3. UNCHANGED vars => UNCHANGED << Queued, Closed >>
  BY DEF vars, treeVars, Queued, Closed
<1>4. PInv /\ (Len(polyfits) <= kLeafSentinel)' /\ [Next]_vars => [Tiling!Next]_(Tiling!vars)
  BY <1>2, <1>3 DEF Tiling!vars, Queued, Closed
<1>5. QED
  BY <1>1, <1>4, PInvHolds, PTL DEF Spec, ImplementsTiling, Tiling!Spec

-----------------------------------------------------------------------------
(* The leaf table.                                                         *)

(* One step of the descent: from node k (0-based) towards child c.         *)
Towards(k, c) ==
  IF IsLeaf(nodes[k + 1]) THEN k ELSE nodes[k + 1].first_child + c

(* at is the descent towards cell, up to level n.                          *)
DescentTo(at, cell, n) ==
  at = [i \in 0 .. n |-> IF i = 0 THEN 0 ELSE Towards(at[i - 1], cell[i])]

LEMMA DescentExists ==
  ASSUME NEW cell, NEW n \in Nat
  PROVE  \E at : DescentTo(at, cell, n)
<1>. DEFINE S == {m \in Nat : \E at : DescentTo(at, cell, m)}
<1>1. 0 \in S
  <2>1. PICK at : at = [i \in 0 .. 0 |-> 0]
    OBVIOUS
  <2>2. at = [i \in 0 .. 0 |-> IF i = 0 THEN 0 ELSE Towards(at[i - 1], cell[i])]
    BY <2>1
  <2>3. QED
    BY <2>2 DEF DescentTo
<1>2. ASSUME NEW m \in Nat, m \in S
      PROVE  m + 1 \in S
  <2>1. PICK f : f = [i \in 0 .. m |-> IF i = 0 THEN 0 ELSE Towards(f[i - 1], cell[i])]
    BY <1>2 DEF DescentTo
  <2>2. PICK g : g = [i \in 0 .. m + 1 |-> IF i <= m THEN f[i] ELSE Towards(f[m], cell[m + 1])]
    OBVIOUS
  <2>3. ASSUME NEW i \in 0 .. m + 1
        PROVE  g[i] = IF i = 0 THEN 0 ELSE Towards(g[i - 1], cell[i])
    <3>1. CASE i <= m
      <4>1. g[i] = f[i] /\ f[i] = IF i = 0 THEN 0 ELSE Towards(f[i - 1], cell[i])
        BY <2>1, <2>2, <3>1
      <4>2. i # 0 => g[i - 1] = f[i - 1]
        BY <2>2, <3>1
      <4>3. QED
        BY <4>1, <4>2
    <3>2. CASE i = m + 1
      <4>1. g[i] = Towards(f[m], cell[m + 1]) /\ g[i - 1] = f[m] /\ i # 0
        BY <2>2, <3>2
      <4>2. QED
        BY <3>2, <4>1
    <3>3. QED
      BY <3>1, <3>2
  <2>4. g = [i \in 0 .. m + 1 |-> IF i = 0 THEN 0 ELSE Towards(g[i - 1], cell[i])]
    BY <2>2, <2>3
  <2>5. QED
    BY <2>4 DEF DescentTo
<1>3. n \in S
  <2>. HIDE DEF S
  <2>1. Nat \subseteq S
    BY <1>1, <1>2, NatSetInduction
  <2>2. QED
    BY <2>1
<1>4. QED
  BY <1>3

LEMMA DescendIsDescent ==
  ASSUME NEW cell, Len(cell) \in Nat
  PROVE  \E at : DescentTo(at, cell, Len(cell)) /\ Descend(cell) = at[Len(cell)]
<1>. DEFINE D(at) == at = [i \in 0 .. Len(cell) |->
                       IF i = 0 THEN 0
                       ELSE LET node == nodes[at[i - 1] + 1]
                            IN  IF IsLeaf(node) THEN at[i - 1] ELSE node.first_child + cell[i]]
<1>1. \E at : D(at)
  BY DescentExists DEF DescentTo, Towards
<1>2. D(CHOOSE at : D(at))
  BY <1>1
<1>3. Descend(cell) = (CHOOSE at : D(at))[Len(cell)]
  BY DEF Descend
<1>4. QED
  BY <1>2, <1>3 DEF DescentTo, Towards

(* After i steps towards cell: a node on the way, and an interior one only *)
(* if it lies at depth i.                                                  *)
OnPath(k, cell, i) ==
  /\ k \in 0 .. Len(nodes) - 1
  /\ Len(nodes[k + 1].box) <= i + 1
  /\ \A j \in 1 .. Len(nodes[k + 1].box) :
       nodes[k + 1].box[j] = IF j = 1 THEN nodes[1].box[1] ELSE cell[j - 1]
  /\ ~IsLeaf(nodes[k + 1]) => Len(nodes[k + 1].box) = i + 1

LEMMA StepOnPath ==
  ASSUME PInv, q = <<>>, Fits32, NEW cell, NEW k, NEW i \in Nat, OnPath(k, cell, i),
         cell[i + 1] \in 0 .. NChild - 1
  PROVE  OnPath(Towards(k, cell[i + 1]), cell, i + 1)
<1>1. TypeOK /\ ChildLinks
  BY DEF PInv, IInv
<1>2. Len(nodes) \in Nat /\ k \in 0 .. Len(nodes) - 1 /\ Planned = Len(nodes)
  BY <1>1, PlannedFacts DEF OnPath, Planned
<1>3. nodes[k + 1] \in NodeRecord /\ nodes[k + 1].box \in Box /\ Len(nodes[k + 1].box) \in Nat
  BY <1>1, <1>2, PlannedFacts, LenProperties DEF NodeRecord, Box
<1>4. CASE IsLeaf(nodes[k + 1])
  <2>1. Towards(k, cell[i + 1]) = k
    BY <1>4 DEF Towards
  <2>2. QED
    BY <1>3, <1>4, <2>1 DEF OnPath
<1>5. CASE ~IsLeaf(nodes[k + 1])
  <2>1. PICK m : m = nodes[k + 1].first_child + cell[i + 1]
    OBVIOUS
  <2>2. Towards(k, cell[i + 1]) = m
    BY <1>5, <2>1 DEF Towards
  <2>3. k + 1 \in 1 .. Len(nodes) \ LeafNodes
    BY <1>2, <1>5 DEF LeafNodes
  <2>4. m < Planned /\ PanelAt(m) = Child(nodes[k + 1].box, cell[i + 1])
    BY <1>1, <2>1, <2>3 DEF ChildLinks
  <2>5. m \in 0 .. Len(nodes) - 1 /\ cell[i + 1] \in Nat
    BY <1>2, <1>3, <2>1, <2>4, ConstantsOK, NChildType DEF NodeRecord
  <2>6. nodes[m + 1].box = Child(nodes[k + 1].box, cell[i + 1])
    BY <1>2, <2>4, <2>5 DEF PanelAt
  <2>. DEFINE b == nodes[k + 1].box
              d == nodes[m + 1].box
  <2>7. /\ Len(d) = Len(b) + 1 /\ \A j \in 1 .. Len(b) : d[j] = b[j]
        /\ d[Len(b) + 1] = cell[i + 1]
    <3>1. d = Child(b, cell[i + 1]) /\ b \in Box /\ cell[i + 1] \in Nat
      BY <1>3, <2>5, <2>6
    <3>. HIDE DEF b, d
    <3>2. PICK c : c = cell[i + 1]
      OBVIOUS
    <3>3. d = Child(b, c) /\ b \in Box /\ c \in Nat
      BY <3>1, <3>2
    <3>4. /\ Len(d) = Len(b) + 1 /\ \A j \in 1 .. Len(b) : d[j] = b[j]
          /\ d[Len(b) + 1] = c
      BY <3>3, ChildType
    <3>5. QED
      BY <3>2, <3>4
  <2>8. /\ Len(b) = i + 1
        /\ \A j \in 1 .. Len(b) : b[j] = IF j = 1 THEN nodes[1].box[1] ELSE cell[j - 1]
    BY <1>5 DEF OnPath
  <2>. HIDE DEF b, d
  <2>9. Len(d) = (i + 1) + 1
    BY <2>7, <2>8
  <2>10. ASSUME NEW j \in 1 .. Len(d)
         PROVE  d[j] = IF j = 1 THEN nodes[1].box[1] ELSE cell[j - 1]
    <3>1. CASE j \in 1 .. Len(b)
      BY <2>7, <2>8, <3>1
    <3>2. CASE j = i + 2
      BY <2>7, <2>8, <3>2
    <3>3. QED
      BY <2>7, <2>8, <3>1, <3>2
  <2>11. QED
    BY <2>2, <2>5, <2>9, <2>10 DEF OnPath, d
<1>6. QED
  BY <1>4, <1>5

(* The descent towards a cell of the deepest level ends in a leaf that     *)
(* holds the cell.                                                         *)
LEMMA DescendFindsLeaf ==
  ASSUME PInv, pc = "head", q = <<>>, Fits32, NEW cell \in Cells
  PROVE  /\ Len(cell) = max_depth_ /\ max_depth_ \in Nat
         /\ Descend(cell) \in 0 .. Len(nodes) - 1
         /\ Descend(cell) + 1 \in LeafNodes
         /\ OnPath(Descend(cell), cell, max_depth_)
<1>1. /\ TypeOK /\ ChildLinks /\ Ancestry /\ Above
      /\ max_depth_ \in Nat /\ cell \in [1 .. max_depth_ -> 0 .. NChild - 1]
      /\ NChild \in Nat \ {0}
  BY NChildType DEF PInv, IInv, TypeOK, Cells
<1>2. Len(cell) = max_depth_ /\ \A i \in 1 .. max_depth_ : cell[i] \in 0 .. NChild - 1
  <2>1. cell \in Seq(0 .. NChild - 1)
    BY <1>1, IsASeq
  <2>2. QED
    BY <1>1, <2>1, LenProperties
<1>3. PICK at : DescentTo(at, cell, max_depth_) /\ Descend(cell) = at[max_depth_]
  BY <1>1, <1>2, DescendIsDescent
<1>4. Len(nodes) \in Nat /\ Planned = Len(nodes)
  BY <1>1, PlannedFacts DEF Planned
<1>5. OnPath(at[0], cell, 0)
  <2>1. at[0] = 0
    BY <1>1, <1>3 DEF DescentTo
  <2>2. Len(nodes) > 0 /\ Len(nodes[1].box) = 1
    BY <1>1, <1>4, PlannedFacts DEF Ancestry
  <2>3. OnPath(0, cell, 0)
    <3>1. 0 + 1 = 1 /\ 0 \in 0 .. Len(nodes) - 1
      BY <1>4, <2>2
    <3>2. \A j \in 1 .. Len(nodes[1].box) : j = 1
      BY <2>2
    <3>3. \A j \in 1 .. Len(nodes[1].box) :
            nodes[1].box[j] = IF j = 1 THEN nodes[1].box[1] ELSE cell[j - 1]
      BY <3>2
    <3>4. Len(nodes[0 + 1].box) = 1 /\ nodes[0 + 1] = nodes[1]
      BY <2>2, <3>1
    <3>5. QED
      BY <3>1, <3>3, <3>4 DEF OnPath
  <2>4. QED
    BY <2>1, <2>3
<1>6. ASSUME NEW i \in 0 .. max_depth_ - 1, OnPath(at[i], cell, i)
      PROVE  OnPath(at[i + 1], cell, i + 1)
  <2>1. at[i + 1] = Towards(at[i], cell[i + 1]) /\ cell[i + 1] \in 0 .. NChild - 1
    BY <1>1, <1>2, <1>3 DEF DescentTo
  <2>2. i \in Nat
    BY <1>1
  <2>3. PICK k : k = at[i]
    OBVIOUS
  <2>4. OnPath(Towards(k, cell[i + 1]), cell, i + 1)
    BY <1>6, <2>1, <2>2, <2>3, StepOnPath
  <2>5. QED
    BY <2>1, <2>3, <2>4
<1>7. OnPath(at[max_depth_], cell, max_depth_)
  <2>. DEFINE S == {i \in Nat : i <= max_depth_ => OnPath(at[i], cell, i)}
  <2>1. 0 \in S
    BY <1>5
  <2>2. ASSUME NEW i \in Nat, i \in S
        PROVE  i + 1 \in S
    BY <1>1, <1>6, <2>2
  <2>. HIDE DEF S
  <2>3. max_depth_ \in S
    <3>1. Nat \subseteq S
      BY <2>1, <2>2, NatSetInduction
    <3>2. QED
      BY <1>1, <3>1
  <2>4. QED
    BY <1>1, <2>3 DEF S
<1>8. PICK k : k = at[max_depth_]
  OBVIOUS
<1>9. k \in 0 .. Len(nodes) - 1 /\ Descend(cell) = k /\ OnPath(k, cell, max_depth_)
  BY <1>3, <1>7, <1>8 DEF OnPath
<1>10. IsLeaf(nodes[k + 1])
  <2>1. SUFFICES ASSUME ~IsLeaf(nodes[k + 1]) PROVE FALSE
    OBVIOUS
  <2>2. k + 1 \in 1 .. Len(nodes) \ LeafNodes /\ 0 \in 0 .. NChild - 1
    BY <1>1, <1>4, <1>9, <2>1 DEF LeafNodes
  <2>3. PICK m : m = nodes[k + 1].first_child + 0
    OBVIOUS
  <2>4. m < Planned /\ PanelAt(m) = Child(nodes[k + 1].box, 0)
    BY <1>1, <2>2, <2>3 DEF ChildLinks
  <2>5. nodes[k + 1] \in NodeRecord /\ nodes[k + 1].box \in Box
    BY <1>1, <2>2, PlannedFacts DEF NodeRecord
  <2>6. m + 1 \in 1 .. Len(nodes) /\ nodes[m + 1].box = PanelAt(m)
    BY <1>4, <2>3, <2>4, <2>5, ConstantsOK DEF NodeRecord, PanelAt
  <2>7. Len(nodes[m + 1].box) = Len(nodes[k + 1].box) + 1 /\ Len(nodes[k + 1].box) = max_depth_ + 1
    <3>1. Len(Child(nodes[k + 1].box, 0)) = Len(nodes[k + 1].box) + 1
      BY <2>5, ChildType
    <3>2. QED
      BY <1>9, <2>1, <2>4, <2>6, <3>1 DEF OnPath
  <2>8. QED
    BY <1>1, <2>6, <2>7 DEF Above, Depth
<1>11. k + 1 \in LeafNodes
  BY <1>4, <1>9, <1>10 DEF LeafNodes
<1>12. QED
  BY <1>1, <1>2, <1>9, <1>11

LEMMA TableHolds ==
  ASSUME PInv, BuildLeafTable
  PROVE  TableCovers'
<1>1. SUFFICES ASSUME Fits32, HasTable, NEW cell \in Cells
               PROVE  /\ CellLeaf(cell) \in start.pool .. Len(polyfits) - 1
                      /\ IsPrefix(polyfits[CellLeaf(cell) + 1], <<nodes[1].box[1]>> \o cell)
  <2>1. /\ UNCHANGED << start, polyfits, nodes, curr_child_idx, max_depth_ >>
        /\ leaf_table' = IF HasTable THEN [cell \in Cells |-> CellLeaf(cell)] ELSE <<>>
    BY DEF BuildLeafTable
  <2>2. (Fits32' <=> Fits32) /\ (HasTable' <=> HasTable) /\ Cells' = Cells
    BY <2>1 DEF Fits32, HasTable, Cells
  <2>3. QED
    BY <1>1, <2>1, <2>2 DEF TableCovers
<1>2. pc = "head" /\ q = <<>> /\ TypeOK /\ LeafPool
  BY DEF BuildLeafTable, PInv, IInv
<1>3. PICK k : k = Descend(cell)
  OBVIOUS
<1>4. /\ Len(cell) = max_depth_ /\ max_depth_ \in Nat
      /\ k \in 0 .. Len(nodes) - 1 /\ k + 1 \in LeafNodes
      /\ OnPath(k, cell, max_depth_)
  BY <1>1, <1>2, <1>3, DescendFindsLeaf
<1>5. /\ nodes[k + 1].poly_eval_id \in start.pool .. Len(polyfits) - 1
      /\ polyfits[nodes[k + 1].poly_eval_id + 1] = nodes[k + 1].box
  BY <1>1, <1>2, <1>4 DEF LeafPool
<1>6. CellLeaf(cell) = nodes[k + 1].poly_eval_id
  BY <1>3 DEF CellLeaf
<1>7. IsPrefix(nodes[k + 1].box, <<nodes[1].box[1]>> \o cell)
  <2>1. /\ nodes[k + 1].box \in Seq(Nat) /\ nodes[1].box \in Seq(Nat) /\ Len(nodes[1].box) = 1
        /\ Len(nodes) \in Nat
    <3>1. Len(nodes) \in Nat /\ Planned = Len(nodes)
      BY <1>2, PlannedFacts DEF Planned
    <3>2. 1 \in 1 .. Len(nodes) /\ Len(nodes[1].box) = 1
      BY <3>1, <1>2, PlannedFacts DEF PInv, Ancestry
    <3>3. QED
      BY <3>1, <3>2, <1>2, <1>4, PlannedFacts DEF NodeRecord, Box
  <2>. DEFINE r == nodes[1].box[1]
              b == nodes[k + 1].box
              path == <<r>> \o cell
  <2>2. r \in Nat /\ cell \in Seq(Nat)
    <3>1. cell \in [1 .. max_depth_ -> Nat]
      BY <1>1, <1>4, NChildType DEF Cells
    <3>2. cell \in Seq(Nat)
      BY <1>4, <3>1, IsASeq
    <3>3. QED
      BY <2>1, <3>2, ElementOfSeq
  <2>3. /\ b \in Seq(Nat) /\ Len(b) \in Nat /\ Len(b) <= max_depth_ + 1
        /\ \A j \in 1 .. Len(b) : b[j] = IF j = 1 THEN r ELSE cell[j - 1]
    BY <1>4, <2>1, LenProperties DEF OnPath
  <2>. HIDE DEF r, b
  <2>4. /\ path \in Seq(Nat) /\ Len(path) = max_depth_ + 1
        /\ \A j \in 1 .. Len(path) : path[j] = IF j = 1 THEN r ELSE cell[j - 1]
    <3>1. <<r>> \in Seq(Nat) /\ Len(<<r>>) = 1 /\ <<r>>[1] = r
      BY <2>2
    <3>2. /\ path \in Seq(Nat) /\ Len(path) = 1 + max_depth_
          /\ \A j \in 1 .. 1 + max_depth_ :
               path[j] = IF j <= 1 THEN <<r>>[j] ELSE cell[j - 1]
      BY <1>4, <2>2, <3>1, ConcatProperties
    <3>3. QED
      BY <1>4, <3>1, <3>2
  <2>. HIDE DEF path
  <2>5. SubSeq(path, 1, Len(b)) = b
    <3>1. /\ SubSeq(path, 1, Len(b)) \in Seq(Nat) /\ Len(SubSeq(path, 1, Len(b))) = Len(b)
          /\ \A j \in 1 .. Len(b) : SubSeq(path, 1, Len(b))[j] = path[j]
      <4>1. Len(b) \in Nat /\ \A j \in 1 .. Len(b) : path[j] \in Nat
        BY <1>4, <2>2, <2>3, <2>4, ElementOfSeq
      <4>2. QED
        BY <4>1, SubSeqProperties
    <3>2. \A j \in 1 .. Len(b) : path[j] = b[j]
      BY <1>4, <2>3, <2>4
    <3>3. QED
      BY <2>3, <3>1, <3>2, SeqEqual
  <2>6. QED
    BY <1>4, <2>3, <2>4, <2>5 DEF IsPrefix, path, r, b
<1>8. QED
  BY <1>5, <1>6, <1>7

(* The table of a finished shallow subtree sends every cell of the deepest *)
(* level to a leaf of this subtree whose panel holds the cell: the descent *)
(* it was filled with never leaves the tree, never stops above a leaf.     *)
THEOREM TableComplete == Spec => []TableCovers
<1>1. Init => TableCovers
  BY DEF Init, TableCovers
<1>2. PInv /\ TableCovers /\ [Next]_vars => TableCovers'
  <2>. SUFFICES ASSUME PInv, TableCovers, [Next]_vars PROVE TableCovers'
    OBVIOUS
  <2>1. CASE BuildLeafTable
    BY <2>1, TableHolds
  <2>2. CASE UNCHANGED vars
    BY <2>2 DEF vars, treeVars, TableCovers, Fits32, HasTable, Cells
  <2>3. ASSUME Next, ~BuildLeafTable
        PROVE  pc' # "built"
    <3>1. \A s \in Samples : Visit(s) => pc' = "level"
      BY DEF Visit
    <3>2. QED
      BY <2>3, <3>1 DEF Next, StartLevel, AcceptLeaf, ForceLeaf, Subdivide, RejectTolKind,
                        EndLevel
  <2>4. QED
    BY <2>1, <2>2, <2>3 DEF TableCovers
<1>3. QED
  BY <1>1, <1>2, PInvHolds, PTL DEF Spec

-----------------------------------------------------------------------------
(* What a fit needs of the subtree under construction besides PInv.        *)

(* Every panel of the subtree lies in bin b.                               *)
Rooted(b) == \A i \in 0 .. Planned - 1 : PanelAt(i)[1] = b

(* A finished subtree has nothing queued.                                  *)
NothingLeft == pc = "built" => q = <<>>

(* A panel of the last allowed level that was visited and not reported     *)
(* passes, whatever the width of the links.                                *)
FailuresReported ==
  \A i \in 1 .. Len(nodes) :
    \/ Depth(nodes[i].box) # input.max_depth
    \/ nodes[i].box \in Reported
    \/ PassesAt(nodes[i].seen, max_abs_f)

(* Only leaves have a polynomial.                                          *)
IdsOfLeaves ==
  \A i \in 1 .. Len(nodes) : IsLeaf(nodes[i]) \/ nodes[i].poly_eval_id = kLeafSentinel

LEMMA FirstOfChild ==
  ASSUME NEW b \in Box, NEW c \in Nat, Len(b) \in Nat \ {0}
  PROVE  Child(b, c)[1] = b[1]
<1>1. 1 \in 1 .. Len(b)
  OBVIOUS
<1>2. QED
  BY <1>1, ChildType

LEMMA StepRooted ==
  ASSUME TypeOK, Level, NEW b, Rooted(b), Next
  PROVE  Rooted(b)'
<1>1. CASE Idle \/ RejectTolKind
  BY <1>1 DEF Idle, RejectTolKind, Rooted, Planned, PanelAt
<1>2. ASSUME NEW s \in Samples, AddsLeaf(s)
      PROVE  Rooted(b)'
  BY <1>2, PlannedAfterLeaf DEF Rooted
<1>3. ASSUME NEW s \in Samples, Subdivide(s)
      PROVE  Rooted(b)'
  <2>1. /\ Planned' = Planned + NChild /\ Planned \in Nat /\ NChild \in Nat
        /\ Len(nodes) \in 0 .. Planned - 1 /\ Head(q) = PanelAt(Len(nodes))
        /\ \A i \in 0 .. Planned - 1 : PanelAt(i)' = PanelAt(i)
        /\ \A i \in Planned .. Planned + NChild - 1 :
             i - Planned \in 0 .. NChild - 1 /\ PanelAt(i)' = Child(Head(q), i - Planned)
    BY <1>3, PlannedAfterSubdivide, NChildType
  <2>2. Head(q) \in Box /\ Len(Head(q)) \in Nat \ {0}
    <3>1. Head(q) \in Box /\ Depth(Head(q)) = max_depth_ /\ max_depth_ \in Nat
      BY <1>3, VisitFacts DEF Subdivide, TypeOK
    <3>2. QED
      BY <3>1, LenProperties DEF Depth, Box
  <2>3. Head(q)[1] = b
    BY <2>1 DEF Rooted
  <2>4. ASSUME NEW i \in Planned .. Planned + NChild - 1
        PROVE  PanelAt(i)'[1] = b
    <3>1. PICK c : c = i - Planned
      OBVIOUS
    <3>2. c \in Nat /\ PanelAt(i)' = Child(Head(q), c)
      BY <2>1, <3>1
    <3>3. QED
      BY <2>2, <2>3, <3>2, FirstOfChild
  <2>5. SUFFICES ASSUME NEW i \in 0 .. Planned' - 1 PROVE PanelAt(i)'[1] = b
    BY DEF Rooted
  <2>6. CASE i \in 0 .. Planned - 1
    BY <2>1, <2>6 DEF Rooted
  <2>7. CASE i \in Planned .. Planned + NChild - 1
    BY <2>4, <2>7
  <2>8. QED
    BY <2>1, <2>6, <2>7
<1>4. QED
  BY <1>1, <1>2, <1>3, StepKinds

LEMMA StepNothingLeft ==
  ASSUME NothingLeft, Next
  PROVE  NothingLeft'
<1>1. \A s \in Samples : Visit(s) => pc' = "level"
  BY DEF Visit
<1>2. QED
  BY <1>1 DEF NothingLeft, Next, StartLevel, AcceptLeaf, ForceLeaf, Subdivide, RejectTolKind,
              EndLevel, BuildLeafTable

(* A measurement keeps its verdict, up to a larger scale.                  *)
LEMMA PassesKept ==
  ASSUME input' = input, max_abs_f \in Nat, max_abs_f' \in Nat, max_abs_f <= max_abs_f',
         NEW s \in Sample, PassesAt(s, max_abs_f)
  PROVE  PassesAt(s, max_abs_f)'
<1>1. PICK m \in Nat : m = max_abs_f'
  OBVIOUS
<1>2. PassesAt(s, m)
  BY <1>1, StillPasses
<1>3. UNCHANGED << UsesTail, Kind >>
  BY DEF UsesTail, Kind, LowDegree
<1>4. QED
  BY <1>1, <1>2, <1>3 DEF PassesAt, MeetsAt

LEMMA StepFailuresReported ==
  ASSUME TypeOK, Level, FailuresReported, Next
  PROVE  FailuresReported'
<1>1. CASE Idle \/ RejectTolKind
  BY <1>1 DEF Idle, RejectTolKind, FailuresReported, Reported, PassesAt, MeetsAt, UsesTail,
              Kind, LowDegree
<1>2. ASSUME NEW s \in Samples, AddsLeaf(s) \/ Subdivide(s), Reported \subseteq Reported',
             NEW i \in 1 .. Len(nodes)
      PROVE  \/ Depth(nodes'[i].box) # input'.max_depth
             \/ nodes'[i].box \in Reported'
             \/ PassesAt(nodes'[i].seen, max_abs_f')
  <2>1. /\ nodes'[i] = nodes[i] /\ max_abs_f' = CommittedScale(s) /\ input' = input
    BY <1>2, SeenAfterVisit
  <2>2. max_abs_f \in Nat /\ max_abs_f' \in Nat /\ max_abs_f <= max_abs_f'
    BY <2>1, ScaleType DEF TypeOK
  <2>3. nodes[i].seen \in Sample
    BY PlannedFacts DEF NodeRecord
  <2>4. PassesAt(nodes[i].seen, max_abs_f) => PassesAt(nodes[i].seen, max_abs_f')
    BY <2>2, <2>3, StillPasses
  <2>5. QED
    BY <1>2, <2>1, <2>4 DEF FailuresReported
<1>3. ASSUME NEW s \in Samples, AddsLeaf(s), AcceptLeaf(s) \/ ForceLeaf(s)
      PROVE  FailuresReported'
  <2>1. /\ Len(nodes) \in Nat /\ Len(nodes') = Len(nodes) + 1
        /\ nodes'[Len(nodes) + 1].seen = s /\ nodes'[Len(nodes) + 1].box = Head(q)
        /\ max_abs_f' = CommittedScale(s) /\ input' = input
    BY <1>3, SeenAfterVisit, PlannedAfterLeaf
  <2>2. Reported \subseteq Reported' /\ (ForceLeaf(s) => Head(q) \in Reported')
    BY <1>3, ReportedAfterLeaf
  <2>3. AcceptLeaf(s) => PassesAt(s, max_abs_f')
    <3>1. AcceptLeaf(s) => ~ExceedsTol(s)
      BY DEF AcceptLeaf, Rejected
    <3>2. QED
      BY <2>1, <3>1, AcceptedPasses
  <2>4. \A i \in 1 .. Len(nodes') :
          \/ Depth(nodes'[i].box) # input'.max_depth
          \/ nodes'[i].box \in Reported'
          \/ PassesAt(nodes'[i].seen, max_abs_f')
    BY <1>2, <1>3, <2>1, <2>2, <2>3
  <2>5. UNCHANGED << UsesTail, Kind >>
    BY <2>1 DEF UsesTail, Kind, LowDegree
  <2>6. QED
    BY <2>4, <2>5 DEF FailuresReported, PassesAt, MeetsAt
<1>4. ASSUME NEW s \in Samples, Subdivide(s)
      PROVE  FailuresReported'
  <2>1. /\ Len(nodes) \in Nat /\ Len(nodes') = Len(nodes) + 1
        /\ nodes'[Len(nodes) + 1].box = Head(q) /\ input' = input
    BY <1>4, SeenAfterVisit, PlannedAfterSubdivide
  <2>2. Reported' = Reported
    BY <1>4 DEF Subdivide, Reported
  <2>3. Depth(Head(q)) # input.max_depth
    <3>1. Depth(Head(q)) = max_depth_
      BY <1>4, VisitFacts DEF Subdivide
    <3>2. ~AtMaxDepth
      BY <1>4 DEF Subdivide, Visit, Level
    <3>3. QED
      BY <3>1, <3>2 DEF AtMaxDepth
  <2>4. \A i \in 1 .. Len(nodes') :
          \/ Depth(nodes'[i].box) # input'.max_depth
          \/ nodes'[i].box \in Reported'
          \/ PassesAt(nodes'[i].seen, max_abs_f')
    BY <1>2, <1>4, <2>1, <2>2, <2>3
  <2>5. UNCHANGED << UsesTail, Kind >>
    BY <2>1 DEF UsesTail, Kind, LowDegree
  <2>6. QED
    BY <2>4, <2>5 DEF FailuresReported, PassesAt, MeetsAt
<1>5. QED
  BY <1>1, <1>3, <1>4, StepKinds

LEMMA StepIdsOfLeaves ==
  ASSUME TypeOK, Level, IdsOfLeaves, Next
  PROVE  IdsOfLeaves'
<1>1. CASE Idle \/ RejectTolKind
  BY <1>1 DEF Idle, RejectTolKind, IdsOfLeaves, IsLeaf
<1>2. ASSUME NEW s \in Samples, AddsLeaf(s)
      PROVE  IdsOfLeaves'
  <2>1. IsLeaf(Leaf(Len(polyfits), s))
    BY DEF Leaf, Node, IsLeaf
  <2>2. QED
    BY <1>2, <2>1, LeafFacts DEF IdsOfLeaves, IsLeaf
<1>3. ASSUME NEW s \in Samples, Subdivide(s)
      PROVE  IdsOfLeaves'
  <2>1. Interior(s).poly_eval_id = kLeafSentinel
    BY DEF Interior, Node
  <2>2. QED
    BY <1>3, <2>1, SubdivideFacts DEF IdsOfLeaves, IsLeaf
<1>4. QED
  BY <1>1, <1>2, <1>3, StepKinds

(* The subtree of bin b under construction, or just finished.              *)
InTree(b) ==
  /\ PInv /\ Rooted(b) /\ NothingLeft /\ FailuresReported /\ IdsOfLeaves
  /\ pc # "UnsupportedTolKind"

LEMMA StepInTree ==
  ASSUME NEW b, InTree(b), ~Unsupported, Next
  PROVE  InTree(b)'
<1>1. TypeOK /\ Level
  BY DEF InTree, PInv, IInv
<1>2. PInv'
  BY StepPInv DEF InTree
<1>3. Rooted(b)' /\ NothingLeft' /\ FailuresReported' /\ IdsOfLeaves'
  BY <1>1, StepRooted, StepNothingLeft, StepFailuresReported, StepIdsOfLeaves DEF InTree
<1>4. pc' # "UnsupportedTolKind"
  <2>1. ~RejectTolKind
    BY DEF RejectTolKind
  <2>2. \A s \in Samples : Visit(s) => pc' = "level"
    BY DEF Visit
  <2>3. QED
    BY <2>1, <2>2 DEF InTree, Next, StartLevel, AcceptLeaf, ForceLeaf, Subdivide, EndLevel,
                      BuildLeafTable
<1>5. QED
  BY <1>2, <1>3, <1>4 DEF InTree

(* What a step of the subtree may do to what the bins share.               *)
LEMMA TreeEffects ==
  ASSUME TypeOK, Level, ~Unsupported, Next
  PROVE  /\ input' = input /\ start' = start
         /\ max_abs_f' \in Nat /\ max_abs_f <= max_abs_f'
         /\ polyfits' \in Seq(Box) /\ Len(polyfits) \in Nat /\ Len(polyfits') \in Nat
         /\ Len(polyfits) <= Len(polyfits')
         /\ \A i \in 1 .. Len(polyfits) : polyfits'[i] = polyfits[i]
<1>1. max_abs_f \in Nat /\ polyfits \in Seq(Box) /\ Len(polyfits) \in Nat
  BY LenProperties DEF TypeOK
<1>2. CASE Idle
  BY <1>1, <1>2 DEF Idle
<1>3. CASE RejectTolKind
  BY <1>3 DEF RejectTolKind
<1>4. ASSUME NEW s \in Samples, AddsLeaf(s)
      PROVE  /\ input' = input /\ start' = start
             /\ max_abs_f' \in Nat /\ max_abs_f <= max_abs_f'
             /\ polyfits' \in Seq(Box) /\ Len(polyfits') \in Nat
             /\ Len(polyfits) <= Len(polyfits')
             /\ \A i \in 1 .. Len(polyfits) : polyfits'[i] = polyfits[i]
  BY <1>1, <1>4, SeenAfterVisit, LeafFacts, ScaleType
<1>5. ASSUME NEW s \in Samples, Subdivide(s)
      PROVE  /\ input' = input /\ start' = start
             /\ max_abs_f' \in Nat /\ max_abs_f <= max_abs_f'
             /\ polyfits' = polyfits
  BY <1>1, <1>5, SeenAfterVisit, SubdivideFacts, ScaleType
<1>6. /\ input' = input /\ start' = start
      /\ max_abs_f' \in Nat /\ max_abs_f <= max_abs_f'
  <2>1. CASE Idle
    BY <1>1, <2>1 DEF Idle
  <2>2. QED
    BY <1>3, <1>4, <1>5, <2>1, StepKinds
<1>7. QED
  BY <1>1, <1>2, <1>3, <1>4, <1>5, <1>6, StepKinds

-----------------------------------------------------------------------------
(* The inductive invariant of the fit.                                     *)

PanelRecord == [box : Box, depth : Nat]
Tree == [nodes : Seq(NodeRecord), panels : Seq(PanelRecord)]

BoxesOf(ps) == {ps[j].box : j \in 1 .. Len(ps)}
LeafIndices(t) == {i \in 1 .. Len(t.nodes) : IsLeaf(t.nodes[i])}

Shared ==
  /\ input \in Input /\ max_abs_f \in Nat /\ polyfits \in Seq(Box)
  /\ base_depth = 0

(* Where the fit stands.  The probe never finds a full level below the     *)
(* domain, so there is one grid of bins and input_local is the input.      *)
Phases ==
  /\ phase \notin {"probe", "UnsupportedTolKind"} => ~Unsupported
  /\ phase = "probe" => subtrees = <<>> /\ polyfits = <<>>
  /\ phase = "tree" => Len(subtrees) < total_bins /\ InTree(Len(subtrees))

(* A finished subtree t of bin b: its panels lie in its bin and are        *)
(* reported once, and what it does not report passes against the scale of  *)
(* the whole fit so far.                                                   *)
Excused(t, i) ==
  t.nodes[i].box \in BoxesOf(t.panels) \/ PassesAt(t.nodes[i].seen, max_abs_f)
Sound(t, b) ==
  /\ \A i \in 1 .. Len(t.nodes) : t.nodes[i].box[1] = b
  /\ \A j \in 1 .. Len(t.panels) : t.panels[j].box[1] = b
  /\ \A j, m \in 1 .. Len(t.panels) : t.panels[j].box = t.panels[m].box => j = m
  /\ \A i \in 1 .. Len(t.nodes) : Depth(t.nodes[i].box) # input.max_depth \/ Excused(t, i)
  /\ FitFits32 => \A i \in LeafIndices(t) : Excused(t, i)
AllSound == \A k \in 1 .. Len(subtrees) : Sound(subtrees[k], k - 1)

(* The pool entries of the finished subtrees: all of the pool between two  *)
(* bins, what the current subtree found there inside a bin.                *)
Settled == IF phase = "tree" THEN start.pool ELSE Len(polyfits)
Id(k, i) == subtrees[k].nodes[i].poly_eval_id
Numbered ==
  FitFits32 /\ phase \in {"probe", "bins", "tree", "fitted"} =>
    /\ \A k \in 1 .. Len(subtrees) : \A i \in LeafIndices(subtrees[k]) :
         /\ Id(k, i) \in 0 .. Settled - 1
         /\ polyfits[Id(k, i) + 1] = subtrees[k].nodes[i].box
    /\ \A k, m \in 1 .. Len(subtrees) :
         \A i \in LeafIndices(subtrees[k]), j \in LeafIndices(subtrees[m]) :
           (k < m \/ (k = m /\ i < j)) => Id(k, i) < Id(m, j)
    /\ \A e \in 0 .. Settled - 1 :
         \E k \in 1 .. Len(subtrees) : \E i \in LeafIndices(subtrees[k]) : Id(k, i) = e

(* How the fit ends once every bin is built.                               *)
Finished ==
  phase \in {"fitted", "MaxDepthExceeded"} =>
    /\ Len(subtrees) = total_bins
    /\ non_converged_panels = AllPanels
    /\ phase = "MaxDepthExceeded" <=> (AllPanels # <<>> /\ ~input.allow_max_depth_leaves)

FInv == FitTypeOK /\ Shared /\ Phases /\ AllSound /\ Numbered /\ Finished

LEMMA TreeFacts ==
  ASSUME FitTypeOK
  PROVE  /\ subtrees \in Seq(Tree) /\ Len(subtrees) \in Nat
         /\ \A k \in 1 .. Len(subtrees) :
              /\ subtrees[k] \in Tree
              /\ Len(subtrees[k].nodes) \in Nat /\ Len(subtrees[k].panels) \in Nat
              /\ \A i \in 1 .. Len(subtrees[k].nodes) : subtrees[k].nodes[i] \in NodeRecord
              /\ \A j \in 1 .. Len(subtrees[k].panels) : subtrees[k].panels[j] \in PanelRecord
<1>1. subtrees \in Seq(Tree) /\ Len(subtrees) \in Nat
  BY LenProperties DEF FitTypeOK, Tree, NodeRecord, PanelRecord
<1>2. SUFFICES ASSUME NEW k \in 1 .. Len(subtrees)
               PROVE  /\ subtrees[k] \in Tree
                      /\ Len(subtrees[k].nodes) \in Nat /\ Len(subtrees[k].panels) \in Nat
                      /\ \A i \in 1 .. Len(subtrees[k].nodes) : subtrees[k].nodes[i] \in NodeRecord
                      /\ \A j \in 1 .. Len(subtrees[k].panels) : subtrees[k].panels[j] \in PanelRecord
  BY <1>1
<1>3. subtrees[k] \in Tree
  BY <1>1, ElementOfSeq
<1>4. subtrees[k].nodes \in Seq(NodeRecord) /\ subtrees[k].panels \in Seq(PanelRecord)
  BY <1>3 DEF Tree
<1>5. QED
  BY <1>3, <1>4, LenProperties, ElementOfSeq

-----------------------------------------------------------------------------
(* The panels of all bins.                                                 *)

(* f gathers the panels of the first n subtrees.                           *)
Gathers(f, n) ==
  f = [k \in 0 .. n |-> IF k = 0 THEN <<>> ELSE f[k - 1] \o subtrees[k].panels]

LEMMA GatheringExists ==
  ASSUME NEW n \in Nat
  PROVE  \E f : Gathers(f, n)
<1>. DEFINE S == {m \in Nat : \E f : Gathers(f, m)}
<1>1. 0 \in S
  <2>1. PICK f : f = [k \in 0 .. 0 |-> <<>>]
    OBVIOUS
  <2>2. f = [k \in 0 .. 0 |-> IF k = 0 THEN <<>> ELSE f[k - 1] \o subtrees[k].panels]
    BY <2>1
  <2>3. QED
    BY <2>2 DEF Gathers
<1>2. ASSUME NEW m \in Nat, m \in S
      PROVE  m + 1 \in S
  <2>1. PICK f : f = [k \in 0 .. m |-> IF k = 0 THEN <<>> ELSE f[k - 1] \o subtrees[k].panels]
    BY <1>2 DEF Gathers
  <2>2. PICK g : g = [k \in 0 .. m + 1 |->
                        IF k <= m THEN f[k] ELSE f[m] \o subtrees[m + 1].panels]
    OBVIOUS
  <2>3. ASSUME NEW k \in 0 .. m + 1
        PROVE  g[k] = IF k = 0 THEN <<>> ELSE g[k - 1] \o subtrees[k].panels
    <3>1. CASE k <= m
      <4>1. g[k] = f[k] /\ f[k] = IF k = 0 THEN <<>> ELSE f[k - 1] \o subtrees[k].panels
        BY <2>1, <2>2, <3>1
      <4>2. k # 0 => g[k - 1] = f[k - 1]
        BY <2>2, <3>1
      <4>3. QED
        BY <4>1, <4>2
    <3>2. CASE k = m + 1
      <4>1. g[k] = f[m] \o subtrees[m + 1].panels /\ g[k - 1] = f[m] /\ k # 0
        BY <2>2, <3>2
      <4>2. QED
        BY <3>2, <4>1
    <3>3. QED
      BY <3>1, <3>2
  <2>4. g = [k \in 0 .. m + 1 |-> IF k = 0 THEN <<>> ELSE g[k - 1] \o subtrees[k].panels]
    BY <2>2, <2>3
  <2>5. Gathers(g, m + 1)
    BY <2>4 DEF Gathers
  <2>6. QED
    BY <2>5
<1>3. n \in S
  <2>. HIDE DEF S
  <2>1. Nat \subseteq S
    BY <1>1, <1>2, NatSetInduction
  <2>2. QED
    BY <2>1
<1>4. QED
  BY <1>3

LEMMA AllPanelsGathers ==
  ASSUME Len(subtrees) \in Nat
  PROVE  \E f : Gathers(f, Len(subtrees)) /\ AllPanels = f[Len(subtrees)]
<1>. DEFINE D(f) == f = [k \in 0 .. Len(subtrees) |->
                      IF k = 0 THEN <<>> ELSE f[k - 1] \o subtrees[k].panels]
<1>1. \E f : D(f)
  BY GatheringExists DEF Gathers
<1>2. D(CHOOSE f : D(f))
  BY <1>1
<1>3. AllPanels = (CHOOSE f : D(f))[Len(subtrees)]
  BY DEF AllPanels
<1>4. QED
  BY <1>2, <1>3 DEF Gathers

(* The panels ps are those of the first n subtrees, each once.             *)
GatheredFrom(ps, n) ==
  /\ ps \in Seq(PanelRecord)
  /\ \A j \in 1 .. Len(ps) : \E k \in 1 .. n : ps[j].box \in BoxesOf(subtrees[k].panels)
  /\ \A k \in 1 .. n : BoxesOf(subtrees[k].panels) \subseteq BoxesOf(ps)
  /\ \A j, m \in 1 .. Len(ps) : ps[j].box = ps[m].box => j = m

LEMMA GatherOne ==
  ASSUME FitTypeOK, AllSound, NEW ps, NEW n \in Nat, n + 1 <= Len(subtrees), GatheredFrom(ps, n)
  PROVE  GatheredFrom(ps \o subtrees[n + 1].panels, n + 1)
<1>. DEFINE more == subtrees[n + 1].panels
            all == ps \o more
<1>1. n + 1 \in 1 .. Len(subtrees) /\ more \in Seq(PanelRecord) /\ Len(more) \in Nat
      /\ ps \in Seq(PanelRecord) /\ Len(ps) \in Nat
  BY TreeFacts, LenProperties DEF GatheredFrom, Tree
<1>. HIDE DEF more
<1>2. /\ all \in Seq(PanelRecord) /\ Len(all) = Len(ps) + Len(more)
      /\ \A j \in 1 .. Len(ps) + Len(more) :
           all[j] = IF j <= Len(ps) THEN ps[j] ELSE more[j - Len(ps)]
  BY <1>1, ConcatProperties
<1>. HIDE DEF all
<1>3. \A j \in 1 .. Len(ps) : j \in 1 .. Len(all) /\ all[j] = ps[j]
  BY <1>1, <1>2
<1>4. \A j \in 1 .. Len(more) : Len(ps) + j \in 1 .. Len(all) /\ all[Len(ps) + j] = more[j]
  <2>1. SUFFICES ASSUME NEW j \in 1 .. Len(more)
                 PROVE  Len(ps) + j \in 1 .. Len(all) /\ all[Len(ps) + j] = more[j]
    OBVIOUS
  <2>2. Len(ps) + j \in 1 .. Len(ps) + Len(more) /\ ~(Len(ps) + j <= Len(ps))
        /\ Len(ps) + j - Len(ps) = j
    BY <1>1
  <2>3. QED
    BY <1>2, <2>2
<1>5. ASSUME NEW j \in 1 .. Len(all), j > Len(ps)
      PROVE  j - Len(ps) \in 1 .. Len(more) /\ all[j] = more[j - Len(ps)]
  BY <1>1, <1>2, <1>5
<1>6. /\ \A k \in 1 .. n : k \in 1 .. Len(subtrees)
      /\ \A k \in 1 .. n : \A b \in BoxesOf(subtrees[k].panels) : b[1] = k - 1
      /\ \A j \in 1 .. Len(more) : more[j].box[1] = n
      /\ \A j, m \in 1 .. Len(more) : more[j].box = more[m].box => j = m
  <2>1. \A k \in 1 .. n : k \in 1 .. Len(subtrees)
    BY <1>1
  <2>2. \A k \in 1 .. Len(subtrees) : Sound(subtrees[k], k - 1)
    BY DEF AllSound
  <2>3. (n + 1) - 1 = n
    OBVIOUS
  <2>4. QED
    BY <1>1, <2>1, <2>2, <2>3 DEF Sound, BoxesOf, more
<1>7. ASSUME NEW j \in 1 .. Len(ps), NEW m \in 1 .. Len(more)
      PROVE  ps[j].box # more[m].box
  <2>1. PICK k \in 1 .. n : ps[j].box \in BoxesOf(subtrees[k].panels)
    BY DEF GatheredFrom
  <2>2. ps[j].box[1] = k - 1 /\ k - 1 # n
    BY <1>6, <2>1
  <2>3. QED
    BY <1>6, <2>2
<1>8. \A j \in 1 .. Len(all) : \E k \in 1 .. n + 1 : all[j].box \in BoxesOf(subtrees[k].panels)
  <2>1. SUFFICES ASSUME NEW j \in 1 .. Len(all)
                 PROVE  \E k \in 1 .. n + 1 : all[j].box \in BoxesOf(subtrees[k].panels)
    OBVIOUS
  <2>2. CASE j <= Len(ps)
    <3>1. PICK k \in 1 .. n : ps[j].box \in BoxesOf(subtrees[k].panels)
      BY <1>1, <2>2 DEF GatheredFrom
    <3>2. k \in 1 .. n + 1 /\ all[j] = ps[j]
      BY <1>1, <1>3, <2>2
    <3>3. QED
      BY <3>1, <3>2
  <2>3. CASE j > Len(ps)
    <3>1. j - Len(ps) \in 1 .. Len(more) /\ all[j] = more[j - Len(ps)]
      BY <1>5, <2>3
    <3>2. all[j].box \in BoxesOf(more) /\ n + 1 \in 1 .. n + 1
      BY <3>1 DEF BoxesOf
    <3>3. QED
      BY <3>2 DEF more
  <2>4. QED
    BY <1>1, <2>2, <2>3
<1>9. \A k \in 1 .. n + 1 : BoxesOf(subtrees[k].panels) \subseteq BoxesOf(all)
  <2>1. BoxesOf(ps) \subseteq BoxesOf(all)
    BY <1>3 DEF BoxesOf
  <2>2. BoxesOf(more) \subseteq BoxesOf(all)
    BY <1>4 DEF BoxesOf
  <2>3. SUFFICES ASSUME NEW k \in 1 .. n + 1
                 PROVE  BoxesOf(subtrees[k].panels) \subseteq BoxesOf(all)
    OBVIOUS
  <2>4. CASE k \in 1 .. n
    BY <2>1, <2>4 DEF GatheredFrom
  <2>5. CASE k = n + 1
    BY <2>2, <2>5 DEF more
  <2>6. QED
    BY <2>4, <2>5
<1>10. \A j, m \in 1 .. Len(all) : all[j].box = all[m].box => j = m
  <2>1. SUFFICES ASSUME NEW j \in 1 .. Len(all), NEW m \in 1 .. Len(all), all[j].box = all[m].box
                 PROVE  j = m
    OBVIOUS
  <2>2. CASE j <= Len(ps) /\ m <= Len(ps)
    <3>1. ps[j].box = ps[m].box /\ j \in 1 .. Len(ps) /\ m \in 1 .. Len(ps)
      BY <1>1, <1>3, <2>1, <2>2
    <3>2. QED
      BY <3>1 DEF GatheredFrom
  <2>3. CASE j <= Len(ps) /\ m > Len(ps)
    <3>1. /\ j \in 1 .. Len(ps) /\ all[j] = ps[j]
          /\ m - Len(ps) \in 1 .. Len(more) /\ all[m] = more[m - Len(ps)]
      BY <1>1, <1>3, <1>5, <2>3
    <3>2. ps[j].box # more[m - Len(ps)].box
      BY <1>7, <3>1
    <3>3. QED
      BY <2>1, <3>1, <3>2
  <2>4. CASE j > Len(ps) /\ m <= Len(ps)
    <3>1. /\ m \in 1 .. Len(ps) /\ all[m] = ps[m]
          /\ j - Len(ps) \in 1 .. Len(more) /\ all[j] = more[j - Len(ps)]
      BY <1>1, <1>3, <1>5, <2>4
    <3>2. ps[m].box # more[j - Len(ps)].box
      BY <1>7, <3>1
    <3>3. QED
      BY <2>1, <3>1, <3>2
  <2>5. CASE j > Len(ps) /\ m > Len(ps)
    <3>1. j - Len(ps) = m - Len(ps)
      BY <1>5, <1>6, <2>1, <2>5
    <3>2. QED
      BY <1>1, <3>1
  <2>6. QED
    BY <1>1, <2>2, <2>3, <2>4, <2>5
<1>11. GatheredFrom(all, n + 1)
  BY <1>2, <1>8, <1>9, <1>10 DEF GatheredFrom
<1>12. QED
  BY <1>11 DEF all, more

LEMMA AllPanelsFacts ==
  ASSUME FitTypeOK, AllSound
  PROVE  GatheredFrom(AllPanels, Len(subtrees))
<1>1. Len(subtrees) \in Nat
  BY TreeFacts
<1>2. PICK f : Gathers(f, Len(subtrees)) /\ AllPanels = f[Len(subtrees)]
  BY <1>1, AllPanelsGathers
<1>3. GatheredFrom(f[0], 0)
  <2>1. f[0] = <<>>
    BY <1>1, <1>2 DEF Gathers
  <2>2. Len(<<>>) = 0 /\ <<>> \in Seq(PanelRecord)
    BY EmptySeq
  <2>3. GatheredFrom(<<>>, 0)
    BY <2>2 DEF GatheredFrom
  <2>4. QED
    BY <2>1, <2>3
<1>4. ASSUME NEW n \in Nat, n + 1 <= Len(subtrees), GatheredFrom(f[n], n)
      PROVE  GatheredFrom(f[n + 1], n + 1)
  <2>1. f[n + 1] = f[n] \o subtrees[n + 1].panels
    BY <1>1, <1>2, <1>4 DEF Gathers
  <2>2. PICK ps : ps = f[n]
    OBVIOUS
  <2>3. GatheredFrom(ps \o subtrees[n + 1].panels, n + 1)
    BY <1>4, <2>2, GatherOne
  <2>4. QED
    BY <2>1, <2>2, <2>3
<1>5. GatheredFrom(f[Len(subtrees)], Len(subtrees))
  <2>. DEFINE S == {n \in Nat : n <= Len(subtrees) => GatheredFrom(f[n], n)}
  <2>1. 0 \in S
    BY <1>3
  <2>2. ASSUME NEW n \in Nat, n \in S
        PROVE  n + 1 \in S
    BY <1>1, <1>4, <2>2
  <2>. HIDE DEF S
  <2>3. Len(subtrees) \in S
    <3>1. Nat \subseteq S
      BY <2>1, <2>2, NatSetInduction
    <3>2. QED
      BY <1>1, <3>1
  <2>4. QED
    BY <1>1, <2>3 DEF S
<1>6. QED
  BY <1>2, <1>5

-----------------------------------------------------------------------------
(* What is kept of the finished subtrees.                                  *)

LEMMA SoundKept ==
  ASSUME NEW t \in Tree, NEW b, Sound(t, b), input' = input,
         max_abs_f \in Nat, max_abs_f' \in Nat, max_abs_f <= max_abs_f',
         FitFits32' => FitFits32
  PROVE  Sound(t, b)'
<1>1. ASSUME NEW i \in 1 .. Len(t.nodes), Excused(t, i)
      PROVE  Excused(t, i)'
  <2>1. t.nodes[i].seen \in Sample
    <3>1. t.nodes \in Seq(NodeRecord)
      BY DEF Tree
    <3>2. t.nodes[i] \in NodeRecord
      BY <3>1, ElementOfSeq
    <3>3. QED
      BY <3>2 DEF NodeRecord
  <2>2. PICK s \in Sample : s = t.nodes[i].seen
    BY <2>1
  <2>3. PassesAt(s, max_abs_f) => PassesAt(s, max_abs_f)'
    BY PassesKept
  <2>4. QED
    BY <1>1, <2>2, <2>3 DEF Excused
<1>2. QED
  BY <1>1 DEF Sound, LeafIndices, IsLeaf

LEMMA AllSoundKept ==
  ASSUME FitTypeOK, AllSound, subtrees' = subtrees, input' = input,
         max_abs_f \in Nat, max_abs_f' \in Nat, max_abs_f <= max_abs_f',
         FitFits32' => FitFits32
  PROVE  AllSound'
<1>1. SUFFICES ASSUME NEW k \in 1 .. Len(subtrees) PROVE Sound(subtrees[k], k - 1)'
  BY DEF AllSound
<1>2. PICK t \in Tree : t = subtrees[k]
  BY TreeFacts
<1>3. Sound(t, k - 1)
  BY <1>2 DEF AllSound
<1>4. Sound(t, k - 1)'
  BY <1>3, SoundKept
<1>5. QED
  BY <1>2, <1>4

(* More entries in the pool than before, below the same finished subtrees. *)
LEMMA FitsBeforeStep ==
  ASSUME subtrees' = subtrees, Len(polyfits) \in Nat, Len(polyfits') \in Nat,
         Len(polyfits) <= Len(polyfits'), FitFits32'
  PROVE  FitFits32
<1>1. Len(polyfits) <= kLeafSentinel
  BY ConstantsOK DEF FitFits32
<1>2. QED
  BY <1>1 DEF FitFits32

LEMMA NumberedKept ==
  ASSUME FitTypeOK, Numbered, subtrees' = subtrees, Settled \in Nat, Settled' = Settled,
         phase \in {"probe", "bins", "tree", "fitted"},
         Len(polyfits) \in Nat, Len(polyfits') \in Nat, Len(polyfits) <= Len(polyfits'),
         Settled <= Len(polyfits),
         \A e \in 1 .. Len(polyfits) : polyfits'[e] = polyfits[e]
  PROVE  Numbered'
<1>1. SUFFICES ASSUME FitFits32 PROVE Numbered'
  BY FitsBeforeStep DEF Numbered
<1>2. \A t : LeafIndices(t)' = LeafIndices(t)
  BY DEF LeafIndices, IsLeaf
<1>3. \A k, i : Id(k, i)' = Id(k, i)
  BY DEF Id
<1>4. \A k \in 1 .. Len(subtrees) : \A i \in LeafIndices(subtrees[k]) :
        /\ Id(k, i) \in 0 .. Settled - 1
        /\ polyfits[Id(k, i) + 1] = subtrees[k].nodes[i].box
  BY <1>1 DEF Numbered
<1>5. \A k \in 1 .. Len(subtrees) : \A i \in LeafIndices(subtrees[k]) :
        /\ Id(k, i) \in 0 .. Settled - 1
        /\ polyfits'[Id(k, i) + 1] = subtrees[k].nodes[i].box
  <2>1. \A e \in 0 .. Settled - 1 : polyfits'[e + 1] = polyfits[e + 1]
    OBVIOUS
  <2>2. QED
    BY <1>4, <2>1
<1>6. /\ \A k, m \in 1 .. Len(subtrees) :
           \A i \in LeafIndices(subtrees[k]), j \in LeafIndices(subtrees[m]) :
             (k < m \/ (k = m /\ i < j)) => Id(k, i) < Id(m, j)
      /\ \A e \in 0 .. Settled - 1 :
           \E k \in 1 .. Len(subtrees) : \E i \in LeafIndices(subtrees[k]) : Id(k, i) = e
  BY <1>1 DEF Numbered
<1>7. ASSUME NEW k \in 1 .. Len(subtrees)', NEW i \in LeafIndices(subtrees[k])'
      PROVE  /\ Id(k, i)' \in 0 .. Settled' - 1
             /\ polyfits'[Id(k, i)' + 1] = (subtrees[k].nodes[i].box)'
  <2>1. k \in 1 .. Len(subtrees) /\ i \in LeafIndices(subtrees[k])
    BY <1>2
  <2>2. QED
    BY <1>3, <1>5, <2>1
<1>8. ASSUME NEW k \in 1 .. Len(subtrees)', NEW m \in 1 .. Len(subtrees)',
             NEW i \in LeafIndices(subtrees[k])', NEW j \in LeafIndices(subtrees[m])',
             k < m \/ (k = m /\ i < j)
      PROVE  Id(k, i)' < Id(m, j)'
  <2>1. /\ k \in 1 .. Len(subtrees) /\ i \in LeafIndices(subtrees[k])
        /\ m \in 1 .. Len(subtrees) /\ j \in LeafIndices(subtrees[m])
    BY <1>2
  <2>2. Id(k, i) < Id(m, j)
    BY <1>6, <1>8, <2>1
  <2>3. QED
    BY <1>3, <2>2
<1>9. ASSUME NEW e \in 0 .. Settled' - 1
      PROVE  \E k \in 1 .. Len(subtrees)' : \E i \in LeafIndices(subtrees[k])' : Id(k, i)' = e
  <2>1. PICK k \in 1 .. Len(subtrees) : \E i \in LeafIndices(subtrees[k]) : Id(k, i) = e
    BY <1>6
  <2>2. PICK i \in LeafIndices(subtrees[k]) : Id(k, i) = e
    BY <2>1
  <2>3. i \in LeafIndices(subtrees[k])' /\ Id(k, i)' = e
    BY <1>2, <1>3, <2>2
  <2>4. QED
    BY <2>1, <2>3
<1>10. QED
  BY <1>7, <1>8, <1>9 DEF Numbered

-----------------------------------------------------------------------------
(* The initial state and the probe.                                        *)

LEMMA FitInitFInv == FitInit => FInv
<1>. SUFFICES ASSUME FitInit PROVE FInv
  OBVIOUS
<1>1. subtrees = <<>> /\ Len(subtrees) = 0 /\ polyfits = <<>> /\ Len(polyfits) = 0
      /\ non_converged_panels = <<>> /\ phase = "probe"
  BY DEF FitInit
<1>2. \A S : <<>> \in Seq(S)
  BY EmptySeq
<1>3. total_bins \in TotalBins /\ total_bins \in Nat
  BY FunctionConstants DEF FitInit
<1>4. FitTypeOK
  BY <1>1, <1>2, <1>3 DEF FitInit, FitTypeOK
<1>5. Shared
  BY <1>1, <1>2, ConstantsOK DEF FitInit, Shared
<1>6. Phases /\ AllSound /\ Finished
  BY <1>1 DEF Phases, AllSound, Finished
<1>7. Numbered
  BY <1>1 DEF Numbered, Settled
<1>8. QED
  BY <1>4, <1>5, <1>6, <1>7 DEF FInv

(* The search over the domain ends with its root: the node it fits is      *)
(* never given children.                                                   *)
LEMMA ProbeStopsAtRoot ==
  ASSUME base_depth = 0, NEW s
  PROVE  ~LevelIsFull(ProbeQueue(s))
<1>1. IsLeaf(ProbedNode(s))
  BY DEF IsLeaf, ProbedNode, Node
<1>2. Len(ProbeQueue(s)) = 0
  BY <1>1 DEF ProbeQueue
<1>3. InputDim * (base_depth + 1) = InputDim
  BY ConstantsOK
<1>4. 2 ^ (InputDim * (base_depth + 1)) # 0
  BY <1>3, ConstantsOK
<1>5. QED
  BY <1>2, <1>4 DEF LevelIsFull

LEMMA ProbeFInv ==
  ASSUME FInv, NEW s \in Samples, ProbeRoot(s)
  PROVE  FInv'
<1>1. /\ subtrees = <<>> /\ subtrees' = <<>> /\ Len(subtrees') = 0
      /\ polyfits' = <<>> /\ Len(polyfits') = 0 /\ base_depth = 0
      /\ FitTypeOK /\ Shared /\ ~Unsupported
  BY DEF FInv, Phases, Shared, ProbeRoot
<1>2. ~LevelIsFull(ProbeQueue(s))
  BY <1>1, ProbeStopsAtRoot
<1>3. /\ max_abs_f' = CommittedScale(s)
      /\ base_depth' = 0 /\ total_bins' = total_bins /\ phase' = "bins"
      /\ UNCHANGED << input, polyfits, subtrees, non_converged_panels >>
  BY <1>1, <1>2 DEF ProbeRoot
<1>4. max_abs_f' \in Nat
  BY <1>1, <1>3, ScaleType DEF Shared
<1>5. FitTypeOK'
  BY <1>1, <1>3 DEF FitTypeOK
<1>6. Shared'
  BY <1>1, <1>3, <1>4 DEF Shared
<1>7. Phases'
  BY <1>1, <1>3 DEF Phases, Unsupported
<1>8. AllSound' /\ Finished'
  BY <1>1, <1>3 DEF AllSound, Finished
<1>9. Numbered'
  BY <1>1, <1>3 DEF Numbered, Settled
<1>10. QED
  BY <1>5, <1>6, <1>7, <1>8, <1>9 DEF FInv

LEMMA ProbeRejectsFInv ==
  ASSUME FInv, ProbeRejects
  PROVE  FInv'
<1>1. /\ subtrees' = <<>> /\ Len(subtrees') = 0 /\ phase' = "UnsupportedTolKind"
      /\ UNCHANGED << input, max_abs_f, polyfits, total_bins, base_depth, subtrees,
                      non_converged_panels >>
      /\ FitTypeOK /\ Shared
  BY DEF FInv, Phases, ProbeRejects, vars
<1>2. FitTypeOK'
  BY <1>1 DEF FitTypeOK, Exceptions
<1>3. Shared' /\ Phases' /\ AllSound' /\ Finished' /\ Numbered'
  BY <1>1 DEF Shared, Phases, AllSound, Finished, Numbered
<1>4. QED
  BY <1>2, <1>3 DEF FInv

-----------------------------------------------------------------------------
(* The bins.                                                               *)

LEMMA StartedNext == Started' => PInv'
BY StartedPInv, PTL

LEMMA BeginFInv ==
  ASSUME FInv, BeginSubtree
  PROVE  FInv'
<1>1. FitTypeOK /\ Shared /\ Phases /\ AllSound /\ Numbered
  BY DEF FInv
<1>2. Len(subtrees) \in Nat /\ Len(polyfits) \in Nat
  BY <1>1, TreeFacts, LenProperties DEF Shared
<1>3. /\ phase = "bins" /\ phase' = "tree" /\ Len(subtrees) < total_bins
      /\ UNCHANGED << max_abs_f, polyfits, total_bins, base_depth, subtrees,
                      non_converged_panels >>
  BY DEF BeginSubtree, MoreBins
<1>4. input' = input
  <2>1. (IF subtrees = <<>> THEN base_depth ELSE 0) = 0
    BY <1>1 DEF Shared
  <2>2. input' = [input EXCEPT !.max_depth = input.max_depth - 0]
    BY <2>1 DEF BeginSubtree
  <2>3. input \in Input /\ input.max_depth - 0 = input.max_depth
    BY <1>1 DEF Shared, Input
  <2>4. QED
    BY <2>2, <2>3 DEF Input
<1>5. Fresh(Len(subtrees))'
  BY <1>1, <1>3, <1>4 DEF BeginSubtree, Fresh, Shared
<1>6. PInv'
  <2>1. Started'
    BY <1>2, <1>3, <1>5 DEF Started, Fresh
  <2>2. QED
    BY <2>1, StartedNext
<1>7. InTree(Len(subtrees))'
  <2>1. /\ q' = << <<Len(subtrees)>> >> /\ nodes' = <<>> /\ pc' = "head"
        /\ Len(nodes') = 0 /\ Len(q') = 1
    BY DEF BeginSubtree
  <2>2. Planned' = 1
    BY <2>1 DEF Planned
  <2>3. PanelAt(0)' = <<Len(subtrees)>>
    BY <2>1 DEF PanelAt
  <2>4. \A i \in 0 .. Planned' - 1 : PanelAt(i)'[1] = Len(subtrees')
    <3>1. \A i \in 0 .. Planned' - 1 : i = 0
      BY <2>2
    <3>2. PanelAt(0)'[1] = Len(subtrees')
      BY <1>3, <2>3
    <3>3. QED
      BY <3>1, <3>2
  <2>5. Rooted(Len(subtrees))'
    BY <2>4 DEF Rooted
  <2>6. NothingLeft' /\ FailuresReported' /\ IdsOfLeaves'
    BY <2>1 DEF NothingLeft, FailuresReported, IdsOfLeaves
  <2>7. QED
    BY <1>6, <2>1, <2>5, <2>6 DEF InTree
<1>8. FitTypeOK'
  BY <1>1, <1>3 DEF FitTypeOK
<1>9. Shared'
  BY <1>1, <1>3, <1>4 DEF Shared
<1>10. Phases'
  <2>1. ~Unsupported
    BY <1>1, <1>3 DEF Phases
  <2>2. ~Unsupported'
    BY <1>4, <2>1 DEF Unsupported
  <2>3. QED
    BY <1>3, <1>7, <2>2 DEF Phases
<1>11. AllSound'
  <2>1. FitFits32' = FitFits32
    BY <1>3 DEF FitFits32
  <2>2. max_abs_f \in Nat /\ max_abs_f' = max_abs_f
    BY <1>1, <1>3 DEF Shared
  <2>3. QED
    BY <1>1, <1>3, <1>4, <2>1, <2>2, AllSoundKept
<1>12. Numbered'
  <2>1. start'.pool = Len(polyfits)
    BY DEF BeginSubtree
  <2>2. Settled = Len(polyfits) /\ Settled' = Len(polyfits)
    BY <1>3, <2>1 DEF Settled
  <2>3. QED
    BY <1>1, <1>2, <1>3, <2>2, NumberedKept
<1>13. Finished'
  BY <1>3 DEF Finished
<1>14. QED
  BY <1>8, <1>9, <1>10, <1>11, <1>12, <1>13 DEF FInv

LEMMA TreeStepFInv ==
  ASSUME FInv, TreeStep
  PROVE  FInv'
<1>1. /\ FitTypeOK /\ Shared /\ Phases /\ AllSound /\ Numbered
      /\ phase = "tree" /\ Next
      /\ UNCHANGED << total_bins, base_depth, subtrees, non_converged_panels, phase >>
  BY DEF FInv, TreeStep, fitVars
<1>2. InTree(Len(subtrees)) /\ ~Unsupported /\ Len(subtrees) < total_bins
  BY <1>1 DEF Phases
<1>3. TypeOK /\ Level /\ Counted
  BY <1>2 DEF InTree, PInv, IInv
<1>4. /\ input' = input /\ start' = start
      /\ max_abs_f' \in Nat /\ max_abs_f <= max_abs_f' /\ max_abs_f \in Nat
      /\ polyfits' \in Seq(Box) /\ Len(polyfits) \in Nat /\ Len(polyfits') \in Nat
      /\ Len(polyfits) <= Len(polyfits')
      /\ \A i \in 1 .. Len(polyfits) : polyfits'[i] = polyfits[i]
  BY <1>1, <1>2, <1>3, TreeEffects DEF Shared
<1>5. InTree(Len(subtrees))'
  <2>1. PICK b : b = Len(subtrees)
    OBVIOUS
  <2>2. InTree(b)'
    BY <1>1, <1>2, <2>1, StepInTree
  <2>3. Len(subtrees') = b
    BY <1>1, <2>1
  <2>4. QED
    BY <2>2, <2>3 DEF InTree, Rooted
<1>6. FitTypeOK'
  BY <1>1 DEF FitTypeOK
<1>7. Shared'
  BY <1>1, <1>4 DEF Shared
<1>8. Phases'
  BY <1>1, <1>2, <1>4, <1>5 DEF Phases, Unsupported
<1>9. AllSound'
  BY <1>1, <1>4, AllSoundKept, FitsBeforeStep
<1>10. Numbered'
  <2>1. Settled = start.pool /\ Settled' = start.pool
    BY <1>1, <1>4 DEF Settled
  <2>2. start.pool \in Nat /\ start.pool <= Len(polyfits)
    BY <1>3 DEF TypeOK, Counted
  <2>3. QED
    BY <1>1, <1>4, <2>1, <2>2, NumberedKept
<1>11. Finished'
  BY <1>1 DEF Finished
<1>12. QED
  BY <1>6, <1>7, <1>8, <1>9, <1>10, <1>11 DEF FInv

LEMMA ThrowsFInv ==
  ASSUME FInv, SubtreeThrows
  PROVE  FInv'
<1>1. /\ FitTypeOK /\ Shared /\ Phases /\ AllSound
      /\ phase = "tree" /\ phase' = pc /\ pc \in Exceptions
      /\ UNCHANGED << input, max_abs_f, polyfits, total_bins, base_depth, subtrees,
                      non_converged_panels >>
  BY DEF FInv, SubtreeThrows, vars
<1>2. InTree(Len(subtrees)) /\ ~Unsupported
  BY <1>1 DEF Phases
<1>3. phase' = "MemoryBudgetExceeded"
  BY <1>1, <1>2 DEF InTree, PInv, IInv, TypeOK, Exceptions
<1>4. FitTypeOK'
  BY <1>1, <1>3 DEF FitTypeOK, Exceptions
<1>5. Shared' /\ Phases' /\ Finished' /\ Numbered'
  BY <1>1, <1>2, <1>3 DEF Shared, Phases, Finished, Numbered, Unsupported
<1>6. AllSound'
  <2>1. FitFits32' = FitFits32
    BY <1>1 DEF FitFits32
  <2>2. max_abs_f \in Nat /\ max_abs_f' = max_abs_f
    BY <1>1 DEF Shared
  <2>3. QED
    BY <1>1, <2>1, <2>2, AllSoundKept
<1>7. QED
  BY <1>4, <1>5, <1>6 DEF FInv

LEMMA FinishFInv ==
  ASSUME FInv, Finish
  PROVE  FInv'
<1>1. /\ FitTypeOK /\ Shared /\ Phases /\ AllSound /\ Numbered
      /\ phase = "bins" /\ ~(Len(subtrees) < total_bins)
      /\ non_converged_panels' = AllPanels
      /\ phase' = IF AllPanels # <<>> /\ ~input.allow_max_depth_leaves
                  THEN "MaxDepthExceeded" ELSE "fitted"
      /\ UNCHANGED << input, max_abs_f, polyfits, total_bins, base_depth, subtrees >>
  BY DEF FInv, Finish, MoreBins, vars
<1>2. AllPanels \in Seq(PanelRecord)
  BY <1>1, AllPanelsFacts DEF GatheredFrom
<1>3. Len(subtrees) = total_bins
  <2>1. Len(subtrees) \in Nat /\ total_bins \in Nat /\ Len(subtrees) <= total_bins
    BY <1>1, TreeFacts, FunctionConstants DEF FitTypeOK
  <2>2. QED
    BY <1>1, <2>1
<1>4. FitTypeOK'
  BY <1>1, <1>2 DEF FitTypeOK, PanelRecord, Exceptions
<1>5. Shared' /\ Phases'
  BY <1>1 DEF Shared, Phases, Unsupported
<1>6. AllSound'
  <2>1. FitFits32' = FitFits32
    BY <1>1 DEF FitFits32
  <2>2. max_abs_f \in Nat /\ max_abs_f' = max_abs_f
    BY <1>1 DEF Shared
  <2>3. QED
    BY <1>1, <2>1, <2>2, AllSoundKept
<1>7. Numbered'
  <2>1. Settled = Len(polyfits) /\ Settled' = Len(polyfits) /\ Len(polyfits) \in Nat
    BY <1>1, LenProperties DEF Settled, Shared
  <2>2. QED
    BY <1>1, <2>1, NumberedKept
<1>8. Finished'
  <2>1. AllPanels' = AllPanels
    BY <1>1 DEF AllPanels
  <2>2. QED
    BY <1>1, <1>3, <2>1 DEF Finished
<1>9. QED
  BY <1>4, <1>5, <1>6, <1>7, <1>8 DEF FInv

-----------------------------------------------------------------------------
(* The end of a bin.                                                       *)

Current == [nodes |-> nodes, panels |-> panels]

LEMMA EndFacts ==
  ASSUME FInv, EndSubtree
  PROVE  /\ TypeOK /\ InTree(Len(subtrees)) /\ q = <<>> /\ phase' = "bins"
         /\ Current \in Tree /\ Current.nodes = nodes /\ Current.panels = panels
         /\ Len(subtrees) \in Nat /\ Len(subtrees') = Len(subtrees) + 1
         /\ subtrees' \in Seq(Tree)
         /\ subtrees'[Len(subtrees) + 1] = Current
         /\ \A k \in 1 .. Len(subtrees) : subtrees'[k] = subtrees[k]
         /\ UNCHANGED vars
         /\ UNCHANGED << total_bins, base_depth, non_converged_panels >>
         /\ FitFits32' => FitFits32 /\ Fits32
<1>1. /\ FitTypeOK /\ Phases /\ phase = "tree" /\ pc = "built" /\ phase' = "bins"
      /\ subtrees' = Append(subtrees, Current)
      /\ UNCHANGED vars /\ UNCHANGED << total_bins, base_depth, non_converged_panels >>
  BY DEF FInv, EndSubtree, ScaleAfterBin, vars, treeVars, Current
<1>2. InTree(Len(subtrees)) /\ TypeOK /\ Counted /\ q = <<>>
  BY <1>1 DEF Phases, InTree, NothingLeft, PInv, IInv
<1>3. Current \in Tree /\ Current.nodes = nodes /\ Current.panels = panels
  BY <1>2 DEF Current, Tree, TypeOK, NodeRecord, PanelRecord
<1>4. /\ Len(subtrees) \in Nat /\ Len(subtrees') = Len(subtrees) + 1
      /\ subtrees' \in Seq(Tree)
      /\ subtrees'[Len(subtrees) + 1] = Current
      /\ \A k \in 1 .. Len(subtrees) : subtrees'[k] = subtrees[k]
  BY <1>1, <1>3, TreeFacts, AppendProperties
<1>5. ASSUME FitFits32'
      PROVE  FitFits32 /\ Fits32
  <2>1. /\ Len(polyfits) <= kLeafSentinel
        /\ \A k \in 1 .. Len(subtrees') : Len(subtrees'[k].nodes) <= kLeafSentinel
    BY <1>1, <1>5 DEF FitFits32, vars
  <2>2. \A k \in 1 .. Len(subtrees) : Len(subtrees[k].nodes) <= kLeafSentinel
    <3>1. \A k \in 1 .. Len(subtrees) : k \in 1 .. Len(subtrees')
      BY <1>4
    <3>2. QED
      BY <1>4, <2>1, <3>1
  <2>3. Len(nodes) <= kLeafSentinel
    <3>1. Len(subtrees) + 1 \in 1 .. Len(subtrees')
      BY <1>4
    <3>2. QED
      BY <1>3, <1>4, <2>1, <3>1
  <2>4. curr_child_idx = Len(nodes)
    <3>1. Len(q) = 0 /\ Len(nodes) \in Nat
      BY <1>2, PlannedFacts
    <3>2. QED
      BY <1>2, <3>1 DEF Counted, Planned
  <2>5. QED
    BY <2>1, <2>2, <2>3, <2>4 DEF FitFits32, Fits32
<1>6. QED
  BY <1>1, <1>2, <1>3, <1>4, <1>5

LEMMA EndSound ==
  ASSUME FInv, EndSubtree
  PROVE  AllSound'
<1>. DEFINE n == Len(subtrees)
<1>1. /\ TypeOK /\ InTree(n) /\ q = <<>> /\ n \in Nat
      /\ Len(subtrees') = n + 1 /\ subtrees'[n + 1] = Current
      /\ Current \in Tree /\ Current.nodes = nodes /\ Current.panels = panels
      /\ \A k \in 1 .. n : subtrees'[k] = subtrees[k]
      /\ input' = input /\ max_abs_f' = max_abs_f
      /\ FitFits32' => FitFits32 /\ Fits32
  BY EndFacts DEF vars
<1>2. max_abs_f \in Nat /\ FitTypeOK /\ AllSound
  BY DEF FInv, Shared
<1>3. ASSUME NEW t \in Tree, NEW b, Sound(t, b)
      PROVE  Sound(t, b)'
  BY <1>1, <1>2, <1>3, SoundKept
<1>4. ASSUME NEW k \in 1 .. n
      PROVE  Sound(subtrees[k], k - 1)'
  <2>1. PICK t \in Tree : t = subtrees[k]
    BY <1>2, TreeFacts
  <2>2. Sound(t, k - 1)
    BY <1>2, <2>1 DEF AllSound
  <2>3. Sound(t, k - 1)'
    BY <1>3, <2>2
  <2>4. t = subtrees'[k]
    BY <1>1, <2>1
  <2>5. QED
    BY <2>3, <2>4
<1>5. Reported = BoxesOf(panels)
  BY DEF Reported, BoxesOf
<1>6. \A i \in 1 .. Len(nodes) : nodes[i].box[1] = n
  <2>1. \A i \in 1 .. Len(nodes) : nodes[i].box = PanelAt(i - 1) /\ i - 1 \in 0 .. Planned - 1
    BY <1>1, PlannedFacts DEF Planned
  <2>2. QED
    BY <1>1, <2>1 DEF InTree, Rooted
<1>7. \A j \in 1 .. Len(panels) : panels[j].box[1] = n
  <2>1. \A j \in 1 .. Len(panels) : \E i \in 1 .. Len(nodes) : nodes[i].box = panels[j].box
    BY <1>1 DEF InTree, PInv, PanelsExact
  <2>2. QED
    BY <1>6, <2>1
<1>8. \A j, m \in 1 .. Len(panels) : panels[j].box = panels[m].box => j = m
  <2>1. \A j \in 1 .. Len(panels) : \A m \in 1 .. j - 1 : panels[m].box # panels[j].box
    BY <1>1 DEF InTree, PInv, PanelsExact
  <2>2. ASSUME NEW j \in 1 .. Len(panels), NEW m \in 1 .. Len(panels), j # m
        PROVE  panels[j].box # panels[m].box
    <3>1. m \in 1 .. j - 1 \/ j \in 1 .. m - 1
      BY <2>2
    <3>2. QED
      BY <2>1, <3>1
  <2>3. QED
    BY <2>2
<1>9. \A i \in 1 .. Len(nodes) :
        \/ Depth(nodes[i].box) # input.max_depth
        \/ nodes[i].box \in BoxesOf(panels)
        \/ PassesAt(nodes[i].seen, max_abs_f)
  BY <1>1, <1>5 DEF InTree, FailuresReported
<1>10. FitFits32' => \A i \in LeafNodes :
         nodes[i].box \in BoxesOf(panels) \/ PassesAt(nodes[i].seen, max_abs_f)
  BY <1>1, <1>5 DEF InTree, PInv, IInv, Accurate, Meets, PassesAt, MeetsAt
<1>11. PICK t \in Tree : t = Current
  BY <1>1
<1>12. t.nodes = nodes /\ t.panels = panels /\ LeafIndices(t) = LeafNodes
  BY <1>1, <1>11 DEF LeafIndices, LeafNodes
<1>13. PICK b : b = n
  OBVIOUS
<1>14. Sound(t, b)'
  <2>1. UNCHANGED << UsesTail, Kind >>
    BY <1>1 DEF UsesTail, Kind, LowDegree
  <2>2. \A i : Excused(t, i)' <=> Excused(t, i)
    BY <1>1, <2>1 DEF Excused, PassesAt, MeetsAt
  <2>3. \A i \in 1 .. Len(t.nodes) : Depth(t.nodes[i].box) # input.max_depth \/ Excused(t, i)
    BY <1>9, <1>12 DEF Excused
  <2>4. FitFits32' => \A i \in LeafIndices(t) : Excused(t, i)
    BY <1>10, <1>12 DEF Excused
  <2>5. LeafIndices(t)' = LeafIndices(t)
    BY DEF LeafIndices, IsLeaf
  <2>6. /\ \A i \in 1 .. Len(t.nodes) : t.nodes[i].box[1] = b
        /\ \A j \in 1 .. Len(t.panels) : t.panels[j].box[1] = b
        /\ \A j, m \in 1 .. Len(t.panels) : t.panels[j].box = t.panels[m].box => j = m
    BY <1>6, <1>7, <1>8, <1>12, <1>13
  <2>7. QED
    BY <1>1, <2>2, <2>3, <2>4, <2>5, <2>6 DEF Sound
<1>15. ASSUME NEW k, k = b + 1 PROVE Sound(subtrees[k], k - 1)'
  <2>1. t = subtrees'[k] /\ k - 1 = b
    BY <1>1, <1>11, <1>13, <1>15
  <2>2. QED
    BY <1>14, <2>1
<1>16. QED
  BY <1>1, <1>4, <1>13, <1>15 DEF AllSound

LEMMA EndNumbered ==
  ASSUME FInv, EndSubtree
  PROVE  Numbered'
<1>1. SUFFICES ASSUME FitFits32' PROVE Numbered'
  BY DEF Numbered
<1>2. PICK n : n = Len(subtrees)
  OBVIOUS
<1>3. PICK T : T = subtrees'
  OBVIOUS
<1>4. /\ TypeOK /\ InTree(Len(subtrees)) /\ q = <<>> /\ phase' = "bins" /\ phase = "tree"
      /\ n \in Nat /\ Len(T) = n + 1 /\ T[n + 1].nodes = nodes
      /\ \A k \in 1 .. n : T[k] = subtrees[k]
      /\ polyfits' = polyfits /\ start' = start
      /\ FitFits32 /\ Fits32
  BY <1>1, <1>2, <1>3, EndFacts DEF vars, treeVars, EndSubtree
<1>5. start.pool \in Nat /\ Len(polyfits) \in Nat /\ start.pool <= Len(polyfits)
  BY <1>4, LenProperties DEF InTree, PInv, IInv, Counted, TypeOK
<1>6. Settled = start.pool /\ Settled' = Len(polyfits)
  BY <1>4 DEF Settled
<1>. DEFINE id(k, i) == T[k].nodes[i].poly_eval_id
<1>7. \A t : LeafIndices(t) = {i \in 1 .. Len(t.nodes) : t.nodes[i].first_child = kLeafSentinel}
  BY DEF LeafIndices, IsLeaf
<1>8. /\ \A k \in 1 .. n : \A i \in LeafIndices(T[k]) :
           /\ id(k, i) \in 0 .. start.pool - 1
           /\ polyfits[id(k, i) + 1] = T[k].nodes[i].box
      /\ \A k, m \in 1 .. n : \A i \in LeafIndices(T[k]), j \in LeafIndices(T[m]) :
           (k < m \/ (k = m /\ i < j)) => id(k, i) < id(m, j)
      /\ \A e \in 0 .. start.pool - 1 :
           \E k \in 1 .. n : \E i \in LeafIndices(T[k]) : id(k, i) = e
  <2>1. /\ \A k \in 1 .. n : \A i \in LeafIndices(subtrees[k]) :
             /\ Id(k, i) \in 0 .. start.pool - 1
             /\ polyfits[Id(k, i) + 1] = subtrees[k].nodes[i].box
        /\ \A k, m \in 1 .. n : \A i \in LeafIndices(subtrees[k]), j \in LeafIndices(subtrees[m]) :
             (k < m \/ (k = m /\ i < j)) => Id(k, i) < Id(m, j)
        /\ \A e \in 0 .. start.pool - 1 :
             \E k \in 1 .. n : \E i \in LeafIndices(subtrees[k]) : Id(k, i) = e
    BY <1>2, <1>4, <1>6 DEF FInv, Numbered
  <2>2. \A k \in 1 .. n : /\ LeafIndices(subtrees[k]) = LeafIndices(T[k])
                          /\ subtrees[k].nodes = T[k].nodes
                          /\ \A i : Id(k, i) = id(k, i)
    BY <1>4 DEF Id
  <2>. HIDE DEF id
  <2>3. QED
    BY <2>1, <2>2
<1>9. /\ \A i \in LeafIndices(T[n + 1]) :
           /\ id(n + 1, i) \in start.pool .. Len(polyfits) - 1
           /\ polyfits[id(n + 1, i) + 1] = T[n + 1].nodes[i].box
      /\ \A i, j \in LeafIndices(T[n + 1]) : i < j => id(n + 1, i) < id(n + 1, j)
      /\ \A e \in start.pool .. Len(polyfits) - 1 :
           \E i \in LeafIndices(T[n + 1]) : id(n + 1, i) = e
  <2>1. LeafIndices(T[n + 1]) = LeafNodes
    BY <1>4 DEF LeafIndices, LeafNodes
  <2>2. LeafPool /\ pc # "UnsupportedTolKind"
    BY <1>4 DEF InTree, PInv, IInv
  <2>3. /\ \A i \in LeafNodes :
             /\ nodes[i].poly_eval_id \in start.pool .. Len(polyfits) - 1
             /\ polyfits[nodes[i].poly_eval_id + 1] = nodes[i].box
        /\ \A i, j \in LeafNodes : i < j => nodes[i].poly_eval_id < nodes[j].poly_eval_id
        /\ \A e \in start.pool .. Len(polyfits) - 1 :
             \E i \in LeafNodes : nodes[i].poly_eval_id = e
    BY <1>4, <2>2 DEF LeafPool
  <2>4. \A i : id(n + 1, i) = nodes[i].poly_eval_id /\ T[n + 1].nodes[i] = nodes[i]
    BY <1>4
  <2>. HIDE DEF id
  <2>5. QED
    BY <2>1, <2>3, <2>4
<1>. HIDE DEF id
<1>10. \A k \in 1 .. n + 1 : k \in 1 .. n \/ k = n + 1
  BY <1>4
<1>11. \A k \in 1 .. n + 1 : \A i \in LeafIndices(T[k]) :
         /\ id(k, i) \in 0 .. Len(polyfits) - 1
         /\ polyfits[id(k, i) + 1] = T[k].nodes[i].box
  BY <1>5, <1>8, <1>9, <1>10
<1>12. \A k, m \in 1 .. n + 1 : \A i \in LeafIndices(T[k]), j \in LeafIndices(T[m]) :
         (k < m \/ (k = m /\ i < j)) => id(k, i) < id(m, j)
  <2>1. SUFFICES ASSUME NEW k \in 1 .. n + 1, NEW m \in 1 .. n + 1,
                        NEW i \in LeafIndices(T[k]), NEW j \in LeafIndices(T[m]),
                        k < m \/ (k = m /\ i < j)
                 PROVE  id(k, i) < id(m, j)
    OBVIOUS
  <2>2. CASE k \in 1 .. n /\ m \in 1 .. n
    BY <1>8, <2>1, <2>2
  <2>3. CASE k \in 1 .. n /\ m = n + 1
    <3>1. id(k, i) \in 0 .. start.pool - 1 /\ id(m, j) \in start.pool .. Len(polyfits) - 1
      BY <1>8, <1>9, <2>3
    <3>2. QED
      BY <1>5, <3>1
  <2>4. CASE k = n + 1
    <3>1. m = n + 1 /\ i < j
      BY <1>4, <2>1, <2>4
    <3>2. QED
      BY <1>9, <2>4, <3>1
  <2>5. QED
    BY <1>10, <2>2, <2>3, <2>4
<1>13. \A e \in 0 .. Len(polyfits) - 1 :
         \E k \in 1 .. n + 1 : \E i \in LeafIndices(T[k]) : id(k, i) = e
  <2>1. SUFFICES ASSUME NEW e \in 0 .. Len(polyfits) - 1
                 PROVE  \E k \in 1 .. n + 1 : \E i \in LeafIndices(T[k]) : id(k, i) = e
    OBVIOUS
  <2>2. CASE e \in 0 .. start.pool - 1
    <3>1. PICK k \in 1 .. n : \E i \in LeafIndices(T[k]) : id(k, i) = e
      BY <1>8, <2>2
    <3>2. k \in 1 .. n + 1
      BY <1>4
    <3>3. QED
      BY <3>1, <3>2
  <2>3. CASE e \in start.pool .. Len(polyfits) - 1
    <3>1. n + 1 \in 1 .. n + 1
      BY <1>4
    <3>2. QED
      BY <1>9, <2>3, <3>1
  <2>4. QED
    BY <1>5, <2>2, <2>3
<1>14. QED
  <2>1. SUFFICES
          /\ \A k \in 1 .. Len(subtrees') : \A i \in LeafIndices(subtrees[k])' :
               /\ Id(k, i)' \in 0 .. Settled' - 1
               /\ polyfits'[Id(k, i)' + 1] = subtrees'[k].nodes[i].box
          /\ \A k, m \in 1 .. Len(subtrees') :
               \A i \in LeafIndices(subtrees[k])', j \in LeafIndices(subtrees[m])' :
                 (k < m \/ (k = m /\ i < j)) => Id(k, i)' < Id(m, j)'
          /\ \A e \in 0 .. Settled' - 1 :
               \E k \in 1 .. Len(subtrees') : \E i \in LeafIndices(subtrees[k])' : Id(k, i)' = e
    BY DEF Numbered
  <2>2. \A k : LeafIndices(subtrees[k])' = LeafIndices(T[k]) /\ \A i : Id(k, i)' = id(k, i)
    BY <1>3 DEF Id, id, LeafIndices, IsLeaf
  <2>3. QED
    BY <1>3, <1>4, <1>6, <1>11, <1>12, <1>13, <2>2

LEMMA EndFInv ==
  ASSUME FInv, EndSubtree
  PROVE  FInv'
<1>1. /\ FitTypeOK /\ Shared /\ Phases /\ phase = "tree" /\ phase' = "bins"
      /\ subtrees' \in Seq(Tree) /\ Len(subtrees) \in Nat /\ Len(subtrees') = Len(subtrees) + 1
      /\ UNCHANGED << input, max_abs_f, polyfits, total_bins, base_depth, non_converged_panels >>
  BY EndFacts DEF FInv, EndSubtree, vars
<1>2. Len(subtrees) < total_bins /\ ~Unsupported /\ total_bins \in Nat
  BY <1>1, FunctionConstants DEF Phases, FitTypeOK
<1>3. FitTypeOK'
  <2>1. Len(subtrees') <= total_bins
    BY <1>1, <1>2
  <2>2. QED
    BY <1>1, <2>1 DEF FitTypeOK, Tree, NodeRecord, PanelRecord
<1>4. Shared' /\ Finished'
  BY <1>1 DEF Shared, Finished
<1>5. Phases'
  BY <1>1, <1>2 DEF Phases, Unsupported
<1>6. QED
  BY <1>3, <1>4, <1>5, EndSound, EndNumbered DEF FInv

-----------------------------------------------------------------------------

LEMMA StepFInv == FInv /\ [FitNext]_allVars => FInv'
<1>. SUFFICES ASSUME FInv, [FitNext]_allVars PROVE FInv'
  OBVIOUS
<1>1. CASE FitNext
  BY <1>1, ProbeFInv, ProbeRejectsFInv, BeginFInv, TreeStepFInv, EndFInv, ThrowsFInv, FinishFInv
     DEF FitNext
<1>2. CASE UNCHANGED allVars
  <2>1. /\ UNCHANGED << input, max_abs_f, polyfits, start, subtrees, total_bins, base_depth,
                        non_converged_panels, phase >>
        /\ UNCHANGED vars
    BY <1>2 DEF allVars, vars, treeVars, fitVars
  <2>2. /\ FitTypeOK /\ Shared /\ Phases /\ AllSound /\ Numbered /\ Finished
    BY DEF FInv
  <2>3. FitTypeOK' /\ Shared'
    BY <2>1, <2>2 DEF FitTypeOK, Shared
  <2>4. FitFits32' = FitFits32
    BY <2>1 DEF FitFits32
  <2>5. AllSound'
    <3>1. max_abs_f \in Nat
      BY <2>2 DEF Shared
    <3>2. QED
      BY <2>1, <2>2, <2>4, <3>1, AllSoundKept
  <2>6. Phases'
    <3>1. ASSUME phase = "tree"
          PROVE  InTree(Len(subtrees))'
      <4>1. InTree(Len(subtrees))
        BY <2>2, <3>1 DEF Phases
      <4>2. PInv'
        BY <2>1, <4>1, StepPInv DEF InTree
      <4>3. (Rooted(Len(subtrees)) /\ NothingLeft /\ FailuresReported /\ IdsOfLeaves)'
        BY <2>1, <4>1 DEF InTree, Rooted, NothingLeft, FailuresReported, IdsOfLeaves, vars, treeVars,
           Planned, PanelAt, Reported, PassesAt, MeetsAt, UsesTail, Kind, LowDegree, IsLeaf
      <4>4. QED
        BY <2>1, <4>1, <4>2, <4>3 DEF InTree, vars, treeVars
    <3>2. QED
      BY <2>1, <2>2, <3>1 DEF Phases, Unsupported
  <2>7. Numbered' /\ Finished'
    <3>1. Settled' = Settled /\ AllPanels' = AllPanels
      BY <2>1 DEF Settled, AllPanels
    <3>2. \A k : LeafIndices(subtrees[k])' = LeafIndices(subtrees[k]) /\ \A i : Id(k, i)' = Id(k, i)
      BY <2>1 DEF LeafIndices, IsLeaf, Id
    <3>3. QED
      BY <2>1, <2>2, <2>4, <3>1, <3>2 DEF Numbered, Finished
  <2>8. QED
    BY <2>3, <2>5, <2>6, <2>7 DEF FInv
<1>3. QED
  BY <1>1, <1>2

(* Every state of a fit is one the inductive invariant describes.          *)
THEOREM FInvHolds == FitSpec => []FInv
<1>. QED
  BY FitInitFInv, StepFInv, PTL DEF FitSpec

(* The trees, the pool and the reported panels of a fit keep their types,  *)
(* and no subtree is built beyond the last bin.                            *)
THEOREM FitTyped == FitSpec => []FitTypeOK
<1>1. FInv => FitTypeOK
  BY DEF FInv
<1>2. QED
  BY <1>1, FInvHolds, PTL

-----------------------------------------------------------------------------
(* The pool numbers the leaves.                                            *)

(* Numbering a set from 1 to n counts it.                                  *)
LEMMA NumberingCounts ==
  ASSUME NEW S, NEW n \in Nat, NEW f \in [1 .. n -> S],
         \A i, j \in 1 .. n : f[i] = f[j] => i = j,
         \A x \in S : \E i \in 1 .. n : f[i] = x
  PROVE  Cardinality(S) = n
<1>1. f \in Bijection(1 .. n, S)
  BY DEF Bijection, Injection, Surjection, IsInjective
<1>2. ExistsBijection(1 .. n, S)
  BY <1>1 DEF ExistsBijection
<1>3. IsFiniteSet(1 .. n) /\ Cardinality(1 .. n) = n
  BY FS_Interval
<1>4. QED
  BY <1>2, <1>3, FS_Bijection

LEMMA LeavesOfIndices ==
  ASSUME NEW leaf
  PROVE  leaf \in BuiltLeaves <=>
           \E k \in 1 .. Len(subtrees) : \E i \in LeafIndices(subtrees[k]) :
             leaf = subtrees[k].nodes[i]
BY DEF BuiltLeaves, LeavesOf, LeafIndices

LEMMA FInvNumbersLeaves == FInv => PoolNumbersLeaves
<1>. SUFFICES ASSUME FInv, FitFits32, phase \in {"bins", "fitted"}
              PROVE  /\ Cardinality(BuiltLeaves) = Len(polyfits)
                     /\ \A leaf \in BuiltLeaves :
                          /\ leaf.poly_eval_id < Len(polyfits)
                          /\ polyfits[leaf.poly_eval_id + 1] = leaf.box
                     /\ \A k, m \in 1 .. Len(subtrees) : k < m =>
                          \A a \in LeavesOf(subtrees[k]), b \in LeavesOf(subtrees[m]) :
                            a.poly_eval_id < b.poly_eval_id
  BY DEF PoolNumbersLeaves
<1>1. FitTypeOK /\ Numbered /\ Settled = Len(polyfits) /\ Len(polyfits) \in Nat
  BY LenProperties DEF FInv, Settled, Shared
<1>2. /\ \A k \in 1 .. Len(subtrees) : \A i \in LeafIndices(subtrees[k]) :
           /\ Id(k, i) \in 0 .. Len(polyfits) - 1
           /\ polyfits[Id(k, i) + 1] = subtrees[k].nodes[i].box
      /\ \A k, m \in 1 .. Len(subtrees) :
           \A i \in LeafIndices(subtrees[k]), j \in LeafIndices(subtrees[m]) :
             (k < m \/ (k = m /\ i < j)) => Id(k, i) < Id(m, j)
      /\ \A e \in 0 .. Len(polyfits) - 1 :
           \E k \in 1 .. Len(subtrees) : \E i \in LeafIndices(subtrees[k]) : Id(k, i) = e
  BY <1>1 DEF Numbered
<1>3. \A k \in 1 .. Len(subtrees) : \A i \in LeafIndices(subtrees[k]) :
        Id(k, i) = subtrees[k].nodes[i].poly_eval_id
  BY DEF Id
<1>4. \A leaf \in BuiltLeaves :
        /\ leaf.poly_eval_id \in 0 .. Len(polyfits) - 1
        /\ polyfits[leaf.poly_eval_id + 1] = leaf.box
  BY <1>2, <1>3, LeavesOfIndices
<1>5. ASSUME NEW a \in BuiltLeaves, NEW b \in BuiltLeaves, a.poly_eval_id = b.poly_eval_id
      PROVE  a = b
  <2>1. PICK k, i : k \in 1 .. Len(subtrees) /\ i \in LeafIndices(subtrees[k])
                      /\ a = subtrees[k].nodes[i]
    BY LeavesOfIndices
  <2>2. PICK m, j : m \in 1 .. Len(subtrees) /\ j \in LeafIndices(subtrees[m])
                      /\ b = subtrees[m].nodes[j]
    BY LeavesOfIndices
  <2>3. Id(k, i) = Id(m, j) /\ Id(k, i) \in Int
    BY <1>2, <1>3, <1>5, <2>1, <2>2
  <2>4. k \in Int /\ m \in Int /\ i \in Int /\ j \in Int
    BY <2>1, <2>2 DEF LeafIndices
  <2>5. ~(k < m) /\ ~(m < k)
    BY <1>2, <2>1, <2>2, <2>3
  <2>6. k = m
    BY <2>4, <2>5
  <2>7. ~(i < j) /\ ~(j < i)
    BY <1>2, <2>1, <2>2, <2>3, <2>6
  <2>8. QED
    BY <2>1, <2>2, <2>4, <2>6, <2>7
<1>6. ASSUME NEW e \in 0 .. Len(polyfits) - 1
      PROVE  \E leaf \in BuiltLeaves : leaf.poly_eval_id = e
  <2>1. PICK k, i : k \in 1 .. Len(subtrees) /\ i \in LeafIndices(subtrees[k]) /\ Id(k, i) = e
    BY <1>2
  <2>2. subtrees[k].nodes[i] \in BuiltLeaves
    BY <2>1, LeavesOfIndices
  <2>3. QED
    BY <1>3, <2>1, <2>2
<1>7. Cardinality(BuiltLeaves) = Len(polyfits)
  <2>1. PICK f : f = [e \in 1 .. Len(polyfits) |->
                        CHOOSE leaf \in BuiltLeaves : leaf.poly_eval_id = e - 1]
    OBVIOUS
  <2>2. \A e \in 1 .. Len(polyfits) : f[e] \in BuiltLeaves /\ f[e].poly_eval_id = e - 1
    <3>1. SUFFICES ASSUME NEW e \in 1 .. Len(polyfits)
                   PROVE  f[e] \in BuiltLeaves /\ f[e].poly_eval_id = e - 1
      OBVIOUS
    <3>2. \E leaf \in BuiltLeaves : leaf.poly_eval_id = e - 1
      BY <1>1, <1>6
    <3>3. f[e] = CHOOSE leaf \in BuiltLeaves : leaf.poly_eval_id = e - 1
      BY <2>1
    <3>4. QED
      BY <3>2, <3>3
  <2>3. f \in [1 .. Len(polyfits) -> BuiltLeaves]
    BY <2>1, <2>2
  <2>4. \A i, j \in 1 .. Len(polyfits) : f[i] = f[j] => i = j
    <3>1. SUFFICES ASSUME NEW i \in 1 .. Len(polyfits), NEW j \in 1 .. Len(polyfits), f[i] = f[j]
                   PROVE  i = j
      OBVIOUS
    <3>2. i - 1 = j - 1
      BY <2>2, <3>1
    <3>3. QED
      BY <1>1, <3>2
  <2>5. \A leaf \in BuiltLeaves : \E e \in 1 .. Len(polyfits) : f[e] = leaf
    <3>1. SUFFICES ASSUME NEW leaf \in BuiltLeaves
                   PROVE  \E e \in 1 .. Len(polyfits) : f[e] = leaf
      OBVIOUS
    <3>2. PICK e : e = leaf.poly_eval_id + 1
      OBVIOUS
    <3>3. e \in 1 .. Len(polyfits) /\ e - 1 = leaf.poly_eval_id
      BY <1>1, <1>4, <3>2
    <3>4. f[e] = leaf
      BY <1>5, <2>2, <3>3
    <3>5. QED
      BY <3>3, <3>4
  <2>6. QED
    BY <1>1, <2>3, <2>4, <2>5, NumberingCounts
<1>8. ASSUME NEW k \in 1 .. Len(subtrees), NEW m \in 1 .. Len(subtrees), k < m,
             NEW a \in LeavesOf(subtrees[k]), NEW b \in LeavesOf(subtrees[m])
      PROVE  a.poly_eval_id < b.poly_eval_id
  <2>1. PICK i \in LeafIndices(subtrees[k]) : a = subtrees[k].nodes[i]
    BY DEF LeavesOf, LeafIndices
  <2>2. PICK j \in LeafIndices(subtrees[m]) : b = subtrees[m].nodes[j]
    BY DEF LeavesOf, LeafIndices
  <2>3. QED
    BY <1>2, <1>3, <1>8, <2>1, <2>2
<1>9. \A leaf \in BuiltLeaves : leaf.poly_eval_id < Len(polyfits)
  BY <1>1, <1>4
<1>10. QED
  BY <1>4, <1>7, <1>8, <1>9

(* Between two bins, and in a fit that is done, the pool holds one         *)
(* polynomial for every leaf and nothing else, numbered bin after bin.     *)
THEOREM LeavesNumberPool == FitSpec => []PoolNumbersLeaves
BY FInvNumbersLeaves, FInvHolds, PTL

-----------------------------------------------------------------------------
(* What is reported.                                                       *)

(* A measurement that fails its own test fails against the scale so far.   *)
LEMMA ExceedingFails ==
  ASSUME max_abs_f \in Nat, NEW s \in Sample, ExceedsTol(s)
  PROVE  ~PassesAt(s, max_abs_f)
<1>1. CASE UsesTail
  BY <1>1 DEF ExceedsTol, PassesAt
<1>2. CASE ~UsesTail
  <2>1. PICK g \in {s.open, s.closed} : GridExceeds(g, PanelScale(s))
    BY <1>2 DEF ExceedsTol
  <2>2. g.err \in Nat /\ s.open.amp \in Nat /\ s.closed.amp \in Nat /\ g.finite \in BOOLEAN
    BY DEF Sample, Grid
  <2>3. PanelScale(s) \in Nat /\ max_abs_f <= PanelScale(s)
    BY <2>2 DEF PanelScale, PanelMax, Larger
  <2>4. PICK m \in Nat : m = PanelScale(s) /\ max_abs_f <= m
    BY <2>3
  <2>5. Tol * max_abs_f \in Nat /\ Tol * m \in Nat /\ Tol * max_abs_f <= Tol * m
    BY <2>4, TimesMonotone, ConstantsOK
  <2>6. ~g.finite \/ (IF Kind = "RelativeMax" THEN g.err > Tol * m ELSE g.local)
    BY <2>1, <2>4 DEF GridExceeds
  <2>7. ~MeetsAt(g, max_abs_f)
    BY <2>2, <2>5, <2>6 DEF MeetsAt
  <2>8. QED
    BY <1>2, <2>7 DEF PassesAt
<1>3. QED
  BY <1>1, <1>2

LEMMA FInvReports == FInv => PanelsOfEveryBin
<1>. DEFINE reported == {non_converged_panels[k].box : k \in 1 .. Len(non_converged_panels)}
<1>. SUFFICES ASSUME FInv, phase \in {"MaxDepthExceeded", "fitted"}
              PROVE  /\ Len(subtrees) = total_bins
                     /\ {leaf.box : leaf \in Failing} \subseteq reported
                     /\ Len(non_converged_panels) = Cardinality(reported)
                     /\ phase = "MaxDepthExceeded" <=>
                          reported # {} /\ ~input.allow_max_depth_leaves
  BY DEF PanelsOfEveryBin
<1>1. /\ FitTypeOK /\ AllSound /\ max_abs_f \in Nat
      /\ Len(subtrees) = total_bins /\ non_converged_panels = AllPanels
      /\ phase = "MaxDepthExceeded" <=> (AllPanels # <<>> /\ ~input.allow_max_depth_leaves)
  BY DEF FInv, Shared, Finished
<1>2. PICK ps : ps = non_converged_panels
  OBVIOUS
<1>3. /\ ps \in Seq(PanelRecord) /\ Len(ps) \in Nat /\ reported = BoxesOf(ps)
      /\ \A k \in 1 .. Len(subtrees) : BoxesOf(subtrees[k].panels) \subseteq BoxesOf(ps)
      /\ \A j, m \in 1 .. Len(ps) : ps[j].box = ps[m].box => j = m
  <2>1. GatheredFrom(ps, Len(subtrees))
    BY <1>1, <1>2, AllPanelsFacts
  <2>2. reported = BoxesOf(ps)
    BY <1>2 DEF BoxesOf
  <2>3. QED
    BY <2>1, <2>2, LenProperties DEF GatheredFrom
<1>. HIDE DEF reported
<1>4. ASSUME NEW leaf \in Failing
      PROVE  leaf.box \in reported
  <2>1. leaf \in BuiltLeaves /\ Depth(leaf.box) = input.max_depth /\ ExceedsTol(leaf.seen)
    BY DEF Failing
  <2>2. PICK k, i : k \in 1 .. Len(subtrees) /\ i \in LeafIndices(subtrees[k])
                      /\ leaf = subtrees[k].nodes[i]
    BY <2>1, LeavesOfIndices
  <2>3. i \in 1 .. Len(subtrees[k].nodes) /\ leaf.seen \in Sample
    BY <1>1, <2>2, TreeFacts DEF LeafIndices, NodeRecord
  <2>4. Excused(subtrees[k], i)
    BY <1>1, <2>1, <2>2, <2>3 DEF AllSound, Sound
  <2>5. ~PassesAt(leaf.seen, max_abs_f)
    BY <1>1, <2>1, <2>3, ExceedingFails
  <2>6. QED
    BY <1>3, <2>2, <2>4, <2>5 DEF Excused
<1>5. Len(ps) = Cardinality(reported)
  <2>1. PICK f : f = [j \in 1 .. Len(ps) |-> ps[j].box]
    OBVIOUS
  <2>2. f \in [1 .. Len(ps) -> reported]
    BY <1>3, <2>1 DEF BoxesOf
  <2>3. \A i, j \in 1 .. Len(ps) : f[i] = f[j] => i = j
    BY <1>3, <2>1
  <2>4. \A x \in reported : \E i \in 1 .. Len(ps) : f[i] = x
    BY <1>3, <2>1 DEF BoxesOf
  <2>5. Len(ps) \in Nat
    BY <1>3
  <2>6. Cardinality(reported) = Len(ps)
    BY <2>2, <2>3, <2>4, <2>5, NumberingCounts
  <2>7. QED
    BY <2>6
<1>6. reported # {} <=> AllPanels # <<>>
  <2>1. ps # <<>> <=> Len(ps) # 0
    BY <1>3, EmptySeq
  <2>2. reported # {} <=> Len(ps) # 0
    BY <1>3 DEF BoxesOf
  <2>3. QED
    BY <1>1, <1>2, <2>1, <2>2
<1>7. QED
  BY <1>1, <1>2, <1>4, <1>5, <1>6

(* The exception for a tree at its depth limit comes after the last bin,   *)
(* with the panels of all of them, each once.                              *)
THEOREM EveryBinReported == FitSpec => []PanelsOfEveryBin
BY FInvReports, FInvHolds, PTL

LEMMA FInvAccurate == FInv => FitAccurate
<1>. SUFFICES ASSUME FInv, FitFits32, phase = "fitted", ~input.allow_max_depth_leaves, ~UsesTail,
                     NEW leaf \in BuiltLeaves
              PROVE  Meets(leaf.seen.open) /\ Meets(leaf.seen.closed)
  BY DEF FitAccurate
<1>1. FitTypeOK /\ AllSound /\ AllPanels = <<>>
  BY DEF FInv, Finished
<1>2. PICK k, i : k \in 1 .. Len(subtrees) /\ i \in LeafIndices(subtrees[k])
                      /\ leaf = subtrees[k].nodes[i]
  BY LeavesOfIndices
<1>3. Excused(subtrees[k], i)
  BY <1>1, <1>2 DEF AllSound, Sound
<1>4. BoxesOf(subtrees[k].panels) = {}
  <2>1. BoxesOf(subtrees[k].panels) \subseteq BoxesOf(AllPanels)
    <3>1. GatheredFrom(AllPanels, Len(subtrees))
      BY <1>1, AllPanelsFacts
    <3>2. QED
      BY <1>2, <3>1 DEF GatheredFrom
  <2>2. BoxesOf(<<>>) = {}
    <3>1. Len(<<>>) = 0
      BY EmptySeq
    <3>2. QED
      BY <3>1 DEF BoxesOf
  <2>3. QED
    BY <1>1, <2>1, <2>2
<1>5. PassesAt(leaf.seen, max_abs_f)
  BY <1>2, <1>3, <1>4 DEF Excused
<1>6. QED
  BY <1>5 DEF PassesAt, MeetsAt, Meets

(* No leaf of a fit that succeeds without allow_max_depth_leaves misses    *)
(* the tolerance, measured against the scale of all bins.                  *)
THEOREM FitMeetsTolerance == FitSpec => []FitAccurate
BY FInvAccurate, FInvHolds, PTL

-----------------------------------------------------------------------------
(* The refinement of Tiling by all bins together.                          *)

BuiltBoxes == {leaf.box : leaf \in BuiltLeaves}
Ahead == {<<b>> : b \in Begun .. total_bins - 1}
FitOpen == Queued \cup Ahead
FitClosed == BuiltBoxes \cup Closed

(* Outside a bin nothing is queued, and the leaves of the tree that was    *)
(* built last are those of the last finished subtree.                      *)
HandedOver ==
  phase \notin {"tree", "MemoryBudgetExceeded"} => q = <<>> /\ Closed \subseteq BuiltBoxes

LEMMA BoxesOfIndices ==
  ASSUME NEW bx
  PROVE  bx \in BuiltBoxes <=>
           \E k \in 1 .. Len(subtrees) : \E i \in LeafIndices(subtrees[k]) :
             bx = subtrees[k].nodes[i].box
BY LeavesOfIndices DEF BuiltBoxes

LEMMA SameTrees ==
  ASSUME subtrees' = subtrees
  PROVE  BuiltBoxes' = BuiltBoxes
BY DEF BuiltBoxes, BuiltLeaves, LeavesOf, IsLeaf

(* The end of a bin adds the leaves of its tree.                           *)
LEMMA EndBoxes ==
  ASSUME FInv, EndSubtree
  PROVE  BuiltBoxes' = BuiltBoxes \cup {nodes[i].box : i \in LeafNodes}
<1>1. PICK n : n = Len(subtrees)
  OBVIOUS
<1>2. PICK T : T = subtrees'
  OBVIOUS
<1>3. /\ n \in Nat /\ Len(T) = n + 1 /\ T[n + 1].nodes = nodes
      /\ \A k \in 1 .. n : T[k] = subtrees[k]
  BY <1>1, <1>2, EndFacts
<1>4. \A bx : bx \in BuiltBoxes' <=>
         \E k \in 1 .. n + 1 : \E i \in LeafIndices(T[k]) : bx = T[k].nodes[i].box
  BY <1>2, <1>3 DEF BuiltBoxes, BuiltLeaves, LeavesOf, IsLeaf, LeafIndices
<1>5. LeafIndices(T[n + 1]) = LeafNodes
  BY <1>3 DEF LeafIndices, LeafNodes
<1>6. ASSUME NEW bx \in BuiltBoxes'
      PROVE  bx \in BuiltBoxes \cup {nodes[i].box : i \in LeafNodes}
  <2>1. PICK k \in 1 .. n + 1 : \E i \in LeafIndices(T[k]) : bx = T[k].nodes[i].box
    BY <1>4, <1>6
  <2>2. CASE k \in 1 .. n
    BY <1>1, <1>3, <2>1, <2>2, BoxesOfIndices
  <2>3. CASE k = n + 1
    BY <1>3, <1>5, <2>1, <2>3
  <2>4. QED
    BY <1>3, <2>2, <2>3
<1>7. ASSUME NEW bx \in BuiltBoxes
      PROVE  bx \in BuiltBoxes'
  <2>1. PICK k \in 1 .. n : \E i \in LeafIndices(subtrees[k]) : bx = subtrees[k].nodes[i].box
    BY <1>1, BoxesOfIndices
  <2>2. k \in 1 .. n + 1 /\ T[k] = subtrees[k]
    BY <1>3
  <2>3. QED
    BY <1>4, <2>1, <2>2
<1>8. ASSUME NEW i \in LeafNodes
      PROVE  nodes[i].box \in BuiltBoxes'
  <2>1. n + 1 \in 1 .. n + 1
    BY <1>3
  <2>2. i \in LeafIndices(T[n + 1]) /\ T[n + 1].nodes[i].box = nodes[i].box
    BY <1>3, <1>5
  <2>3. QED
    BY <1>4, <2>1, <2>2
<1>9. QED
  BY <1>6, <1>7, <1>8

LEMMA StepHandedOver ==
  ASSUME FInv, HandedOver, [FitNext]_allVars
  PROVE  HandedOver'
<1>1. CASE EndSubtree
  <2>1. q' = <<>> /\ nodes' = nodes /\ IdsOfLeaves
    BY <1>1, EndFacts DEF vars, treeVars, InTree
  <2>2. Closed' = Closed
    BY <2>1 DEF Closed
  <2>3. Closed \subseteq {nodes[i].box : i \in LeafNodes}
    BY <2>1 DEF IdsOfLeaves, Closed, LeafNodes
  <2>4. QED
    BY <1>1, <2>1, <2>2, <2>3, EndBoxes DEF HandedOver
<1>2. CASE BeginSubtree \/ TreeStep
  BY <1>2 DEF BeginSubtree, TreeStep, fitVars, HandedOver
<1>3. CASE SubtreeThrows
  <2>1. phase' = "MemoryBudgetExceeded"
    BY <1>3 DEF FInv, Phases, SubtreeThrows, InTree, PInv, IInv, TypeOK, Exceptions
  <2>2. QED
    BY <2>1 DEF HandedOver
<1>4. CASE (\E s \in Samples : ProbeRoot(s)) \/ ProbeRejects \/ Finish
  <2>1. /\ q' = q /\ nodes' = nodes /\ subtrees' = subtrees
        /\ phase \notin {"tree", "MemoryBudgetExceeded"}
    BY <1>4 DEF ProbeRoot, ProbeRejects, Finish, vars, treeVars
  <2>2. Closed' = Closed /\ BuiltBoxes' = BuiltBoxes
    BY <2>1, SameTrees DEF Closed
  <2>3. QED
    BY <2>1, <2>2 DEF HandedOver
<1>5. CASE UNCHANGED allVars
  <2>1. q' = q /\ nodes' = nodes /\ subtrees' = subtrees /\ phase' = phase
    BY <1>5 DEF allVars, vars, treeVars, fitVars
  <2>2. Closed' = Closed /\ BuiltBoxes' = BuiltBoxes
    BY <2>1, SameTrees DEF Closed
  <2>3. QED
    BY <2>1, <2>2 DEF HandedOver
<1>6. QED
  BY <1>1, <1>2, <1>3, <1>4, <1>5 DEF FitNext

LEMMA FitInitTiles == FitInit => FitTiling!Init /\ HandedOver
<1>. SUFFICES ASSUME FitInit PROVE FitTiling!Init /\ HandedOver
  OBVIOUS
<1>1. /\ q = <<>> /\ nodes = <<>> /\ subtrees = <<>> /\ phase = "probe"
      /\ Len(q) = 0 /\ Len(nodes) = 0 /\ Len(subtrees) = 0 /\ total_bins \in TotalBins
  BY DEF FitInit
<1>2. Queued = {} /\ Closed = {} /\ BuiltBoxes = {} /\ Begun = 0
  BY <1>1, BoxesOfIndices DEF Queued, Closed, Begun
<1>3. FitOpen = {<<b>> : b \in 0 .. total_bins - 1} /\ FitClosed = {}
  BY <1>2 DEF FitOpen, FitClosed, Ahead
<1>4. FitOpen \in {{<<b>> : b \in 0 .. n - 1} : n \in TotalBins}
  BY <1>1, <1>3
<1>5. FitTiling!Init
  BY <1>3, <1>4 DEF FitTiling!Init, FitOpen, FitClosed, Queued, Ahead, Closed, BuiltBoxes
<1>6. HandedOver
  BY <1>1, <1>2 DEF HandedOver
<1>7. QED
  BY <1>5, <1>6

(* What the tree of the current bin queues is not a bin still ahead.       *)
LEMMA HeadNotAhead ==
  ASSUME FInv, phase = "tree", NEW s \in Samples, Visit(s)
  PROVE  Head(q) \notin Ahead
<1>1. /\ InTree(Len(subtrees)) /\ TypeOK /\ Level /\ Len(subtrees) \in Nat /\ Begun = Len(subtrees) + 1
      /\ total_bins \in Nat
  BY TreeFacts, FunctionConstants DEF FInv, Phases, InTree, PInv, IInv, Begun, FitTypeOK
<1>2. Head(q)[1] = Len(subtrees)
  <2>1. Head(q) = q[1] /\ Len(q) \in Nat \ {0} /\ Len(nodes) \in Nat
    BY <1>1, VisitFacts, PlannedFacts
  <2>2. PanelAt(Len(nodes)) = q[1]
    BY <2>1 DEF PanelAt
  <2>3. Len(nodes) \in 0 .. Planned - 1
    BY <2>1 DEF Planned
  <2>4. QED
    BY <1>1, <2>1, <2>2, <2>3 DEF InTree, Rooted
<1>3. \A b \in Begun .. total_bins - 1 : <<b>>[1] # Len(subtrees)
  BY <1>1
<1>4. QED
  BY <1>2, <1>3 DEF Ahead

LEMMA TreeStepTiles ==
  ASSUME FInv, FitFits32', TreeStep
  PROVE  FitTiling!Next \/ UNCHANGED << FitOpen, FitClosed >>
<1>1. /\ phase = "tree" /\ Next /\ InTree(Len(subtrees)) /\ ~Unsupported
      /\ TypeOK /\ Level /\ Distinct
      /\ UNCHANGED << total_bins, subtrees, phase >> /\ Len(polyfits') <= kLeafSentinel
  BY DEF FInv, Phases, TreeStep, fitVars, InTree, PInv, IInv, FitFits32
<1>2. Ahead' = Ahead /\ BuiltBoxes' = BuiltBoxes
  BY <1>1, SameTrees DEF Ahead, Begun
<1>3. CASE Idle
  BY <1>2, <1>3 DEF Idle, FitOpen, FitClosed, Queued, Closed
<1>4. ~RejectTolKind
  BY <1>1 DEF RejectTolKind
<1>5. ASSUME NEW s \in Samples, AddsLeaf(s)
      PROVE  FitTiling!Next
  <2>1. /\ Queued' = Queued \ {Head(q)} /\ Closed' = Closed \cup {Head(q)}
        /\ Head(q) \in Queued /\ Head(q) \notin Ahead
    BY <1>1, <1>5, LeafCloses, HeadQueuedOnce, HeadNotAhead DEF AddsLeaf
  <2>2. PICK b : b = Head(q)
    OBVIOUS
  <2>3. /\ FitOpen' = FitOpen \ {b} /\ FitClosed' = FitClosed \cup {b} /\ b \in FitOpen
    BY <1>2, <2>1, <2>2 DEF FitOpen, FitClosed
  <2>4. FitTiling!Close(b)
    BY <2>3 DEF FitTiling!Close, FitOpen, FitClosed, Queued, Ahead, Closed, BuiltBoxes
  <2>5. QED
    BY <2>3, <2>4 DEF FitTiling!Next, FitOpen, Queued, Ahead
<1>6. ASSUME NEW s \in Samples, Subdivide(s)
      PROVE  FitTiling!Next
  <2>1. /\ Queued' = (Queued \ {Head(q)}) \cup {Append(Head(q), c) : c \in 0 .. NChild - 1}
        /\ Closed' = Closed /\ Head(q) \in Queued /\ Head(q) \notin Ahead
    BY <1>1, <1>6, SubdivideSplits, HeadQueuedOnce, HeadNotAhead DEF Subdivide
  <2>2. PICK b : b = Head(q)
    OBVIOUS
  <2>3. /\ FitOpen' = (FitOpen \ {b}) \cup {Append(b, c) : c \in 0 .. NChild - 1}
        /\ FitClosed' = FitClosed /\ b \in FitOpen
    BY <1>2, <2>1, <2>2 DEF FitOpen, FitClosed
  <2>4. FitTiling!Split(b)
    BY <2>3 DEF FitTiling!Split, FitTiling!ChildrenOf, FitOpen, FitClosed, Queued, Ahead,
                Closed, BuiltBoxes
  <2>5. QED
    BY <2>3, <2>4 DEF FitTiling!Next, FitOpen, Queued, Ahead
<1>7. QED
  BY <1>1, <1>3, <1>4, <1>5, <1>6, StepKinds

(* The first steps on a bin and the last one leave the tiling as it is.    *)
LEMMA BeginTiles ==
  ASSUME FInv, HandedOver, BeginSubtree
  PROVE  UNCHANGED << FitOpen, FitClosed >>
<1>1. PICK n : n = Len(subtrees)
  OBVIOUS
<1>2. /\ phase = "bins" /\ phase' = "tree" /\ n \in Nat /\ total_bins \in Nat /\ n < total_bins
      /\ UNCHANGED << total_bins, subtrees >> /\ nodes' = <<>> /\ q' = << <<n>> >>
      /\ q = <<>> /\ Closed \subseteq BuiltBoxes
  BY <1>1, TreeFacts, FunctionConstants
     DEF FInv, FitTypeOK, BeginSubtree, MoreBins, HandedOver
<1>3. Begun = n /\ Begun' = n + 1
  BY <1>1, <1>2 DEF Begun
<1>4. Queued = {} /\ Queued' = {<<n>>} /\ Closed' = {}
  <2>1. Len(q) = 0 /\ Len(q') = 1 /\ Len(nodes') = 0
    BY <1>2
  <2>2. QED
    BY <1>2, <2>1 DEF Queued, Closed
<1>5. FitClosed' = FitClosed
  BY <1>2, <1>4, SameTrees DEF FitClosed
<1>6. n .. total_bins - 1 = {n} \cup ((n + 1) .. total_bins - 1)
  BY <1>2
<1>7. FitOpen' = FitOpen
  BY <1>2, <1>3, <1>4, <1>6 DEF FitOpen, Ahead
<1>8. QED
  BY <1>5, <1>7

LEMMA EndTiles ==
  ASSUME FInv, FitFits32', EndSubtree
  PROVE  UNCHANGED << FitOpen, FitClosed >>
<1>1. /\ phase = "tree" /\ phase' = "bins" /\ Len(subtrees') = Len(subtrees) + 1
      /\ total_bins' = total_bins /\ q' = q /\ nodes' = nodes
      /\ TypeOK /\ Fits32 /\ LeafPool /\ pc # "UnsupportedTolKind"
  BY EndFacts DEF EndSubtree, vars, treeVars, InTree, PInv, IInv
<1>2. Begun' = Begun
  BY <1>1 DEF Begun
<1>3. FitOpen' = FitOpen
  BY <1>1, <1>2 DEF FitOpen, Ahead, Queued
<1>4. {nodes[i].box : i \in LeafNodes} \subseteq Closed
  <2>1. \A i \in LeafNodes : nodes[i].poly_eval_id \in start.pool .. Len(polyfits) - 1
    BY <1>1 DEF LeafPool
  <2>2. Len(polyfits) \in Nat /\ Len(polyfits) <= kLeafSentinel
    BY <1>1, LenProperties DEF TypeOK, Fits32
  <2>3. \A i \in LeafNodes : i \in 1 .. Len(nodes) /\ nodes[i].poly_eval_id # kLeafSentinel
    BY <2>1, <2>2, ConstantsOK DEF LeafNodes, TypeOK
  <2>4. QED
    BY <2>3 DEF Closed
<1>5. FitClosed' = FitClosed
  BY <1>1, <1>4, EndBoxes DEF FitClosed, Closed
<1>6. QED
  BY <1>3, <1>5

LEMMA OtherTiles ==
  ASSUME FInv, \/ \E s \in Samples : ProbeRoot(s)
               \/ ProbeRejects \/ SubtreeThrows \/ Finish \/ UNCHANGED allVars
  PROVE  UNCHANGED << FitOpen, FitClosed >>
<1>1. q' = q /\ nodes' = nodes /\ subtrees' = subtrees /\ total_bins' = total_bins
      /\ Begun' = Begun
  <2>1. CASE \E s \in Samples : ProbeRoot(s)
    <3>1. PICK s \in Samples : ProbeRoot(s)
      BY <2>1
    <3>2. ~LevelIsFull(ProbeQueue(s))
      BY <3>1, ProbeStopsAtRoot DEF FInv, Shared
    <3>3. QED
      BY <3>1, <3>2 DEF ProbeRoot, treeVars, Begun
  <2>2. CASE ProbeRejects
    BY <2>2 DEF ProbeRejects, vars, treeVars, Begun
  <2>3. CASE SubtreeThrows
    <3>1. phase = "tree" /\ phase' = "MemoryBudgetExceeded"
      BY <2>3 DEF FInv, Phases, SubtreeThrows, InTree, PInv, IInv, TypeOK, Exceptions
    <3>2. QED
      BY <2>3, <3>1 DEF SubtreeThrows, vars, treeVars, Begun
  <2>4. CASE Finish
    BY <2>4 DEF Finish, vars, treeVars, Begun
  <2>5. CASE UNCHANGED allVars
    BY <2>5 DEF allVars, vars, treeVars, fitVars, Begun
  <2>6. QED
    BY <2>1, <2>2, <2>3, <2>4, <2>5
<1>2. QED
  BY <1>1, SameTrees DEF FitOpen, FitClosed, Ahead, Queued, Closed

(* The bins, then the panels of their trees, are the panels of one tiling  *)
(* of the domain: each step closes one or replaces it by its children, as  *)
(* long as the 32-bit links have room.                                     *)
THEOREM FitTiles == FitSpec /\ []FitFits32 => ImplementsFitTiling
<1>1. FitInit => FitTiling!Init /\ HandedOver
  BY FitInitTiles
<1>2. FInv /\ HandedOver /\ [FitNext]_allVars => HandedOver'
  BY StepHandedOver
<1>3. FInv /\ HandedOver /\ FitFits32' /\ [FitNext]_allVars
        => FitTiling!Next \/ UNCHANGED << FitOpen, FitClosed >>
  BY TreeStepTiles, BeginTiles, EndTiles, OtherTiles DEF FitNext
<1>4. FInv /\ HandedOver /\ FitFits32' /\ [FitNext]_allVars => [FitTiling!Next]_(FitTiling!vars)
  BY <1>3 DEF FitTiling!vars, FitOpen, FitClosed, Queued, Ahead, Closed, BuiltBoxes
<1>5. QED
  BY <1>1, <1>2, <1>4, FInvHolds, PTL DEF FitSpec, ImplementsFitTiling, FitTiling!Spec
=============================================================================
