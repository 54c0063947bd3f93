-------------------------- MODULE LeafLookup_proofs --------------------------
(***************************************************************************)
(* What a lookup guarantees for every number of axes, of bins and of       *)
(* levels, whatever the tree: the bins and the cells of a point, the panel *)
(* that the descent and the table find, and the lanes, proved.             *)
(***************************************************************************)
EXTENDS LeafLookup, CountingLemmas, SequenceTheorems

-----------------------------------------------------------------------------
(* Numbers written in mixed radices                                        *)

LEMMA ProductTable ==
    ASSUME NEW m \in Nat \ {0}, NEW r \in [1 .. m -> Nat \ {0}], Len(r) = m
    PROVE  \E p \in [1 .. m -> Nat \ {0}] :
             /\ Product(r) = p[1] /\ p[m] = r[m]
             /\ \A d \in 1 .. m - 1 : p[d] = r[d] * p[d + 1]
<1>1. m \in 1 .. m
    OBVIOUS
<1> DEFINE D(p) == p = [d \in DOMAIN r |-> IF d = Len(r) THEN r[d] ELSE r[d] * p[d + 1]]
           times == [d \in 1 .. m |-> [v \in Nat \ {0} |-> r[d] * v]]
<1>2. \E p \in [1 .. m -> Nat \ {0}] : D(p)
    <2>1. times \in [1 .. m -> [Nat \ {0} -> Nat \ {0}]]
        <3>1. SUFFICES ASSUME NEW d \in 1 .. m, NEW v \in Nat \ {0}
                       PROVE  r[d] * v \in Nat \ {0}
            OBVIOUS
        <3>2. QED  BY <1>1
    <2> HIDE DEF times
    <2>2. r[m] \in Nat \ {0}
        BY <1>1
    <2>3. PICK p \in [1 .. m -> Nat \ {0}] : DownFrom(p, m, r[m], times)
        BY <1>1, <2>1, <2>2, DownExists
    <2>4. ASSUME NEW d \in 1 .. m
          PROVE  p[d] = IF d = m THEN r[d] ELSE r[d] * p[d + 1]
        <3>1. CASE d = m
            BY <2>3, <3>1 DEF DownFrom
        <3>2. CASE d # m
            <4>1. d + 1 \in 1 .. m
                BY <1>1, <3>2
            <4>2. p[d] = times[d][p[d + 1]]
                BY <2>3, <3>2 DEF DownFrom
            <4>3. QED  BY <3>2, <4>1, <4>2 DEF times
        <3>3. QED  BY <3>1, <3>2
    <2>5. p = [d \in 1 .. m |-> p[d]]
        BY <1>1
    <2>6. D(p)
        BY <1>1, <2>4, <2>5
    <2>7. QED  BY <2>6
<1> DEFINE q == CHOOSE p : D(p)
<1>3. D(q)
    BY <1>2
<1>4. Product(r) = q[1]
    BY DEF Product
<1> HIDE DEF q
<1>5. \A d \in 1 .. m : q[d] = IF d = m THEN r[d] ELSE r[d] * q[d + 1]
    BY <1>1, <1>3
<1> DEFINE T == {d \in 1 .. m : q[d] \in Nat \ {0}}
<1>6. m \in T
    BY <1>1, <1>5
<1>7. ASSUME NEW d \in 1 .. m - 1, d + 1 \in T PROVE d \in T
    <2>1. d \in 1 .. m /\ d # m
        BY <1>1
    <2>2. q[d] = r[d] * q[d + 1] /\ q[d + 1] \in Nat \ {0} /\ r[d] \in Nat \ {0}
        BY <1>1, <1>5, <1>7, <2>1
    <2>3. QED  BY <2>1, <2>2
<1>8. 1 .. m \subseteq T
    <2> HIDE DEF T
    <2>1. QED  BY <1>1, <1>6, <1>7, DownInduction
<1>9. DOMAIN q = 1 .. m /\ q = [d \in 1 .. m |-> q[d]]
    BY <1>1, <1>3
<1>10. q \in [1 .. m -> Nat \ {0}]
    BY <1>8, <1>9
<1>11. \A d \in 1 .. m - 1 : q[d] = r[d] * q[d + 1]
    BY <1>1, <1>5
<1>12. q[m] = r[m]
    BY <1>1, <1>5
<1>13. QED  BY <1>1, <1>4, <1>10, <1>11, <1>12

\* What the assumptions say of the fit that is asked.
LEMMA FitFacts ==
    ASSUME fit \in Fits
    PROVE  /\ Dim \in Nat \ {0} /\ Axes = 1 .. Dim /\ DOMAIN fit.n_subtrees = Axes
           /\ fit.n_subtrees \in Seq(Nat \ {0}) /\ fit.n_subtrees # <<>>
           /\ fit.n_subtrees \in [Axes -> Nat \ {0}]
           /\ fit.span \in Nat \ {0}
           /\ fit.table_bits \in Nat /\ fit.table_bits < word - 1 /\ word \in Nat \ {0}
           /\ TotalBins \in Nat \ {0} /\ DOMAIN fit.splits = 0 .. TotalBins - 1
<1>1. /\ fit.n_subtrees \in Seq(Nat \ {0}) /\ fit.n_subtrees # <<>>
      /\ fit.span \in Nat \ {0}
      /\ fit.table_bits \in Nat /\ fit.table_bits < word - 1 /\ word \in Nat \ {0}
      /\ DOMAIN fit.splits = 0 .. Product(fit.n_subtrees) - 1
    BY LookupConstants
<1>2. /\ Len(fit.n_subtrees) \in Nat \ {0}
      /\ DOMAIN fit.n_subtrees = 1 .. Len(fit.n_subtrees)
      /\ fit.n_subtrees \in [1 .. Len(fit.n_subtrees) -> Nat \ {0}]
    BY <1>1, LenProperties, EmptySeq
<1>3. Product(fit.n_subtrees) \in Nat \ {0}
    BY <1>2, ProductTable
<1>4. QED  BY <1>1, <1>2, <1>3 DEF Dim, Axes, TotalBins

\* above is what Horner has when it comes to each axis.
HornerOf(above, digit, radix) ==
  /\ above \in [Axes -> Nat] /\ above[Dim] = digit[Dim]
  /\ \A d \in 1 .. Dim - 1 : above[d] = above[d + 1] * radix[d] + digit[d]

LEMMA HornerTable ==
    ASSUME fit \in Fits, NEW digit \in [Axes -> Nat], NEW radix \in [Axes -> Nat \ {0}]
    PROVE  \E above : HornerOf(above, digit, radix) /\ Horner(digit, radix) = above[1]
<1>1. Dim \in Nat \ {0} /\ Axes = 1 .. Dim
    BY FitFacts
<1> DEFINE D(f) == f = [d \in Axes |-> IF d = Dim THEN digit[d] ELSE f[d + 1] * radix[d] + digit[d]]
           step == [d \in 1 .. Dim |-> [v \in Nat |-> v * radix[d] + digit[d]]]
<1>2. \E f : D(f)
    <2>1. step \in [1 .. Dim -> [Nat -> Nat]]
        <3>1. SUFFICES ASSUME NEW d \in 1 .. Dim, NEW v \in Nat
                       PROVE  v * radix[d] + digit[d] \in Nat
            OBVIOUS
        <3>2. QED  BY <1>1
    <2> HIDE DEF step
    <2>2. digit[Dim] \in Nat
        BY <1>1
    <2>3. PICK f \in [1 .. Dim -> Nat] : DownFrom(f, Dim, digit[Dim], step)
        BY <1>1, <2>1, <2>2, DownExists
    <2>4. ASSUME NEW d \in 1 .. Dim
          PROVE  f[d] = IF d = Dim THEN digit[d] ELSE f[d + 1] * radix[d] + digit[d]
        <3>1. CASE d = Dim
            BY <2>3, <3>1 DEF DownFrom
        <3>2. CASE d # Dim
            <4>1. d + 1 \in 1 .. Dim
                BY <1>1, <3>2
            <4>2. f[d] = step[d][f[d + 1]]
                BY <2>3, <3>2 DEF DownFrom
            <4>3. QED  BY <3>2, <4>1, <4>2 DEF step
        <3>3. QED  BY <3>1, <3>2
    <2>5. f = [d \in Axes |-> f[d]]
        BY <1>1
    <2>6. D(f)
        BY <1>1, <2>4, <2>5
    <2>7. QED  BY <2>6
<1> DEFINE q == CHOOSE f : D(f)
<1>3. D(q)
    BY <1>2
<1>4. Horner(digit, radix) = q[1]
    BY DEF Horner
<1> HIDE DEF q
<1>5. \A d \in 1 .. Dim : q[d] = IF d = Dim THEN digit[d] ELSE q[d + 1] * radix[d] + digit[d]
    BY <1>1, <1>3
<1>6. \A d \in 1 .. Dim - 1 : q[d] = q[d + 1] * radix[d] + digit[d]
    BY <1>1, <1>5
<1>7. q[Dim] = digit[Dim]
    BY <1>1, <1>5
<1> DEFINE T == {d \in 1 .. Dim : q[d] \in Nat}
<1>8. Dim \in T
    BY <1>1, <1>7
<1>9. ASSUME NEW d \in 1 .. Dim - 1, d + 1 \in T PROVE d \in T
    <2>1. d \in 1 .. Dim /\ q[d + 1] \in Nat /\ radix[d] \in Nat /\ digit[d] \in Nat
        BY <1>1, <1>9
    <2>2. QED  BY <1>6, <2>1
<1>10. 1 .. Dim \subseteq T
    <2> HIDE DEF T
    <2>1. QED  BY <1>1, <1>8, <1>9, DownInduction
<1>11. q \in [Axes -> Nat]
    BY <1>1, <1>3, <1>10
<1>12. QED  BY <1>4, <1>6, <1>7, <1>11 DEF HornerOf

\* Peeling takes the digits off one by one.
LEMMA PeeledStep ==
    ASSUME fit \in Fits, NEW v \in Int, NEW radix \in [Axes -> Nat \ {0}]
    PROVE  /\ Peeled(v, radix) \in [Axes -> Int] /\ Peeled(v, radix)[1] = v
           /\ \A d \in 1 .. Dim - 1 : Peeled(v, radix)[d + 1] = Peeled(v, radix)[d] \div radix[d]
<1>1. Dim \in Nat \ {0} /\ Axes = 1 .. Dim
    BY FitFacts
<1> DEFINE D(f) == f = [d \in Axes |-> IF d = 1 THEN v ELSE f[d - 1] \div radix[d - 1]]
           step == [k \in 1 .. Dim - 1 |-> [u \in Int |-> u \div radix[k]]]
<1>2. \E f : D(f)
    <2>1. step \in [1 .. Dim - 1 -> [Int -> Int]]
        <3>1. SUFFICES ASSUME NEW k \in 1 .. Dim - 1, NEW u \in Int PROVE u \div radix[k] \in Int
            OBVIOUS
        <3>2. QED  BY <1>1
    <2> HIDE DEF step
    <2>2. Dim - 1 \in Nat
        BY <1>1
    <2>3. PICK g \in [0 .. Dim - 1 -> Int] : UpFrom0(g, Dim - 1, v, step)
        BY <2>1, <2>2, UpExists
    <2> DEFINE f == [d \in Axes |-> g[d - 1]]
    <2>4. ASSUME NEW d \in Axes
          PROVE  f[d] = IF d = 1 THEN v ELSE f[d - 1] \div radix[d - 1]
        <3>1. d - 1 \in 0 .. Dim - 1 /\ f[d] = g[d - 1]
            BY <1>1
        <3>2. CASE d = 1
            BY <2>3, <3>1, <3>2 DEF UpFrom0
        <3>3. CASE d # 1
            <4>1. d - 1 \in Axes /\ d - 1 \in 1 .. Dim - 1 /\ d - 1 # 0 /\ (d - 1) - 1 \in 0 .. Dim - 1
                BY <1>1, <3>3
            <4>2. g[d - 1] = step[d - 1][g[(d - 1) - 1]] /\ f[d - 1] = g[(d - 1) - 1]
                BY <2>3, <3>1, <4>1 DEF UpFrom0
            <4>3. step[d - 1][g[(d - 1) - 1]] = g[(d - 1) - 1] \div radix[d - 1]
                BY <4>1 DEF step
            <4>4. QED  BY <3>1, <3>3, <4>2, <4>3
        <3>4. QED  BY <3>2, <3>3
    <2>5. f = [d \in Axes |-> f[d]]
        OBVIOUS
    <2> HIDE DEF f
    <2>6. D(f)
        BY <2>4, <2>5
    <2>7. QED  BY <2>6
<1> DEFINE q == CHOOSE f : D(f)
<1>3. D(q)
    BY <1>2
<1>4. Peeled(v, radix) = q
    BY DEF Peeled
<1> HIDE DEF q
<1>5. \A d \in Axes : q[d] = IF d = 1 THEN v ELSE q[d - 1] \div radix[d - 1]
    BY <1>3
<1>6. q[1] = v
    BY <1>1, <1>5
<1>7. \A d \in 1 .. Dim - 1 : q[d + 1] = q[d] \div radix[d]
    <2>1. SUFFICES ASSUME NEW d \in 1 .. Dim - 1 PROVE q[d + 1] = q[d] \div radix[d]
        OBVIOUS
    <2>2. d + 1 \in Axes /\ d + 1 # 1 /\ (d + 1) - 1 = d
        BY <1>1
    <2>3. QED  BY <1>5, <2>2
<1> DEFINE T == {k \in 0 .. Dim - 1 : q[k + 1] \in Int}
<1>8. 0 \in T
    BY <1>1, <1>6
<1>9. ASSUME NEW k \in 1 .. Dim - 1, k - 1 \in T PROVE k \in T
    <2>1. q[k] \in Int /\ radix[k] \in Nat \ {0} /\ k \in 0 .. Dim - 1
        BY <1>1, <1>9
    <2>2. QED  BY <1>7, <2>1
<1>10. 0 .. Dim - 1 \subseteq T
    <2>1. Dim - 1 \in Nat
        BY <1>1
    <2> HIDE DEF T
    <2>2. QED  BY <1>8, <1>9, <2>1, UpInduction
<1>11. ASSUME NEW d \in Axes PROVE q[d] \in Int
    <2>1. d - 1 \in 0 .. Dim - 1 /\ (d - 1) + 1 = d
        BY <1>1
    <2>2. QED  BY <1>10, <2>1
<1>12. q \in [Axes -> Int]
    BY <1>3, <1>11
<1>13. QED  BY <1>4, <1>6, <1>7, <1>12

\* The digits of a number in Horner form are what is peeled off it.
LEMMA DigitsBack ==
    ASSUME fit \in Fits, NEW digit \in [Axes -> Nat], NEW radix \in [Axes -> Nat \ {0}],
           \A d \in Axes : digit[d] < radix[d],
           NEW above, HornerOf(above, digit, radix)
    PROVE  \A d \in Axes : /\ Peeled(above[1], radix)[d] = above[d]
                           /\ above[d] % radix[d] = digit[d]
<1>1. Dim \in Nat \ {0} /\ Axes = 1 .. Dim
    BY FitFacts
<1>2. above \in [Axes -> Nat] /\ above[Dim] = digit[Dim]
    BY DEF HornerOf
<1> DEFINE rest == Peeled(above[1], radix)
<1>3. rest[1] = above[1] /\ \A d \in 1 .. Dim - 1 : rest[d + 1] = rest[d] \div radix[d]
    <2>1. above[1] \in Int
        BY <1>1, <1>2
    <2>2. QED  BY <2>1, PeeledStep
<1>4. ASSUME NEW d \in 1 .. Dim - 1
      PROVE  above[d] \div radix[d] = above[d + 1] /\ above[d] % radix[d] = digit[d]
    <2>1. d \in Axes /\ d + 1 \in Axes
        BY <1>1
    <2>2. /\ above[d + 1] \in Nat /\ radix[d] \in Nat \ {0} /\ digit[d] \in 0 .. radix[d] - 1
        BY <1>2, <2>1
    <2>3. above[d] = above[d + 1] * radix[d] + digit[d]
        BY <1>4 DEF HornerOf
    <2>4. above[d] = radix[d] * above[d + 1] + digit[d]
        BY <2>2, <2>3
    <2>5. /\ (radix[d] * above[d + 1] + digit[d]) \div radix[d] = above[d + 1]
          /\ (radix[d] * above[d + 1] + digit[d]) % radix[d] = digit[d]
        <3>1. above[d + 1] \in Int
            BY <2>2
        <3>2. QED  BY <2>2, <3>1, DivUnique, Zenon
    <2>6. QED  BY <2>4, <2>5
<1>5. above[Dim] % radix[Dim] = digit[Dim]
    <2>1. Dim \in Axes
        BY <1>1
    <2>2. radix[Dim] \in Nat \ {0} /\ digit[Dim] \in 0 .. radix[Dim] - 1 /\ 0 \in Int
        BY <2>1
    <2>3. (radix[Dim] * 0 + digit[Dim]) % radix[Dim] = digit[Dim]
        BY <2>2, DivUnique
    <2>4. radix[Dim] * 0 + digit[Dim] = digit[Dim]
        BY <2>2
    <2>5. QED  BY <1>2, <2>3, <2>4
<1> DEFINE T == {k \in 0 .. Dim - 1 : rest[k + 1] = above[k + 1]}
<1> HIDE DEF rest
<1>6. 0 \in T
    BY <1>1, <1>3
<1>7. ASSUME NEW k \in 1 .. Dim - 1, k - 1 \in T PROVE k \in T
    <2>1. (k - 1) + 1 = k /\ rest[k] = above[k]
        BY <1>1, <1>7
    <2>2. QED  BY <1>1, <1>3, <1>4, <2>1
<1>8. 0 .. Dim - 1 \subseteq T
    <2>1. Dim - 1 \in Nat
        BY <1>1
    <2> HIDE DEF T
    <2>2. QED  BY <1>6, <1>7, <2>1, UpInduction
<1>9. ASSUME NEW d \in Axes PROVE rest[d] = above[d] /\ above[d] % radix[d] = digit[d]
    <2>1. d - 1 \in 0 .. Dim - 1 /\ (d - 1) + 1 = d
        BY <1>1
    <2>2. rest[d] = above[d]
        BY <1>8, <2>1
    <2>3. d = Dim \/ d \in 1 .. Dim - 1
        BY <1>1
    <2>4. QED  BY <1>4, <1>5, <2>2, <2>3
<1>10. QED  BY <1>9 DEF rest

\* Digits below their radices make a number below the product.
LEMMA HornerBound ==
    ASSUME fit \in Fits, NEW digit \in [Axes -> Nat],
           \A d \in Axes : digit[d] < fit.n_subtrees[d]
    PROVE  Horner(digit, fit.n_subtrees) \in 0 .. TotalBins - 1
<1>1. Dim \in Nat \ {0} /\ Axes = 1 .. Dim /\ fit.n_subtrees \in [1 .. Dim -> Nat \ {0}]
      /\ Len(fit.n_subtrees) = Dim
    BY FitFacts DEF Dim
<1> DEFINE r == fit.n_subtrees
<1>2. PICK p \in [1 .. Dim -> Nat \ {0}] :
         /\ Product(r) = p[1] /\ p[Dim] = r[Dim]
         /\ \A d \in 1 .. Dim - 1 : p[d] = r[d] * p[d + 1]
    BY <1>1, ProductTable
<1>3. PICK above : HornerOf(above, digit, r) /\ Horner(digit, r) = above[1]
    BY <1>1, HornerTable
<1>4. above \in [Axes -> Nat] /\ above[Dim] = digit[Dim]
    BY <1>3 DEF HornerOf
<1> HIDE DEF r
<1> DEFINE T == {d \in 1 .. Dim : above[d] < p[d]}
<1>5. Dim \in T
    BY <1>1, <1>2, <1>4 DEF r
<1>6. ASSUME NEW d \in 1 .. Dim - 1, d + 1 \in T PROVE d \in T
    <2>1. d \in Axes /\ d + 1 \in Axes
        BY <1>1
    <2>2. /\ above[d + 1] \in Nat /\ above[d + 1] < p[d + 1] /\ p[d + 1] \in Nat \ {0}
          /\ digit[d] \in Nat /\ digit[d] < r[d] /\ r[d] \in Nat \ {0} /\ d \in 1 .. Dim
        BY <1>1, <1>2, <1>4, <1>6, <2>1 DEF r
    <2>3. above[d] = above[d + 1] * r[d] + digit[d] /\ p[d] = r[d] * p[d + 1]
        BY <1>2, <1>3 DEF HornerOf
    <2>4. above[d + 1] * r[d] + r[d] <= p[d + 1] * r[d]
        <3>1. above[d + 1] \in Int /\ p[d + 1] \in Int
            BY <2>2
        <3>2. QED  BY <2>2, <3>1, TimesOrder, Zenon
    <2>5. p[d + 1] * r[d] = r[d] * p[d + 1]
        BY <2>2
    <2>6. above[d + 1] * r[d] \in Nat /\ r[d] * p[d + 1] \in Nat
        BY <2>2
    <2>7. above[d] < p[d]
        BY <2>2, <2>3, <2>4, <2>5, <2>6
    <2>8. QED  BY <2>2, <2>7
<1>7. 1 .. Dim \subseteq T
    <2> HIDE DEF T
    <2>1. QED  BY <1>1, <1>5, <1>6, DownInduction
<1>8. above[1] < p[1] /\ above[1] \in Nat /\ p[1] \in Nat
    BY <1>1, <1>2, <1>4, <1>7
<1>9. QED  BY <1>2, <1>3, <1>8 DEF TotalBins, r

\* One subtree in all is one subtree on every axis.
LEMMA OneBin1 ==
    ASSUME fit \in Fits, TotalBins = 1
    PROVE  \A d \in Axes : fit.n_subtrees[d] = 1
<1>1. Dim \in Nat \ {0} /\ Axes = 1 .. Dim /\ fit.n_subtrees \in [1 .. Dim -> Nat \ {0}]
      /\ Len(fit.n_subtrees) = Dim
    BY FitFacts DEF Dim
<1> DEFINE r == fit.n_subtrees
<1>2. PICK p \in [1 .. Dim -> Nat \ {0}] :
         /\ Product(r) = p[1] /\ p[Dim] = r[Dim]
         /\ \A d \in 1 .. Dim - 1 : p[d] = r[d] * p[d + 1]
    BY <1>1, ProductTable
<1> HIDE DEF r
<1> DEFINE T == {k \in 0 .. Dim - 1 : p[k + 1] = 1}
<1>3. 0 \in T
    BY <1>1, <1>2 DEF TotalBins, r
<1>4. ASSUME NEW d \in 1 .. Dim - 1, p[d] = 1 PROVE r[d] = 1 /\ p[d + 1] = 1
    <2>1. r[d] \in Nat \ {0} /\ p[d + 1] \in Nat \ {0} /\ r[d] * p[d + 1] = 1
        BY <1>1, <1>2, <1>4 DEF r
    <2>2. QED  BY <2>1
<1>5. ASSUME NEW k \in 1 .. Dim - 1, k - 1 \in T PROVE k \in T
    <2>1. (k - 1) + 1 = k /\ p[k] = 1
        BY <1>1, <1>5
    <2>2. QED  BY <1>4, <2>1
<1>6. 0 .. Dim - 1 \subseteq T
    <2>1. Dim - 1 \in Nat
        BY <1>1
    <2> HIDE DEF T
    <2>2. QED  BY <1>3, <1>5, <2>1, UpInduction
<1>7. ASSUME NEW d \in Axes PROVE r[d] = 1
    <2>1. d - 1 \in 0 .. Dim - 1 /\ (d - 1) + 1 = d
        BY <1>1
    <2>2. p[d] = 1
        BY <1>6, <2>1
    <2>3. CASE d = Dim
        BY <1>2, <2>2, <2>3
    <2>4. CASE d # Dim
        <3>1. d \in 1 .. Dim - 1
            BY <1>1, <2>4
        <3>2. QED  BY <1>4, <2>2, <3>1
    <2>5. QED  BY <2>3, <2>4
<1>8. QED  BY <1>7 DEF r

\* Digits shifted into place: the sum of the lowest d of them takes d * k
\* bits, and the number above digit d is what is left of the whole.
ShiftedParts(sum, above, digit, k) ==
  /\ HornerOf(above, digit, [d \in Axes |-> Pow2(k)])
  /\ sum \in [0 .. Dim -> Nat] /\ sum[Dim] = Shifted(digit, k)
  /\ \A d \in 0 .. Dim : sum[d] < Pow2(k * d)
  /\ \A d \in Axes : Shifted(digit, k) = sum[d - 1] + Pow2(k * (d - 1)) * above[d]

LEMMA ShiftedTable ==
    ASSUME fit \in Fits, NEW k \in Nat, NEW digit \in [Axes -> Nat],
           \A d \in Axes : digit[d] < Pow2(k)
    PROVE  \E sum, above : ShiftedParts(sum, above, digit, k)
<1>1. Dim \in Nat \ {0} /\ Axes = 1 .. Dim /\ Dim \in Nat
    BY FitFacts
<1> DEFINE place(d) == Pow2(k * (d - 1))
           D(f) == f = [d \in 0 .. Dim |-> IF d = 0 THEN 0 ELSE f[d - 1] + digit[d] * Pow2(k * (d - 1))]
           step == [d \in 1 .. Dim |-> [v \in Nat |-> v + digit[d] * place(d)]]
<1>2. ASSUME NEW d \in 1 .. Dim
      PROVE  /\ k * (d - 1) \in Nat /\ place(d) \in Nat \ {0}
             /\ Pow2(k * d) = place(d) * Pow2(k) /\ Pow2(k) \in Nat \ {0}
             /\ digit[d] \in Nat /\ digit[d] < Pow2(k)
    <2>1. k * (d - 1) \in Nat /\ k * d = k * (d - 1) + k /\ k * d \in Nat
        OBVIOUS
    <2>2. Pow2(k * (d - 1) + k) = Pow2(k * (d - 1)) * Pow2(k)
        BY <2>1, Pow2Add
    <2>3. Pow2(k * (d - 1)) \in Nat \ {0} /\ Pow2(k) \in Nat \ {0}
        BY <2>1, Pow2Step
    <2>4. QED  BY <1>1, <2>1, <2>2, <2>3
<1> HIDE DEF place
<1>3. \E f : D(f)
    <2>1. step \in [1 .. Dim -> [Nat -> Nat]]
        <3>1. SUFFICES ASSUME NEW d \in 1 .. Dim, NEW v \in Nat
                       PROVE  v + digit[d] * place(d) \in Nat
            OBVIOUS
        <3>2. digit[d] \in Nat /\ place(d) \in Nat
            BY <1>2
        <3>3. QED  BY <3>2
    <2> HIDE DEF step
    <2>2. PICK f \in [0 .. Dim -> Nat] : UpFrom0(f, Dim, 0, step)
        BY <1>1, <2>1, UpExists
    <2>3. ASSUME NEW d \in 0 .. Dim
          PROVE  f[d] = IF d = 0 THEN 0 ELSE f[d - 1] + digit[d] * Pow2(k * (d - 1))
        <3>1. CASE d = 0
            BY <2>2, <3>1 DEF UpFrom0
        <3>2. CASE d # 0
            <4>1. d \in 1 .. Dim /\ d - 1 \in 0 .. Dim
                BY <1>1, <3>2
            <4>2. f[d] = step[d][f[d - 1]] /\ f[d - 1] \in Nat
                BY <2>2, <3>2, <4>1 DEF UpFrom0
            <4>3. QED  BY <3>2, <4>1, <4>2 DEF step, place
        <3>3. QED  BY <3>1, <3>2
    <2>4. f = [d \in 0 .. Dim |-> f[d]]
        OBVIOUS
    <2>5. D(f)
        BY <2>3, <2>4
    <2>6. QED  BY <2>5
<1> DEFINE sum == CHOOSE f : D(f)
<1>4. D(sum)
    BY <1>3
<1>5. Shifted(digit, k) = sum[Dim]
    BY DEF Shifted
<1> HIDE DEF sum
<1>6. sum[0] = 0 /\ \A d \in 1 .. Dim : sum[d] = sum[d - 1] + digit[d] * place(d)
    <2>1. \A d \in 0 .. Dim :
            sum[d] = IF d = 0 THEN 0 ELSE sum[d - 1] + digit[d] * Pow2(k * (d - 1))
        BY <1>4
    <2>2. 0 \in 0 .. Dim
        BY <1>1
    <2>3. sum[0] = 0
        BY <2>1, <2>2
    <2>4. ASSUME NEW d \in 1 .. Dim
          PROVE  sum[d] = sum[d - 1] + digit[d] * place(d)
        <3>1. d \in 0 .. Dim /\ d # 0
            BY <1>1, <2>4
        <3>2. sum[d] = sum[d - 1] + digit[d] * Pow2(k * (d - 1))
            BY <2>1, <3>1
        <3>3. QED  BY <3>2 DEF place
    <2>5. QED  BY <2>3, <2>4
<1> DEFINE T == {d \in 0 .. Dim : sum[d] \in Nat /\ sum[d] < Pow2(k * d)}
<1>7. 0 \in T
    <2>1. k * 0 = 0 /\ Pow2(0) = 1
        BY Pow2Step
    <2>2. QED  BY <1>1, <1>6, <2>1
<1>8. ASSUME NEW d \in 1 .. Dim, d - 1 \in T PROVE d \in T
    <2>1. sum[d - 1] \in Nat /\ sum[d - 1] < place(d)
        BY <1>8 DEF place
    <2>2. sum[d] = sum[d - 1] + digit[d] * place(d)
        BY <1>6
    <2>3. digit[d] * place(d) + place(d) <= Pow2(k) * place(d)
        <3>1. digit[d] \in Int /\ Pow2(k) \in Int /\ place(d) \in Nat \ {0} /\ digit[d] < Pow2(k)
            BY <1>2
        <3>2. QED  BY <3>1, TimesOrder, Zenon
    <2>4. Pow2(k) * place(d) = Pow2(k * d) /\ digit[d] * place(d) \in Nat /\ Pow2(k * d) \in Nat
        BY <1>2
    <2>5. sum[d] \in Nat /\ sum[d] < Pow2(k * d)
        BY <1>2, <2>1, <2>2, <2>3, <2>4
    <2>6. QED  BY <2>5
<1>9. 0 .. Dim \subseteq T
    <2> HIDE DEF T
    <2>1. QED  BY <1>1, <1>7, <1>8, UpInduction
<1>10. sum \in [0 .. Dim -> Nat] /\ \A d \in 0 .. Dim : sum[d] < Pow2(k * d)
    BY <1>4, <1>9
<1> DEFINE radix == [d \in Axes |-> Pow2(k)]
<1>11. radix \in [Axes -> Nat \ {0}]
    BY Pow2Step
<1> HIDE DEF radix
<1>12. PICK above : HornerOf(above, digit, radix)
    BY <1>11, HornerTable
<1>13. /\ above \in [Axes -> Nat] /\ above[Dim] = digit[Dim]
       /\ \A d \in 1 .. Dim - 1 : above[d] = above[d + 1] * Pow2(k) + digit[d]
    <2>1. \A d \in 1 .. Dim - 1 : radix[d] = Pow2(k)
        BY <1>1 DEF radix
    <2>2. QED  BY <1>12, <2>1 DEF HornerOf
<1> DEFINE U == {j \in 0 .. Dim - 1 : above[1] = sum[j] + Pow2(k * j) * above[j + 1]}
<1>14. 0 \in U
    <2>1. k * 0 = 0 /\ Pow2(0) = 1 /\ above[1] \in Nat
        BY <1>1, <1>13, Pow2Step
    <2>2. QED  BY <1>1, <1>6, <2>1
<1>15. ASSUME NEW j \in 1 .. Dim - 1, j - 1 \in U PROVE j \in U
    <2>1. (j - 1) + 1 = j /\ j \in 1 .. Dim /\ j - 1 \in 0 .. Dim /\ j \in Axes /\ j + 1 \in Axes
        BY <1>1
    <2>2. above[1] = sum[j - 1] + place(j) * above[j]
        BY <1>15, <2>1 DEF place
    <2>3. above[j] = above[j + 1] * Pow2(k) + digit[j]
        BY <1>13
    <2>4. sum[j] = sum[j - 1] + digit[j] * place(j)
        BY <1>6, <2>1
    <2>5. Pow2(k * j) = place(j) * Pow2(k)
        BY <1>2, <2>1
    <2>6. /\ above[j] \in Nat /\ above[j + 1] \in Nat /\ sum[j - 1] \in Nat
          /\ place(j) \in Nat /\ Pow2(k) \in Nat /\ digit[j] \in Nat
        BY <1>2, <1>10, <1>13, <2>1
    <2>7. ASSUME NEW P \in Nat, NEW B \in Nat, NEW a \in Nat, NEW c \in Nat, NEW s \in Nat
          PROVE  s + P * (a * B + c) = (s + c * P) + (P * B) * a
        OBVIOUS
    <2>8. sum[j - 1] + place(j) * (above[j + 1] * Pow2(k) + digit[j])
          = (sum[j - 1] + digit[j] * place(j)) + (place(j) * Pow2(k)) * above[j + 1]
        BY <2>6, <2>7
    <2>9. above[1] = sum[j] + Pow2(k * j) * above[j + 1]
        BY <2>2, <2>3, <2>4, <2>5, <2>8
    <2>10. QED  BY <2>9
<1>16. 0 .. Dim - 1 \subseteq U
    <2>1. Dim - 1 \in Nat
        BY <1>1
    <2> HIDE DEF U
    <2>2. QED  BY <1>14, <1>15, <2>1, UpInduction
<1>17. \A d \in Axes : above[1] = sum[d - 1] + place(d) * above[d]
    <2>1. SUFFICES ASSUME NEW d \in Axes PROVE above[1] = sum[d - 1] + place(d) * above[d]
        OBVIOUS
    <2>2. d - 1 \in 0 .. Dim - 1 /\ (d - 1) + 1 = d
        BY <1>1
    <2>3. QED  BY <1>16, <2>2 DEF place
<1>18. above[1] = sum[Dim]
    <2>1. Dim \in Axes /\ Dim \in 1 .. Dim /\ sum[Dim - 1] \in Nat
        BY <1>1, <1>10
    <2>2. above[1] = sum[Dim - 1] + place(Dim) * digit[Dim]
        BY <1>13, <1>17, <2>1
    <2>3. sum[Dim] = sum[Dim - 1] + digit[Dim] * place(Dim)
        BY <1>6, <2>1
    <2>4. place(Dim) \in Nat /\ digit[Dim] \in Nat
        BY <1>2, <2>1
    <2>5. QED  BY <2>2, <2>3, <2>4
<1>19. HornerOf(above, digit, [d \in Axes |-> Pow2(k)])
    BY <1>12 DEF radix
<1>20. \A d \in Axes : Shifted(digit, k) = sum[d - 1] + Pow2(k * (d - 1)) * above[d]
    BY <1>5, <1>17, <1>18 DEF place
<1>21. ShiftedParts(sum, above, digit, k)
    BY <1>5, <1>10, <1>19, <1>20, Zenon DEF ShiftedParts
<1>22. QED  BY <1>21

\* Shifting digits into place loses none of them.
LEMMA ShiftedDigits ==
    ASSUME fit \in Fits, NEW k \in Nat, NEW digit \in [Axes -> Nat],
           \A d \in Axes : digit[d] < Pow2(k)
    PROVE  /\ Shifted(digit, k) \in 0 .. Pow2(Dim * k) - 1
           /\ Dim = 1 => Shifted(digit, k) = digit[1]
           /\ \A d \in Axes :
                /\ Peeled(Shifted(digit, k), [e \in Axes |-> Pow2(k)])[d] % Pow2(k) = digit[d]
                /\ (Shifted(digit, k) \div Pow2(k * (d - 1))) % Pow2(k) = digit[d]
<1>1. Dim \in Nat \ {0} /\ Axes = 1 .. Dim
    BY FitFacts
<1>2. PICK sum, above : ShiftedParts(sum, above, digit, k)
    BY ShiftedTable
<1> DEFINE radix == [d \in Axes |-> Pow2(k)]
           v == Shifted(digit, k)
<1>3. radix \in [Axes -> Nat \ {0}] /\ \A d \in Axes : radix[d] = Pow2(k)
    BY Pow2Step
<1>4. /\ HornerOf(above, digit, radix) /\ v = sum[Dim] /\ sum \in [0 .. Dim -> Nat]
      /\ \A d \in 0 .. Dim : sum[d] < Pow2(k * d)
      /\ \A d \in Axes : v = sum[d - 1] + Pow2(k * (d - 1)) * above[d]
    BY <1>2 DEF ShiftedParts
<1> HIDE DEF radix, v
<1>5. above \in [Axes -> Nat] /\ above[Dim] = digit[Dim]
    BY <1>4 DEF HornerOf
<1>6. v = above[1]
    <2>1. 1 \in Axes /\ 0 \in 0 .. Dim /\ k * (1 - 1) = 0 /\ k * 0 = 0 /\ 1 - 1 = 0
        BY <1>1
    <2>2. sum[0] < 1 /\ sum[0] \in Nat /\ Pow2(0) = 1
        BY <1>4, <2>1, Pow2Step
    <2>3. v = sum[0] + Pow2(0) * above[1] /\ above[1] \in Nat
        BY <1>4, <1>5, <2>1
    <2>4. QED  BY <2>2, <2>3
<1>7. v \in 0 .. Pow2(Dim * k) - 1
    <2>1. Dim \in 0 .. Dim /\ k * Dim = Dim * k /\ Dim * k \in Nat
        BY <1>1
    <2>2. v \in Nat /\ v < Pow2(Dim * k) /\ Pow2(Dim * k) \in Nat
        BY <1>4, <2>1, Pow2Step
    <2>3. QED  BY <2>2
<1>8. \A d \in Axes : digit[d] < radix[d]
    BY <1>3
<1>9. \A d \in Axes : Peeled(v, radix)[d] = above[d] /\ above[d] % radix[d] = digit[d]
    BY <1>3, <1>4, <1>6, <1>8, DigitsBack
<1>10. ASSUME NEW d \in Axes PROVE v \div Pow2(k * (d - 1)) = above[d]
    <2>1. d - 1 \in 0 .. Dim /\ k * (d - 1) \in Nat /\ above[d] \in Int
        BY <1>1, <1>5
    <2>2. sum[d - 1] \in Nat /\ sum[d - 1] < Pow2(k * (d - 1)) /\ Pow2(k * (d - 1)) \in Nat \ {0}
        BY <1>4, <2>1, Pow2Step
    <2>3. sum[d - 1] \in 0 .. Pow2(k * (d - 1)) - 1
        BY <2>2
    <2>4. (Pow2(k * (d - 1)) * above[d] + sum[d - 1]) \div Pow2(k * (d - 1)) = above[d]
        BY <2>1, <2>2, <2>3, DivUnique, Zenon
    <2>5. v = Pow2(k * (d - 1)) * above[d] + sum[d - 1]
        BY <1>4, <2>1, <2>2
    <2>6. QED  BY <2>4, <2>5
<1>11. \A d \in Axes : (v \div Pow2(k * (d - 1))) % Pow2(k) = digit[d]
    BY <1>3, <1>9, <1>10
<1>12. \A d \in Axes : Peeled(v, radix)[d] % Pow2(k) = digit[d]
    BY <1>3, <1>9
<1>13. Dim = 1 => v = digit[1]
    BY <1>5, <1>6
<1>14. QED  BY <1>7, <1>11, <1>12, <1>13 DEF radix, v

-----------------------------------------------------------------------------
(* Trees                                                                   *)

\* A finite set of naturals that has 0 has a largest member.
LEMMA LargestMember ==
    ASSUME NEW S, S \subseteq Nat, 0 \in S, IsFiniteSet(S)
    PROVE  Max(S) \in S /\ \A v \in S : v <= Max(S)
<1>1. PICK m \in Nat : ExistsBijection(1 .. m, S)
    BY FS_NatBijection
<1>2. PICK f : f \in Bijection(1 .. m, S)
    BY <1>1 DEF ExistsBijection
<1>3. f \in [1 .. m -> S] /\ \A v \in S : \E j \in 1 .. m : f[j] = v
    BY <1>2 DEF Bijection, Injection, Surjection, IsInjective
<1> DEFINE T == {j \in 0 .. m : \E v \in S : \A t \in 1 .. j : f[t] <= v}
<1>4. 0 \in T
    OBVIOUS
<1>5. ASSUME NEW j \in 1 .. m, j - 1 \in T PROVE j \in T
    <2>1. PICK v \in S : \A t \in 1 .. j - 1 : f[t] <= v
        BY <1>5
    <2>2. f[j] \in S /\ f[j] \in Nat /\ v \in Nat
        BY <1>3
    <2>3. CASE f[j] <= v
        <3>1. \A t \in 1 .. j : t \in 1 .. j - 1 \/ t = j
            OBVIOUS
        <3>2. QED  BY <2>1, <2>3, <3>1
    <2>4. CASE v < f[j]
        <3>1. \A t \in 1 .. j : f[t] <= f[j]
            <4>1. SUFFICES ASSUME NEW t \in 1 .. j PROVE f[t] <= f[j]
                OBVIOUS
            <4>2. t \in 1 .. j - 1 \/ t = j
                OBVIOUS
            <4>3. f[t] \in Nat
                <5>1. t \in 1 .. m
                    OBVIOUS
                <5>2. QED  BY <1>3, <5>1
            <4>4. QED  BY <2>1, <2>2, <2>4, <4>2, <4>3
        <3>2. QED  BY <2>2, <3>1
    <2>5. QED  BY <2>2, <2>3, <2>4
<1>6. 0 .. m \subseteq T
    <2> HIDE DEF T
    <2>1. QED  BY <1>4, <1>5, UpInduction
<1>7. PICK v \in S : \A t \in 1 .. m : f[t] <= v
    BY <1>6
<1>8. \A u \in S : u <= v
    BY <1>3, <1>7
<1>9. \E u \in S : \A y \in S : u >= y
    <2>1. \A y \in S : v >= y
        <3>1. SUFFICES ASSUME NEW y \in S PROVE v >= y
            OBVIOUS
        <3>2. y <= v /\ y \in Nat /\ v \in Nat
            BY <1>8
        <3>3. QED  BY <3>2
    <2>2. QED  BY <2>1
<1>10. Max(S) \in S /\ \A y \in S : Max(S) >= y
    BY <1>9 DEF Max
<1>11. QED  BY <1>10

Children == 0 .. Pow2(Dim) - 1
Bins == 0 .. TotalBins - 1

\* Every split panel is above the lowest level, and a cell is even.
LEMMA TreeFacts ==
    ASSUME fit \in Fits, NEW b \in Bins
    PROVE  /\ max_depth(b) \in Nat
           /\ \A path \in fit.splits[b] : path \in Seq(Children) /\ Len(path) < max_depth(b)
           /\ Cell(b) \in Nat \ {0} /\ Cell(b) % 2 = 0
           /\ fit.span = Pow2(max_depth(b)) * Cell(b)
<1> DEFINE splits == fit.splits[b]
           lengths == {Len(path) + 1 : path \in splits}
           D == max_depth(b)
<1>1. b \in DOMAIN fit.splits /\ fit.span \in Nat \ {0}
    BY FitFacts DEF Bins
<1>2. splits \subseteq Seq(Children) /\ IsFiniteSet(splits) /\ fit.span % Pow2(D + 1) = 0
    BY <1>1, LookupConstants DEF Children, Dim, max_depth
<1> HIDE DEF splits
<1>3. IsFiniteSet(lengths)
    <2> DEFINE f == [path \in splits |-> Len(path) + 1]
    <2>1. f \in Surjection(splits, lengths)
        BY DEF Surjection
    <2> HIDE DEF f
    <2>2. QED  BY <1>2, <2>1, FS_Surjection
<1>4. \A path \in splits : Len(path) + 1 \in Nat /\ Len(path) \in Nat
    BY <1>2, LenProperties
<1>5. IsFiniteSet({0} \cup lengths) /\ {0} \cup lengths \subseteq Nat /\ 0 \in {0} \cup lengths
    <2>1. IsFiniteSet({0})
        BY FS_Singleton
    <2>2. IsFiniteSet({0} \cup lengths)
        BY <1>3, <2>1, FS_Union
    <2>3. QED  BY <1>4, <2>2
<1>6. D = Max({0} \cup lengths)
    BY DEF max_depth, Depth, splits
<1>7. D \in Nat /\ \A v \in lengths : v <= D
    BY <1>5, <1>6, LargestMember
<1> HIDE DEF D
<1>8. \A path \in splits : path \in Seq(Children) /\ Len(path) < D
    <2>1. SUFFICES ASSUME NEW path \in splits PROVE path \in Seq(Children) /\ Len(path) < D
        OBVIOUS
    <2>2. Len(path) + 1 <= D /\ Len(path) \in Nat
        BY <1>4, <1>7
    <2>3. QED  BY <1>2, <1>7, <2>2
<1>9. Pow2(D) \in Nat \ {0} /\ Pow2(D + 1) = 2 * Pow2(D)
    BY <1>7, Pow2Step
<1> DEFINE u == fit.span \div Pow2(D + 1)
<1>10. fit.span = (2 * Pow2(D)) * u /\ u \in Int
    <2>1. Pow2(D + 1) \in Nat \ {0} /\ fit.span \in Int
        BY <1>1, <1>9
    <2>2. fit.span = Pow2(D + 1) * u + (fit.span % Pow2(D + 1)) /\ u \in Int
        BY <2>1, DivMod
    <2>3. fit.span = Pow2(D + 1) * u + 0
        BY <1>2, <2>2 DEF D
    <2>4. QED  BY <1>9, <2>2, <2>3
<1> HIDE DEF u
<1>11. fit.span = Pow2(D) * (2 * u) + 0 /\ 2 * u \in Int /\ 0 \in 0 .. Pow2(D) - 1
    BY <1>9, <1>10
<1>12. Cell(b) = 2 * u
    <2>1. (Pow2(D) * (2 * u) + 0) \div Pow2(D) = 2 * u
        BY <1>9, <1>11, DivUnique, Zenon
    <2>2. QED  BY <1>11, <2>1 DEF Cell, bits, D
<1>13. u \in Nat \ {0}
    <2>1. ASSUME u <= 0 PROVE FALSE
        <3>1. ASSUME NEW P \in Nat \ {0}, NEW w \in Int, w <= 0 PROVE (2 * P) * w <= 0
            BY <3>1
        <3>2. (2 * Pow2(D)) * u <= 0
            BY <1>9, <1>10, <2>1, <3>1
        <3>3. QED  BY <1>1, <1>10, <3>2
    <2>2. QED  BY <1>10, <2>1
<1>14. 2 * u \in Nat \ {0} /\ (2 * u) % 2 = 0
    BY <1>13
<1>15. fit.span = Pow2(D) * (2 * u)
    BY <1>9, <1>10
<1>16. QED  BY <1>7, <1>8, <1>12, <1>14, <1>15 DEF D, splits

-----------------------------------------------------------------------------
(* Panels                                                                  *)

Boxes == [lo : [Axes -> Int], w : Int]

LEMMA BoxTypes ==
    ASSUME fit \in Fits, NEW b \in Int
    PROVE  SubtreeBox(b) \in Boxes /\ \A box \in Boxes, c \in Int : Half(box, c) \in Boxes
<1>1. fit.n_subtrees \in [Axes -> Nat \ {0}] /\ fit.span \in Int
    BY FitFacts
<1>2. SubtreeBox(b) \in Boxes
    <2>1. Peeled(b, fit.n_subtrees) \in [Axes -> Int]
        BY <1>1, PeeledStep
    <2>2. ASSUME NEW d \in Axes PROVE get_bins(b)[d] \in Int
        <3>1. Peeled(b, fit.n_subtrees)[d] \in Int /\ fit.n_subtrees[d] \in Nat \ {0}
            BY <1>1, <2>1
        <3>2. Peeled(b, fit.n_subtrees)[d] % fit.n_subtrees[d] \in Int
            BY <3>1, DivMod
        <3>3. QED  BY <3>1, <3>2 DEF get_bins
    <2>3. [d \in Axes |-> get_bins(b)[d] * fit.span] \in [Axes -> Int]
        BY <1>1, <2>2
    <2>4. QED  BY <1>1, <2>3 DEF SubtreeBox, Boxes
<1>3. ASSUME NEW box \in Boxes, NEW c \in Int PROVE Half(box, c) \in Boxes
    <2>1. box.lo \in [Axes -> Int] /\ box.w \in Int /\ box.w \div 2 \in Int
        BY DEF Boxes
    <2>2. [d \in Axes |-> box.lo[d] + (IF UpperHalf(c, d) THEN box.w \div 2 ELSE 0)] \in [Axes -> Int]
        BY <2>1
    <2>3. QED  BY <2>1, <2>2 DEF Half, Boxes
<1>4. QED  BY <1>2, <1>3

\* The boxes of the ancestors of a panel, the root's first.
AncestorBoxes(box, b, path) ==
  /\ box \in [0 .. Len(path) -> Boxes] /\ box[0] = SubtreeBox(b)
  /\ \A k \in 1 .. Len(path) : box[k] = Half(box[k - 1], path[k])

LEMMA PanelTable ==
    ASSUME fit \in Fits, NEW b \in Int, NEW path \in Seq(Children)
    PROVE  \E box : AncestorBoxes(box, b, path) /\ PanelBox(b, path) = box[Len(path)]
<1> DEFINE m == Len(path)
           root == SubtreeBox(b)
           D(f) == f = [k \in 0 .. Len(path) |-> IF k = 0 THEN SubtreeBox(b) ELSE Half(f[k - 1], path[k])]
           step == [k \in 1 .. m |-> [box \in Boxes |-> Half(box, path[k])]]
<1>1. m \in Nat /\ \A k \in 1 .. m : path[k] \in Int
    <2>1. m \in Nat /\ \A k \in 1 .. m : path[k] \in Children
        BY ElementOfSeq, LenProperties
    <2>2. QED  BY <2>1 DEF Children
<1>2. root \in Boxes /\ \A box \in Boxes, c \in Int : Half(box, c) \in Boxes
    BY BoxTypes
<1> HIDE DEF m, root
<1>3. \E f : D(f)
    <2>1. step \in [1 .. m -> [Boxes -> Boxes]]
        BY <1>1, <1>2
    <2> HIDE DEF step
    <2>2. PICK f \in [0 .. m -> Boxes] : UpFrom0(f, m, root, step)
        BY <1>1, <1>2, <2>1, UpExists
    <2>3. ASSUME NEW k \in 0 .. m
          PROVE  f[k] = IF k = 0 THEN root ELSE Half(f[k - 1], path[k])
        <3>1. CASE k = 0
            BY <2>2, <3>1 DEF UpFrom0
        <3>2. CASE k # 0
            <4>1. k \in 1 .. m /\ k - 1 \in 0 .. m
                BY <1>1, <3>2
            <4>2. f[k] = step[k][f[k - 1]] /\ f[k - 1] \in Boxes
                BY <2>2, <3>2, <4>1 DEF UpFrom0
            <4>3. QED  BY <3>2, <4>1, <4>2 DEF step
        <3>3. QED  BY <3>1, <3>2
    <2>4. f = [k \in 0 .. m |-> f[k]]
        OBVIOUS
    <2>5. D(f)
        BY <2>3, <2>4, Zenon DEF m, root
    <2>6. QED  BY <2>5
<1> DEFINE q == CHOOSE f : D(f)
<1>4. D(q)
    BY <1>3
<1>5. PanelBox(b, path) = q[m]
    BY DEF PanelBox, m
<1> HIDE DEF q
<1>6. q[0] = root /\ \A k \in 1 .. m : q[k] = Half(q[k - 1], path[k])
    <2>1. \A k \in 0 .. m : q[k] = IF k = 0 THEN root ELSE Half(q[k - 1], path[k])
        BY <1>4 DEF m, root
    <2>2. 0 \in 0 .. m
        BY <1>1
    <2>3. q[0] = root
        BY <2>1, <2>2
    <2>4. ASSUME NEW k \in 1 .. m PROVE q[k] = Half(q[k - 1], path[k])
        <3>1. k \in 0 .. m /\ k # 0
            BY <1>1
        <3>2. QED  BY <2>1, <3>1
    <2>5. QED  BY <2>3, <2>4
<1> DEFINE T == {k \in 0 .. m : q[k] \in Boxes}
<1>7. 0 \in T
    BY <1>1, <1>2, <1>6
<1>8. ASSUME NEW k \in 1 .. m, k - 1 \in T PROVE k \in T
    <2>1. q[k] = Half(q[k - 1], path[k]) /\ q[k - 1] \in Boxes /\ path[k] \in Int /\ k \in 0 .. m
        BY <1>1, <1>6, <1>8
    <2>2. QED  BY <1>2, <2>1
<1>9. 0 .. m \subseteq T
    <2> HIDE DEF T
    <2>1. QED  BY <1>1, <1>7, <1>8, UpInduction
<1>10. DOMAIN q = 0 .. m /\ q = [k \in 0 .. m |-> q[k]]
    BY <1>4 DEF m
<1>11. q \in [0 .. m -> Boxes]
    BY <1>9, <1>10
<1>12. QED  BY <1>5, <1>6, <1>11 DEF AncestorBoxes, m, root

\* The subtree's own box, and the box of a child.
LEMMA PanelSteps ==
    ASSUME fit \in Fits, NEW b \in Int
    PROVE  /\ PanelBox(b, <<>>) = SubtreeBox(b)
           /\ \A path \in Seq(Children), c \in Children :
                /\ PanelBox(b, path) \in Boxes
                /\ PanelBox(b, Append(path, c)) = Half(PanelBox(b, path), c)
<1>1. PanelBox(b, <<>>) = SubtreeBox(b)
    <2>1. <<>> \in Seq(Children) /\ Len(<<>>) = 0
        OBVIOUS
    <2>2. PICK box : AncestorBoxes(box, b, <<>>) /\ PanelBox(b, <<>>) = box[Len(<<>>)]
        BY <2>1, PanelTable
    <2>3. QED  BY <2>1, <2>2 DEF AncestorBoxes
<1>2. ASSUME NEW path \in Seq(Children), NEW c \in Children
      PROVE  /\ PanelBox(b, path) \in Boxes
             /\ PanelBox(b, Append(path, c)) = Half(PanelBox(b, path), c)
    <2> DEFINE m == Len(path)
               longer == Append(path, c)
    <2>1. /\ longer \in Seq(Children) /\ Len(longer) = m + 1 /\ m \in Nat
          /\ longer[m + 1] = c /\ \A k \in 1 .. m : longer[k] = path[k]
        BY AppendProperties, LenProperties
    <2>2. PICK p : AncestorBoxes(p, b, path) /\ PanelBox(b, path) = p[m]
        BY PanelTable
    <2>3. PICK q : AncestorBoxes(q, b, longer) /\ PanelBox(b, longer) = q[Len(longer)]
        BY <2>1, PanelTable
    <2> HIDE DEF m, longer
    <2>4. p \in [0 .. m -> Boxes] /\ p[0] = SubtreeBox(b)
          /\ \A k \in 1 .. m : p[k] = Half(p[k - 1], path[k])
        BY <2>2 DEF AncestorBoxes, m
    <2>5. q[0] = SubtreeBox(b) /\ \A k \in 1 .. m + 1 : q[k] = Half(q[k - 1], longer[k])
        BY <2>1, <2>3 DEF AncestorBoxes
    <2> DEFINE T == {k \in 0 .. m : q[k] = p[k]}
    <2>6. 0 \in T
        BY <2>1, <2>4, <2>5
    <2>7. ASSUME NEW k \in 1 .. m, k - 1 \in T PROVE k \in T
        <3>1. k \in 1 .. m + 1 /\ k \in 0 .. m /\ q[k - 1] = p[k - 1] /\ longer[k] = path[k]
            BY <2>1, <2>7
        <3>2. QED  BY <2>4, <2>5, <3>1
    <2>8. 0 .. m \subseteq T
        <3> HIDE DEF T
        <3>1. QED  BY <2>1, <2>6, <2>7, UpInduction
    <2>9. q[m + 1] = Half(q[m], c) /\ q[m] = p[m] /\ p[m] \in Boxes
        <3>1. m + 1 \in 1 .. m + 1 /\ (m + 1) - 1 = m /\ m \in 0 .. m
            BY <2>1
        <3>2. QED  BY <2>1, <2>4, <2>5, <2>8, <3>1
    <2>10. QED  BY <2>1, <2>2, <2>3, <2>9 DEF longer, m
<1>3. QED  BY <1>1, <1>2

\* A box j levels down, whose corners are corners of cells.
Aligned(b, box, j) ==
  /\ box \in Boxes /\ box.w = Pow2(max_depth(b) - j) * Cell(b)
  /\ \E a \in [Axes -> Int] : \A d \in Axes : box.lo[d] = SubtreeBox(b).lo[d] + a[d] * Cell(b)

\* Above the lowest level the middle is a corner too, and so each half is aligned.
LEMMA HalfAligned ==
    ASSUME fit \in Fits, NEW b \in Bins, NEW j \in Nat, j < max_depth(b),
           NEW box, Aligned(b, box, j), NEW c \in Int
    PROVE  /\ Aligned(b, Half(box, c), j + 1)
           /\ box.w = 2 * (box.w \div 2) /\ box.w \div 2 \in Nat
           /\ \E e \in [Axes -> Int] : \A d \in Axes :
                box.lo[d] + (box.w \div 2) = SubtreeBox(b).lo[d] + e[d] * Cell(b)
<1> DEFINE w1 == Cell(b)
           D == max_depth(b)
           P == Pow2(D - (j + 1))
           root == SubtreeBox(b).lo
<1>1. w1 \in Nat \ {0} /\ D \in Nat
    BY TreeFacts
<1>2. SubtreeBox(b) \in Boxes /\ \A x1 \in Boxes, y1 \in Int : Half(x1, y1) \in Boxes
    BY BoxTypes DEF Bins
<1>3. root \in [Axes -> Int]
    BY <1>2 DEF Boxes
<1>4. P \in Nat /\ Pow2(D - j) = 2 * P
    <2>1. D - (j + 1) \in Nat /\ (D - (j + 1)) + 1 = D - j
        BY <1>1
    <2>2. QED  BY <2>1, Pow2Step
<1>5. box \in Boxes /\ box.w = (2 * P) * w1
    BY <1>4 DEF Aligned
<1>6. PICK a \in [Axes -> Int] : \A d \in Axes : box.lo[d] = root[d] + a[d] * w1
    BY DEF Aligned
<1> HIDE DEF w1, D, P, root
<1>7. box.w \div 2 = P * w1 /\ P * w1 \in Nat /\ box.w = 2 * (P * w1)
    <2>1. (2 * P) * w1 = 2 * (P * w1) + 0 /\ P * w1 \in Nat
        BY <1>1, <1>4
    <2>2. (2 * (P * w1) + 0) \div 2 = P * w1
        BY <2>1
    <2>3. QED  BY <1>5, <2>1, <2>2
<1>8. ASSUME NEW d \in Axes, NEW h \in Int
      PROVE  (root[d] + a[d] * w1) + h * w1 = root[d] + (a[d] + h) * w1
    <2>1. a[d] \in Int /\ root[d] \in Int /\ w1 \in Int
        BY <1>1, <1>3
    <2>2. QED  BY <2>1
<1>9. \E e \in [Axes -> Int] : \A d \in Axes : box.lo[d] + (box.w \div 2) = root[d] + e[d] * w1
    <2> DEFINE e == [d \in Axes |-> a[d] + P]
    <2>1. e \in [Axes -> Int]
        BY <1>4
    <2>2. ASSUME NEW d \in Axes PROVE box.lo[d] + (box.w \div 2) = root[d] + e[d] * w1
        BY <1>4, <1>6, <1>7, <1>8
    <2> HIDE DEF e
    <2>3. QED  BY <2>1, <2>2
<1>10. \E e \in [Axes -> Int] : \A d \in Axes : Half(box, c).lo[d] = root[d] + e[d] * w1
    <2> DEFINE e == [d \in Axes |-> a[d] + (IF UpperHalf(c, d) THEN P ELSE 0)]
    <2>1. e \in [Axes -> Int]
        BY <1>4
    <2>2. ASSUME NEW d \in Axes PROVE Half(box, c).lo[d] = root[d] + e[d] * w1
        <3>1. Half(box, c).lo[d] = box.lo[d] + (IF UpperHalf(c, d) THEN box.w \div 2 ELSE 0)
            BY DEF Half
        <3>2. CASE UpperHalf(c, d)
            BY <1>4, <1>6, <1>7, <1>8, <3>1, <3>2
        <3>3. CASE ~UpperHalf(c, d)
            <4>1. Half(box, c).lo[d] = root[d] + a[d] * w1
                <5>1. a[d] \in Int /\ root[d] \in Int /\ w1 \in Int
                    BY <1>1, <1>3
                <5>2. root[d] + a[d] * w1 \in Int
                    BY <5>1
                <5>3. QED  BY <1>6, <3>1, <3>3, <5>2
            <4>2. e[d] = a[d]
                <5>1. a[d] \in Int
                    OBVIOUS
                <5>2. QED  BY <3>3, <5>1
            <4>3. QED  BY <4>1, <4>2
        <3>4. QED  BY <3>2, <3>3
    <2> HIDE DEF e
    <2>3. QED  BY <2>1, <2>2
<1>11. Half(box, c).w = P * w1 /\ Half(box, c) \in Boxes
    BY <1>2, <1>5, <1>7 DEF Half
<1>12. Aligned(b, Half(box, c), j + 1)
    BY <1>10, <1>11 DEF Aligned, D, P, w1, root
<1>13. box.w = 2 * (box.w \div 2) /\ box.w \div 2 \in Nat
    BY <1>7
<1>14. QED  BY <1>9, <1>12, <1>13 DEF w1, root

\* Each panel is aligned.
LEMMA PanelAligned ==
    ASSUME fit \in Fits, NEW b \in Bins, NEW path \in Seq(Children), Len(path) <= max_depth(b)
    PROVE  Aligned(b, PanelBox(b, path), Len(path))
<1>1. PICK box : AncestorBoxes(box, b, path) /\ PanelBox(b, path) = box[Len(path)]
    BY PanelTable DEF Bins
<1>2. Len(path) \in Nat /\ max_depth(b) \in Nat /\ \A k \in 1 .. Len(path) : path[k] \in Int
    <2>1. Len(path) \in Nat /\ \A k \in 1 .. Len(path) : path[k] \in Children
        BY ElementOfSeq, LenProperties
    <2>2. QED  BY <2>1, TreeFacts DEF Children
<1> DEFINE m == Len(path)
           T == {k \in 0 .. m : Aligned(b, box[k], k)}
<1>3. 0 \in T
    <2> DEFINE zero == [d \in Axes |-> 0]
    <2>1. SubtreeBox(b) \in Boxes /\ Cell(b) \in Nat /\ fit.span = Pow2(max_depth(b)) * Cell(b)
        BY BoxTypes, TreeFacts DEF Bins
    <2>2. SubtreeBox(b).w = Pow2(max_depth(b) - 0) * Cell(b)
        BY <1>2, <2>1 DEF SubtreeBox
    <2>3. \A d \in Axes : SubtreeBox(b).lo[d] = SubtreeBox(b).lo[d] + zero[d] * Cell(b)
        <3>1. SubtreeBox(b).lo \in [Axes -> Int]
            BY <2>1 DEF Boxes
        <3>2. QED  BY <2>1, <3>1
    <2>4. zero \in [Axes -> Int]
        OBVIOUS
    <2> HIDE DEF zero
    <2>5. Aligned(b, SubtreeBox(b), 0)
        BY <2>1, <2>2, <2>3, <2>4 DEF Aligned
    <2>6. QED  BY <1>1, <1>2, <2>5 DEF AncestorBoxes
<1>4. ASSUME NEW k \in 1 .. m, k - 1 \in T PROVE k \in T
    <2>1. /\ k - 1 \in Nat /\ k - 1 < max_depth(b) /\ (k - 1) + 1 = k /\ path[k] \in Int
          /\ k \in 0 .. m /\ Aligned(b, box[k - 1], k - 1)
        BY <1>2, <1>4
    <2>2. Aligned(b, Half(box[k - 1], path[k]), (k - 1) + 1)
        BY <2>1, HalfAligned
    <2>3. QED  BY <1>1, <2>1, <2>2 DEF AncestorBoxes
<1>5. 0 .. m \subseteq T
    <2> HIDE DEF T
    <2>1. QED  BY <1>2, <1>3, <1>4, UpInduction
<1>6. QED  BY <1>1, <1>2, <1>5

-----------------------------------------------------------------------------
(* Descent                                                                 *)

\* A child's index says of each axis whether the point is above the middle.
LEMMA ChildFacts ==
    ASSUME fit \in Fits, NEW box, NEW point
    PROVE  /\ ChildAt(box, point) \in Children
           /\ \A d \in Axes : UpperHalf(ChildAt(box, point), d)
                              <=> AboveMid(point[d], box.lo[d] + (box.w \div 2))
<1> DEFINE digit == Upper(box, point)
<1>1. digit \in [Axes -> {0, 1}]
    BY DEF Upper
<1>2. \A d \in Axes : (digit[d] = 1) <=> AboveMid(point[d], box.lo[d] + (box.w \div 2))
    BY DEF Upper
<1>3. ChildAt(box, point) = Shifted(digit, 1)
    BY DEF ChildAt
<1> HIDE DEF digit
<1>4. Pow2(1) = 2 /\ 1 \in Nat /\ Dim \in Nat /\ Dim * 1 = Dim /\ Axes = 1 .. Dim
    <2>1. 0 \in Nat /\ 0 + 1 = 1 /\ Pow2(0) = 1 /\ Pow2(0 + 1) = 2 * Pow2(0)
        BY Pow2Step
    <2>2. QED  BY <2>1, FitFacts
<1>5. digit \in [Axes -> Nat] /\ \A d \in Axes : digit[d] < Pow2(1)
    BY <1>1, <1>4
<1>6. /\ Shifted(digit, 1) \in 0 .. Pow2(Dim * 1) - 1
      /\ \A d \in Axes : (Shifted(digit, 1) \div Pow2(1 * (d - 1))) % Pow2(1) = digit[d]
    BY <1>4, <1>5, ShiftedDigits
<1>7. ASSUME NEW d \in Axes
      PROVE  UpperHalf(ChildAt(box, point), d) <=> digit[d] = 1
    <2>1. 1 * (d - 1) = d - 1
        BY <1>4
    <2>2. (Shifted(digit, 1) \div Pow2(d - 1)) % 2 = digit[d]
        BY <1>4, <1>6, <2>1
    <2>3. QED  BY <1>3, <2>2 DEF UpperHalf
<1>8. QED  BY <1>2, <1>3, <1>4, <1>6, <1>7 DEF Children

\* The panels that the descent goes through, the root first.
Walked(walk, b, point) ==
  /\ walk \in [0 .. max_depth(b) -> Seq(Children)] /\ walk[0] = <<>>
  /\ \A k \in 1 .. max_depth(b) :
       walk[k] = IF is_leaf(b, walk[k - 1]) THEN walk[k - 1]
                 ELSE Append(walk[k - 1], ChildAt(PanelBox(b, walk[k - 1]), point))

LEMMA WalkTable ==
    ASSUME fit \in Fits, NEW b \in Bins, NEW point
    PROVE  \E walk : Walked(walk, b, point) /\ get_node_index(b, point) = walk[max_depth(b)]
<1> DEFINE m == max_depth(b)
           below(path) == IF is_leaf(b, path) THEN path
                          ELSE Append(path, ChildAt(PanelBox(b, path), point))
           D(f) == f = [k \in 0 .. max_depth(b) |->
                          IF k = 0 THEN <<>>
                          ELSE IF is_leaf(b, f[k - 1]) THEN f[k - 1]
                          ELSE Append(f[k - 1], ChildAt(PanelBox(b, f[k - 1]), point))]
           step == [k \in 1 .. m |-> [path \in Seq(Children) |-> below(path)]]
<1>1. m \in Nat
    BY TreeFacts
<1>2. ASSUME NEW path \in Seq(Children) PROVE below(path) \in Seq(Children)
    <2>1. ChildAt(PanelBox(b, path), point) \in Children
        BY ChildFacts
    <2>2. Append(path, ChildAt(PanelBox(b, path), point)) \in Seq(Children)
        BY <2>1, AppendProperties
    <2>3. QED  BY <2>2
<1>3. <<>> \in Seq(Children)
    OBVIOUS
<1> HIDE DEF below
<1>4. \E f : D(f)
    <2>1. step \in [1 .. m -> [Seq(Children) -> Seq(Children)]]
        BY <1>2
    <2> HIDE DEF step, m
    <2>2. PICK f \in [0 .. m -> Seq(Children)] : UpFrom0(f, m, <<>>, step)
        BY <1>1, <1>3, <2>1, UpExists
    <2>3. ASSUME NEW k \in 0 .. m
          PROVE  f[k] = IF k = 0 THEN <<>> ELSE below(f[k - 1])
        <3>1. CASE k = 0
            BY <2>2, <3>1 DEF UpFrom0
        <3>2. CASE k # 0
            <4>1. k \in 1 .. m /\ k - 1 \in 0 .. m
                BY <1>1, <3>2
            <4>2. f[k] = step[k][f[k - 1]] /\ f[k - 1] \in Seq(Children)
                BY <2>2, <3>2, <4>1 DEF UpFrom0
            <4>3. QED  BY <3>2, <4>1, <4>2 DEF step
        <3>3. QED  BY <3>1, <3>2
    <2>4. f = [k \in 0 .. m |-> f[k]]
        OBVIOUS
    <2>5. D(f)
        BY <2>3, <2>4, Zenon DEF m, below
    <2>6. QED  BY <2>5
<1> DEFINE q == CHOOSE f : D(f)
<1>5. D(q)
    BY <1>4
<1>6. get_node_index(b, point) = q[m]
    BY DEF get_node_index
<1> HIDE DEF q
<1>7. \A k \in 0 .. m : q[k] = IF k = 0 THEN <<>> ELSE below(q[k - 1])
    BY <1>5, Zenon DEF below
<1> HIDE DEF m
<1>8. q[0] = <<>> /\ \A k \in 1 .. m : q[k] = below(q[k - 1])
    <2>1. 0 \in 0 .. m /\ \A k \in 1 .. m : k \in 0 .. m /\ k # 0
        BY <1>1
    <2>2. QED  BY <1>7, <2>1
<1> DEFINE T == {k \in 0 .. m : q[k] \in Seq(Children)}
<1>9. 0 \in T
    <2>1. 0 \in 0 .. m
        BY <1>1
    <2>2. QED  BY <1>3, <1>8, <2>1, Zenon
<1>10. ASSUME NEW k \in 1 .. m, k - 1 \in T PROVE k \in T
    <2>1. q[k] = below(q[k - 1]) /\ q[k - 1] \in Seq(Children) /\ k \in 0 .. m
        BY <1>1, <1>8, <1>10
    <2>2. QED  BY <1>2, <2>1
<1>11. 0 .. m \subseteq T
    <2> HIDE DEF T
    <2>1. QED  BY <1>1, <1>9, <1>10, UpInduction
<1>12. DOMAIN q = 0 .. m /\ q = [k \in 0 .. m |-> q[k]]
    BY <1>5, Zenon DEF m
<1>13. q \in [0 .. m -> Seq(Children)]
    BY <1>11, <1>12
<1>14. Walked(q, b, point)
    BY <1>8, <1>13, Zenon DEF Walked, m, below
<1>15. QED  BY <1>6, <1>14 DEF m

Within(point, box) ==
  \A d \in Axes : box.lo[d] <= point[d] /\ point[d] <= box.lo[d] + box.w

\* Of numbers, the gate compares as one expects.
LEMMA InBoxWithin ==
    ASSUME NEW point \in [Axes -> Int], NEW box \in Boxes
    PROVE  InBox(point, box.lo, box.w) <=> Within(point, box)
<1>1. ASSUME NEW d \in Axes
      PROVE  /\ ge(point[d], box.lo[d]) <=> box.lo[d] <= point[d]
             /\ le(point[d], box.lo[d] + box.w) <=> point[d] <= box.lo[d] + box.w
    <2>1. point[d] \in Int /\ box.lo[d] \in Int /\ box.w \in Int
        BY DEF Boxes
    <2>2. box.lo[d] + box.w \in Int /\ NaN \notin Int
        BY <2>1, LookupConstants
    <2>3. point[d] # NaN /\ box.lo[d] # NaN /\ box.lo[d] + box.w # NaN
        BY <2>1, <2>2
    <2>4. QED  BY <2>1, <2>3 DEF ge, le
<1>2. QED  BY <1>1 DEF InBox, Within

\* The half that the descent takes holds the point, whichever way a middle rounds.
LEMMA HalfWithin ==
    ASSUME fit \in Fits, NEW point \in [Axes -> Int], NEW box \in Boxes,
           box.w = 2 * (box.w \div 2), Within(point, box)
    PROVE  Within(point, Half(box, ChildAt(box, point)))
<1> DEFINE c == ChildAt(box, point)
           h == box.w \div 2
           half == Half(box, c)
<1>1. h \in Int /\ box.w = 2 * h /\ box.lo \in [Axes -> Int]
    BY DEF Boxes
<1>2. ASSUME NEW d \in Axes
      PROVE  half.lo[d] <= point[d] /\ point[d] <= half.lo[d] + half.w
    <2>1. half.w = h /\ half.lo[d] = box.lo[d] + (IF UpperHalf(c, d) THEN h ELSE 0)
        BY DEF Half
    <2>2. UpperHalf(c, d) <=> AboveMid(point[d], box.lo[d] + h)
        BY ChildFacts
    <2>3. point[d] \in Int /\ box.lo[d] \in Int
        BY <1>1
    <2>4. box.lo[d] <= point[d] /\ point[d] <= box.lo[d] + box.w
        BY DEF Within
    <2> HIDE DEF c, h, half
    <2>5. CASE UpperHalf(c, d)
        <3>1. point[d] >= box.lo[d] + h
            BY <1>1, <2>2, <2>3, <2>5 DEF AboveMid
        <3>2. half.lo[d] = box.lo[d] + h
            BY <2>1, <2>5
        <3>3. QED  BY <1>1, <2>1, <2>3, <2>4, <3>1, <3>2
    <2>6. CASE ~UpperHalf(c, d)
        <3>1. point[d] <= box.lo[d] + h
            BY <1>1, <2>2, <2>3, <2>6 DEF AboveMid
        <3>2. half.lo[d] = box.lo[d]
            BY <1>1, <2>1, <2>3, <2>6
        <3>3. QED  BY <1>1, <2>1, <2>3, <2>4, <3>1, <3>2
    <2>7. QED  BY <2>5, <2>6
<1>3. QED  BY <1>2 DEF Within, half, c

\* The descent of a point of the subtree's box ends in a leaf that holds it.
LEMMA Descends ==
    ASSUME fit \in Fits, NEW b \in Bins, NEW point \in [Axes -> Int],
           Within(point, SubtreeBox(b))
    PROVE  /\ get_node_index(b, point) \in Seq(Children)
           /\ Len(get_node_index(b, point)) \in 0 .. max_depth(b)
           /\ is_leaf(b, get_node_index(b, point))
           /\ Within(point, PanelBox(b, get_node_index(b, point)))
<1> DEFINE D == max_depth(b)
<1>1. /\ D \in Nat
      /\ \A path \in fit.splits[b] : path \in Seq(Children) /\ Len(path) < D
    BY TreeFacts
<1>2. PICK walk : Walked(walk, b, point) /\ get_node_index(b, point) = walk[D]
    BY WalkTable
<1> HIDE DEF D
<1>3. /\ walk \in [0 .. D -> Seq(Children)] /\ walk[0] = <<>>
      /\ \A k \in 1 .. D :
           walk[k] = IF is_leaf(b, walk[k - 1]) THEN walk[k - 1]
                     ELSE Append(walk[k - 1], ChildAt(PanelBox(b, walk[k - 1]), point))
    BY <1>2 DEF Walked, D
<1> DEFINE T == {k \in 0 .. D :
                   /\ Len(walk[k]) = k \/ (Len(walk[k]) <= k /\ is_leaf(b, walk[k]))
                   /\ Within(point, PanelBox(b, walk[k]))}
<1>4. 0 \in T
    <2>1. PanelBox(b, <<>>) = SubtreeBox(b) /\ Len(<<>>) = 0 /\ 0 \in 0 .. D
        BY <1>1, PanelSteps DEF Bins
    <2>2. QED  BY <1>3, <2>1
<1>5. ASSUME NEW k \in 1 .. D, k - 1 \in T PROVE k \in T
    <2>1. /\ k - 1 \in 0 .. D /\ k \in 0 .. D /\ k - 1 \in Nat /\ (k - 1) + 1 = k
          /\ walk[k - 1] \in Seq(Children) /\ Len(walk[k - 1]) \in Nat
        BY <1>1, <1>3, LenProperties
    <2>2. CASE is_leaf(b, walk[k - 1])
        <3>1. walk[k] = walk[k - 1]
            BY <1>3, <2>2
        <3>2. Len(walk[k - 1]) <= k
            BY <1>5, <2>1
        <3>3. Within(point, PanelBox(b, walk[k]))
            BY <1>5, <3>1
        <3>4. QED  BY <2>1, <2>2, <3>1, <3>2, <3>3
    <2>3. CASE ~is_leaf(b, walk[k - 1])
        <3> DEFINE path == walk[k - 1]
                   box == PanelBox(b, path)
                   c == ChildAt(box, point)
        <3>1. Len(path) = k - 1 /\ k - 1 < D /\ path \in Seq(Children) /\ Len(path) <= D
            <4>1. path \in fit.splits[b]
                BY <2>3 DEF is_leaf
            <4>2. Len(path) < D
                BY <1>1, <4>1
            <4>3. QED  BY <1>1, <1>5, <2>1, <2>3, <4>2
        <3>2. c \in Children /\ c \in Int
            BY ChildFacts DEF Children
        <3>3. walk[k] = Append(path, c)
            BY <1>3, <2>3
        <3>4. Within(point, box)
            BY <1>5
        <3> HIDE DEF path, box, c
        <3>5. Aligned(b, box, k - 1)
            BY <3>1, PanelAligned DEF box, D
        <3>6. box \in Boxes /\ box.w = 2 * (box.w \div 2)
            <4>1. box \in Boxes
                BY <3>5 DEF Aligned
            <4>2. k - 1 < max_depth(b)
                BY <3>1 DEF D
            <4>3. box.w = 2 * (box.w \div 2)
                BY <2>1, <3>2, <3>5, <4>2, HalfAligned
            <4>4. QED  BY <4>1, <4>3
        <3>7. Within(point, Half(box, c))
            BY <3>4, <3>6, HalfWithin DEF c
        <3>8. PanelBox(b, walk[k]) = Half(box, c) /\ Len(walk[k]) = k
            <4>1. PanelBox(b, Append(path, c)) = Half(box, c)
                BY <3>1, <3>2, PanelSteps DEF box, Bins
            <4>2. Len(Append(path, c)) = Len(path) + 1
                BY <3>1, <3>2, AppendProperties
            <4>3. QED  BY <2>1, <3>1, <3>3, <4>1, <4>2
        <3>9. QED  BY <2>1, <3>7, <3>8
    <2>4. QED  BY <2>2, <2>3
<1>6. 0 .. D \subseteq T
    <2> HIDE DEF T
    <2>1. QED  BY <1>1, <1>4, <1>5, UpInduction
<1>7. D \in 0 .. D /\ walk[D] \in Seq(Children) /\ Len(walk[D]) \in Nat
    BY <1>1, <1>3, LenProperties
<1>8. /\ Len(walk[D]) = D \/ (Len(walk[D]) <= D /\ is_leaf(b, walk[D]))
      /\ Within(point, PanelBox(b, walk[D]))
    BY <1>6, <1>7
<1>9. is_leaf(b, walk[D])
    <2>1. Len(walk[D]) = D => walk[D] \notin fit.splits[b]
        BY <1>1
    <2>2. QED  BY <1>8, <2>1 DEF is_leaf
<1>10. Len(walk[D]) \in 0 .. D
    BY <1>1, <1>7, <1>8
<1>11. QED  BY <1>2, <1>7, <1>8, <1>9, <1>10 DEF D

-----------------------------------------------------------------------------
(* Cells                                                                   *)

\* A point strictly inside an interval of width w is on one side of every
\* corner, the side of the interval.
LEMMA SideOfCorner ==
    ASSUME NEW x1 \in Int, NEW lo \in Int, NEW w \in Nat \ {0}, NEW q \in Int, NEW e \in Int,
           lo + q * w < x1, x1 < lo + q * w + w
    PROVE  x1 # lo + e * w /\ (x1 > lo + e * w <=> e <= q)
<1>1. q * w \in Int /\ e * w \in Int
    OBVIOUS
<1>2. CASE e <= q
    <2>1. e * w <= q * w
        BY <1>2, TimesOrder, Zenon
    <2>2. QED  BY <1>1, <1>2, <2>1
<1>3. CASE q < e
    <2>1. q * w + w <= e * w
        BY <1>3, TimesOrder, Zenon
    <2>2. QED  BY <1>1, <1>3, <2>1
<1>4. QED  BY <1>2, <1>3

\* The point is in the closed cell, or strictly inside it.
InCell(b, q, point) ==
  \A d \in Axes : /\ SubtreeBox(b).lo[d] + q[d] * Cell(b) <= point[d]
                  /\ point[d] <= SubtreeBox(b).lo[d] + q[d] * Cell(b) + Cell(b)
InsideCell(b, q, point) ==
  \A d \in Axes : /\ SubtreeBox(b).lo[d] + q[d] * Cell(b) < point[d]
                  /\ point[d] < SubtreeBox(b).lo[d] + q[d] * Cell(b) + Cell(b)

\* Two points inside one cell descend alike.
LEMMA SameDescent ==
    ASSUME fit \in Fits, NEW b \in Bins, NEW q \in [Axes -> Int],
           NEW p1 \in [Axes -> Int], InsideCell(b, q, p1),
           NEW p2 \in [Axes -> Int], InsideCell(b, q, p2)
    PROVE  get_node_index(b, p1) = get_node_index(b, p2)
<1> DEFINE D == max_depth(b)
<1>1. /\ D \in Nat /\ Cell(b) \in Nat \ {0}
      /\ \A path \in fit.splits[b] : path \in Seq(Children) /\ Len(path) < D
    BY TreeFacts
<1>2. SubtreeBox(b).lo \in [Axes -> Int]
    BY BoxTypes DEF Boxes, Bins
<1>3. PICK f : Walked(f, b, p1) /\ get_node_index(b, p1) = f[D]
    BY WalkTable
<1>4. PICK g : Walked(g, b, p2) /\ get_node_index(b, p2) = g[D]
    BY WalkTable
<1>5. ASSUME NEW path \in fit.splits[b]
      PROVE  ChildAt(PanelBox(b, path), p1) = ChildAt(PanelBox(b, path), p2)
    <2> DEFINE box == PanelBox(b, path)
               j == Len(path)
    <2>1. path \in Seq(Children) /\ j < D /\ j \in Nat /\ j <= D
        BY <1>1, <1>5, LenProperties
    <2>2. Aligned(b, box, j) /\ 0 \in Int
        BY <2>1, PanelAligned
    <2> HIDE DEF box, j
    <2>3. PICK e \in [Axes -> Int] : \A d \in Axes :
             box.lo[d] + (box.w \div 2) = SubtreeBox(b).lo[d] + e[d] * Cell(b)
        BY <2>1, <2>2, HalfAligned
    <2>4. ASSUME NEW d \in Axes
          PROVE  AboveMid(p1[d], box.lo[d] + (box.w \div 2))
                 <=> AboveMid(p2[d], box.lo[d] + (box.w \div 2))
        <3>1. /\ p1[d] \in Int /\ p2[d] \in Int /\ q[d] \in Int /\ e[d] \in Int
              /\ SubtreeBox(b).lo[d] \in Int /\ Cell(b) \in Nat \ {0}
            BY <1>1, <1>2
        <3> DEFINE mid == SubtreeBox(b).lo[d] + e[d] * Cell(b)
        <3>2. p1[d] # mid /\ (p1[d] > mid <=> e[d] <= q[d])
            <4>1. /\ SubtreeBox(b).lo[d] + q[d] * Cell(b) < p1[d]
                  /\ p1[d] < SubtreeBox(b).lo[d] + q[d] * Cell(b) + Cell(b)
                BY DEF InsideCell
            <4>2. QED  BY <3>1, <4>1, SideOfCorner, Zenon
        <3>3. p2[d] # mid /\ (p2[d] > mid <=> e[d] <= q[d])
            <4>1. /\ SubtreeBox(b).lo[d] + q[d] * Cell(b) < p2[d]
                  /\ p2[d] < SubtreeBox(b).lo[d] + q[d] * Cell(b) + Cell(b)
                BY DEF InsideCell
            <4>2. QED  BY <3>1, <4>1, SideOfCorner, Zenon
        <3>4. box.lo[d] + (box.w \div 2) = mid
            BY <2>3
        <3> HIDE DEF mid
        <3>5. QED  BY <3>2, <3>3, <3>4 DEF AboveMid
    <2>5. Upper(box, p1) = Upper(box, p2)
        BY <2>4 DEF Upper
    <2>6. QED  BY <2>5 DEF ChildAt, box
<1> HIDE DEF D
<1> DEFINE T == {k \in 0 .. D : f[k] = g[k]}
<1>6. 0 \in T
    BY <1>1, <1>3, <1>4 DEF Walked
<1>7. ASSUME NEW k \in 1 .. D, k - 1 \in T PROVE k \in T
    <2>1. k \in 0 .. D /\ f[k - 1] = g[k - 1]
        BY <1>1, <1>7
    <2>2. f[k] = IF is_leaf(b, f[k - 1]) THEN f[k - 1]
                 ELSE Append(f[k - 1], ChildAt(PanelBox(b, f[k - 1]), p1))
        BY <1>3 DEF Walked, D
    <2>3. g[k] = IF is_leaf(b, g[k - 1]) THEN g[k - 1]
                 ELSE Append(g[k - 1], ChildAt(PanelBox(b, g[k - 1]), p2))
        BY <1>4 DEF Walked, D
    <2>4. CASE is_leaf(b, f[k - 1])
        BY <2>1, <2>2, <2>3, <2>4
    <2>5. CASE ~is_leaf(b, f[k - 1])
        <3>1. f[k - 1] \in fit.splits[b]
            BY <2>5 DEF is_leaf
        <3>2. ChildAt(PanelBox(b, f[k - 1]), p1) = ChildAt(PanelBox(b, f[k - 1]), p2)
            BY <1>5, <3>1
        <3>3. f[k] = g[k]
            BY <2>1, <2>2, <2>3, <2>5, <3>2
        <3>4. QED  BY <2>1, <3>3
    <2>6. QED  BY <2>4, <2>5
<1>8. 0 .. D \subseteq T
    <2> HIDE DEF T
    <2>1. QED  BY <1>1, <1>6, <1>7, UpInduction
<1>9. f[D] = g[D]
    BY <1>1, <1>8
<1>10. QED  BY <1>3, <1>4, <1>9

\* A panel that holds the centre of a cell holds the whole of it.
LEMMA PanelHoldsCell ==
    ASSUME fit \in Fits, NEW b \in Bins, NEW j \in 0 .. max_depth(b), NEW box, Aligned(b, box, j),
           NEW q \in [Axes -> Int], NEW centre \in [Axes -> Int],
           InsideCell(b, q, centre), Within(centre, box),
           NEW point \in [Axes -> Int], InCell(b, q, point)
    PROVE  Within(point, box)
<1> DEFINE w1 == Cell(b)
           P == Pow2(max_depth(b) - j)
           root == SubtreeBox(b).lo
<1>1. w1 \in Nat \ {0} /\ max_depth(b) \in Nat
    BY TreeFacts
<1>2. root \in [Axes -> Int]
    BY BoxTypes DEF Boxes, Bins
<1>3. P \in Nat \ {0}
    <2>1. max_depth(b) - j \in Nat
        BY <1>1
    <2>2. QED  BY <2>1, Pow2Step
<1>4. PICK a \in [Axes -> Int] : \A d \in Axes : box.lo[d] = root[d] + a[d] * w1
    BY DEF Aligned
<1>5. box.w = P * w1
    BY DEF Aligned
<1>6. ASSUME NEW d \in Axes
      PROVE  box.lo[d] <= point[d] /\ point[d] <= box.lo[d] + box.w
    <2>1. /\ root[d] \in Int /\ a[d] \in Int /\ q[d] \in Int /\ w1 \in Nat \ {0} /\ P \in Int
          /\ centre[d] \in Int /\ point[d] \in Int
        BY <1>1, <1>2, <1>3
    <2>2. /\ root[d] + q[d] * w1 < centre[d] /\ centre[d] < root[d] + q[d] * w1 + w1
          /\ root[d] + q[d] * w1 <= point[d] /\ point[d] <= root[d] + q[d] * w1 + w1
        BY DEF InsideCell, InCell
    <2>3. box.lo[d] <= centre[d] /\ centre[d] <= box.lo[d] + box.w
        BY DEF Within
    <2>4. box.lo[d] = root[d] + a[d] * w1
        BY <1>4
    <2> HIDE DEF w1, P, root
    <2>5. a[d] * w1 \in Int /\ q[d] * w1 \in Int /\ P * w1 \in Int /\ (a[d] + P) * w1 \in Int
          /\ a[d] * w1 + P * w1 = (a[d] + P) * w1 /\ a[d] + P \in Int
        BY <2>1
    <2>6. a[d] <= q[d]
        <3>1. ASSUME q[d] < a[d] PROVE FALSE
            <4>1. q[d] * w1 + w1 <= a[d] * w1
                BY <2>1, <3>1, TimesOrder, Zenon
            <4>2. QED  BY <2>1, <2>2, <2>3, <2>4, <2>5, <4>1
        <3>2. QED  BY <2>1, <3>1
    <2>7. q[d] < a[d] + P
        <3>1. ASSUME a[d] + P <= q[d] PROVE FALSE
            <4>1. (a[d] + P) * w1 <= q[d] * w1
                BY <2>1, <2>5, <3>1, TimesOrder, Zenon
            <4>2. QED  BY <1>5, <2>1, <2>2, <2>3, <2>4, <2>5, <4>1
        <3>2. QED  BY <2>1, <2>5, <3>1
    <2>8. a[d] * w1 <= q[d] * w1
        BY <2>1, <2>6, TimesOrder, Zenon
    <2>9. q[d] * w1 + w1 <= (a[d] + P) * w1
        BY <2>1, <2>5, <2>7, TimesOrder, Zenon
    <2>10. box.lo[d] <= point[d]
        BY <2>1, <2>2, <2>4, <2>5, <2>8
    <2>11. point[d] <= box.lo[d] + box.w
        BY <1>5, <2>1, <2>2, <2>4, <2>5, <2>9
    <2>12. QED  BY <2>10, <2>11
<1>7. QED  BY <1>6 DEF Within

\* Of a point in the closed range of m intervals, the quotient clamped to the
\* last interval is one that the point is in, at both ends and whether a
\* product on a boundary rounds down or not.
LEMMA FloorQFacts ==
    ASSUME NEW x1 \in Int, NEW lo \in Int, NEW w \in Nat \ {0}, NEW m \in Nat \ {0}, NEW down,
           lo <= x1, x1 <= lo + m * w
    PROVE  /\ FloorQ(x1, lo, w, down) \in 0 .. m
           /\ Least(FloorQ(x1, lo, w, down), m - 1) \in 0 .. m - 1
           /\ lo + Least(FloorQ(x1, lo, w, down), m - 1) * w <= x1
           /\ x1 <= lo + Least(FloorQ(x1, lo, w, down), m - 1) * w + w
           /\ (x1 - lo) % w # 0 =>
                /\ lo + Least(FloorQ(x1, lo, w, down), m - 1) * w < x1
                /\ x1 < lo + Least(FloorQ(x1, lo, w, down), m - 1) * w + w
<1> DEFINE t == (x1 - lo) \div w
           r == (x1 - lo) % w
           f == FloorQ(x1, lo, w, down)
           g == Least(f, m - 1)
<1>1. t \in Int /\ r \in 0 .. w - 1 /\ x1 - lo = w * t + r
    <2>1. x1 - lo \in Int
        OBVIOUS
    <2>2. QED  BY <2>1, DivMod, Zenon
<1>2. f = IF r = 0 /\ x1 # lo /\ down THEN t - 1 ELSE t
    <2>1. x1 # NaN
        BY LookupConstants
    <2>2. QED  BY <2>1 DEF FloorQ
<1>3. g = IF f < m - 1 THEN f ELSE m - 1
    BY DEF Least
<1> HIDE DEF t, r, f, g
<1>4. w * t = t * w /\ t * w \in Int /\ m * w \in Int /\ w \in Int /\ m \in Int /\ 0 \in Int
    BY <1>1
<1>5. x1 = lo + t * w + r
    BY <1>1, <1>4
<1>6. t >= 0
    <2>1. ASSUME t < 0 PROVE FALSE
        <3>1. ASSUME NEW a \in Int, NEW c \in Nat \ {0}, a < 0 PROVE a * c + c <= 0
            BY <3>1
        <3>2. t * w + w <= 0
            BY <1>1, <2>1, <3>1
        <3>3. QED  BY <1>1, <1>4, <1>5, <3>2
    <2>2. QED  BY <1>1, <2>1
<1>7. t <= m /\ (t = m => r = 0)
    <2>1. ASSUME m < t PROVE FALSE
        <3>1. m * w + w <= t * w
            BY <1>1, <1>4, <2>1, TimesOrder, Zenon
        <3>2. QED  BY <1>1, <1>4, <1>5, <3>1
    <2>2. ASSUME t = m PROVE r = 0
        BY <1>1, <1>4, <1>5, <2>2
    <2>3. QED  BY <1>1, <1>4, <2>1, <2>2
<1>8. (t - 1) * w = t * w - w /\ (m - 1) * w = m * w - w
    BY <1>1
<1>9. CASE r = 0 /\ x1 # lo /\ down
    <2>1. t # 0
        <3>1. ASSUME t = 0 PROVE FALSE
            BY <1>4, <1>5, <1>9, <3>1
        <3>2. QED  BY <3>1
    <2>2. f = t - 1 /\ f \in 0 .. m - 1 /\ f \in 0 .. m
        BY <1>1, <1>2, <1>6, <1>7, <1>9, <2>1
    <2>3. g = t - 1
        BY <1>1, <1>3, <1>4, <2>2
    <2>4. lo + g * w <= x1 /\ x1 <= lo + g * w + w
        BY <1>4, <1>5, <1>8, <1>9, <2>3
    <2>5. QED  BY <1>9, <2>2, <2>3, <2>4 DEF f, g, r
<1>10. CASE ~(r = 0 /\ x1 # lo /\ down)
    <2>1. f = t /\ f \in 0 .. m
        BY <1>1, <1>2, <1>6, <1>7, <1>10
    <2>2. CASE t = m
        <3>1. g = m - 1 /\ g \in 0 .. m - 1
            BY <1>3, <2>1, <2>2
        <3>2. r = 0 /\ x1 = lo + m * w
            BY <1>4, <1>5, <1>7, <2>2
        <3>3. lo + g * w <= x1 /\ x1 <= lo + g * w + w
            BY <1>4, <1>8, <3>1, <3>2
        <3>4. QED  BY <2>1, <3>1, <3>2, <3>3 DEF f, g, r
    <2>3. CASE t # m
        <3>1. g = t /\ g \in 0 .. m - 1
            BY <1>1, <1>3, <1>4, <1>6, <1>7, <2>1, <2>3
        <3>2. lo + g * w <= x1 /\ x1 < lo + g * w + w /\ (r # 0 => lo + g * w < x1)
            BY <1>1, <1>4, <1>5, <3>1
        <3>3. x1 <= lo + g * w + w
            BY <1>4, <3>1, <3>2
        <3>4. QED  BY <2>1, <3>1, <3>2, <3>3 DEF f, g, r
    <2>4. QED  BY <2>2, <2>3
<1>11. QED  BY <1>9, <1>10

\* The quotient of any coordinate is a number, or NaN.
LEMMA FloorQType ==
    ASSUME NEW x1 \in Int \cup {NaN}, NEW lo \in Int, NEW w \in Nat \ {0}, NEW down
    PROVE  FloorQ(x1, lo, w, down) \in Int \cup {NaN}
<1>1. CASE x1 = NaN
    BY <1>1 DEF FloorQ
<1>2. CASE x1 # NaN
    <2>1. x1 - lo \in Int
        BY <1>2
    <2>2. (x1 - lo) \div w \in Int
        BY <2>1, DivMod
    <2>3. (x1 - lo) \div w - 1 \in Int
        BY <2>2
    <2>4. QED  BY <1>2, <2>2, <2>3 DEF FloorQ
<1>3. QED  BY <1>1, <1>2

-----------------------------------------------------------------------------
(* Bins                                                                    *)

\* The bins of a linear index are those it was made of.
LEMMA BinsBack ==
    ASSUME fit \in Fits, NEW digit \in [Axes -> Nat],
           \A d \in Axes : digit[d] < fit.n_subtrees[d]
    PROVE  get_bins(Horner(digit, fit.n_subtrees)) = digit
<1> DEFINE radix == fit.n_subtrees
           v == Horner(digit, radix)
<1>1. radix \in [Axes -> Nat \ {0}] /\ Dim \in Axes
    BY FitFacts
<1>2. PICK above : HornerOf(above, digit, radix) /\ v = above[1]
    BY <1>1, HornerTable
<1>3. \A d \in Axes : Peeled(v, radix)[d] = above[d] /\ above[d] % radix[d] = digit[d]
    BY <1>1, <1>2, DigitsBack
<1>4. above[Dim] = digit[Dim]
    BY <1>2 DEF HornerOf
<1> HIDE DEF v, radix
<1>5. \A d \in Axes : (IF d = Dim THEN Peeled(v, radix)[d] ELSE Peeled(v, radix)[d] % radix[d]) = digit[d]
    BY <1>3, <1>4
<1>6. get_bins(v) = [d \in Axes |-> IF d = Dim THEN Peeled(v, radix)[d] ELSE Peeled(v, radix)[d] % radix[d]]
    BY DEF get_bins, radix
<1>7. QED  BY <1>5, <1>6 DEF v, radix

\* A batch may hold any numbers, and NaN.
Points == [Axes -> Int \cup {NaN}]

\* A point of the domain is in the box of the subtree that it is given.
LEMMA BinOfPoint ==
    ASSUME fit \in Fits, NEW point \in Points, InDomain(point)
    PROVE  /\ point \in [Axes -> Int]
           /\ get_linear_bin(point) \in Bins
           /\ Within(point, SubtreeBox(get_linear_bin(point)))
<1> DEFINE digit == [d \in Axes |-> AxisBin(point, d)]
           v == Horner(digit, fit.n_subtrees)
<1>1. /\ fit.n_subtrees \in [Axes -> Nat \ {0}] /\ fit.span \in Nat \ {0}
      /\ NaN \notin Int
    BY FitFacts, LookupConstants
<1>2. ASSUME NEW d \in Axes
      PROVE  /\ point[d] \in Int
             /\ digit[d] \in Nat /\ digit[d] < fit.n_subtrees[d]
             /\ digit[d] * fit.span <= point[d] /\ point[d] <= digit[d] * fit.span + fit.span
    <2>1. fit.n_subtrees[d] \in Nat \ {0}
        BY <1>1
    <2>2. /\ point[d] \in Int /\ 0 <= point[d] /\ point[d] <= fit.n_subtrees[d] * fit.span
        BY DEF InDomain, ge, le, Points, lower_left, upper_right
    <2> DEFINE m == fit.n_subtrees[d]
               f == Least(FloorQ(point[d], 0, fit.span, rounding.bin), m - 1)
    <2>3. digit[d] = f
        BY DEF AxisBin, LastBin, lower_left
    <2>4. 0 + m * fit.span = m * fit.span
        BY <1>1, <2>1
    <2>5. f \in 0 .. m - 1 /\ 0 + f * fit.span <= point[d] /\ point[d] <= 0 + f * fit.span + fit.span
        <3>1. 0 \in Int /\ point[d] <= 0 + m * fit.span
            BY <2>2, <2>4
        <3>2. QED  BY <1>1, <2>1, <2>2, <3>1, FloorQFacts, Zenon
    <2> HIDE DEF f, m, digit
    <2>6. f * fit.span \in Int /\ f \in Nat /\ f < m
        BY <1>1, <2>1, <2>5 DEF m
    <2>7. QED  BY <1>1, <2>1, <2>2, <2>3, <2>5, <2>6 DEF m
<1>3. digit \in [Axes -> Nat] /\ \A d \in Axes : digit[d] < fit.n_subtrees[d]
    BY <1>2
<1>4. point \in [Axes -> Int]
    BY <1>2 DEF Points
<1>5. get_linear_bin(point) = v
    BY DEF get_linear_bin
<1> HIDE DEF digit
<1>6. v \in Bins
    BY <1>3, HornerBound DEF Bins
<1>7. get_bins(v) = digit
    BY <1>3, BinsBack
<1> HIDE DEF v
<1>8. ASSUME NEW d \in Axes
      PROVE  /\ SubtreeBox(v).lo[d] = digit[d] * fit.span /\ SubtreeBox(v).w = fit.span
    BY <1>7 DEF SubtreeBox
<1>9. Within(point, SubtreeBox(v))
    BY <1>2, <1>8 DEF Within
<1>10. QED  BY <1>4, <1>5, <1>6, <1>9

\* With one subtree in all its box is the domain.
LEMMA OneBinBox ==
    ASSUME fit \in Fits, TotalBins = 1
    PROVE  /\ 0 \in Bins /\ SubtreeBox(0).lo = [d \in Axes |-> 0] /\ SubtreeBox(0).w = fit.span
           /\ \A point : InBox(point, SubtreeBox(0).lo, fit.span) <=> InDomain(point)
           /\ \A point \in Points : InDomain(point) => get_linear_bin(point) = 0
<1> DEFINE zero == [d \in Axes |-> 0]
<1>1. fit.span \in Nat \ {0} /\ \A d \in Axes : fit.n_subtrees[d] = 1
    BY FitFacts, OneBin1
<1>2. Bins = {0}
    BY DEF Bins
<1>3. zero \in [Axes -> Nat] /\ \A d \in Axes : zero[d] < fit.n_subtrees[d]
    BY <1>1
<1> HIDE DEF zero
<1>4. Horner(zero, fit.n_subtrees) = 0
    BY <1>2, <1>3, HornerBound DEF Bins
<1>5. get_bins(0) = zero
    BY <1>3, <1>4, BinsBack
<1>6. SubtreeBox(0).lo = [d \in Axes |-> 0] /\ SubtreeBox(0).w = fit.span
    <2>1. \A d \in Axes : zero[d] * fit.span = 0
        BY <1>1 DEF zero
    <2>2. [d \in Axes |-> zero[d] * fit.span] = [d \in Axes |-> 0]
        BY <2>1
    <2>3. QED  BY <1>5, <2>2 DEF SubtreeBox
<1>7. ASSUME NEW point
      PROVE  InBox(point, SubtreeBox(0).lo, fit.span) <=> InDomain(point)
    <2>1. \A d \in Axes : /\ SubtreeBox(0).lo[d] = lower_left(d)
                          /\ SubtreeBox(0).lo[d] + fit.span = upper_right(d)
        BY <1>1, <1>6 DEF lower_left, upper_right
    <2>2. QED  BY <2>1 DEF InBox, InDomain
<1>8. \A point \in Points : InDomain(point) => get_linear_bin(point) = 0
    BY <1>2, BinOfPoint
<1>9. QED  BY <1>2, <1>6, <1>7, <1>8

-----------------------------------------------------------------------------
(* The leaf table                                                          *)

\* The clamped quotients of a point of the subtree are those of a cell that
\* it is in, and the index made of them is that cell's.
LEMMA TableCell ==
    ASSUME fit \in Fits, NEW b \in Bins, NEW point \in [Axes -> Int],
           Within(point, SubtreeBox(b))
    PROVE  /\ ClampedQ(b, point) \in [Axes -> 0 .. mask(b)]
           /\ InCell(b, ClampedQ(b, point), point)
           /\ OffBoundary(point) => InsideCell(b, ClampedQ(b, point), point)
           /\ TableIndex(b, point) \in TableEntries(b)
           /\ CellOf(b, TableIndex(b, point)) = ClampedQ(b, point)
           /\ Dim = 1 => TableIndex(b, point) = ClampedQ(b, point)[1]
<1> DEFINE q == ClampedQ(b, point)
           D == max_depth(b)
           w1 == Cell(b)
           m == Pow2(D)
           root == SubtreeBox(b).lo
<1>1. D \in Nat /\ w1 \in Nat \ {0} /\ w1 % 2 = 0 /\ fit.span = m * w1
    BY TreeFacts
<1>2. m \in Nat \ {0} /\ mask(b) = m - 1 /\ bits(b) = D
    BY <1>1, Pow2Step DEF mask, bits
<1>3. root \in [Axes -> Int] /\ SubtreeBox(b).w = m * w1
    <2>1. SubtreeBox(b) \in Boxes
        BY BoxTypes DEF Bins
    <2>2. SubtreeBox(b).w = fit.span
        BY DEF SubtreeBox
    <2>3. QED  BY <1>1, <2>1, <2>2 DEF Boxes
<1>4. ASSUME NEW d \in Axes
      PROVE  /\ q[d] \in 0 .. m - 1
             /\ root[d] + q[d] * w1 <= point[d] /\ point[d] <= root[d] + q[d] * w1 + w1
             /\ OffBoundary(point) => /\ root[d] + q[d] * w1 < point[d]
                                      /\ point[d] < root[d] + q[d] * w1 + w1
    <2> DEFINE x1 == point[d]
               lo == root[d]
               f == Least(FloorQ(x1, lo, w1, rounding.table), m - 1)
    <2>1. x1 \in Int /\ lo \in Int /\ lo <= x1 /\ x1 <= lo + m * w1
        BY <1>3 DEF Within
    <2>2. q[d] = f
        BY <1>2 DEF ClampedQ, axis_q
    <2>3. /\ f \in 0 .. m - 1 /\ lo + f * w1 <= x1 /\ x1 <= lo + f * w1 + w1
          /\ (x1 - lo) % w1 # 0 => lo + f * w1 < x1 /\ x1 < lo + f * w1 + w1
        <3> HIDE DEF x1, lo, w1, m
        <3>1. QED  BY <1>1, <1>2, <2>1, FloorQFacts
    <2>4. ASSUME OffBoundary(point) PROVE (x1 - lo) % w1 # 0
        <3>1. x1 % 2 = 1
            BY <2>4 DEF OffBoundary
        <3>2. get_bins(b)[d] \in Int /\ lo = get_bins(b)[d] * (m * w1)
            <4>1. Peeled(b, fit.n_subtrees) \in [Axes -> Int] /\ fit.n_subtrees \in [Axes -> Nat \ {0}]
                <5>1. fit.n_subtrees \in [Axes -> Nat \ {0}] /\ b \in Int
                    BY FitFacts DEF Bins
                <5>2. QED  BY <5>1, PeeledStep
            <4>2. get_bins(b)[d] = IF d = Dim THEN Peeled(b, fit.n_subtrees)[d]
                                   ELSE Peeled(b, fit.n_subtrees)[d] % fit.n_subtrees[d]
                BY DEF get_bins
            <4>3. Peeled(b, fit.n_subtrees)[d] \in Int /\ fit.n_subtrees[d] \in Nat \ {0}
                BY <4>1
            <4>4. Peeled(b, fit.n_subtrees)[d] % fit.n_subtrees[d] \in Int
                <5>1. ASSUME NEW v \in Int, NEW r \in Nat \ {0} PROVE v % r \in Int
                    BY DivMod
                <5>2. QED  BY <4>3, <5>1
            <4>5. get_bins(b)[d] \in Int
                BY <4>2, <4>3, <4>4
            <4>6. lo = get_bins(b)[d] * fit.span
                BY DEF SubtreeBox
            <4>7. QED  BY <1>1, <4>5, <4>6
        <3> HIDE DEF x1, lo, w1, m, f
        <3> SUFFICES ASSUME (x1 - lo) % w1 = 0 PROVE FALSE
            OBVIOUS
        <3> DEFINE t == (x1 - lo) \div w1
                   h == w1 \div 2
                   g == get_bins(b)[d]
        <3>3. t \in Int /\ x1 - lo = w1 * t + ((x1 - lo) % w1)
            <4>1. x1 - lo \in Int
                BY <2>1
            <4>2. QED  BY <1>1, <4>1, DivMod, Zenon
        <3>4. h \in Int /\ w1 = 2 * h
            BY <1>1
        <3>5. g \in Int /\ lo = g * (m * w1)
            BY <3>2
        <3> HIDE DEF t, h, g
        <3>6. x1 = g * (m * (2 * h)) + (2 * h) * t
            <4>1. x1 = lo + w1 * t
                BY <2>1, <3>3, <3>4
            <4>2. QED  BY <3>4, <3>5, <4>1
        <3>7. ASSUME NEW g1 \in Int, NEW m1 \in Int, NEW h1 \in Int, NEW t1 \in Int
              PROVE  g1 * (m1 * (2 * h1)) + (2 * h1) * t1 = 2 * (g1 * (m1 * h1) + h1 * t1)
            OBVIOUS
        <3>8. x1 = 2 * (g * (m * h) + h * t)
            BY <1>2, <3>3, <3>4, <3>5, <3>6, <3>7
        <3>9. g * (m * h) + h * t \in Int
            BY <1>2, <3>3, <3>4, <3>5
        <3>10. ASSUME NEW v \in Int PROVE (2 * v) % 2 = 0
            OBVIOUS
        <3>11. x1 % 2 = 0
            BY <3>8, <3>9, <3>10
        <3>12. QED  BY <3>1, <3>11
    <2>5. QED  BY <2>2, <2>3, <2>4 DEF x1, lo, f
<1>5. q = [d \in Axes |-> q[d]] /\ q \in [Axes -> 0 .. mask(b)]
    <2>1. q = [d \in Axes |-> q[d]]
        BY DEF ClampedQ
    <2> HIDE DEF q
    <2>2. QED  BY <1>2, <1>4, <2>1
<1>6. InCell(b, q, point) /\ (OffBoundary(point) => InsideCell(b, q, point))
    BY <1>4 DEF InCell, InsideCell
<1> HIDE DEF q, D, m, w1, root
<1>7. q \in [Axes -> Nat] /\ \A d \in Axes : q[d] < Pow2(D)
    BY <1>2, <1>4, <1>5 DEF m
<1>8. /\ Shifted(q, D) \in 0 .. Pow2(Dim * D) - 1
      /\ Dim = 1 => Shifted(q, D) = q[1]
      /\ \A d \in Axes : Peeled(Shifted(q, D), [e \in Axes |-> Pow2(D)])[d] % Pow2(D) = q[d]
    BY <1>1, <1>7, ShiftedDigits
<1>9. TableIndex(b, point) = Shifted(q, D)
    BY <1>2 DEF TableIndex, Packed, q
<1>10. CellOf(b, Shifted(q, D)) = q
    <2>1. CellOf(b, Shifted(q, D)) = [d \in Axes |-> Peeled(Shifted(q, D), [e \in Axes |-> Pow2(D)])[d] % Pow2(D)]
        BY <1>2 DEF CellOf
    <2>2. QED  BY <1>5, <1>8, <2>1
<1>11. TableEntries(b) = 0 .. Pow2(Dim * D) - 1
    BY <1>2 DEF TableEntries
<1>12. QED  BY <1>5, <1>6, <1>8, <1>9, <1>10, <1>11 DEF q

\* The centre of a cell is inside it, and the cell inside the subtree.
LEMMA CentreFacts ==
    ASSUME fit \in Fits, NEW b \in Bins, NEW idx, NEW q \in [Axes -> 0 .. mask(b)],
           CellOf(b, idx) = q
    PROVE  /\ CellCentre(b, idx) \in [Axes -> Int]
           /\ InsideCell(b, q, CellCentre(b, idx))
           /\ Within(CellCentre(b, idx), SubtreeBox(b))
<1> DEFINE centre == CellCentre(b, idx)
           w1 == Cell(b)
           m == Pow2(max_depth(b))
           root == SubtreeBox(b).lo
<1>1. max_depth(b) \in Nat /\ w1 \in Nat \ {0} /\ w1 % 2 = 0 /\ fit.span = m * w1
    BY TreeFacts
<1>2. m \in Nat \ {0} /\ mask(b) = m - 1
    BY <1>1, Pow2Step DEF mask, bits
<1>3. root \in [Axes -> Int] /\ SubtreeBox(b).w = m * w1
    <2>1. SubtreeBox(b) \in Boxes
        BY BoxTypes DEF Bins
    <2>2. SubtreeBox(b).w = fit.span
        BY DEF SubtreeBox
    <2>3. QED  BY <1>1, <2>1, <2>2 DEF Boxes
<1>4. centre = [d \in Axes |-> root[d] + q[d] * w1 + w1 \div 2]
    BY DEF CellCentre
<1>5. w1 \div 2 \in Int /\ 0 < w1 \div 2 /\ w1 \div 2 < w1
    BY <1>1
<1> HIDE DEF centre, w1, m, root
<1>6. ASSUME NEW d \in Axes
      PROVE  /\ centre[d] \in Int
             /\ root[d] + q[d] * w1 < centre[d] /\ centre[d] < root[d] + q[d] * w1 + w1
             /\ root[d] <= centre[d] /\ centre[d] <= root[d] + m * w1
    <2>1. root[d] \in Int /\ q[d] \in Int /\ 0 <= q[d] /\ q[d] < m /\ m \in Int
        BY <1>2, <1>3
    <2>2. q[d] * w1 + w1 <= m * w1
        BY <1>1, <2>1, TimesOrder, Zenon
    <2>3. q[d] * w1 \in Int /\ m * w1 \in Int /\ 0 <= q[d] * w1
        BY <1>1, <2>1
    <2>4. centre[d] = root[d] + q[d] * w1 + w1 \div 2
        BY <1>4
    <2>5. QED  BY <1>1, <1>5, <2>1, <2>2, <2>3, <2>4
<1>7. centre \in [Axes -> Int]
    <2>1. centre = [d \in Axes |-> centre[d]]
        BY <1>4
    <2>2. QED  BY <1>6, <2>1
<1>8. InsideCell(b, q, centre) /\ Within(centre, SubtreeBox(b))
    BY <1>3, <1>6 DEF InsideCell, Within, root, w1
<1>9. QED  BY <1>7, <1>8 DEF centre

\* The leaf that a lookup should give to a point of subtree b.
LeafFor(b, path, point) ==
  /\ path \in Seq(Children) /\ Len(path) \in 0 .. max_depth(b)
  /\ is_leaf(b, path) /\ Within(point, PanelBox(b, path))

\* The table and the descent both give a leaf that holds the point, off the
\* boundaries the same one.
LEMMA LookupFacts ==
    ASSUME fit \in Fits, NEW b \in Bins, NEW point \in [Axes -> Int],
           Within(point, SubtreeBox(b))
    PROVE  /\ LeafFor(b, get_node_index(b, point), point)
           /\ \E path : /\ leaf_table(b, TableIndex(b, point)) = << b, path >>
                        /\ LeafFor(b, path, point)
                        /\ OffBoundary(point) => path = get_node_index(b, point)
<1>1. LeafFor(b, get_node_index(b, point), point)
    BY Descends DEF LeafFor
<1> DEFINE idx == TableIndex(b, point)
           q == ClampedQ(b, point)
           centre == CellCentre(b, idx)
           path == get_node_index(b, centre)
<1>2. /\ q \in [Axes -> 0 .. mask(b)] /\ CellOf(b, idx) = q
      /\ InCell(b, q, point) /\ (OffBoundary(point) => InsideCell(b, q, point))
    BY TableCell
<1>3. leaf_table(b, idx) = << b, path >>
    BY DEF leaf_table, LeafOf
<1> HIDE DEF idx, q
<1>4. centre \in [Axes -> Int] /\ InsideCell(b, q, centre) /\ Within(centre, SubtreeBox(b))
    BY <1>2, CentreFacts
<1>5. q \in [Axes -> Int]
    BY <1>2
<1> HIDE DEF centre
<1>6. /\ path \in Seq(Children) /\ Len(path) \in 0 .. max_depth(b) /\ is_leaf(b, path)
      /\ Within(centre, PanelBox(b, path))
    BY <1>4, Descends
<1>7. OffBoundary(point) => path = get_node_index(b, point)
    BY <1>2, <1>4, <1>5, SameDescent
<1> HIDE DEF path
<1>8. Aligned(b, PanelBox(b, path), Len(path))
    <2>1. Len(path) <= max_depth(b)
        BY <1>6, TreeFacts
    <2>2. QED  BY <1>6, <2>1, PanelAligned
<1>9. Within(point, PanelBox(b, path))
    BY <1>2, <1>4, <1>5, <1>6, <1>8, PanelHoldsCell
<1>10. LeafFor(b, path, point)
    BY <1>6, <1>9 DEF LeafFor
<1>11. QED  BY <1>1, <1>3, <1>7, <1>10 DEF idx

-----------------------------------------------------------------------------
(* What a lookup returns.                                                  *)

\* The id of a leaf that holds the point, off the boundaries the one that the
\* descent finds.
RightLeaf(id, point) ==
  \E b \in Bins, path \in Seq(Children) :
    /\ id = << b, path >> /\ LeafFor(b, path, point)
    /\ OffBoundary(point) => id = find_node(point)

LEMMA AnswerFacts ==
    ASSUME fit \in Fits, NEW point \in Points
    PROVE  IF InDomain(point) THEN RightLeaf(leaf_id_of(point), point)
           ELSE leaf_id_of(point) = ood_id
<1> DEFINE v == get_linear_bin(point)
<1>1. CASE ~InDomain(point)
    <2>1. CASE table
        <3>1. ~InBox(point, SubtreeBox(0).lo, fit.span)
            BY <1>1, <2>1, OneBinBox DEF table
        <3>2. QED  BY <1>1, <2>1, <3>1 DEF leaf_id_of, find_leaf_id_with_ood, quantize_one
    <2>2. CASE ~table
        BY <1>1, <2>2 DEF leaf_id_of, General
    <2>3. QED  BY <2>1, <2>2
<1>2. CASE InDomain(point)
    <2>1. point \in [Axes -> Int] /\ v \in Bins /\ Within(point, SubtreeBox(v))
        BY <1>2, BinOfPoint
    <2>2. find_node(point) = << v, get_node_index(v, point) >>
        BY DEF find_node, LeafOf
    <2>3. leaf_id_of(point) \in {leaf_table(v, TableIndex(v, point)), << v, get_node_index(v, point) >>}
        <3>1. CASE table
            <4>1. v = 0 /\ InBox(point, SubtreeBox(0).lo, fit.span)
                BY <1>2, <3>1, OneBinBox DEF table
            <4>2. QED  BY <3>1, <4>1 DEF leaf_id_of, find_leaf_id_with_ood, quantize_one
        <3>2. CASE ~table
            BY <1>2, <3>2 DEF leaf_id_of, General, find_leaf_id, LeafOf
        <3>3. QED  BY <3>1, <3>2
    <2> HIDE DEF v
    <2>4. CASE leaf_id_of(point) = leaf_table(v, TableIndex(v, point))
        <3>1. PICK path : /\ leaf_table(v, TableIndex(v, point)) = << v, path >>
                          /\ LeafFor(v, path, point)
                          /\ OffBoundary(point) => path = get_node_index(v, point)
            BY <2>1, LookupFacts
        <3>2. QED  BY <1>2, <2>1, <2>2, <2>4, <3>1 DEF RightLeaf, LeafFor
    <2>5. CASE leaf_id_of(point) = << v, get_node_index(v, point) >>
        <3>1. LeafFor(v, get_node_index(v, point), point)
            BY <2>1, LookupFacts
        <3>2. QED  BY <1>2, <2>1, <2>2, <2>5, <3>1 DEF RightLeaf, LeafFor
    <2>6. QED  BY <2>3, <2>4, <2>5
<1>3. QED  BY <1>1, <1>2

\* Such an id is one of the leaves, and never the id of no leaf.
LEMMA RightLeafFacts ==
    ASSUME fit \in Fits, NEW point \in [Axes -> Int], NEW id, RightLeaf(id, point)
    PROVE  /\ id \in Leaves /\ id # ood_id /\ is_leaf(id[1], id[2])
           /\ PanelHolds(id, point)
           /\ OffBoundary(point) => id = find_node(point)
<1>1. PICK b \in Bins, path \in Seq(Children) :
             /\ id = << b, path >> /\ LeafFor(b, path, point)
             /\ OffBoundary(point) => id = find_node(point)
    BY DEF RightLeaf
<1>2. /\ path \in Seq(Children) /\ Len(path) \in 0 .. max_depth(b)
      /\ is_leaf(b, path) /\ Within(point, PanelBox(b, path))
    BY <1>1 DEF LeafFor
<1>3. Len(path) \in Nat /\ path \in [1 .. Len(path) -> Children]
    BY <1>2, LenProperties
<1>4. path \in Seq(Nat)
    <2>1. path \in [1 .. Len(path) -> Nat]
        BY <1>3 DEF Children
    <2>2. QED  BY <1>3, <2>1, SeqDef
<1>5. id # ood_id
    <2>1. id \in Nat \X Seq(Nat)
        BY <1>1, <1>4 DEF Bins
    <2>2. QED  BY <2>1, LookupConstants
<1>6. path \in Paths(b)
    BY <1>2, <1>3 DEF Paths, Children
<1>7. id \in Leaves
    BY <1>1, <1>6 DEF Leaves, LeafOf, Bins
<1>8. PanelBox(b, path) \in Boxes
    <2>1. 0 \in Children
        <3>1. Pow2(Dim) \in Nat \ {0}
            BY FitFacts, Pow2Step
        <3>2. QED  BY <3>1 DEF Children
    <2>2. QED  BY <1>2, <2>1, PanelSteps DEF Bins
<1>9. PanelHolds(id, point)
    <2>1. InBox(point, PanelBox(b, path).lo, PanelBox(b, path).w)
        BY <1>2, <1>8, InBoxWithin
    <2>2. id[1] = b /\ id[2] = path
        BY <1>1
    <2>3. QED  BY <2>1, <2>2 DEF PanelHolds
<1>10. QED  BY <1>1, <1>2, <1>5, <1>7, <1>9

-----------------------------------------------------------------------------
(* Lanes                                                                   *)

\* Whatever a lane holds, its converted and clamped index is in the table.
LEMMA UnsignedClampType ==
    ASSUME fit \in Fits, NEW q \in Int \cup {NaN}, mask(0) \in Nat
    PROVE  UnsignedClamp(q) \in 0 .. mask(0)
<1>1. word - 1 \in Nat /\ word \in Nat
    BY LookupConstants
<1>2. Pow2(word - 1) \in Nat \ {0} /\ Pow2(word) \in Nat \ {0}
    BY <1>1, Pow2Step
<1>3. ToInt(q) \in Int
    BY <1>2 DEF ToInt, IntMin, IntMax
<1>4. Unsigned(ToInt(q)) \in 0 .. Pow2(word) - 1
    BY <1>2, <1>3, DivMod DEF Unsigned
<1>5. Unsigned(ToInt(q)) \in Nat
    BY <1>2, <1>4
<1> DEFINE u == Unsigned(ToInt(q))
           top == mask(0)
<1>6. UnsignedClamp(q) = IF u < top THEN u ELSE top
    BY DEF UnsignedClamp, Least
<1>7. u \in Nat /\ top \in Nat
    BY <1>5
<1> HIDE DEF u, top
<1>8. (IF u < top THEN u ELSE top) \in 0 .. top
    BY <1>7
<1>9. QED  BY <1>6, <1>8 DEF top

\* Every kernel and every conversion gives a lane in the domain the cell that
\* the scalar lookup gives it, and reads inside the table for any other.
LEMMA LaneFacts ==
    ASSUME fit \in Fits, Batched, NEW point \in Points
    PROVE  /\ LaneOod(point[1]) <=> ~InDomain(point)
           /\ LaneIndex(point[1]) \in TableEntries(0)
           /\ GuardedIndex(point[1]) \in TableEntries(0)
           /\ LaneQuantizerIndex(point[1]) \in TableEntries(0)
           /\ InDomain(point) =>
                /\ LaneIndex(point[1]) = TableIndex(0, point)
                /\ GuardedIndex(point[1]) = TableIndex(0, point)
                /\ LaneQuantizerIndex(point[1]) = TableIndex(0, point)
<1> DEFINE D == max_depth(0)
           m == Pow2(D)
           w1 == Cell(0)
           x1 == point[1]
           q == LaneQ(x1)
<1>1. /\ Dim = 1 /\ Axes = {1} /\ TotalBins = 1 /\ 1 * D <= fit.table_bits
      /\ fit.table_bits < word - 1 /\ word \in Nat /\ fit.table_bits \in Nat
    BY FitFacts DEF Batched, table, has_leaf_table
<1>2. 0 \in Bins /\ SubtreeBox(0).lo[1] = 0 /\ SubtreeBox(0).w = fit.span
    BY <1>1, OneBinBox
<1>3. D \in Nat /\ w1 \in Nat \ {0} /\ fit.span = m * w1
    BY <1>2, TreeFacts
<1>4. m \in Nat \ {0} /\ mask(0) = m - 1
    BY <1>3, Pow2Step DEF mask, bits
<1>5. TableEntries(0) = 0 .. m - 1
    <2>1. Dim * bits(0) = D
        BY <1>1, <1>3 DEF bits
    <2>2. QED  BY <2>1 DEF TableEntries
<1>6. fit.n_subtrees[1] = 1 /\ upper_right(1) = m * w1 /\ lower_left(1) = 0
    <2>1. fit.n_subtrees[1] = 1
        BY <1>1, OneBin1
    <2>2. QED  BY <1>3, <1>4, <2>1 DEF upper_right, lower_left
<1>7. x1 \in Int \cup {NaN} /\ NaN \notin Int
    BY <1>1, LookupConstants DEF Points
<1>8. LaneOod(x1) <=> ~InDomain(point)
    BY <1>1 DEF LaneOod, InDomain
<1>9. q = FloorQ(x1, 0, w1, rounding.table) /\ q \in Int \cup {NaN}
    <2>1. q = FloorQ(x1, 0, w1, rounding.table)
        BY <1>6 DEF LaneQ
    <2>2. 0 \in Int
        OBVIOUS
    <2>3. FloorQ(x1, 0, w1, rounding.table) \in Int \cup {NaN}
        BY <1>3, <1>7, <2>2, FloorQType, Zenon
    <2>4. QED  BY <2>1, <2>3
<1>10. PackedIndex(x1) = UnsignedClamp(q)
       /\ GuardedIndex(x1) = UnsignedClamp(IF LaneOod(x1) THEN 0 ELSE q)
       /\ LaneQuantizerIndex(x1) = Least(IF LaneOod(x1) THEN 0 ELSE q, m - 1)
    BY <1>4 DEF PackedIndex, GuardedIndex, LaneQuantizerIndex
<1>11. LaneIndex(x1) \in {GuardedIndex(x1), PackedIndex(x1)}
    BY DEF LaneIndex
<1> HIDE DEF q, x1, w1, m, D
<1>12. PackedIndex(x1) \in 0 .. m - 1 /\ GuardedIndex(x1) \in 0 .. m - 1
    <2>1. mask(0) \in Nat
        BY <1>4
    <2>2. (IF LaneOod(x1) THEN 0 ELSE q) \in Int \cup {NaN}
        BY <1>9
    <2>3. \A v \in Int \cup {NaN} : UnsignedClamp(v) \in 0 .. mask(0)
        BY <2>1, UnsignedClampType
    <2>4. QED  BY <1>4, <1>9, <1>10, <2>2, <2>3
<1>13. CASE ~InDomain(point)
    <2>1. LaneQuantizerIndex(x1) = Least(0, m - 1)
        BY <1>8, <1>10, <1>13
    <2>2. LaneQuantizerIndex(x1) \in 0 .. m - 1
        BY <1>4, <2>1 DEF Least
    <2>3. QED  BY <1>5, <1>8, <1>11, <1>12, <1>13, <2>2 DEF x1
<1>14. CASE InDomain(point)
    <2>1. point \in [Axes -> Int] /\ get_linear_bin(point) = 0
          /\ Within(point, SubtreeBox(get_linear_bin(point)))
        BY <1>1, <1>14, BinOfPoint, OneBinBox
    <2>2. x1 \in Int /\ 0 <= x1 /\ x1 <= 0 + m * w1
        <3>1. x1 \in Int
            BY <1>1, <2>1 DEF x1
        <3>2. ge(x1, 0) /\ le(x1, m * w1)
            BY <1>1, <1>6, <1>14 DEF InDomain, x1
        <3>3. 0 + m * w1 = m * w1
            BY <1>3, <1>4
        <3>4. QED  BY <3>1, <3>2, <3>3 DEF ge, le
    <2>3. q \in 0 .. m /\ Least(q, m - 1) \in 0 .. m - 1
        <3>1. 0 \in Int
            OBVIOUS
        <3>2. /\ FloorQ(x1, 0, w1, rounding.table) \in 0 .. m
              /\ Least(FloorQ(x1, 0, w1, rounding.table), m - 1) \in 0 .. m - 1
            BY <1>3, <1>4, <2>2, <3>1, FloorQFacts, Zenon
        <3>3. QED  BY <1>9, <3>2
    <2>4. m < Pow2(word - 1) /\ Pow2(word - 1) <= Pow2(word)
          /\ Pow2(word - 1) \in Nat /\ Pow2(word) \in Nat \ {0}
        <3>1. D + 1 \in Nat /\ word - 1 \in Nat /\ D + 1 <= word - 1 /\ word - 1 <= word
            BY <1>1, <1>3
        <3>2. Pow2(D + 1) = 2 * m
            BY <1>3, Pow2Step DEF m
        <3>3. Pow2(D + 1) <= Pow2(word - 1)
            BY <3>1, Pow2Grows
        <3>4. Pow2(word - 1) <= Pow2(word)
            BY <1>1, <3>1, Pow2Grows
        <3>5. Pow2(word - 1) \in Nat /\ Pow2(word) \in Nat \ {0}
            BY <1>1, <3>1, Pow2Step
        <3>6. QED  BY <1>4, <3>2, <3>3, <3>4, <3>5
    <2>5. ToInt(q) = q
        <3>1. q \in Int /\ q # NaN /\ q \in 0 - Pow2(word - 1) .. Pow2(word - 1) - 1
            BY <1>4, <1>7, <2>3, <2>4
        <3>2. QED  BY <3>1 DEF ToInt, IntMin, IntMax
    <2>6. Unsigned(q) = q
        <3>1. q \in 0 .. Pow2(word) - 1 /\ 0 \in Int
            BY <1>4, <2>3, <2>4
        <3>2. (Pow2(word) * 0 + q) % Pow2(word) = q
            BY <2>4, <3>1, DivUnique, Zenon
        <3>3. Pow2(word) * 0 + q = q
            BY <2>4, <3>1
        <3>4. QED  BY <3>2, <3>3 DEF Unsigned
    <2>7. UnsignedClamp(q) = Least(q, m - 1)
        BY <1>4, <2>5, <2>6 DEF UnsignedClamp
    <2>8. ~LaneOod(x1)
        BY <1>8, <1>14
    <2>9. /\ PackedIndex(x1) = Least(q, m - 1) /\ GuardedIndex(x1) = Least(q, m - 1)
          /\ LaneQuantizerIndex(x1) = Least(q, m - 1)
        BY <1>10, <2>7, <2>8
    <2>10. TableIndex(0, point) = Least(q, m - 1)
        <3>1. TableIndex(0, point) = ClampedQ(0, point)[1]
            BY <1>1, <1>2, <2>1, TableCell
        <3>2. ClampedQ(0, point)[1] = Least(axis_q(0, point, 1), mask(0))
            BY <1>1 DEF ClampedQ
        <3>3. axis_q(0, point, 1) = q
            BY <1>2, <1>9 DEF axis_q, x1, w1
        <3>4. QED  BY <1>4, <3>1, <3>2, <3>3
    <2>11. QED  BY <1>5, <1>8, <1>11, <1>14, <2>3, <2>9, <2>10 DEF x1
<1>15. QED  BY <1>13, <1>14

\* So a lane answers what the scalar lookup answers.
LEMMA LaneAnswers ==
    ASSUME fit \in Fits, Batched, NEW point \in Points
    PROVE  /\ LaneId(point[1], LaneIndex(point[1])) = leaf_id_of(point)
           /\ LaneId(point[1], GuardedIndex(point[1])) = leaf_id_of(point)
           /\ InDomain(point) => LaneQuantizerIds(point[1]) = leaf_id_of(point)
<1>1. table /\ TotalBins = 1
    BY DEF Batched, table
<1>2. \A p1 : InBox(p1, SubtreeBox(0).lo, fit.span) <=> InDomain(p1)
    BY <1>1, OneBinBox
<1>3. CASE ~InDomain(point)
    <2>1. LaneOod(point[1]) /\ leaf_id_of(point) = ood_id
        BY <1>3, LaneFacts, AnswerFacts
    <2>2. QED  BY <1>3, <2>1 DEF LaneId
<1>4. CASE InDomain(point)
    <2>1. leaf_id_of(point) = leaf_table(0, TableIndex(0, point))
        BY <1>1, <1>2, <1>4 DEF leaf_id_of, find_leaf_id_with_ood, quantize_one
    <2>2. ~LaneOod(point[1]) /\ LaneIndex(point[1]) = TableIndex(0, point)
          /\ GuardedIndex(point[1]) = TableIndex(0, point)
          /\ LaneQuantizerIndex(point[1]) = TableIndex(0, point)
        BY <1>4, LaneFacts
    <2>3. QED  BY <1>4, <2>1, <2>2 DEF LaneId, LaneQuantizerIds
<1>5. QED  BY <1>3, <1>4

-----------------------------------------------------------------------------
(* The inductive invariant: what has been written so far is the scalar     *)
(* lookup's answer to each point, and no step read outside a table.  The   *)
(* registers keep the next point at a multiple of the lanes.               *)

Answers == (Nat \X Seq(Nat)) \cup {ood_id}

CallInv ==
  /\ fit \in Fits /\ rounding \in Roundings
  /\ kernel \in Kernels /\ cast \in {"x86", "arm"}
  /\ xp \in BatchesOf(fit)
WrittenInv ==
  /\ i \in 0 .. n /\ out \in Seq(Answers) /\ Len(out) = i
  /\ \A k \in 1 .. i : out[k] = leaf_id_of(xp[k])
LanesInv == Batched /\ i <= n_simd => i % lanes = 0
ReadsInv == reads = {} \/ \E b \in Bins : reads \subseteq TableEntries(b)
IInv == CallInv /\ WrittenInv /\ LanesInv /\ ReadsInv

\* The points of a batch.
LEMMA BatchFacts ==
    ASSUME CallInv
    PROVE  n \in Nat /\ xp \in [1 .. n -> Points]
<1>1. xp \in Seq([1 .. Len(fit.n_subtrees) -> Int \cup {NaN}])
    BY LookupConstants DEF CallInv
<1>2. xp \in Seq(Points)
    BY <1>1 DEF Points, Axes, Dim
<1>3. QED  BY <1>2, LenProperties DEF n

LEMMA AnswerType ==
    ASSUME fit \in Fits, NEW point \in Points
    PROVE  leaf_id_of(point) \in Answers
<1>1. CASE ~InDomain(point)
    BY <1>1, AnswerFacts DEF Answers
<1>2. CASE InDomain(point)
    <2>1. RightLeaf(leaf_id_of(point), point)
        BY <1>2, AnswerFacts
    <2>2. PICK b \in Bins, path \in Seq(Children) :
                 leaf_id_of(point) = << b, path >> /\ LeafFor(b, path, point)
        BY <2>1 DEF RightLeaf
    <2>3. path \in [1 .. Len(path) -> Children] /\ Len(path) \in Nat
        BY <2>2, LenProperties DEF LeafFor
    <2>4. path \in [1 .. Len(path) -> Nat]
        BY <2>3 DEF Children
    <2>5. path \in Seq(Nat)
        BY <2>3, <2>4, SeqDef
    <2>6. QED  BY <2>2, <2>5 DEF Answers, Bins
<1>3. QED  BY <1>1, <1>2

\* A lookup depends on the fit and on how boundaries round, and on nothing else.
LEMMA LookupUnchanged ==
    ASSUME fit' = fit, rounding' = rounding, xp' = xp
    PROVE  /\ \A k : leaf_id_of(xp[k])' = leaf_id_of(xp[k])
           /\ Batched' = Batched /\ Bins' = Bins
           /\ \A b : TableEntries(b)' = TableEntries(b)
<1>1. ASSUME NEW k PROVE leaf_id_of(xp[k])' = leaf_id_of(xp[k])
    BY DEF leaf_id_of, table, has_leaf_table, TotalBins, General, InDomain, find_leaf_id,
           find_leaf_id_with_ood, quantize_one, InBox, leaf_table, TableIndex, Packed, ClampedQ,
           axis_q, mask, bits, max_depth, Cell, SubtreeBox, get_bins, Peeled, Axes, Dim,
           get_linear_bin, Horner, AxisBin, LastBin, lower_left, upper_right, LeafOf,
           get_node_index, is_leaf, ChildAt, Upper, AboveMid, Shifted, PanelBox, Half, UpperHalf,
           CellCentre, CellOf
<1>2. Batched' = Batched /\ Bins' = Bins
    BY DEF Batched, Bins, TotalBins, table, has_leaf_table, max_depth, Dim
<1>3. ASSUME NEW b PROVE TableEntries(b)' = TableEntries(b)
    BY DEF TableEntries, bits, max_depth, Dim
<1>4. QED  BY <1>1, <1>2, <1>3

LEMMA InvInit ==
    ASSUME Init
    PROVE  IInv
<1>1. CallInv
    BY DEF Init, CallInv
<1>2. n \in Nat
    BY <1>1, BatchFacts
<1>3. WrittenInv
    <2>1. i = 0 /\ out = <<>>
        BY DEF Init
    <2>2. <<>> \in Seq(Answers) /\ Len(<<>>) = 0
        OBVIOUS
    <2>3. QED  BY <1>2, <2>1, <2>2 DEF WrittenInv
<1>4. LanesInv
    <2>1. i = 0 /\ lanes \in Nat \ {0}
        BY LookupConstants DEF Init
    <2>2. 0 % lanes = 0
        BY <2>1
    <2>3. QED  BY <2>1, <2>2 DEF LanesInv
<1>5. ReadsInv
    BY DEF Init, ReadsInv
<1>6. QED  BY <1>1, <1>3, <1>4, <1>5 DEF IInv

\* More answers, written at the end.
LEMMA WrittenGrows ==
    ASSUME IInv, UNCHANGED << fit, rounding, kernel, cast, xp >>,
           NEW more \in Seq(Answers), i + Len(more) <= n,
           \A k \in 1 .. Len(more) : more[k] = leaf_id_of(xp[i + k]),
           out' = out \o more, i' = i + Len(more)
    PROVE  CallInv' /\ WrittenInv'
<1>1. CallInv'
    BY DEF IInv, CallInv
<1>2. /\ n \in Nat /\ i \in Nat /\ out \in Seq(Answers) /\ Len(out) = i
      /\ Len(more) \in Nat /\ \A k \in 1 .. i : out[k] = leaf_id_of(xp[k])
    BY BatchFacts, LenProperties DEF IInv, WrittenInv
<1>3. n' = n
    BY DEF n
<1>4. /\ out' \in Seq(Answers) /\ Len(out') = i + Len(more)
      /\ \A k \in 1 .. i + Len(more) : out'[k] = IF k <= i THEN out[k] ELSE more[k - i]
    BY <1>2, ConcatProperties
<1>5. ASSUME NEW k \in 1 .. i + Len(more) PROVE out'[k] = leaf_id_of(xp[k])
    <2>1. CASE k <= i
        BY <1>2, <1>4, <2>1
    <2>2. CASE ~(k <= i)
        <3>1. k - i \in 1 .. Len(more) /\ i + (k - i) = k
            BY <1>2, <2>2
        <3>2. QED  BY <1>4, <2>2, <3>1
    <2>3. QED  BY <2>1, <2>2
<1>6. (\A k \in 1 .. i : out[k] = leaf_id_of(xp[k]))'
    <2>1. \A k : leaf_id_of(xp[k])' = leaf_id_of(xp[k])
        BY LookupUnchanged
    <2>2. QED  BY <1>5, <2>1
<1>7. i' \in 0 .. n'
    BY <1>2, <1>3
<1>8. Len(out') = i'
    BY <1>4
<1>9. QED  BY <1>1, <1>4, <1>6, <1>7, <1>8 DEF WrittenInv

LEMMA FullLanesInv ==
    ASSUME IInv, FullLanes
    PROVE  IInv'
<1> DEFINE more == [k \in 1 .. lanes |-> LaneId(x(i + k - 1), LaneIndex(x(i + k - 1)))]
<1>1. /\ fit \in Fits /\ lanes \in Nat \ {0} /\ i \in Nat /\ n \in Nat /\ Batched
      /\ xp \in [1 .. n -> Points] /\ i < n_simd /\ i % lanes = 0
    <2>1. CallInv /\ n \in Nat /\ xp \in [1 .. n -> Points] /\ lanes \in Nat \ {0}
        BY BatchFacts, LookupConstants DEF IInv
    <2>2. i \in Nat /\ i < n_simd /\ Batched
        BY <2>1 DEF IInv, WrittenInv, FullLanes
    <2>3. n_simd \in Int
        <3>1. n % lanes \in Int
            BY <2>1, DivMod
        <3>2. QED  BY <2>1, <3>1 DEF n_simd
    <2>4. i % lanes = 0
        BY <2>2, <2>3 DEF IInv, LanesInv
    <2>5. QED  BY <2>1, <2>2, <2>4 DEF CallInv
<1>2. i + lanes <= n /\ n_simd <= n /\ n_simd \in Int
    <2>1. /\ n = lanes * (n \div lanes) + (n % lanes) /\ n % lanes \in 0 .. lanes - 1
          /\ i = lanes * (i \div lanes) + (i % lanes)
          /\ n \div lanes \in Int /\ i \div lanes \in Int
        BY <1>1, DivMod
    <2> DEFINE N == n \div lanes
               I == i \div lanes
    <2>2. /\ lanes * N = N * lanes /\ lanes * I = I * lanes
          /\ N * lanes \in Int /\ I * lanes \in Int
        BY <1>1, <2>1
    <2>3. n_simd = N * lanes /\ i = I * lanes
        BY <1>1, <2>1, <2>2 DEF n_simd
    <2> HIDE DEF N, I
    <2>4. I < N
        <3>1. N \in Int /\ I \in Int /\ I * lanes < N * lanes
            BY <1>1, <2>1, <2>3 DEF N, I
        <3>2. QED  BY <1>1, <3>1, TimesOrder, Zenon
    <2>5. I * lanes + lanes <= N * lanes
        <3>1. N \in Int /\ I \in Int
            BY <2>1 DEF N, I
        <3>2. QED  BY <1>1, <2>4, <3>1, TimesOrder, Zenon
    <2>6. n_simd <= n /\ n_simd \in Int
        BY <1>1, <2>1, <2>2, <2>3 DEF N
    <2>7. QED  BY <1>1, <2>3, <2>5, <2>6
<1>3. ASSUME NEW k \in 1 .. lanes
      PROVE  /\ xp[i + k] \in Points /\ x(i + k - 1) = xp[i + k][1]
             /\ more[k] = leaf_id_of(xp[i + k])
             /\ Loaded(x(i + k - 1), LaneIndex(x(i + k - 1))) \subseteq TableEntries(0)
    <2>1. i + k \in 1 .. n /\ (i + k - 1) + 1 = i + k
        BY <1>1, <1>2
    <2>2. xp[i + k] \in Points /\ x(i + k - 1) = xp[i + k][1]
        BY <1>1, <2>1 DEF x
    <2>3. LaneId(xp[i + k][1], LaneIndex(xp[i + k][1])) = leaf_id_of(xp[i + k])
        BY <1>1, <2>2, LaneAnswers
    <2>4. LaneIndex(xp[i + k][1]) \in TableEntries(0)
        BY <1>1, <2>2, LaneFacts
    <2>5. QED  BY <2>2, <2>3, <2>4 DEF Loaded
<1>4. more \in Seq(Answers) /\ Len(more) = lanes
    <2>1. \A k \in 1 .. lanes : more[k] \in Answers
        BY <1>1, <1>3, AnswerType
    <2>2. more \in [1 .. lanes -> Answers]
        BY <2>1
    <2> HIDE DEF more
    <2>3. more \in Seq(Answers)
        BY <1>1, <2>2, SeqDef
    <2>4. QED  BY <1>1, <2>2, <2>3, LenProperties
<1>5. out' = out \o more /\ i' = i + lanes /\ UNCHANGED << fit, rounding, kernel, cast, xp >>
    BY DEF FullLanes
<1>6. reads' = UNION {Loaded(x(i + k - 1), LaneIndex(x(i + k - 1))) : k \in 1 .. lanes}
    BY DEF FullLanes
<1>7. \A k \in 1 .. lanes : more[k] = leaf_id_of(xp[i + k])
    BY <1>3
<1> HIDE DEF more
<1>8. CallInv' /\ WrittenInv'
    BY <1>2, <1>4, <1>5, <1>7, WrittenGrows
<1>9. LanesInv'
    <2>1. (i + lanes) % lanes = 0
        <3>1. i = lanes * (i \div lanes) + 0 /\ i \div lanes \in Int
            BY <1>1, DivMod
        <3> DEFINE J == i \div lanes + 1
        <3>2. i + lanes = lanes * J + 0 /\ J \in Int /\ 0 \in 0 .. lanes - 1
            BY <1>1, <3>1
        <3> HIDE DEF J
        <3>3. (lanes * J + 0) % lanes = 0
            BY <1>1, <3>2, DivUnique, Zenon
        <3>4. QED  BY <3>2, <3>3
    <2>2. QED  BY <1>5, <2>1 DEF LanesInv
<1>10. ReadsInv'
    <2>1. reads' \subseteq TableEntries(0)
        BY <1>3, <1>6
    <2>2. 0 \in Bins
        BY <1>1, OneBinBox DEF Batched, table
    <2>3. Bins' = Bins /\ TableEntries(0)' = TableEntries(0)
        BY <1>5, LookupUnchanged
    <2>4. QED  BY <2>1, <2>2, <2>3 DEF ReadsInv
<1>11. QED  BY <1>8, <1>9, <1>10 DEF IInv

\* One answer more.
LEMMA WrittenNext ==
    ASSUME IInv, UNCHANGED << fit, rounding, kernel, cast, xp >>, i < n,
           out' = Append(out, leaf_id_of(xp[i + 1])), i' = i + 1
    PROVE  CallInv' /\ WrittenInv'
<1> DEFINE answer == leaf_id_of(xp[i + 1])
           more == << answer >>
<1>1. fit \in Fits /\ i \in Nat /\ n \in Nat /\ xp \in [1 .. n -> Points] /\ out \in Seq(Answers)
    BY BatchFacts DEF IInv, CallInv, WrittenInv
<1>2. answer \in Answers
    <2>1. i + 1 \in 1 .. n
        BY <1>1
    <2>2. xp[i + 1] \in Points
        BY <1>1, <2>1
    <2>3. QED  BY <1>1, <2>2, AnswerType
<1> HIDE DEF answer
<1>3. more \in Seq(Answers) /\ Len(more) = 1 /\ more[1] = answer
    BY <1>2
<1>4. Append(out, answer) = out \o more
    BY <1>1, <1>2, <1>3
<1> HIDE DEF more
<1>5. \A k \in 1 .. Len(more) : more[k] = leaf_id_of(xp[i + k])
    <2>1. SUFFICES ASSUME NEW k \in 1 .. Len(more) PROVE more[k] = leaf_id_of(xp[i + k])
        OBVIOUS
    <2>2. k = 1
        BY <1>3
    <2>3. QED  BY <1>3, <2>2 DEF answer
<1>6. out' = out \o more /\ i' = i + Len(more) /\ i + Len(more) <= n
    BY <1>1, <1>3, <1>4 DEF answer
<1>7. QED  BY <1>3, <1>5, <1>6, WrittenGrows

LEMMA TailPointInv ==
    ASSUME IInv, TailPoint
    PROVE  IInv'
<1>1. /\ fit \in Fits /\ i \in Nat /\ n \in Nat /\ xp \in [1 .. n -> Points] /\ Batched
      /\ i < n /\ i >= n_simd /\ n_simd \in Int
    <2>1. /\ fit \in Fits /\ i \in Nat /\ n \in Nat /\ xp \in [1 .. n -> Points] /\ Batched
          /\ i < n /\ i >= n_simd
        BY BatchFacts DEF IInv, CallInv, WrittenInv, TailPoint
    <2>2. n % lanes \in Int
        BY <2>1, DivMod, LookupConstants
    <2>3. QED  BY <2>1, <2>2 DEF n_simd
<1>2. xp[i + 1] \in Points /\ x(i) = xp[i + 1][1]
    <2>1. i + 1 \in 1 .. n
        BY <1>1
    <2>2. QED  BY <1>1, <2>1 DEF x
<1>3. /\ LaneId(x(i), GuardedIndex(x(i))) = leaf_id_of(xp[i + 1])
      /\ GuardedIndex(x(i)) \in TableEntries(0)
    BY <1>1, <1>2, LaneAnswers, LaneFacts
<1>4. /\ out' = Append(out, leaf_id_of(xp[i + 1])) /\ i' = i + 1
      /\ UNCHANGED << fit, rounding, kernel, cast, xp >>
    BY <1>3 DEF TailPoint, TailNext
<1>5. CallInv' /\ WrittenInv'
    BY <1>1, <1>4, WrittenNext
<1>6. LanesInv'
    <2>1. n_simd' = n_simd
        BY <1>4 DEF n_simd, n
    <2>2. ~(i' <= n_simd')
        BY <1>1, <1>4, <2>1
    <2>3. QED  BY <2>2 DEF LanesInv
<1>7. ReadsInv'
    <2>1. reads' = {} \/ reads' = {GuardedIndex(x(i))}
        BY DEF TailPoint
    <2>2. reads' \subseteq TableEntries(0)
        BY <1>3, <2>1
    <2>3. 0 \in Bins
        BY <1>1, OneBinBox DEF Batched, table
    <2>4. Bins' = Bins /\ TableEntries(0)' = TableEntries(0)
        BY <1>4, LookupUnchanged
    <2>5. QED  BY <2>2, <2>3, <2>4 DEF ReadsInv
<1>8. QED  BY <1>5, <1>6, <1>7 DEF IInv

LEMMA ScalarPointInv ==
    ASSUME IInv, ScalarPoint
    PROVE  IInv'
<1> DEFINE point == xp[i + 1]
           b == IF table THEN 0 ELSE get_linear_bin(point)
<1>1. /\ fit \in Fits /\ i \in Nat /\ n \in Nat /\ xp \in [1 .. n -> Points] /\ ~Batched
      /\ i < n /\ i' = i + 1 /\ UNCHANGED << fit, rounding, kernel, cast, xp >>
      /\ out' = Append(out, leaf_id_of(point))
      /\ reads' = IF InDomain(point) /\ has_leaf_table(b) THEN {TableIndex(b, point)} ELSE {}
    BY BatchFacts DEF IInv, CallInv, WrittenInv, ScalarPoint
<1>2. point \in Points
    <2>1. i + 1 \in 1 .. n
        BY <1>1
    <2>2. QED  BY <1>1, <2>1
<1>3. CallInv' /\ WrittenInv'
    BY <1>1, WrittenNext
<1>4. Batched' = Batched /\ Bins' = Bins /\ \A b1 : TableEntries(b1)' = TableEntries(b1)
    BY <1>1, LookupUnchanged
<1>5. LanesInv'
    BY <1>1, <1>4 DEF LanesInv
<1>6. ReadsInv'
    <2>1. CASE InDomain(point)
        <3>1. /\ point \in [Axes -> Int] /\ get_linear_bin(point) \in Bins
              /\ Within(point, SubtreeBox(get_linear_bin(point)))
            BY <1>1, <1>2, <2>1, BinOfPoint
        <3>2. b = get_linear_bin(point)
            BY <1>1, <1>2, <2>1, OneBinBox DEF table
        <3>3. TableIndex(b, point) \in TableEntries(b)
            BY <1>1, <3>1, <3>2, TableCell
        <3>4. reads' \subseteq TableEntries(b)
            BY <1>1, <3>3
        <3>5. QED  BY <1>4, <3>1, <3>2, <3>4 DEF ReadsInv
    <2>2. CASE ~InDomain(point)
        <3>1. reads' = {}
            BY <1>1, <2>2
        <3>2. QED  BY <3>1 DEF ReadsInv
    <2>3. QED  BY <2>1, <2>2
<1>7. QED  BY <1>3, <1>5, <1>6 DEF IInv

LEMMA InvNext ==
    ASSUME IInv, [Next]_vars
    PROVE  IInv'
<1>1. CASE FullLanes
    BY <1>1, FullLanesInv
<1>2. CASE TailPoint
    BY <1>2, TailPointInv
<1>3. CASE ScalarPoint
    BY <1>3, ScalarPointInv
<1>4. CASE UNCHANGED vars
    <2>1. /\ fit' = fit /\ rounding' = rounding /\ kernel' = kernel /\ cast' = cast /\ xp' = xp
          /\ out' = out /\ i' = i /\ reads' = reads
        BY <1>4 DEF vars
    <2>2. /\ \A k : leaf_id_of(xp[k])' = leaf_id_of(xp[k])
          /\ Batched' = Batched /\ Bins' = Bins
          /\ \A b : TableEntries(b)' = TableEntries(b)
        BY <2>1, LookupUnchanged
    <2>3. n' = n /\ n_simd' = n_simd
        BY <2>1 DEF n, n_simd
    <2>4. CallInv'
        BY <2>1 DEF IInv, CallInv
    <2>5. WrittenInv'
        BY <2>1, <2>2, <2>3 DEF IInv, WrittenInv
    <2>6. LanesInv'
        BY <2>1, <2>2, <2>3 DEF IInv, LanesInv
    <2>7. ReadsInv'
        BY <2>1, <2>2 DEF IInv, ReadsInv
    <2>8. QED  BY <2>4, <2>5, <2>6, <2>7 DEF IInv
<1>5. QED  BY <1>1, <1>2, <1>3, <1>4 DEF Next

-----------------------------------------------------------------------------
(* Theorems                                                                *)

\* At every step of leaf_ids (function.hpp, quantize.hpp) what is written so
\* far is right, and what was read is in bounds.
THEOREM LookupInvariant == Spec => []IInv
<1>1. IInv /\ [Next]_vars => IInv'
    BY InvNext
<1>2. QED  BY InvInit, <1>1, PTL DEF Spec

\* A point that has just been answered, and what it was told.
LEMMA AnsweredFacts ==
    ASSUME IInv, NEW k \in Answered
    PROVE  /\ fit \in Fits /\ k \in 1 .. i /\ xp[k] \in Points
           /\ out[k] = leaf_id_of(xp[k])
<1>1. n \in Nat /\ xp \in [1 .. n -> Points] /\ i \in Nat /\ i <= n /\ fit \in Fits
    BY BatchFacts DEF IInv, WrittenInv, CallInv
<1>2. k \in 1 .. n /\ k <= i
    BY <1>1 DEF Answered, Latest
<1>3. k \in 1 .. i
    BY <1>1, <1>2
<1>4. QED  BY <1>1, <1>2, <1>3 DEF IInv, WrittenInv

\* leaf_ids writes one id for each point, the id of a leaf of the fit or that
\* of no leaf.
THEOREM IdsTyped == Spec => []TypeOK
<1>1. IInv => TypeOK
    <2> SUFFICES ASSUME IInv PROVE TypeOK
        OBVIOUS
    <2>1. /\ fit \in Fits /\ rounding \in Roundings /\ kernel \in Kernels /\ cast \in {"x86", "arm"}
          /\ i \in 0 .. n /\ Len(out) = i
          /\ n \in Nat /\ xp \in [1 .. n -> Points]
        BY BatchFacts DEF IInv, CallInv, WrittenInv
    <2>2. ASSUME NEW k \in 1 .. i PROVE out[k] = ood_id \/ out[k] \in Leaves
        <3>1. xp[k] \in Points /\ out[k] = leaf_id_of(xp[k])
            BY <2>1 DEF IInv, WrittenInv
        <3>2. CASE InDomain(xp[k])
            <4>1. RightLeaf(out[k], xp[k]) /\ xp[k] \in [Axes -> Int]
                BY <2>1, <3>1, <3>2, AnswerFacts, BinOfPoint
            <4>2. QED  BY <2>1, <4>1, RightLeafFacts
        <3>3. CASE ~InDomain(xp[k])
            BY <2>1, <3>1, <3>3, AnswerFacts
        <3>4. QED  BY <3>2, <3>3
    <2>3. QED  BY <2>1, <2>2 DEF TypeOK
<1>2. QED  BY LookupInvariant, <1>1, PTL

\* Registers, tail, scalar lookup, sorted walk and guru lanes all give a point
\* the same id, with every kernel and whatever a conversion out of range gives.
THEOREM EveryPathOneId == Spec => []OneId
<1>1. IInv => OneId
    <2> SUFFICES ASSUME IInv, NEW k \in Answered
                 PROVE  /\ out[k] = leaf_id(xp[k])
                        /\ out[k] = sorted_leaf_id_at(xp[k])
                        /\ supports =>
                             /\ (out[k] = ood_id) = LaneOod(xp[k][1])
                             /\ ~LaneOod(xp[k][1]) => out[k] = LaneQuantizerIds(xp[k][1])
        BY DEF OneId
    <2>1. fit \in Fits /\ xp[k] \in Points /\ out[k] = leaf_id_of(xp[k])
        BY AnsweredFacts
    <2>2. out[k] = leaf_id(xp[k]) /\ out[k] = sorted_leaf_id_at(xp[k])
        BY <2>1 DEF leaf_id, sorted_leaf_id_at, leaf_id_of
    <2>3. ASSUME supports
          PROVE  /\ (out[k] = ood_id) = LaneOod(xp[k][1])
                 /\ ~LaneOod(xp[k][1]) => out[k] = LaneQuantizerIds(xp[k][1])
        <3>1. Batched
            <4>1. 0 \in 0 .. TotalBins - 1
                BY <2>3 DEF supports
            <4>2. QED  BY <2>3, <4>1 DEF supports, has_fast_quantize, Batched, table
        <3>2. LaneOod(xp[k][1]) <=> ~InDomain(xp[k])
            BY <2>1, <3>1, LaneFacts
        <3>3. InDomain(xp[k]) => out[k] = LaneQuantizerIds(xp[k][1])
            BY <2>1, <3>1, LaneAnswers
        <3>4. InDomain(xp[k]) => out[k] # ood_id
            <4>1. ASSUME InDomain(xp[k]) PROVE out[k] # ood_id
                <5>1. RightLeaf(out[k], xp[k]) /\ xp[k] \in [Axes -> Int]
                    BY <2>1, <4>1, AnswerFacts, BinOfPoint
                <5>2. QED  BY <2>1, <5>1, RightLeafFacts
            <4>2. QED  BY <4>1
        <3>5. ~InDomain(xp[k]) => out[k] = ood_id
            BY <2>1, AnswerFacts
        <3>6. LaneOod(xp[k][1]) \in BOOLEAN
            BY DEF LaneOod
        <3>7. QED  BY <3>2, <3>3, <3>4, <3>5, <3>6
    <2>4. QED  BY <2>2, <2>3
<1>2. QED  BY LookupInvariant, <1>1, PTL

\* No index, not that of a lane whose point is NaN, infinite or outside, is
\* past the end of the table it is used on.
THEOREM TableReadsInBounds == Spec => []ReadsTable
<1>1. IInv => ReadsTable
    <2> SUFFICES ASSUME IInv PROVE ReadsTable
        OBVIOUS
    <2>1. reads # {} => \E b \in 0 .. TotalBins - 1 : reads \subseteq TableEntries(b)
        BY DEF IInv, ReadsInv, Bins
    <2>2. ASSUME supports, NEW k \in Answered
          PROVE  LaneQuantizerIndex(xp[k][1]) \in TableEntries(0)
        <3>1. Batched
            <4>1. 0 \in 0 .. TotalBins - 1
                BY <2>2 DEF supports
            <4>2. QED  BY <2>2, <4>1 DEF supports, has_fast_quantize, Batched, table
        <3>2. fit \in Fits /\ xp[k] \in Points
            BY AnsweredFacts
        <3>3. QED  BY <3>1, <3>2, LaneFacts
    <2>3. QED  BY <2>1, <2>2 DEF ReadsTable
<1>2. QED  BY LookupInvariant, <1>1, PTL

\* A point of the closed domain is given a leaf whose panel holds it, by the
\* table as by the descent and whichever way a boundary rounds; a point
\* outside is given none.
THEOREM EveryPointInItsPanel == Spec => []OwnPanel
<1>1. IInv => OwnPanel
    <2> SUFFICES ASSUME IInv, NEW k \in Answered
                 PROVE  IF InDomain(xp[k])
                        THEN /\ out[k] # ood_id /\ is_leaf(out[k][1], out[k][2])
                             /\ PanelHolds(out[k], xp[k])
                        ELSE out[k] = ood_id
        BY DEF OwnPanel
    <2>1. fit \in Fits /\ xp[k] \in Points /\ out[k] = leaf_id_of(xp[k])
        BY AnsweredFacts
    <2>2. CASE InDomain(xp[k])
        <3>1. RightLeaf(out[k], xp[k]) /\ xp[k] \in [Axes -> Int]
            BY <2>1, <2>2, AnswerFacts, BinOfPoint
        <3>2. QED  BY <2>1, <2>2, <3>1, RightLeafFacts
    <2>3. CASE ~InDomain(xp[k])
        BY <2>1, <2>3, AnswerFacts
    <2>4. QED  BY <2>2, <2>3
<1>2. QED  BY LookupInvariant, <1>1, PTL

\* Off the boundaries of the cells the table answers as the descent does.
THEOREM TableMatchesDescent == Spec => []TableIsDescent
<1>1. IInv => TableIsDescent
    <2> SUFFICES ASSUME IInv, NEW k \in Answered, InDomain(xp[k]), OffBoundary(xp[k])
                 PROVE  out[k] = find_node(xp[k])
        BY DEF TableIsDescent
    <2>1. fit \in Fits /\ xp[k] \in Points /\ out[k] = leaf_id_of(xp[k])
        BY AnsweredFacts
    <2>2. RightLeaf(out[k], xp[k]) /\ xp[k] \in [Axes -> Int]
        BY <2>1, AnswerFacts, BinOfPoint
    <2>3. QED  BY <2>1, <2>2, RightLeafFacts
<1>2. QED  BY LookupInvariant, <1>1, PTL
=============================================================================
