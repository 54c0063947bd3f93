---------------------------- MODULE CountingLemmas ----------------------------
(***************************************************************************)
(* Facts about natural numbers, division, recursion over an interval and   *)
(* powers of two, and about how many members of an interval a set holds,   *)
(* that the proofs of several components rest on.                          *)
(***************************************************************************)
EXTENDS Powers, FiniteSets, FiniteSetTheorems, FunctionTheorems, TLAPS

\* A set of naturals with a member has a smallest one.
LEMMA NatMin ==
    ASSUME NEW S, S \subseteq Nat, S # {}
    PROVE  \E m \in S : \A s \in S : m <= s
<1> DEFINE Prefixes == {1 .. k : k \in S}
<1>1. Prefixes # {}
    OBVIOUS
<1>2. Prefixes \subseteq FiniteSubsetsOf(Nat)
    <2>1. SUFFICES ASSUME NEW k \in S PROVE 1 .. k \in FiniteSubsetsOf(Nat)
        OBVIOUS
    <2>2. IsFiniteSet(1 .. k) /\ 1 .. k \subseteq Nat
        BY FS_Interval
    <2>3. QED  BY <2>2 DEF FiniteSubsetsOf
<1>3. PICK T \in Prefixes : \A U \in Prefixes : ~ (<<U, T>> \in StrictSubsetOrdering(Nat))
    <2> HIDE DEF Prefixes
    <2>1. IsWellFoundedOn(StrictSubsetOrdering(Nat), FiniteSubsetsOf(Nat))
        BY FS_StrictSubsetOrderingWellFounded
    <2>2. QED  BY <1>1, <1>2, <2>1, WFMin
<1>4. PICK m \in S : T = 1 .. m
    OBVIOUS
<1>5. ASSUME NEW s \in S, s < m PROVE FALSE
    <2>1. s \in Nat /\ m \in Nat
        OBVIOUS
    <2>2. 1 .. s \in SUBSET Nat /\ 1 .. m \in SUBSET Nat
        BY <2>1
    <2>3. 1 .. s \subseteq 1 .. m /\ m \in 1 .. m /\ m \notin 1 .. s
        BY <1>5, <2>1
    <2>4. <<1 .. s, 1 .. m>> \in StrictSubsetOrdering(Nat)
        BY <2>2, <2>3 DEF StrictSubsetOrdering
    <2>5. QED  BY <1>3, <1>4, <2>4
<1>6. QED  BY <1>4, <1>5

\* Induction, over the set of numbers that have the property.
LEMMA NatSetInduction ==
    ASSUME NEW S, 0 \in S, \A k \in Nat : k \in S => k + 1 \in S
    PROVE  Nat \subseteq S
<1> SUFFICES ASSUME Nat \ S # {} PROVE FALSE
    OBVIOUS
<1>1. PICK m \in Nat \ S : \A s \in Nat \ S : m <= s
    BY NatMin
<1>2. m # 0 /\ m - 1 \in Nat /\ m - 1 \in S
    BY <1>1
<1>3. QED  BY <1>2

-----------------------------------------------------------------------------
(* Division                                                                *)

LEMMA DivUnique ==
    ASSUME NEW q \in Int, NEW w \in Nat \ {0}, NEW t \in 0 .. w - 1
    PROVE  (w * q + t) \div w = q /\ (w * q + t) % w = t
BY SMTT(30)

LEMMA DivMod ==
    ASSUME NEW a \in Int, NEW w \in Nat \ {0}
    PROVE  /\ a \div w \in Int /\ a % w \in 0 .. w - 1
           /\ a = w * (a \div w) + (a % w)
BY SMTT(30)

\* Products with a positive factor keep the order.
LEMMA TimesOrder ==
    ASSUME NEW a \in Int, NEW c \in Int, NEW w \in Nat \ {0}
    PROVE  /\ a <= c => a * w <= c * w
           /\ a * w < c * w => a < c
           /\ a < c => a * w + w <= c * w
BY SMTT(30)

-----------------------------------------------------------------------------
(* Recursion over an interval.                                             *)

\* f recurs upwards from 0, g downwards from n1.
UpFrom0(f, n1, e, step) ==
  f = [k \in 0 .. n1 |-> IF k = 0 THEN e ELSE step[k][f[k - 1]]]
DownFrom(g, n1, e, step) ==
  g = [d \in 1 .. n1 |-> IF d = n1 THEN e ELSE step[d][g[d + 1]]]

LEMMA UpExists ==
    ASSUME NEW n1 \in Nat, NEW S, NEW e \in S, NEW step \in [1 .. n1 -> [S -> S]]
    PROVE  \E f \in [0 .. n1 -> S] : UpFrom0(f, n1, e, step)
<1> DEFINE Good(f, m) == f = [k \in 0 .. m |-> IF k = 0 THEN e ELSE step[k][f[k - 1]]]
           T == {m \in Nat : m <= n1 => \E f \in [0 .. m -> S] : Good(f, m)}
<1>1. 0 \in T
    <2> DEFINE f == [k \in 0 .. 0 |-> e]
    <2>1. f \in [0 .. 0 -> S] /\ Good(f, 0)
        OBVIOUS
    <2> HIDE DEF f
    <2>2. QED  BY <2>1
<1>2. ASSUME NEW m \in Nat, m \in T PROVE m + 1 \in T
    <2>1. SUFFICES ASSUME m + 1 <= n1 PROVE \E f \in [0 .. m + 1 -> S] : Good(f, m + 1)
        OBVIOUS
    <2>2. PICK g \in [0 .. m -> S] : Good(g, m)
        BY <1>2, <2>1
    <2> DEFINE f == [k \in 0 .. m + 1 |-> IF k <= m THEN g[k] ELSE step[m + 1][g[m]]]
    <2>3. m \in 0 .. m /\ m + 1 \in 1 .. n1 /\ step[m + 1][g[m]] \in S
        BY <2>1
    <2>4. f \in [0 .. m + 1 -> S]
        BY <2>3
    <2>5. ASSUME NEW k \in 0 .. m + 1
          PROVE  f[k] = IF k = 0 THEN e ELSE step[k][f[k - 1]]
        <3>1. CASE k <= m
            <4>1. k \in 0 .. m /\ f[k] = g[k] /\ (k # 0 => f[k - 1] = g[k - 1])
                BY <3>1
            <4>2. g[k] = IF k = 0 THEN e ELSE step[k][g[k - 1]]
                BY <2>2, <4>1
            <4>3. QED  BY <4>1, <4>2
        <3>2. CASE k = m + 1
            <4>1. f[k] = step[m + 1][g[m]] /\ f[k - 1] = g[m] /\ k # 0
                BY <3>2
            <4>2. QED  BY <3>2, <4>1
        <3>3. QED  BY <3>1, <3>2
    <2>6. DOMAIN f = 0 .. m + 1
        OBVIOUS
    <2> HIDE DEF f
    <2>7. f = [k \in 0 .. m + 1 |-> f[k]]
        BY <2>4
    <2>8. Good(f, m + 1)
        BY <2>5, <2>7
    <2>9. QED  BY <2>4, <2>8
<1>3. Nat \subseteq T
    <2> HIDE DEF T
    <2>1. QED  BY <1>1, <1>2, NatSetInduction
<1>4. QED  BY <1>3 DEF UpFrom0

LEMMA DownExists ==
    ASSUME NEW n1 \in Nat \ {0}, NEW S, NEW e \in S, NEW step \in [1 .. n1 -> [S -> S]]
    PROVE  \E f \in [1 .. n1 -> S] : DownFrom(f, n1, e, step)
<1> DEFINE up == [k \in 1 .. n1 |-> IF k = n1 THEN [v \in S |-> v] ELSE step[n1 - k]]
<1>1. up \in [1 .. n1 -> [S -> S]]
    OBVIOUS
<1> HIDE DEF up
<1>2. PICK g \in [0 .. n1 -> S] : UpFrom0(g, n1, e, up)
    <2>1. n1 \in Nat
        OBVIOUS
    <2>2. QED  BY <1>1, <2>1, UpExists
<1> DEFINE f == [d \in 1 .. n1 |-> g[n1 - d]]
<1>3. f \in [1 .. n1 -> S]
    OBVIOUS
<1>4. ASSUME NEW d \in 1 .. n1
      PROVE  f[d] = IF d = n1 THEN e ELSE step[d][f[d + 1]]
    <2>1. CASE d = n1
        <3>1. f[d] = g[0] /\ 0 \in 0 .. n1
            BY <2>1
        <3>2. QED  BY <1>2, <2>1, <3>1 DEF UpFrom0
    <2>2. CASE d # n1
        <3>1. n1 - d \in 1 .. n1 - 1 /\ n1 - (n1 - d) = d /\ n1 - (d + 1) = n1 - d - 1
              /\ d + 1 \in 1 .. n1
            BY <2>2
        <3>2. f[d] = g[n1 - d] /\ f[d + 1] = g[n1 - d - 1]
            BY <3>1
        <3>3. g[n1 - d] = up[n1 - d][g[n1 - d - 1]]
            <4>1. n1 - d \in 0 .. n1 /\ n1 - d # 0
                BY <3>1
            <4>2. QED  BY <1>2, <4>1 DEF UpFrom0
        <3>4. up[n1 - d] = step[d]
            BY <3>1 DEF up
        <3>5. QED  BY <2>2, <3>2, <3>3, <3>4
    <2>3. QED  BY <2>1, <2>2
<1> HIDE DEF f
<1>5. f = [d \in 1 .. n1 |-> f[d]]
    BY <1>3
<1>6. QED  BY <1>3, <1>4, <1>5 DEF DownFrom

\* Induction over an interval, from either end.
LEMMA UpInduction ==
    ASSUME NEW m \in Nat, NEW T, 0 \in T, \A k \in 1 .. m : k - 1 \in T => k \in T
    PROVE  0 .. m \subseteq T
<1> DEFINE U == {k \in Nat : k <= m => k \in T}
<1>1. 0 \in U
    OBVIOUS
<1>2. ASSUME NEW k \in Nat, k \in U PROVE k + 1 \in U
    <2>1. SUFFICES ASSUME k + 1 <= m PROVE k + 1 \in T
        OBVIOUS
    <2>2. k + 1 \in 1 .. m /\ (k + 1) - 1 = k /\ k \in T
        BY <1>2, <2>1
    <2>3. QED  BY <2>2
<1>3. Nat \subseteq U
    <2> HIDE DEF U
    <2>1. QED  BY <1>1, <1>2, NatSetInduction
<1>4. QED  BY <1>3

LEMMA DownInduction ==
    ASSUME NEW m \in Nat \ {0}, NEW T, m \in T,
           \A d \in 1 .. m - 1 : d + 1 \in T => d \in T
    PROVE  1 .. m \subseteq T
<1> DEFINE U == {k \in 0 .. m - 1 : m - k \in T}
<1>1. 0 \in U
    OBVIOUS
<1>2. ASSUME NEW k \in 1 .. m - 1, k - 1 \in U PROVE k \in U
    <2>1. m - k \in 1 .. m - 1 /\ (m - k) + 1 = m - (k - 1)
        OBVIOUS
    <2>2. m - k \in T
        BY <1>2, <2>1
    <2>3. QED  BY <2>2
<1>3. m - 1 \in Nat
    OBVIOUS
<1>4. 0 .. m - 1 \subseteq U
    <2> HIDE DEF U
    <2>1. QED  BY <1>1, <1>2, <1>3, UpInduction
<1>5. ASSUME NEW d \in 1 .. m PROVE d \in T
    <2>1. m - d \in 0 .. m - 1 /\ m - (m - d) = d
        OBVIOUS
    <2>2. QED  BY <1>4, <2>1
<1>6. QED  BY <1>5

-----------------------------------------------------------------------------
(* Powers of two                                                           *)

LEMMA Pow2Table ==
    ASSUME NEW k \in Nat
    PROVE  \E p \in [0 .. k -> Nat \ {0}] :
             p[0] = 1 /\ Pow2(k) = p[k] /\ \A j \in 1 .. k : p[j] = 2 * p[j - 1]
<1> DEFINE D(p) == p = [j \in 0 .. k |-> IF j = 0 THEN 1 ELSE 2 * p[j - 1]]
           twice == [j \in 1 .. k |-> [v \in Nat |-> 2 * v]]
<1>1. \E p : D(p)
    <2>1. twice \in [1 .. k -> [Nat -> Nat]]
        OBVIOUS
    <2> HIDE DEF twice
    <2>2. PICK p \in [0 .. k -> Nat] : UpFrom0(p, k, 1, twice)
        BY <2>1, UpExists
    <2>3. ASSUME NEW j \in 0 .. k PROVE p[j] = IF j = 0 THEN 1 ELSE 2 * p[j - 1]
        <3>1. CASE j = 0
            BY <2>2, <3>1 DEF UpFrom0
        <3>2. CASE j # 0
            <4>1. j \in 1 .. k /\ j - 1 \in 0 .. k
                BY <3>2
            <4>2. p[j] = twice[j][p[j - 1]]
                BY <2>2, <3>2 DEF UpFrom0
            <4>3. QED  BY <3>2, <4>1, <4>2 DEF twice
        <3>3. QED  BY <3>1, <3>2
    <2>4. p = [j \in 0 .. k |-> p[j]]
        OBVIOUS
    <2>5. D(p)
        BY <2>3, <2>4
    <2>6. QED  BY <2>5
<1> DEFINE q == CHOOSE p : D(p)
<1>2. D(q)
    BY <1>1
<1>3. Pow2(k) = q[k]
    BY DEF Pow2
<1> HIDE DEF q
<1>4. \A j \in 0 .. k : q[j] = IF j = 0 THEN 1 ELSE 2 * q[j - 1]
    BY <1>2
<1>5. 0 .. k \subseteq {j \in 0 .. k : q[j] \in Nat \ {0}}
    <2>1. ASSUME NEW j \in 1 .. k, q[j - 1] \in Nat \ {0} PROVE q[j] \in Nat \ {0}
        BY <1>4, <2>1
    <2> DEFINE T == {j \in 0 .. k : q[j] \in Nat \ {0}}
    <2>2. 0 \in T /\ \A j \in 1 .. k : j - 1 \in T => j \in T
        BY <1>4, <2>1
    <2> HIDE DEF T
    <2>3. 0 .. k \subseteq T
        BY <2>2, UpInduction
    <2>4. QED  BY <2>3 DEF T
<1>6. q \in [0 .. k -> Nat \ {0}]
    BY <1>2, <1>5
<1>7. QED  BY <1>3, <1>4, <1>6

LEMMA Pow2Step ==
    ASSUME NEW k \in Nat
    PROVE  Pow2(k) \in Nat \ {0} /\ Pow2(0) = 1 /\ Pow2(k + 1) = 2 * Pow2(k)
<1>1. Pow2(0) = 1
    BY Pow2Table
<1>2. PICK p \in [0 .. k -> Nat \ {0}] :
         p[0] = 1 /\ Pow2(k) = p[k] /\ \A j \in 1 .. k : p[j] = 2 * p[j - 1]
    BY Pow2Table
<1>3. k + 1 \in Nat
    OBVIOUS
<1>4. PICK q \in [0 .. k + 1 -> Nat \ {0}] :
         q[0] = 1 /\ Pow2(k + 1) = q[k + 1] /\ \A j \in 1 .. k + 1 : q[j] = 2 * q[j - 1]
    BY <1>3, Pow2Table
<1> DEFINE T == {j \in 0 .. k : p[j] = q[j]}
<1>5. 0 \in T /\ \A j \in 1 .. k : j - 1 \in T => j \in T
    BY <1>2, <1>4
<1>6. 0 .. k \subseteq T
    <2> HIDE DEF T
    <2>1. QED  BY <1>5, UpInduction
<1>7. p[k] = q[k] /\ q[k + 1] = 2 * q[k]
    BY <1>4, <1>6
<1>8. QED  BY <1>1, <1>2, <1>4, <1>7

LEMMA Pow2Add ==
    ASSUME NEW j \in Nat, NEW k \in Nat
    PROVE  Pow2(j + k) = Pow2(j) * Pow2(k)
<1> DEFINE T == {m \in 0 .. k : Pow2(j + m) = Pow2(j) * Pow2(m)}
<1>1. 0 \in T
    BY Pow2Step
<1>2. ASSUME NEW m \in 1 .. k, m - 1 \in T PROVE m \in T
    <2>1. m - 1 \in Nat /\ j + (m - 1) \in Nat /\ (m - 1) + 1 = m /\ (j + (m - 1)) + 1 = j + m
        OBVIOUS
    <2>2. /\ Pow2(m) = 2 * Pow2(m - 1) /\ Pow2(j + m) = 2 * Pow2(j + (m - 1))
          /\ Pow2(m - 1) \in Nat /\ Pow2(j) \in Nat
        BY <2>1, Pow2Step
    <2>3. Pow2(j + (m - 1)) = Pow2(j) * Pow2(m - 1)
        BY <1>2
    <2>4. QED  BY <2>2, <2>3
<1>3. 0 .. k \subseteq T
    <2> HIDE DEF T
    <2>1. QED  BY <1>1, <1>2, UpInduction
<1>4. QED  BY <1>3

LEMMA Pow2Grows ==
    ASSUME NEW j \in Nat, NEW k \in Nat, j <= k
    PROVE  Pow2(j) <= Pow2(k)
<1>1. k - j \in Nat /\ j + (k - j) = k
    OBVIOUS
<1>2. Pow2(k) = Pow2(j) * Pow2(k - j) /\ Pow2(j) \in Nat \ {0} /\ Pow2(k - j) \in Nat \ {0}
    BY <1>1, Pow2Add, Pow2Step
<1>3. QED  BY <1>2

-----------------------------------------------------------------------------
(* The length of a number in binary                                        *)

\* j has l binary digits.
Digits2(j, l) == l \in Nat \ {0} /\ Pow2(l - 1) <= j /\ j < Pow2(l)

LEMMA Digits2Unique ==
    ASSUME NEW j \in Nat, NEW l, NEW k, Digits2(j, l), Digits2(j, k)
    PROVE  l = k
<1>1. ASSUME NEW u \in Nat \ {0}, NEW v \in Nat \ {0}, u < v, j < Pow2(u), Pow2(v - 1) <= j
      PROVE  FALSE
    <2>1. u \in Nat /\ v - 1 \in Nat /\ u <= v - 1
        BY <1>1
    <2>2. Pow2(u) <= Pow2(v - 1) /\ Pow2(u) \in Nat /\ Pow2(v - 1) \in Nat
        BY <2>1, Pow2Grows, Pow2Step
    <2>3. QED  BY <1>1, <2>2
<1>2. l \in Nat /\ k \in Nat /\ ~ l < k /\ ~ k < l
    BY <1>1 DEF Digits2
<1>3. QED  BY <1>2

\* One digit more than the half of it.
LEMMA Digits2Step ==
    ASSUME NEW j \in Nat \ {0}
    PROVE  /\ j \div 2 \in 0 .. j - 1
           /\ j \div 2 = 0 => Digits2(j, 1)
           /\ \A l : Digits2(j \div 2, l) => Digits2(j, 1 + l)
<1> DEFINE h == j \div 2
<1>1. h \in Nat /\ h <= j - 1 /\ (j = 2 * h \/ j = 2 * h + 1)
    BY SMTT(30)
<1> HIDE DEF h
<1>2. h = 0 => Digits2(j, 1)
    <2>1. 0 \in Nat /\ 1 - 1 = 0 /\ 0 + 1 = 1
        OBVIOUS
    <2>2. Pow2(0) = 1 /\ Pow2(1) = 2
        BY <2>1, Pow2Step
    <2>3. QED  BY <1>1, <2>1, <2>2 DEF Digits2
<1>3. ASSUME NEW l, Digits2(h, l) PROVE Digits2(j, 1 + l)
    <2>1. l \in Nat /\ l - 1 \in Nat /\ (l - 1) + 1 = l /\ (1 + l) - 1 = l /\ 1 + l = l + 1
        BY <1>3 DEF Digits2
    <2>2. /\ Pow2(l) = 2 * Pow2(l - 1) /\ Pow2(l + 1) = 2 * Pow2(l)
          /\ Pow2(l - 1) \in Nat /\ Pow2(l) \in Nat
        BY <2>1, Pow2Step
    <2>3. Pow2(l - 1) <= h /\ h < Pow2(l)
        BY <1>3 DEF Digits2
    <2>4. Pow2(l) <= j /\ j < Pow2(l + 1)
        BY <1>1, <2>2, <2>3
    <2>5. QED  BY <2>1, <2>4 DEF Digits2
<1>4. QED  BY <1>1, <1>2, <1>3 DEF h

LEMMA Digits2Exist ==
    ASSUME NEW k \in Nat
    PROVE  \A j \in 1 .. k : \E l : Digits2(j, l)
<1> DEFINE T == {m \in 0 .. k : \A j \in 1 .. m : \E l : Digits2(j, l)}
<1>1. 0 \in T
    OBVIOUS
<1>2. ASSUME NEW m \in 1 .. k, m - 1 \in T PROVE m \in T
    <2>1. \A j \in 1 .. m - 1 : \E l : Digits2(j, l)
        BY <1>2
    <2>2. m \in Nat \ {0}
        OBVIOUS
    <2>3. \E l : Digits2(m, l)
        <3>1. CASE m \div 2 = 0
            BY <2>2, <3>1, Digits2Step
        <3>2. CASE m \div 2 # 0
            <4>1. m \div 2 \in 1 .. m - 1
                BY <2>2, <3>2, Digits2Step
            <4>2. PICK l : Digits2(m \div 2, l)
                BY <2>1, <4>1
            <4>3. QED  BY <2>2, <4>2, Digits2Step
        <3>3. QED  BY <3>1, <3>2
    <2>4. \A j \in 1 .. m : j = m \/ j \in 1 .. m - 1
        OBVIOUS
    <2>5. QED  BY <2>1, <2>3, <2>4
<1>3. 0 .. k \subseteq T
    <2> HIDE DEF T
    <2>1. QED  BY <1>1, <1>2, UpInduction
<1>4. QED  BY <1>3

LEMMA BitLengthFacts ==
    ASSUME NEW k \in Nat \ {0}
    PROVE  Digits2(k, BitLength(k))
<1> DEFINE D(f) == f = [j \in 0 .. k |-> IF j = 0 THEN 0 ELSE 1 + f[j \div 2]]
           w == [j \in 0 .. k |-> IF j = 0 THEN 0 ELSE CHOOSE l : Digits2(j, l)]
<1>1. \A j \in 1 .. k : Digits2(j, w[j])
    <2>1. \A j \in 1 .. k : \E l : Digits2(j, l)
        BY Digits2Exist
    <2>2. QED  BY <2>1
<1>2. ASSUME NEW j \in 1 .. k PROVE w[j] = 1 + w[j \div 2]
    <2>1. j \in Nat \ {0} /\ j \in Nat
        OBVIOUS
    <2>2. j \div 2 \in 0 .. k
        BY <2>1, Digits2Step
    <2>3. CASE j \div 2 = 0
        <3>1. Digits2(j, 1) /\ Digits2(j, w[j])
            BY <1>1, <2>1, <2>3, Digits2Step
        <3>2. w[j] = 1
            <4> HIDE DEF w
            <4>1. QED  BY <2>1, <3>1, Digits2Unique
        <3>3. w[0] = 0
            OBVIOUS
        <3> HIDE DEF w
        <3>4. QED  BY <2>3, <3>2, <3>3
    <2>4. CASE j \div 2 # 0
        <3>1. j \div 2 \in 1 .. k
            BY <2>2, <2>4
        <3> HIDE DEF w
        <3>2. Digits2(j, 1 + w[j \div 2]) /\ Digits2(j, w[j])
            BY <1>1, <2>1, <3>1, Digits2Step
        <3>3. QED  BY <2>1, <3>2, Digits2Unique
    <2>5. QED  BY <2>3, <2>4
<1>3. D(w)
    <2>1. ASSUME NEW j \in 0 .. k PROVE w[j] = IF j = 0 THEN 0 ELSE 1 + w[j \div 2]
        <3>1. CASE j = 0
            BY <3>1
        <3>2. CASE j # 0
            <4>1. j \in 1 .. k
                BY <3>2
            <4> HIDE DEF w
            <4>2. QED  BY <1>2, <3>2, <4>1
        <3>3. QED  BY <3>1, <3>2
    <2>2. w = [j \in 0 .. k |-> w[j]]
        OBVIOUS
    <2> HIDE DEF w
    <2>3. [j \in 0 .. k |-> w[j]] = [j \in 0 .. k |-> IF j = 0 THEN 0 ELSE 1 + w[j \div 2]]
        BY <2>1
    <2>4. QED  BY <2>2, <2>3
<1> DEFINE q == CHOOSE f : D(f)
<1>4. D(q)
    <2> HIDE DEF w
    <2>1. QED  BY <1>3
<1>5. BitLength(k) = q[k]
    BY DEF BitLength
<1> HIDE DEF q
<1>6. \A j \in 0 .. k : q[j] = IF j = 0 THEN 0 ELSE 1 + q[j \div 2]
    BY <1>4
<1> DEFINE T == {m \in 0 .. k : \A j \in 1 .. m : Digits2(j, q[j])}
<1>7. 0 \in T
    OBVIOUS
<1>8. ASSUME NEW m \in 1 .. k, m - 1 \in T PROVE m \in T
    <2>1. m \in Nat \ {0} /\ m \in 0 .. k /\ \A j \in 1 .. m - 1 : Digits2(j, q[j])
        BY <1>8
    <2>2. q[m] = 1 + q[m \div 2]
        BY <1>6, <2>1
    <2>3. m \div 2 \in 0 .. k
        BY <2>1, Digits2Step
    <2>4. Digits2(m, q[m])
        <3>1. CASE m \div 2 = 0
            <4>1. q[m \div 2] = 0
                BY <1>6, <2>3, <3>1
            <4>2. q[m] = 1
                BY <2>2, <4>1
            <4>3. QED  BY <2>1, <3>1, <4>2, Digits2Step
        <3>2. CASE m \div 2 # 0
            <4>1. m \div 2 \in 1 .. m - 1
                BY <2>1, <3>2, Digits2Step
            <4>2. Digits2(m \div 2, q[m \div 2])
                BY <2>1, <4>1
            <4>3. QED  BY <2>1, <2>2, <4>2, Digits2Step
        <3>3. QED  BY <3>1, <3>2
    <2>5. \A j \in 1 .. m : j = m \/ j \in 1 .. m - 1
        OBVIOUS
    <2>6. QED  BY <2>1, <2>4, <2>5
<1>9. 0 .. k \subseteq T
    <2> HIDE DEF T
    <2>1. QED  BY <1>7, <1>8, UpInduction
<1>10. QED  BY <1>5, <1>9

-----------------------------------------------------------------------------
(* A counting sort.  f[k] is the key of point k, for k in 0 .. m - 1.      *)

\* The points before k with key b, those with a smaller key than b, and the
\* slot that a stable sort gives to point k.
NEqual(f, b, k) == Cardinality({t \in 0 .. k - 1 : f[t] = b})
NBelow(f, m, b) == Cardinality({t \in 0 .. m - 1 : f[t] < b})
SlotOf(f, m, k) == NBelow(f, m, f[k]) + NEqual(f, f[k], k)

LEMMA IntervalParts ==
    ASSUME NEW m \in Nat, NEW S \in SUBSET (0 .. m - 1)
    PROVE  IsFiniteSet(S) /\ Cardinality(S) \in Nat /\ Cardinality(S) <= m
<1>1. IsFiniteSet(0 .. m - 1) /\ Cardinality(0 .. m - 1) = m
    BY FS_Interval
<1>2. QED  BY <1>1, FS_Subset, FS_CardinalityType

\* One point more.
LEMMA NEqualStep ==
    ASSUME NEW f, NEW b, NEW k \in Nat
    PROVE  /\ NEqual(f, b, k) \in 0 .. k /\ NEqual(f, b, 0) = 0
           /\ NEqual(f, b, k + 1) = NEqual(f, b, k) + IF f[k] = b THEN 1 ELSE 0
<1> DEFINE Before == {t \in 0 .. k - 1 : f[t] = b}
           After == {t \in 0 .. k : f[t] = b}
<1>1. IsFiniteSet(Before) /\ Cardinality(Before) \in 0 .. k
    BY IntervalParts
<1>2. {t \in 0 .. 0 - 1 : f[t] = b} = {}
    OBVIOUS
<1>3. k \notin Before /\ 0 .. k = (0 .. k - 1) \cup {k} /\ 0 .. (k + 1) - 1 = 0 .. k
    OBVIOUS
<1>4. Cardinality(After) = Cardinality(Before) + IF f[k] = b THEN 1 ELSE 0
    <2>1. CASE f[k] = b
        <3>1. After = Before \cup {k}
            BY <1>3, <2>1
        <3>2. QED  BY <3>1, <2>1, <1>1, <1>3, FS_AddElement
    <2>2. CASE f[k] # b
        <3>1. After = Before
            BY <1>3, <2>2
        <3>2. QED  BY <3>1, <2>2, <1>1
    <2>3. QED  BY <2>1, <2>2
<1>5. QED  BY <1>1, <1>2, <1>3, <1>4, FS_EmptySet DEF NEqual

\* Later points count at least as many, and more if one between has the key.
LEMMA NEqualGrows ==
    ASSUME NEW f, NEW b, NEW k \in Nat, NEW m \in Nat, k <= m
    PROVE  /\ NEqual(f, b, k) <= NEqual(f, b, m)
           /\ k < m /\ f[k] = b => NEqual(f, b, k) < NEqual(f, b, m)
<1> DEFINE Early == {t \in 0 .. k - 1 : f[t] = b}
           Late == {t \in 0 .. m - 1 : f[t] = b}
<1>1. IsFiniteSet(Late) /\ Early \in SUBSET Late
    <2>1. Late \in SUBSET (0 .. m - 1) /\ Early \in SUBSET Late
        OBVIOUS
    <2> HIDE DEF Late
    <2>2. QED  BY <2>1, IntervalParts
<1>2. Cardinality(Early) <= Cardinality(Late) /\ (Cardinality(Late) = Cardinality(Early) => Late = Early)
    BY <1>1, FS_Subset
<1>3. Cardinality(Early) \in Nat /\ Cardinality(Late) \in Nat
    BY IntervalParts
<1>4. k < m /\ f[k] = b => k \in Late /\ k \notin Early
    OBVIOUS
<1>5. QED  BY <1>2, <1>3, <1>4 DEF NEqual

\* The count of the smaller keys, for any array of keys.
LEMMA NBelowType ==
    ASSUME NEW m \in Nat, NEW f, NEW b
    PROVE  NBelow(f, m, b) \in 0 .. m
<1> DEFINE Lower == {t \in 0 .. m - 1 : f[t] < b}
<1>1. Lower \in SUBSET (0 .. m - 1)
    OBVIOUS
<1>2. IsFiniteSet(Lower) /\ Cardinality(Lower) \in Nat /\ Cardinality(Lower) <= m
    <2> HIDE DEF Lower
    <2>1. QED  BY <1>1, IntervalParts
<1>3. QED  BY <1>2 DEF NBelow

\* The points of one key follow those of the smaller ones.
LEMMA NBelowStep ==
    ASSUME NEW m \in Nat, NEW f \in [0 .. m - 1 -> Int], NEW b \in Int
    PROVE  /\ NBelow(f, m, b) \in 0 .. m
           /\ NBelow(f, m, b + 1) = NBelow(f, m, b) + NEqual(f, b, m)
<1> DEFINE Lower == {t \in 0 .. m - 1 : f[t] < b}
           Upper == {t \in 0 .. m - 1 : f[t] < b + 1}
           Same == {t \in 0 .. m - 1 : f[t] = b}
<1>1. /\ IsFiniteSet(Lower) /\ IsFiniteSet(Same) /\ Cardinality(Lower) \in 0 .. m
      /\ Cardinality(Same) \in Nat
    BY IntervalParts
<1>2. Upper = Lower \cup Same /\ Lower \cap Same = {}
    OBVIOUS
<1>3. Cardinality(Upper) = Cardinality(Lower) + Cardinality(Same)
    <2> HIDE DEF Lower, Upper, Same
    <2>1. Cardinality(Lower \cap Same) = 0
        BY <1>2, FS_EmptySet
    <2>2. Cardinality(Lower \cup Same) = Cardinality(Lower) + Cardinality(Same) - Cardinality(Lower \cap Same)
        BY <1>1, FS_Union
    <2>3. QED  BY <1>1, <1>2, <2>1, <2>2
<1>4. QED  BY <1>1, <1>3 DEF NBelow, NEqual

LEMMA NBelowEnds ==
    ASSUME NEW m \in Nat, NEW b \in Nat, NEW f \in [0 .. m - 1 -> 0 .. b]
    PROVE  NBelow(f, m, 0) = 0 /\ NBelow(f, m, b + 1) = m
<1>1. {t \in 0 .. m - 1 : f[t] < 0} = {} /\ {t \in 0 .. m - 1 : f[t] < b + 1} = 0 .. m - 1
    OBVIOUS
<1>2. Cardinality(0 .. m - 1) = m
    BY FS_Interval
<1>3. QED  BY <1>1, <1>2, FS_EmptySet DEF NBelow

LEMMA NBelowGrows ==
    ASSUME NEW m \in Nat, NEW f \in [0 .. m - 1 -> Int], NEW b \in Int, NEW c \in Int, b <= c
    PROVE  NBelow(f, m, b) <= NBelow(f, m, c)
<1>1. {t \in 0 .. m - 1 : f[t] < b} \in SUBSET {t \in 0 .. m - 1 : f[t] < c}
    OBVIOUS
<1>2. IsFiniteSet({t \in 0 .. m - 1 : f[t] < c})
    BY IntervalParts
<1>3. QED  BY <1>1, <1>2, FS_Subset DEF NBelow

\* A slot lies in the slice of its key, and the slices do not overlap.
LEMMA SlotInSlice ==
    ASSUME NEW m \in Nat, NEW f \in [0 .. m - 1 -> Int], NEW k \in 0 .. m - 1
    PROVE  /\ SlotOf(f, m, k) \in 0 .. m - 1
           /\ NBelow(f, m, f[k]) <= SlotOf(f, m, k) /\ SlotOf(f, m, k) < NBelow(f, m, f[k] + 1)
<1>1. NEqual(f, f[k], k) \in Nat /\ NEqual(f, f[k], m) \in Nat /\ NEqual(f, f[k], k) < NEqual(f, f[k], m)
    BY NEqualStep, NEqualGrows
<1>2. /\ NBelow(f, m, f[k]) \in 0 .. m /\ NBelow(f, m, f[k] + 1) \in 0 .. m
      /\ NBelow(f, m, f[k] + 1) = NBelow(f, m, f[k]) + NEqual(f, f[k], m)
    BY NBelowStep
<1>3. QED  BY <1>1, <1>2 DEF SlotOf

LEMMA SliceOfOneKey ==
    ASSUME NEW m \in Nat, NEW f \in [0 .. m - 1 -> Int], NEW k \in 0 .. m - 1, NEW b \in Int,
           NBelow(f, m, b) <= SlotOf(f, m, k), SlotOf(f, m, k) < NBelow(f, m, b + 1)
    PROVE  f[k] = b
<1>1. SlotOf(f, m, k) \in Int /\ NBelow(f, m, b) \in Int /\ NBelow(f, m, b + 1) \in Int
    <2>1. SlotOf(f, m, k) \in Int
        BY SlotInSlice
    <2>2. NBelow(f, m, b) \in Int /\ NBelow(f, m, b + 1) \in Int
        BY NBelowType
    <2>3. QED  BY <2>1, <2>2
<1>2. CASE f[k] < b
    <2>1. NBelow(f, m, f[k] + 1) <= NBelow(f, m, b)
        BY <1>2, NBelowGrows
    <2>2. NBelow(f, m, f[k] + 1) \in Int
        BY NBelowType
    <2>3. NBelow(f, m, f[k]) <= SlotOf(f, m, k) /\ SlotOf(f, m, k) < NBelow(f, m, f[k] + 1)
        BY SlotInSlice
    <2>4. QED  BY <1>1, <2>1, <2>2, <2>3
<1>3. CASE b < f[k]
    <2>1. NBelow(f, m, b + 1) <= NBelow(f, m, f[k])
        BY <1>3, NBelowGrows
    <2>2. NBelow(f, m, f[k]) \in Int
        BY NBelowType
    <2>3. NBelow(f, m, f[k]) <= SlotOf(f, m, k) /\ SlotOf(f, m, k) < NBelow(f, m, f[k] + 1)
        BY SlotInSlice
    <2>4. QED  BY <1>1, <2>1, <2>2, <2>3
<1>4. QED  BY <1>2, <1>3

\* The order of the slots: by key, and by position for one key.
LEMMA SlotsOrdered ==
    ASSUME NEW m \in Nat, NEW f \in [0 .. m - 1 -> Int],
           NEW k \in 0 .. m - 1, NEW l \in 0 .. m - 1
    PROVE  /\ f[k] < f[l] => SlotOf(f, m, k) < SlotOf(f, m, l)
           /\ f[k] = f[l] /\ k < l => SlotOf(f, m, k) < SlotOf(f, m, l)
<1>1. SlotOf(f, m, k) \in Int /\ SlotOf(f, m, l) \in Int
    BY SlotInSlice
<1>2. ASSUME f[k] < f[l] PROVE SlotOf(f, m, k) < SlotOf(f, m, l)
    <2>1. NBelow(f, m, f[k] + 1) <= NBelow(f, m, f[l])
        BY <1>2, NBelowGrows
    <2>2. NBelow(f, m, f[k] + 1) \in Int /\ NBelow(f, m, f[l]) \in Int
        BY NBelowType
    <2>3. SlotOf(f, m, k) < NBelow(f, m, f[k] + 1) /\ NBelow(f, m, f[l]) <= SlotOf(f, m, l)
        BY SlotInSlice
    <2>4. QED  BY <1>1, <2>1, <2>2, <2>3
<1>3. ASSUME f[k] = f[l], k < l PROVE SlotOf(f, m, k) < SlotOf(f, m, l)
    <2>1. NEqual(f, f[k], k) < NEqual(f, f[k], l)
        BY <1>3, NEqualGrows
    <2>2. NEqual(f, f[k], k) \in Int /\ NEqual(f, f[k], l) \in Int /\ NBelow(f, m, f[k]) \in Int
        BY NEqualStep, NBelowType
    <2>3. QED  BY <1>3, <2>1, <2>2 DEF SlotOf
<1>4. QED  BY <1>2, <1>3

\* No two points share a slot, and no slot is left empty.
LEMMA SlotsPermute ==
    ASSUME NEW m \in Nat, NEW f \in [0 .. m - 1 -> Int]
    PROVE  /\ \A k, l \in 0 .. m - 1 : SlotOf(f, m, k) = SlotOf(f, m, l) => k = l
           /\ \A p \in 0 .. m - 1 : \E k \in 0 .. m - 1 : SlotOf(f, m, k) = p
<1> DEFINE T == 0 .. m - 1
           g == [k \in T |-> SlotOf(f, m, k)]
<1>1. g \in [T -> T]
    BY SlotInSlice
<1>2. ASSUME NEW k \in T, NEW l \in T, SlotOf(f, m, k) = SlotOf(f, m, l) PROVE k = l
    <2>1. SlotOf(f, m, k) \in Int /\ k \in Int /\ l \in Int /\ f[k] \in Int /\ f[l] \in Int
        BY SlotInSlice
    <2>2. ~(f[k] < f[l]) /\ ~(f[l] < f[k])
        <3>1. /\ f[k] < f[l] => SlotOf(f, m, k) < SlotOf(f, m, l)
              /\ f[l] < f[k] => SlotOf(f, m, l) < SlotOf(f, m, k)
            BY SlotsOrdered
        <3>2. QED  BY <1>2, <2>1, <3>1
    <2>3. f[k] = f[l]
        BY <2>1, <2>2
    <2>4. ~(k < l) /\ ~(l < k)
        <3>1. /\ k < l => SlotOf(f, m, k) < SlotOf(f, m, l)
              /\ l < k => SlotOf(f, m, l) < SlotOf(f, m, k)
            BY <2>3, SlotsOrdered
        <3>2. QED  BY <1>2, <2>1, <3>1
    <2>5. QED  BY <2>1, <2>4
<1>3. g \in Injection(T, T)
    <2>1. \A k, l \in T : g[k] = g[l] => k = l
        BY <1>2
    <2> HIDE DEF g
    <2>2. QED  BY <1>1, <2>1, Fun_IsInj
<1>4. IsFiniteSet(T)
    BY FS_Interval
<1>5. g \in Surjection(T, T)
    <2> HIDE DEF g, T
    <2>1. QED  BY <1>3, <1>4, FS_Injection
<1>6. \A p \in T : \E k \in T : g[k] = p
    <2> HIDE DEF g, T
    <2>1. QED  BY <1>5, Fun_SurjectionProperties
<1>7. QED  BY <1>2, <1>6

\* m points with keys 0 .. c, sorted: slices that follow one another, in each
\* the slots of the points of one key, and every slot taken once.
StablySorted(f, m, c) ==
  /\ NBelow(f, m, 0) = 0 /\ NBelow(f, m, c + 1) = m
  /\ \A b \in Int : /\ NBelow(f, m, b) \in 0 .. m
                    /\ NBelow(f, m, b + 1) = NBelow(f, m, b) + NEqual(f, b, m)
  /\ \A b \in Int, k \in Nat :
       /\ NEqual(f, b, k) \in 0 .. k /\ NEqual(f, b, 0) = 0
       /\ NEqual(f, b, k + 1) = NEqual(f, b, k) + IF f[k] = b THEN 1 ELSE 0
  /\ \A b \in Int, k \in 0 .. m : NEqual(f, b, k) <= NEqual(f, b, m)
  /\ \A k \in 0 .. m - 1 :
       /\ SlotOf(f, m, k) \in 0 .. m - 1
       /\ SlotOf(f, m, k) = NBelow(f, m, f[k]) + NEqual(f, f[k], k)
  /\ \A k \in 0 .. m - 1, b \in Int :
       SlotOf(f, m, k) \in NBelow(f, m, b) .. NBelow(f, m, b + 1) - 1 <=> f[k] = b
  /\ \A k, l \in 0 .. m - 1 : SlotOf(f, m, k) = SlotOf(f, m, l) => k = l
  /\ \A k, l \in 0 .. m - 1 : k < l /\ f[k] = f[l] => SlotOf(f, m, k) < SlotOf(f, m, l)
  /\ \A k, l \in 0 .. m - 1 : f[k] < f[l] => SlotOf(f, m, k) < SlotOf(f, m, l)
  /\ \A p \in 0 .. m - 1 : \E k \in 0 .. m - 1 : SlotOf(f, m, k) = p

LEMMA StableSort ==
    ASSUME NEW m \in Nat, NEW c \in Nat, NEW f \in [0 .. m - 1 -> 0 .. c]
    PROVE  StablySorted(f, m, c)
<1>1. f \in [0 .. m - 1 -> Int]
    OBVIOUS
<1>2. NBelow(f, m, 0) = 0 /\ NBelow(f, m, c + 1) = m
    BY NBelowEnds
<1>3. \A b \in Int : NBelow(f, m, b) \in 0 .. m /\ NBelow(f, m, b + 1) = NBelow(f, m, b) + NEqual(f, b, m)
    BY <1>1, NBelowStep
<1>4. \A b \in Int, k \in Nat :
         /\ NEqual(f, b, k) \in 0 .. k /\ NEqual(f, b, 0) = 0
         /\ NEqual(f, b, k + 1) = NEqual(f, b, k) + IF f[k] = b THEN 1 ELSE 0
    <2>1. SUFFICES ASSUME NEW b \in Int, NEW k \in Nat
                   PROVE  /\ NEqual(f, b, k) \in 0 .. k /\ NEqual(f, b, 0) = 0
                          /\ NEqual(f, b, k + 1) = NEqual(f, b, k) + IF f[k] = b THEN 1 ELSE 0
        OBVIOUS
    <2>2. QED  BY NEqualStep, Zenon
<1>5. \A b \in Int, k \in 0 .. m : NEqual(f, b, k) <= NEqual(f, b, m)
    BY <1>1, NEqualGrows
<1>6. \A k \in 0 .. m - 1 :
         /\ SlotOf(f, m, k) \in 0 .. m - 1
         /\ NBelow(f, m, f[k]) <= SlotOf(f, m, k) /\ SlotOf(f, m, k) < NBelow(f, m, f[k] + 1)
    BY <1>1, SlotInSlice
<1>7. \A k \in 0 .. m - 1, b \in Int :
         SlotOf(f, m, k) \in NBelow(f, m, b) .. NBelow(f, m, b + 1) - 1 <=> f[k] = b
    <2>1. SUFFICES ASSUME NEW k \in 0 .. m - 1, NEW b \in Int
                   PROVE  SlotOf(f, m, k) \in NBelow(f, m, b) .. NBelow(f, m, b + 1) - 1 <=> f[k] = b
        OBVIOUS
    <2>2. /\ NBelow(f, m, b) \in Int /\ NBelow(f, m, b + 1) \in Int /\ SlotOf(f, m, k) \in Int
        BY <1>6, NBelowType
    <2>3. NBelow(f, m, b) <= SlotOf(f, m, k) /\ SlotOf(f, m, k) < NBelow(f, m, b + 1) => f[k] = b
        BY <1>1, SliceOfOneKey
    <2>4. f[k] = b => NBelow(f, m, b) <= SlotOf(f, m, k) /\ SlotOf(f, m, k) < NBelow(f, m, b + 1)
        BY <1>6
    <2>5. QED  BY <2>2, <2>3, <2>4
<1>8. /\ \A k, l \in 0 .. m - 1 : k < l /\ f[k] = f[l] => SlotOf(f, m, k) < SlotOf(f, m, l)
      /\ \A k, l \in 0 .. m - 1 : f[k] < f[l] => SlotOf(f, m, k) < SlotOf(f, m, l)
    BY <1>1, SlotsOrdered
<1>9. /\ \A k, l \in 0 .. m - 1 : SlotOf(f, m, k) = SlotOf(f, m, l) => k = l
      /\ \A p \in 0 .. m - 1 : \E k \in 0 .. m - 1 : SlotOf(f, m, k) = p
    BY <1>1, SlotsPermute
<1>10. \A k : SlotOf(f, m, k) = NBelow(f, m, f[k]) + NEqual(f, f[k], k)
    BY DEF SlotOf
<1>11. QED
    BY <1>2, <1>3, <1>4, <1>5, <1>6, <1>7, <1>8, <1>9, <1>10 DEF StablySorted
=============================================================================
