-------------------------- MODULE FitDomain_proofs --------------------------
(***************************************************************************)
(* What rounding can do to the domain of a fit, for every precision:       *)
(* theorems about FitDomain, and the error analysis they rest on.          *)
(***************************************************************************)
EXTENDS FitDomain, CountingLemmas, SequenceTheorems

-----------------------------------------------------------------------------
(* Scaling by powers of two                                                *)

LEMMA Precision ==
    /\ p \in Nat \ {0} /\ p - 1 \in Nat
    /\ Pow2(p) \in Nat \ {0} /\ Pow2(p - 1) \in Nat \ {0} /\ Pow2(p) = 2 * Pow2(p - 1)
<1>1. p \in Nat \ {0} /\ p - 1 \in Nat /\ (p - 1) + 1 = p
    BY FitDomainConstants
<1>2. QED  BY <1>1, Pow2Step

LEMMA UpFacts ==
    ASSUME NEW s \in Int
    PROVE  /\ Up(s) \in Nat \ {0} /\ Up(-s) \in Nat \ {0}
           /\ s >= 0 => Up(s) = Pow2(s) /\ Up(-s) = 1
           /\ s <= 0 => Up(s) = 1 /\ Up(-s) = Pow2(-s)
<1>1. Pow2(0) = 1
    BY Pow2Step
<1>2. CASE s > 0
    <2>1. s \in Nat /\ Higher(s, 0) = s /\ Higher(-s, 0) = 0
        BY <1>2 DEF Higher
    <2>2. QED  BY <1>1, <1>2, <2>1, Pow2Step DEF Up
<1>3. CASE s <= 0 /\ s >= 0
    <2>1. Higher(s, 0) = 0 /\ Higher(-s, 0) = 0 /\ s = 0 /\ -s = 0
        BY <1>3 DEF Higher
    <2>2. QED  BY <1>1, <2>1 DEF Up
<1>4. CASE s < 0
    <2>1. -s \in Nat /\ Higher(s, 0) = 0 /\ Higher(-s, 0) = -s
        BY <1>4 DEF Higher
    <2>2. QED  BY <1>1, <1>4, <2>1, Pow2Step DEF Up
<1>5. QED  BY <1>2, <1>3, <1>4

LEMMA UpNext ==
    ASSUME NEW s \in Int
    PROVE  IF s >= 0 THEN Up(s + 1) = 2 * Up(s) /\ Up(-(s + 1)) = 1 /\ Up(-s) = 1
           ELSE Up(-s) = 2 * Up(-(s + 1)) /\ Up(s + 1) = 1 /\ Up(s) = 1
<1>1. CASE s >= 0
    <2>1. s \in Nat /\ s + 1 \in Int /\ s + 1 >= 0
        BY <1>1
    <2>2. Up(s) = Pow2(s) /\ Up(-s) = 1
        BY <2>1, UpFacts
    <2>3. Up(s + 1) = Pow2(s + 1) /\ Up(-(s + 1)) = 1
        BY <2>1, UpFacts
    <2>4. QED  BY <1>1, <2>1, <2>2, <2>3, Pow2Step
<1>2. CASE s < 0
    <2>1. s + 1 \in Int /\ s + 1 <= 0 /\ s <= 0 /\ -(s + 1) \in Nat /\ -(s + 1) + 1 = -s
        BY <1>2
    <2>2. Up(s) = 1 /\ Up(-s) = Pow2(-s)
        BY <2>1, UpFacts
    <2>3. Up(s + 1) = 1 /\ Up(-(s + 1)) = Pow2(-(s + 1))
        BY <2>1, UpFacts
    <2>4. Pow2(-s) = 2 * Pow2(-(s + 1))
        BY <2>1, Pow2Step
    <2>5. QED  BY <1>2, <2>2, <2>3, <2>4
<1>3. QED  BY <1>1, <1>2

\* 2^s, in a product of two powers that have no fractions.
LEMMA UpScale ==
    ASSUME NEW e \in Int, NEW s \in Int, NEW g \in Int, g <= e, g <= e + s
    PROVE  Pow2(e + s - g) * Up(-s) = Pow2(e - g) * Up(s)
<1>1. e - g \in Nat /\ e + s - g \in Nat
    OBVIOUS
<1>2. CASE s >= 0
    <2>1. s \in Nat /\ (e - g) + s = e + s - g
        BY <1>2
    <2>2. Pow2(e + s - g) = Pow2(e - g) * Pow2(s)
        BY <1>1, <2>1, Pow2Add
    <2>3. Up(s) = Pow2(s) /\ Up(-s) = 1 /\ Pow2(e + s - g) \in Nat
        BY <1>1, <1>2, UpFacts, Pow2Step
    <2>4. QED  BY <2>2, <2>3
<1>3. CASE s < 0
    <2>1. -s \in Nat /\ (e + s - g) + (-s) = e - g /\ s <= 0
        BY <1>3
    <2>2. Pow2(e - g) = Pow2(e + s - g) * Pow2(-s)
        BY <1>1, <2>1, Pow2Add
    <2>3. Up(s) = 1 /\ Up(-s) = Pow2(-s) /\ Pow2(e - g) \in Nat
        BY <1>1, <2>1, UpFacts, Pow2Step
    <2>4. QED  BY <2>2, <2>3
<1>4. QED  BY <1>2, <1>3

\* The shift leaves a quotient of p bits.
LEMMA ShiftFacts ==
    ASSUME NEW N \in Nat \ {0}, NEW D \in Nat \ {0}
    PROVE  LET s == Shift(N, D)
           IN  /\ s \in Int
               /\ Pow2(p - 1) * (D * Up(s)) <= N * Up(-s)
               /\ N * Up(-s) < Pow2(p) * (D * Up(s))
<1> DEFINE l == BitLength(N)
           k == BitLength(D)
           s == l - k - p
           P == Pow2(p)
           u == Up(-s)
           v == Up(s)
<1>1. Digits2(N, l) /\ Digits2(D, k)
    BY BitLengthFacts
<1>2. l \in Nat \ {0} /\ k \in Nat \ {0} /\ s \in Int /\ p \in Nat
    BY <1>1, Precision DEF Digits2
<1>3. u \in Nat \ {0} /\ v \in Nat \ {0} /\ P \in Nat \ {0}
    BY <1>2, UpFacts, Precision
<1>4. /\ Pow2(l) <= 2 * N /\ N < Pow2(l) /\ Pow2(k) <= 2 * D /\ D < Pow2(k)
      /\ Pow2(l) \in Nat /\ Pow2(k) \in Nat
    <2>1. l - 1 \in Nat /\ k - 1 \in Nat /\ (l - 1) + 1 = l /\ (k - 1) + 1 = k
        BY <1>2
    <2>2. /\ Pow2(l) = 2 * Pow2(l - 1) /\ Pow2(k) = 2 * Pow2(k - 1)
          /\ Pow2(l - 1) \in Nat /\ Pow2(k - 1) \in Nat
        BY <2>1, Pow2Step
    <2>3. QED  BY <1>1, <2>2 DEF Digits2
<1>5. Pow2(l) * u = (Pow2(k) * P) * v
    <2>1. k + p \in Int /\ 0 \in Int /\ 0 <= k + p /\ 0 <= (k + p) + s
          /\ (k + p) + s - 0 = l /\ (k + p) - 0 = k + p /\ k \in Nat
        BY <1>2
    <2>2. Pow2((k + p) + s - 0) * Up(-s) = Pow2((k + p) - 0) * Up(s)
        BY <1>2, <2>1, UpScale
    <2>3. Pow2(k + p) = Pow2(k) * P
        BY <1>2, <2>1, Pow2Add
    <2>4. QED  BY <2>1, <2>2, <2>3
<1> HIDE DEF u, v, P
<1>6. N * u < 2 * (P * (D * v))
    <2>1. N * u < Pow2(l) * u
        BY <1>3, <1>4, TimesOrder
    <2>2. Pow2(k) * (P * v) <= (2 * D) * (P * v)
        <3>1. P * v \in Nat \ {0}
            BY <1>3
        <3>2. QED  BY <1>4, <3>1, TimesOrder
    <2>3. (Pow2(k) * P) * v = Pow2(k) * (P * v) /\ (2 * D) * (P * v) = 2 * (P * (D * v))
        BY <1>3, <1>4
    <2>4. N * u \in Int /\ Pow2(l) * u \in Int /\ P * (D * v) \in Int /\ Pow2(k) * (P * v) \in Int
        BY <1>3, <1>4
    <2>5. QED  BY <1>5, <2>1, <2>2, <2>3, <2>4
<1>7. P * (D * v) < 2 * (N * u)
    <2>1. D * (P * v) < Pow2(k) * (P * v)
        <3>1. P * v \in Nat \ {0}
            BY <1>3
        <3>2. QED  BY <1>4, <3>1, TimesOrder
    <2>2. Pow2(l) * u <= (2 * N) * u
        BY <1>3, <1>4, TimesOrder
    <2>3. (Pow2(k) * P) * v = Pow2(k) * (P * v) /\ D * (P * v) = P * (D * v)
          /\ (2 * N) * u = 2 * (N * u)
        BY <1>3, <1>4
    <2>4. N * u \in Int /\ Pow2(l) * u \in Int /\ P * (D * v) \in Int /\ Pow2(k) * (P * v) \in Int
        BY <1>3, <1>4
    <2>5. QED  BY <1>5, <2>1, <2>2, <2>3, <2>4
<1> DEFINE H == Pow2(p - 1)
<1>8. P = 2 * H /\ H \in Nat \ {0}
    BY Precision DEF P
<1> HIDE DEF H
<1>9. CASE N * u < D * v * P
    <2>1. Shift(N, D) = s
        BY <1>9 DEF Shift, u, v, P
    <2>2. D * v * P = P * (D * v) /\ P * (D * v) = 2 * (H * (D * v))
        BY <1>3, <1>8
    <2>3. H * (D * v) \in Int /\ N * u \in Int
        BY <1>3, <1>8
    <2>4. H * (D * v) <= N * u /\ N * u < P * (D * v)
        BY <1>7, <1>9, <2>2, <2>3
    <2>5. QED  BY <1>2, <2>1, <2>4 DEF u, v, P, H
<1>10. CASE ~ (N * u < D * v * P)
    <2>1. Shift(N, D) = s + 1
        BY <1>10 DEF Shift, u, v, P
    <2> DEFINE u1 == Up(-(s + 1))
               v1 == Up(s + 1)
    <2>2. u1 \in Nat \ {0} /\ v1 \in Nat \ {0}
        <3>1. s + 1 \in Int
            BY <1>2
        <3>2. QED  BY <3>1, UpFacts
    <2>3. (v1 = 2 * v /\ u1 = u) \/ (u = 2 * u1 /\ v1 = v)
        BY <1>2, UpNext DEF u, v
    <2> HIDE DEF u1, v1
    <2>4. P * (D * v) <= N * u
        <3>1. D * v * P = P * (D * v) /\ P * (D * v) \in Int /\ N * u \in Int
            BY <1>3
        <3>2. QED  BY <1>10, <3>1
    <2>5. H * (D * v1) <= N * u1 /\ N * u1 < P * (D * v1)
        <3>1. P * (D * v) = 2 * (H * (D * v)) /\ H * (D * v) \in Int /\ N * u \in Int
            BY <1>3, <1>8
        <3>2. CASE v1 = 2 * v /\ u1 = u
            <4>1. H * (D * v1) = P * (D * v) /\ P * (D * v1) = 2 * (P * (D * v))
                BY <1>3, <1>8, <3>2
            <4>2. QED  BY <1>6, <2>4, <3>2, <4>1
        <3>3. CASE u = 2 * u1 /\ v1 = v
            <4>1. N * u = 2 * (N * u1) /\ N * u1 \in Int
                BY <2>2, <3>3
            <4>2. QED  BY <1>6, <2>4, <3>1, <3>3, <4>1
        <3>4. QED  BY <2>3, <3>2, <3>3
    <2>6. QED  BY <1>2, <2>1, <2>5 DEF u1, v1, P, H
<1>11. QED  BY <1>9, <1>10

-----------------------------------------------------------------------------
(* The nearest integer                                                     *)

\* m is within a half of num / den, and even if there are two such integers.
IsNearest(m, num, den) ==
  /\ m \in Nat
  /\ (2 * m - 1) * den <= 2 * num /\ 2 * num <= (2 * m + 1) * den
  /\ (2 * m - 1) * den = 2 * num \/ (2 * m + 1) * den = 2 * num => m % 2 = 0

LEMMA NearestFacts ==
    ASSUME NEW num \in Nat, NEW den \in Nat \ {0}
    PROVE  IsNearest(Nearest(num, den), num, den)
<1> DEFINE q == num \div den
           t == num % den
<1>1. q \in Nat /\ t \in 0 .. den - 1 /\ num = den * q + t
    <2>1. q \in Int /\ t \in 0 .. den - 1 /\ num = den * q + t
        BY DivMod
    <2> HIDE DEF q, t
    <2>2. ASSUME q < 0 PROVE FALSE
        <3>1. q <= -1 /\ -1 \in Int
            BY <2>1, <2>2
        <3>2. q * den <= (-1) * den
            BY <2>1, <3>1, TimesOrder
        <3>3. (-1) * den = -den /\ q * den = den * q /\ q * den \in Int
            BY <2>1
        <3>4. QED  BY <2>1, <3>2, <3>3
    <2>3. QED  BY <2>1, <2>2
<1>2. Nearest(num, den) = IF 2 * t > den \/ (2 * t = den /\ q % 2 = 1) THEN q + 1 ELSE q
    BY DEF Nearest
<1> HIDE DEF q, t
<1>3. /\ (2 * q - 1) * den = 2 * (den * q) - den
      /\ (2 * q + 1) * den = 2 * (den * q) + den
      /\ (2 * (q + 1) - 1) * den = 2 * (den * q) + den
      /\ (2 * (q + 1) + 1) * den = 2 * (den * q) + 3 * den
      /\ den * q \in Int
    BY <1>1
<1>4. q % 2 = 0 \/ q % 2 = 1
    BY <1>1
<1>5. CASE 2 * t > den \/ (2 * t = den /\ q % 2 = 1)
    <2>1. Nearest(num, den) = q + 1
        BY <1>2, <1>5
    <2>2. q % 2 = 1 => (q + 1) % 2 = 0
        BY <1>1
    <2>3. q + 1 \in Nat
        BY <1>1
    <2>4. (2 * (q + 1) - 1) * den <= 2 * num /\ 2 * num < (2 * (q + 1) + 1) * den
        BY <1>1, <1>3, <1>5
    <2>5. (2 * (q + 1) - 1) * den = 2 * num => q % 2 = 1
        BY <1>1, <1>3, <1>5
    <2>6. (2 * (q + 1) + 1) * den \in Int
        BY <1>3
    <2>7. QED  BY <2>1, <2>2, <2>3, <2>4, <2>5, <2>6 DEF IsNearest
<1>6. CASE ~ (2 * t > den \/ (2 * t = den /\ q % 2 = 1))
    <2>1. Nearest(num, den) = q
        BY <1>2, <1>6
    <2>2. (2 * q - 1) * den < 2 * num /\ 2 * num <= (2 * q + 1) * den
        BY <1>1, <1>3, <1>6
    <2>3. (2 * q + 1) * den = 2 * num => q % 2 = 0
        BY <1>1, <1>3, <1>4, <1>6
    <2>4. (2 * q - 1) * den \in Int
        BY <1>3
    <2>5. QED  BY <1>1, <2>1, <2>2, <2>3, <2>4 DEF IsNearest
<1>7. QED  BY <1>5, <1>6

\* Rounding keeps the order: a half is never rounded past another half.
LEMMA NearestOrder ==
    ASSUME NEW m1 \in Nat, NEW n1 \in Nat, NEW d1 \in Nat \ {0}, IsNearest(m1, n1, d1),
           NEW m2 \in Nat, NEW n2 \in Nat, NEW d2 \in Nat \ {0}, IsNearest(m2, n2, d2),
           n1 * d2 <= n2 * d1
    PROVE  m1 <= m2
<1> SUFFICES ASSUME m2 < m1 PROVE FALSE
    OBVIOUS
<1> DEFINE l1 == (2 * m1 - 1) * d1
           h2 == (2 * m2 + 1) * d2
<1>1. l1 <= 2 * n1 /\ 2 * n2 <= h2 /\ l1 \in Int /\ h2 \in Int
    BY DEF IsNearest
<1>2. l1 * d2 <= (2 * n1) * d2 /\ (2 * n2) * d1 <= h2 * d1
    <2> HIDE DEF l1, h2
    <2>1. 2 * n1 \in Int /\ 2 * n2 \in Int
        OBVIOUS
    <2>2. QED  BY <1>1, <2>1, TimesOrder
<1>3. (2 * n1) * d2 = 2 * (n1 * d2) /\ (2 * n2) * d1 = 2 * (n2 * d1)
      /\ n1 * d2 \in Int /\ n2 * d1 \in Int
    OBVIOUS
<1>4. l1 * d2 = (2 * m1 - 1) * (d1 * d2) /\ h2 * d1 = (2 * m2 + 1) * (d1 * d2)
    OBVIOUS
<1>5. d1 * d2 \in Nat \ {0} /\ 2 * m1 - 1 \in Int /\ 2 * m2 + 1 \in Int
    OBVIOUS
<1>6. l1 * d2 \in Int /\ h2 * d1 \in Int
    BY <1>1
<1>7. l1 * d2 <= h2 * d1
    <2> HIDE DEF l1, h2
    <2>1. QED  BY <1>2, <1>3, <1>6
<1>8. m1 = m2 + 1
    <2> HIDE DEF l1, h2
    <2>1. ASSUME 2 * m2 + 1 < 2 * m1 - 1 PROVE FALSE
        <3>1. (2 * m2 + 1) * (d1 * d2) + (d1 * d2) <= (2 * m1 - 1) * (d1 * d2)
            BY <1>5, <2>1, TimesOrder
        <3>2. QED  BY <1>4, <1>5, <1>6, <1>7, <3>1
    <2>2. QED  BY <2>1
<1>9. l1 * d2 = h2 * d1
    <2>1. 2 * m1 - 1 = 2 * m2 + 1
        BY <1>8
    <2>2. QED  BY <1>4, <2>1
<1>10. l1 * d2 = (2 * n1) * d2 /\ (2 * n2) * d1 = h2 * d1
    <2> HIDE DEF l1, h2
    <2>1. QED  BY <1>2, <1>3, <1>6, <1>9
<1>11. l1 = 2 * n1 /\ h2 = 2 * n2
    <2> HIDE DEF l1, h2
    <2>1. ASSUME l1 < 2 * n1 PROVE FALSE
        <3>1. l1 * d2 + d2 <= (2 * n1) * d2
            BY <1>1, <2>1, TimesOrder
        <3>2. QED  BY <1>6, <1>10, <3>1
    <2>2. ASSUME 2 * n2 < h2 PROVE FALSE
        <3>1. (2 * n2) * d1 + d1 <= h2 * d1
            BY <1>1, <2>2, TimesOrder
        <3>2. QED  BY <1>6, <1>10, <3>1
    <2>3. QED  BY <1>1, <2>1, <2>2
<1>12. m1 % 2 = 0 /\ m2 % 2 = 0
    BY <1>11 DEF IsNearest
<1>13. QED  BY <1>8, <1>12

\* Rounding a quotient of p bits leaves p bits, or the next power of two, and
\* moves it by at most one part in 2^p.
LEMMA NearestOfBits ==
    ASSUME NEW num \in Nat, NEW den \in Nat \ {0}, NEW h \in Nat \ {0},
           h * den <= num, num < (2 * h) * den,
           NEW m \in Nat, IsNearest(m, num, den)
    PROVE  /\ m \in h .. 2 * h
           /\ (2 * h - 1) * num <= (2 * h) * (m * den)
           /\ (2 * h) * (m * den) <= (2 * h + 1) * num
<1>1. (2 * m - 1) * den <= 2 * num /\ 2 * num <= (2 * m + 1) * den
    BY DEF IsNearest
<1>2. (2 * m - 1) * den = 2 * (m * den) - den /\ (2 * m + 1) * den = 2 * (m * den) + den
      /\ m * den \in Int /\ h * den \in Int /\ (2 * h) * den = 2 * (h * den)
    OBVIOUS
<1>3. h <= m
    <2> SUFFICES ASSUME m < h PROVE FALSE
        OBVIOUS
    <2>1. m * den + den <= h * den
        BY TimesOrder
    <2>2. QED  BY <1>1, <1>2, <2>1
<1>4. m <= 2 * h
    <2> SUFFICES ASSUME 2 * h < m PROVE FALSE
        OBVIOUS
    <2>1. (2 * h) * den + den <= m * den
        <3>1. 2 * h \in Int
            OBVIOUS
        <3>2. QED  BY <3>1, TimesOrder
    <2>2. QED  BY <1>1, <1>2, <2>1
<1>5. /\ (2 * h) * (m * den) = h * (2 * (m * den))
      /\ (2 * h - 1) * num = h * (2 * num) - num /\ (2 * h + 1) * num = h * (2 * num) + num
      /\ h * (2 * (m * den)) \in Int /\ h * (2 * num) \in Int
    OBVIOUS
<1>6. h * (2 * num) <= h * (2 * (m * den)) + h * den
    <2>1. (2 * num) * h <= (2 * (m * den) + den) * h
        <3>1. 2 * num \in Int /\ 2 * (m * den) + den \in Int /\ 2 * num <= 2 * (m * den) + den
            BY <1>1, <1>2
        <3>2. QED  BY <3>1, TimesOrder
    <2>2. (2 * num) * h = h * (2 * num)
          /\ (2 * (m * den) + den) * h = h * (2 * (m * den)) + h * den
        OBVIOUS
    <2>3. QED  BY <2>1, <2>2
<1>7. h * (2 * (m * den)) <= h * (2 * num) + h * den
    <2>1. (2 * (m * den)) * h <= (2 * num + den) * h
        <3>1. 2 * num + den \in Int /\ 2 * (m * den) \in Int /\ 2 * (m * den) <= 2 * num + den
            BY <1>1, <1>2
        <3>2. QED  BY <3>1, TimesOrder
    <2>2. (2 * (m * den)) * h = h * (2 * (m * den))
          /\ (2 * num + den) * h = h * (2 * num) + h * den
        OBVIOUS
    <2>3. QED  BY <2>1, <2>2
<1>8. QED  BY <1>2, <1>3, <1>4, <1>5, <1>6, <1>7

-----------------------------------------------------------------------------
(* Rounding to p bits                                                      *)

\* The shift and the significand before a carry.
Significand(N, D) ==
  LET s == Shift(Abs(N), D) IN Nearest(Abs(N) * Up(-s), D * Up(s))

LEMMA SignificandFacts ==
    ASSUME NEW N \in Int \ {0}, NEW D \in Nat \ {0}
    PROVE  LET s == Shift(Abs(N), D)
               m == Significand(N, D)
               num == Abs(N) * Up(-s)
               den == D * Up(s)
           IN  /\ s \in Int /\ m \in Nat /\ num \in Nat /\ den \in Nat \ {0}
               /\ Pow2(p - 1) * den <= num /\ num < Pow2(p) * den
               /\ IsNearest(m, num, den)
               /\ m \in Pow2(p - 1) .. Pow2(p)
               /\ (Pow2(p) - 1) * num <= Pow2(p) * (m * den)
               /\ Pow2(p) * (m * den) <= (Pow2(p) + 1) * num
<1> DEFINE s == Shift(Abs(N), D)
           m == Significand(N, D)
           num == Abs(N) * Up(-s)
           den == D * Up(s)
           H == Pow2(p - 1)
<1>1. Abs(N) \in Nat \ {0}
    BY DEF Abs
<1>2. s \in Int /\ H * den <= num /\ num < Pow2(p) * den
    BY <1>1, ShiftFacts
<1>3. num \in Nat /\ den \in Nat \ {0}
    <2>1. Up(-s) \in Nat \ {0} /\ Up(s) \in Nat \ {0}
        BY <1>2, UpFacts
    <2>2. QED  BY <1>1, <2>1
<1>4. m = Nearest(num, den)
    BY DEF Significand
<1> HIDE DEF m, num, den, s
<1>5. IsNearest(m, num, den) /\ m \in Nat
    BY <1>3, <1>4, NearestFacts DEF IsNearest
<1>6. H \in Nat \ {0} /\ Pow2(p) = 2 * H
    BY Precision
<1> HIDE DEF H
<1>7. /\ m \in H .. 2 * H
      /\ (2 * H - 1) * num <= (2 * H) * (m * den)
      /\ (2 * H) * (m * den) <= (2 * H + 1) * num
    BY <1>2, <1>3, <1>5, <1>6, NearestOfBits
<1>8. QED  BY <1>2, <1>3, <1>5, <1>6, <1>7 DEF m, num, den, s, H

LEMMA RoundValue ==
    ASSUME NEW N \in Int \ {0}, NEW D \in Nat \ {0}, NEW e \in Int
    PROVE  LET s == Shift(Abs(N), D)
               r == Round(N, D, e)
           IN  /\ r \in Int \X Int /\ IsFloat(r)
               /\ r[2] = e + s \/ r[2] = e + s + 1
               /\ \A g \in Int : g < r[2] =>
                    g <= e + s /\ At(r, g) = Sgn(N) * (Significand(N, D) * Pow2(e + s - g))
<1> DEFINE s == Shift(Abs(N), D)
           m == Significand(N, D)
           r == Round(N, D, e)
           H == Pow2(p - 1)
<1>1. s \in Int /\ m \in H .. Pow2(p)
    BY SignificandFacts
<1>2. H \in Nat \ {0} /\ Pow2(p) = 2 * H
    BY Precision
<1>3. Sgn(N) \in {-1, 1}
    BY DEF Sgn
<1>4. r = IF m = Pow2(p) THEN <<Sgn(N) * H, e + s + 1>> ELSE <<Sgn(N) * m, e + s>>
    BY DEF Round, Significand
<1> HIDE DEF r, m, s
<1>5. CASE m = Pow2(p)
    <2>1. r = <<Sgn(N) * H, e + s + 1>>
        BY <1>4, <1>5
    <2>2. Sgn(N) * H \in Int /\ Abs(Sgn(N) * H) = H
        BY <1>2, <1>3 DEF Abs
    <2>3. r \in Int \X Int /\ r[1] = Sgn(N) * H /\ r[2] = e + s + 1
        BY <1>1, <2>1, <2>2
    <2>4. IsFloat(r)
        BY <1>2, <2>2, <2>3 DEF IsFloat
    <2>5. ASSUME NEW g \in Int, g < r[2]
          PROVE  g <= e + s /\ At(r, g) = Sgn(N) * (m * Pow2(e + s - g))
        <3>1. g <= e + s /\ e + s - g \in Nat /\ r[2] - g = (e + s - g) + 1
            BY <1>1, <2>3, <2>5
        <3>2. Pow2(r[2] - g) = 2 * Pow2(e + s - g) /\ Pow2(e + s - g) \in Nat
            BY <3>1, Pow2Step
        <3>3. (Sgn(N) * H) * (2 * Pow2(e + s - g)) = Sgn(N) * ((2 * H) * Pow2(e + s - g))
            BY <1>2, <1>3, <3>2
        <3>4. QED  BY <1>2, <1>5, <2>3, <3>1, <3>2, <3>3 DEF At
    <2>6. QED  BY <2>3, <2>4, <2>5 DEF r, s, m
<1>6. CASE m # Pow2(p)
    <2>1. r = <<Sgn(N) * m, e + s>>
        BY <1>4, <1>6
    <2>2. m \in H .. Pow2(p) - 1 /\ m \in Nat
        BY <1>1, <1>2, <1>6
    <2>3. Sgn(N) * m \in Int /\ Abs(Sgn(N) * m) = m
        BY <1>2, <1>3, <2>2 DEF Abs
    <2>4. r \in Int \X Int /\ r[1] = Sgn(N) * m /\ r[2] = e + s
        BY <1>1, <2>1, <2>3
    <2>5. IsFloat(r)
        BY <2>2, <2>3, <2>4 DEF IsFloat
    <2>6. ASSUME NEW g \in Int, g < r[2]
          PROVE  g <= e + s /\ At(r, g) = Sgn(N) * (m * Pow2(e + s - g))
        <3>1. g <= e + s /\ e + s - g \in Nat /\ r[2] - g = e + s - g
            BY <1>1, <2>4, <2>6
        <3>2. Pow2(e + s - g) \in Nat
            BY <3>1, Pow2Step
        <3>3. (Sgn(N) * m) * Pow2(e + s - g) = Sgn(N) * (m * Pow2(e + s - g))
            BY <1>3, <2>2, <3>2
        <3>4. QED  BY <2>4, <3>1, <3>3 DEF At
    <2>7. QED  BY <2>4, <2>5, <2>6 DEF r, s, m
<1>7. QED  BY <1>5, <1>6

\* r is v, up to one part in 2^p.
Near(r, v) ==
  /\ v >= 0 => (Pow2(p) - 1) * v <= Pow2(p) * r /\ Pow2(p) * r <= (Pow2(p) + 1) * v
  /\ v <= 0 => (Pow2(p) + 1) * v <= Pow2(p) * r /\ Pow2(p) * r <= (Pow2(p) - 1) * v

LEMMA NearNegated ==
    ASSUME NEW r \in Int, NEW v \in Int, Near(r, v)
    PROVE  Near(-r, -v)
<1> DEFINE P == Pow2(p)
<1>1. P \in Nat \ {0}
    BY Precision
<1> HIDE DEF P
<1>2. P * (-r) = -(P * r) /\ (P - 1) * (-v) = -((P - 1) * v) /\ (P + 1) * (-v) = -((P + 1) * v)
      /\ P * r \in Int /\ (P - 1) * v \in Int /\ (P + 1) * v \in Int
    BY <1>1
<1>3. /\ v >= 0 => (P - 1) * v <= P * r /\ P * r <= (P + 1) * v
      /\ v <= 0 => (P + 1) * v <= P * r /\ P * r <= (P - 1) * v
    BY DEF Near, P
<1>4. /\ -v >= 0 => (P - 1) * (-v) <= P * (-r) /\ P * (-r) <= (P + 1) * (-v)
      /\ -v <= 0 => (P + 1) * (-v) <= P * (-r) /\ P * (-r) <= (P - 1) * (-v)
    BY <1>2, <1>3
<1>5. QED  BY <1>4 DEF Near, P

LEMMA NearTimes ==
    ASSUME NEW r \in Int, NEW v \in Int, NEW c \in Nat \ {0}
    PROVE  Near(r, v) <=> Near(r * c, v * c)
<1> DEFINE P == Pow2(p)
<1>1. P \in Nat \ {0}
    BY Precision
<1> HIDE DEF P
<1>2. P * (r * c) = (P * r) * c /\ (P - 1) * (v * c) = ((P - 1) * v) * c
      /\ (P + 1) * (v * c) = ((P + 1) * v) * c
      /\ P * r \in Int /\ (P - 1) * v \in Int /\ (P + 1) * v \in Int /\ 0 * c = 0
    BY <1>1
<1>3. \A x, y \in Int : x <= y <=> x * c <= y * c
    <2> SUFFICES ASSUME NEW x \in Int, NEW y \in Int PROVE x <= y <=> x * c <= y * c
        OBVIOUS
    <2>1. x <= y => x * c <= y * c
        BY TimesOrder
    <2>2. y < x => y * c + c <= x * c
        BY TimesOrder
    <2>3. x * c \in Int /\ y * c \in Int
        OBVIOUS
    <2>4. QED  BY <2>1, <2>2, <2>3
<1>4. (v >= 0 <=> v * c >= 0) /\ (v <= 0 <=> v * c <= 0)
    BY <1>2, <1>3
<1>5. /\ (P - 1) * v <= P * r <=> (P - 1) * (v * c) <= P * (r * c)
      /\ (P + 1) * v <= P * r <=> (P + 1) * (v * c) <= P * (r * c)
      /\ P * r <= (P - 1) * v <=> P * (r * c) <= (P - 1) * (v * c)
      /\ P * r <= (P + 1) * v <=> P * (r * c) <= (P + 1) * (v * c)
    BY <1>2, <1>3
<1>6. QED  BY <1>4, <1>5 DEF Near, P

\* A rounded quotient is near the exact one, in units of any 2^g that both
\* are multiples of.
LEMMA RoundNear ==
    ASSUME NEW N \in Int, NEW D \in Nat \ {0}, NEW e \in Int, NEW g \in Int,
           g <= e, g < Round(N, D, e)[2]
    PROVE  At(Round(N, D, e), g) \in Int /\ Near(At(Round(N, D, e), g) * D, N * Pow2(e - g))
<1> DEFINE r == Round(N, D, e)
           P == Pow2(p)
<1>1. P \in Nat \ {0}
    BY Precision
<1>2. e - g \in Nat /\ Pow2(e - g) \in Nat \ {0}
    BY Pow2Step
<1>3. CASE N = 0
    <2>1. r = Zero
        BY <1>3 DEF Round
    <2>2. Emin \in Int /\ r[1] = 0 /\ r[2] = Emin
        BY <2>1, FitDomainConstants DEF Zero
    <2>3. r[2] - g \in Nat
        BY <2>2
    <2>4. Pow2(r[2] - g) \in Nat
        BY <2>3, Pow2Step
    <2>5. At(r, g) = 0
        BY <2>2, <2>4 DEF At
    <2>6. 0 * D = 0 /\ N * Pow2(e - g) = 0 /\ P * 0 = 0 /\ (P - 1) * 0 = 0 /\ (P + 1) * 0 = 0
        BY <1>1, <1>2, <1>3
    <2>7. QED  BY <2>5, <2>6 DEF Near, P
<1>4. CASE N # 0
    <2> DEFINE s == Shift(Abs(N), D)
               m == Significand(N, D)
               num == Abs(N) * Up(-s)
               den == D * Up(s)
               t == Pow2(e + s - g)
    <2>0. N \in Int \ {0}
        BY <1>4
    <2>1. /\ s \in Int /\ m \in Nat /\ num \in Nat /\ den \in Nat \ {0}
          /\ (P - 1) * num <= P * (m * den)
          /\ P * (m * den) <= (P + 1) * num
        BY <2>0, SignificandFacts
    <2>2. g <= e + s /\ At(r, g) = Sgn(N) * (m * t)
        BY <2>0, RoundValue
    <2>3. t * Up(-s) = Pow2(e - g) * Up(s) /\ Up(s) \in Nat \ {0} /\ Up(-s) \in Nat \ {0}
        BY <2>1, <2>2, UpScale, UpFacts
    <2>4. t \in Nat \ {0}
        <3>1. e + s - g \in Nat
            BY <2>1, <2>2
        <3>2. QED  BY <3>1, Pow2Step
    <2>5. Abs(N) \in Nat /\ Sgn(N) \in {-1, 1} /\ N = Sgn(N) * Abs(N)
        BY DEF Abs, Sgn
    <2>6. Near(m * den, num)
        <3>1. m * den \in Int /\ num >= 0
            BY <2>1
        <3>2. num <= 0 => m * den = 0
            <4> SUFFICES ASSUME num = 0 PROVE m * den = 0
                BY <2>1
            <4>1. P * (m * den) <= 0
                <5>1. (P + 1) * 0 = 0
                    BY <1>1
                <5>2. QED  BY <2>1, <5>1
            <4>2. ASSUME 0 < m * den PROVE FALSE
                <5> HIDE DEF P, m, den
                <5>1. 0 * P + P <= (m * den) * P
                    BY <1>1, <3>1, <4>2, TimesOrder
                <5>2. 0 * P = 0 /\ (m * den) * P = P * (m * den) /\ P * (m * den) \in Int
                    BY <1>1, <3>1
                <5>3. QED  BY <1>1, <4>1, <5>1, <5>2
            <4>3. m * den >= 0
                BY <2>1
            <4>4. QED  BY <3>1, <4>2, <4>3
        <3>3. num <= 0 => /\ num = 0 /\ P * (m * den) = 0
                          /\ (P + 1) * num = 0 /\ (P - 1) * num = 0
            <4> HIDE DEF P, num, den, m
            <4>1. QED  BY <1>1, <2>1, <3>2
        <3>4. QED  BY <2>1, <3>1, <3>3 DEF Near
    <2> HIDE DEF P, m, s, r, t
    <2>7. Near(((m * t) * D) * (Up(s) * Up(-s)), (Abs(N) * Pow2(e - g)) * (Up(s) * Up(-s)))
        <3>1. t * Up(-s) \in Nat \ {0}
            BY <2>3, <2>4
        <3>2. m * den \in Int /\ num \in Int
            BY <2>1
        <3>3. Near((m * den) * (t * Up(-s)), num * (t * Up(-s)))
            BY <2>6, <3>1, <3>2, NearTimes
        <3>4. (m * den) * (t * Up(-s)) = ((m * t) * D) * (Up(s) * Up(-s))
            BY <2>1, <2>3, <2>4
        <3>5. num * (t * Up(-s)) = num * (Pow2(e - g) * Up(s))
            BY <2>3
        <3>6. num * (Pow2(e - g) * Up(s)) = (Abs(N) * Pow2(e - g)) * (Up(s) * Up(-s))
            BY <1>2, <2>3, <2>5
        <3>7. QED  BY <3>3, <3>4, <3>5, <3>6
    <2>8. Near((m * t) * D, Abs(N) * Pow2(e - g))
        <3>1. Up(s) * Up(-s) \in Nat \ {0}
            BY <2>3
        <3>2. (m * t) * D \in Int /\ Abs(N) * Pow2(e - g) \in Int
            BY <1>2, <2>1, <2>4, <2>5
        <3>3. QED  BY <2>7, <3>1, <3>2, NearTimes
    <2>9. CASE Sgn(N) = 1
        <3>1. At(r, g) = m * t /\ N = Abs(N)
            BY <2>1, <2>2, <2>4, <2>5, <2>9
        <3>2. m * t \in Int
            BY <2>1, <2>4
        <3>3. QED  BY <2>8, <3>1, <3>2 DEF r
    <2>10. CASE Sgn(N) = -1
        <3>1. At(r, g) = -(m * t) /\ N = -Abs(N)
            BY <2>1, <2>2, <2>4, <2>5, <2>10
        <3>2. (m * t) * D \in Int /\ Abs(N) * Pow2(e - g) \in Int /\ -(m * t) \in Int
            BY <1>2, <2>1, <2>4, <2>5
        <3>3. (-(m * t)) * D = -((m * t) * D) /\ (-Abs(N)) * Pow2(e - g) = -(Abs(N) * Pow2(e - g))
            BY <1>2, <2>1, <2>4, <2>5
        <3>4. Near(-((m * t) * D), -(Abs(N) * Pow2(e - g)))
            BY <2>8, <3>2, NearNegated
        <3>5. QED  BY <3>1, <3>2, <3>3, <3>4 DEF r
    <2>11. QED  BY <2>5, <2>9, <2>10
<1>5. QED  BY <1>3, <1>4

LEMMA RoundFloat ==
    ASSUME NEW N \in Int, NEW D \in Nat \ {0}, NEW e \in Int
    PROVE  IsFloat(Round(N, D, e)) /\ Round(N, D, e) \in Int \X Int
<1>1. CASE N = 0
    <2>1. Round(N, D, e) = Zero /\ Zero \in Int \X Int
        BY <1>1, FitDomainConstants DEF Round, Zero
    <2>2. QED  BY <2>1 DEF IsFloat
<1>2. CASE N # 0
    <2>1. N \in Int \ {0}
        BY <1>2
    <2>2. QED  BY <2>1, RoundValue
<1>3. QED  BY <1>1, <1>2

\* What has p bits is not rounded.
LEMMA RoundExact ==
    ASSUME NEW N \in Int, Abs(N) < Pow2(p), NEW e \in Int, NEW g \in Int,
           g <= e, g < Round(N, 1, e)[2]
    PROVE  At(Round(N, 1, e), g) = N * Pow2(e - g)
<1> DEFINE r == Round(N, 1, e)
<1>1. e - g \in Nat /\ Pow2(e - g) \in Nat \ {0}
    BY Pow2Step
<1>2. CASE N = 0
    <2>1. Emin \in Int /\ r[1] = 0 /\ r[2] = Emin
        BY <1>2, FitDomainConstants DEF Round, Zero
    <2>2. r[2] - g \in Nat
        BY <2>1
    <2>3. Pow2(r[2] - g) \in Nat
        BY <2>2, Pow2Step
    <2>4. QED  BY <1>1, <1>2, <2>1, <2>3 DEF At
<1>3. CASE N # 0
    <2> DEFINE s == Shift(Abs(N), 1)
               m == Significand(N, 1)
               num == Abs(N) * Up(-s)
               den == 1 * Up(s)
               t == Pow2(e + s - g)
    <2>0. N \in Int \ {0} /\ 1 \in Nat \ {0}
        BY <1>3
    <2>1. /\ s \in Int /\ num \in Nat /\ den \in Nat \ {0}
          /\ Pow2(p - 1) * den <= num /\ IsNearest(m, num, den)
        BY <2>0, SignificandFacts
    <2>2. g <= e + s /\ At(r, g) = Sgn(N) * (m * t)
        BY <2>0, RoundValue
    <2>3. Abs(N) \in Nat /\ Sgn(N) \in {-1, 1} /\ N = Sgn(N) * Abs(N)
        BY DEF Abs, Sgn
    <2>4. s <= 0
        <3> SUFFICES ASSUME s >= 1 PROVE FALSE
            BY <2>1
        <3>1. s - 1 \in Nat /\ (s - 1) + 1 = s /\ s >= 0
            BY <2>1
        <3>2. Up(s) = Pow2(s) /\ Up(-s) = 1 /\ Pow2(s) = 2 * Pow2(s - 1) /\ Pow2(s - 1) \in Nat \ {0}
            BY <2>1, <3>1, UpFacts, Pow2Step
        <3>3. Pow2(p - 1) \in Nat \ {0} /\ Pow2(p) = 2 * Pow2(p - 1)
            BY Precision
        <3> DEFINE H == Pow2(p - 1)
                   c == Pow2(s - 1)
        <3>4. num = Abs(N) /\ den = 2 * c
            BY <2>3, <3>2
        <3> HIDE DEF s, num, den, H, c
        <3>5. 1 * H <= c * H
            <4>1. 1 \in Int /\ c \in Int /\ 1 <= c /\ H \in Nat \ {0}
                BY <3>2, <3>3 DEF H, c
            <4>2. QED  BY <4>1, TimesOrder
        <3>6. H * (2 * c) = 2 * (c * H) /\ 1 * H = H /\ c * H \in Int /\ H \in Int
            BY <3>2, <3>3 DEF H, c
        <3>7. H * (2 * c) <= Abs(N) /\ Abs(N) < 2 * H
            BY <2>1, <3>3, <3>4 DEF H
        <3>8. QED  BY <2>3, <3>5, <3>6, <3>7
    <2>5. Up(s) = 1 /\ Up(-s) \in Nat \ {0} /\ t * Up(-s) = Pow2(e - g) * Up(s)
        BY <2>1, <2>2, <2>4, UpFacts, UpScale
    <2>6. den = 1
        BY <2>5
    <2>7. t \in Nat
        <3>1. e + s - g \in Nat
            BY <2>1, <2>2
        <3>2. QED  BY <3>1, Pow2Step
    <2> HIDE DEF m, s, r, t, num, den
    <2>8. m = num
        BY <2>1, <2>6 DEF IsNearest
    <2>9. num * t = Abs(N) * Pow2(e - g)
        <3>1. num * t = Abs(N) * (t * Up(-s))
            BY <2>3, <2>5, <2>7 DEF num
        <3>2. Pow2(e - g) * 1 = Pow2(e - g)
            BY <1>1
        <3>3. QED  BY <2>5, <3>1, <3>2
    <2>10. QED  BY <1>1, <2>2, <2>3, <2>8, <2>9 DEF r
<1>4. QED  BY <1>2, <1>3

-----------------------------------------------------------------------------
(* Values in a common unit                                                 *)

LEMMA AtFacts ==
    ASSUME NEW x \in Int \X Int, NEW g \in Int, g <= x[2]
    PROVE  /\ At(x, g) \in Int
           /\ Pow2(x[2] - g) \in Nat \ {0}
           /\ \A h \in Int : h <= g =>
                Pow2(g - h) \in Nat \ {0} /\ At(x, h) = At(x, g) * Pow2(g - h)
<1>1. x[1] \in Int /\ x[2] - g \in Nat
    OBVIOUS
<1>2. Pow2(x[2] - g) \in Nat \ {0}
    BY <1>1, Pow2Step
<1>3. At(x, g) \in Int
    BY <1>1, <1>2 DEF At
<1>4. ASSUME NEW h \in Int, h <= g
      PROVE  Pow2(g - h) \in Nat \ {0} /\ At(x, h) = At(x, g) * Pow2(g - h)
    <2>1. g - h \in Nat /\ (x[2] - g) + (g - h) = x[2] - h
        BY <1>4
    <2>2. Pow2(x[2] - h) = Pow2(x[2] - g) * Pow2(g - h) /\ Pow2(g - h) \in Nat \ {0}
        BY <1>1, <2>1, Pow2Add, Pow2Step
    <2>3. x[1] * (Pow2(x[2] - g) * Pow2(g - h)) = (x[1] * Pow2(x[2] - g)) * Pow2(g - h)
        BY <1>1, <1>2, <2>2
    <2>4. QED  BY <2>2, <2>3 DEF At
<1>5. QED  BY <1>2, <1>3, <1>4

\* An order seen in one unit is the order in any other.
LEMMA AtOrder ==
    ASSUME NEW x \in Int \X Int, NEW y \in Int \X Int,
           NEW g \in Int, g <= x[2], g <= y[2], NEW h \in Int, h <= g
    PROVE  At(x, g) <= At(y, g) <=> At(x, h) <= At(y, h)
<1> DEFINE c == Pow2(g - h)
<1>1. /\ At(x, g) \in Int /\ At(y, g) \in Int /\ c \in Nat \ {0}
      /\ At(x, h) = At(x, g) * c /\ At(y, h) = At(y, g) * c
    <2>1. At(x, g) \in Int /\ Pow2(g - h) \in Nat \ {0} /\ At(x, h) = At(x, g) * Pow2(g - h)
        BY AtFacts
    <2>2. At(y, g) \in Int /\ At(y, h) = At(y, g) * Pow2(g - h)
        BY AtFacts
    <2>3. QED  BY <2>1, <2>2
<1> HIDE DEF c
<1>2. At(x, g) <= At(y, g) => At(x, g) * c <= At(y, g) * c
    BY <1>1, TimesOrder
<1>3. At(y, g) < At(x, g) => At(y, g) * c + c <= At(x, g) * c
    BY <1>1, TimesOrder
<1>4. At(x, g) * c \in Int /\ At(y, g) * c \in Int
    BY <1>1
<1>5. QED  BY <1>1, <1>2, <1>3, <1>4

LEMMA PlusExact ==
    ASSUME NEW x \in Int \X Int, NEW y \in Int \X Int,
           NEW g \in Int, g <= x[2], g <= y[2]
    PROVE  LET e == Lower(x[2], y[2])
           IN  /\ e \in Int /\ g <= e /\ At(x, e) + At(y, e) \in Int
               /\ (At(x, e) + At(y, e)) * Pow2(e - g) = At(x, g) + At(y, g)
<1> DEFINE e == Lower(x[2], y[2])
<1>1. e \in Int /\ g <= e /\ e <= x[2] /\ e <= y[2]
    BY DEF Lower
<1> HIDE DEF e
<1>2. /\ At(x, e) \in Int /\ At(y, e) \in Int /\ Pow2(e - g) \in Nat
      /\ At(x, g) = At(x, e) * Pow2(e - g) /\ At(y, g) = At(y, e) * Pow2(e - g)
    BY <1>1, AtFacts
<1>3. (At(x, e) + At(y, e)) * Pow2(e - g) = At(x, e) * Pow2(e - g) + At(y, e) * Pow2(e - g)
    BY <1>2
<1>4. QED  BY <1>1, <1>2, <1>3 DEF e

LEMMA PlusNear ==
    ASSUME NEW x \in Int \X Int, NEW y \in Int \X Int,
           NEW g \in Int, g <= x[2], g <= y[2], g < Plus(x, y)[2]
    PROVE  /\ At(Plus(x, y), g) \in Int
           /\ Near(At(Plus(x, y), g), At(x, g) + At(y, g))
<1> DEFINE e == Lower(x[2], y[2])
           N == At(x, e) + At(y, e)
           r == Round(N, 1, e)
<1>1. e \in Int /\ g <= e /\ N \in Int /\ N * Pow2(e - g) = At(x, g) + At(y, g)
    BY PlusExact
<1>2. Plus(x, y) = r
    BY DEF Plus
<1> HIDE DEF N, e
<1>3. At(r, g) \in Int /\ Near(At(r, g) * 1, N * Pow2(e - g))
    <2>1. 1 \in Nat \ {0} /\ g < r[2]
        BY <1>2
    <2>2. QED  BY <1>1, <2>1, RoundNear
<1>4. At(r, g) * 1 = At(r, g)
    BY <1>3
<1>5. QED  BY <1>1, <1>2, <1>3, <1>4

LEMMA MinusNear ==
    ASSUME NEW x \in Int \X Int, NEW y \in Int \X Int,
           NEW g \in Int, g <= x[2], g <= y[2], g < Minus(x, y)[2]
    PROVE  /\ At(Minus(x, y), g) \in Int
           /\ Near(At(Minus(x, y), g), At(x, g) - At(y, g))
<1> DEFINE z == <<-y[1], y[2]>>
<1>1. z \in Int \X Int /\ z[1] = -y[1] /\ z[2] = y[2]
    OBVIOUS
<1>2. Minus(x, y) = Plus(x, z)
    BY DEF Minus
<1> HIDE DEF z
<1>3. /\ At(Plus(x, z), g) \in Int
      /\ Near(At(Plus(x, z), g), At(x, g) + At(z, g))
    BY <1>1, <1>2, PlusNear
<1>4. At(z, g) = -At(y, g)
    <2>1. Pow2(y[2] - g) \in Nat /\ y[1] \in Int
        BY AtFacts
    <2>2. QED  BY <1>1, <2>1 DEF At
<1>5. At(x, g) \in Int /\ At(y, g) \in Int
    BY AtFacts
<1>6. At(x, g) + (-At(y, g)) = At(x, g) - At(y, g)
    BY <1>5
<1>7. QED  BY <1>2, <1>3, <1>4, <1>6

\* Products and quotients: Pow2(-g) stands for one.
LEMMA TimesNear ==
    ASSUME NEW x \in Int \X Int, NEW y \in Int \X Int,
           NEW g \in Int, g <= 0, g <= x[2], g <= y[2], g < Times(x, y)[2]
    PROVE  /\ At(Times(x, y), g) \in Int
           /\ Near(At(Times(x, y), g) * Pow2(-g), At(x, g) * At(y, g))
<1> DEFINE N == x[1] * y[1]
           e == x[2] + y[2]
           f == g + g
           r == Round(N, 1, e)
<1>1. N \in Int /\ e \in Int /\ f \in Int /\ f <= e /\ f <= g /\ -g \in Nat
    OBVIOUS
<1>2. Times(x, y) = r
    BY DEF Times
<1>3. r \in Int \X Int
    <2> HIDE DEF N, e
    <2>1. 1 \in Nat \ {0}
        OBVIOUS
    <2>2. QED  BY <1>1, <2>1, RoundFloat
<1>4. N * Pow2(e - f) = At(x, g) * At(y, g)
    <2>1. x[2] - g \in Nat /\ y[2] - g \in Nat /\ (x[2] - g) + (y[2] - g) = e - f
        OBVIOUS
    <2>2. Pow2(e - f) = Pow2(x[2] - g) * Pow2(y[2] - g)
          /\ Pow2(x[2] - g) \in Nat /\ Pow2(y[2] - g) \in Nat
        BY <2>1, Pow2Add, Pow2Step
    <2>3. x[1] \in Int /\ y[1] \in Int
        OBVIOUS
    <2> DEFINE u == Pow2(x[2] - g)
               v == Pow2(y[2] - g)
    <2>4. (x[1] * y[1]) * (u * v) = (x[1] * u) * (y[1] * v)
        <3> HIDE DEF u, v
        <3>1. u \in Int /\ v \in Int
            BY <2>2 DEF u, v
        <3>2. QED  BY <2>3, <3>1
    <2>5. QED  BY <2>2, <2>4 DEF At
<1> HIDE DEF N, e, f
<1>5. g < r[2] /\ f < r[2]
    BY <1>1, <1>2, <1>3
<1>6. At(r, f) \in Int /\ Near(At(r, f) * 1, N * Pow2(e - f))
    <2>1. 1 \in Nat \ {0}
        OBVIOUS
    <2>2. QED  BY <1>1, <1>5, <2>1, RoundNear
<1>7. At(r, f) * 1 = At(r, f)
    BY <1>6
<1>8. At(r, g) \in Int /\ At(r, f) = At(r, g) * Pow2(g - f)
    BY <1>1, <1>3, <1>5, AtFacts
<1>9. g - f = -g
    BY DEF f
<1>10. QED  BY <1>2, <1>4, <1>6, <1>7, <1>8, <1>9

LEMMA OverNear ==
    ASSUME NEW x \in Int \X Int, NEW y \in Int \X Int, y[1] > 0,
           NEW g \in Int, g <= 0, g <= x[2], g <= y[2], g < Over(x, y)[2]
    PROVE  /\ At(Over(x, y), g) \in Int
           /\ Near(At(Over(x, y), g) * At(y, g), At(x, g) * Pow2(-g))
<1> DEFINE N == x[1]
           D == y[1]
           e == x[2] - y[2]
           f == g + g - y[2]
           r == Round(N, D, e)
<1>1. N \in Int /\ D \in Nat \ {0} /\ e \in Int /\ f \in Int /\ f <= e /\ f <= g /\ -g \in Nat
    OBVIOUS
<1>2. Over(x, y) = r
    <2>1. Sgn(y[1]) = 1 /\ Abs(y[1]) = y[1] /\ 1 * x[1] = x[1]
        BY DEF Sgn, Abs
    <2>2. QED  BY <2>1 DEF Over
<1>3. N * Pow2(e - f) = At(x, g) * Pow2(-g)
    <2>1. x[2] - g \in Nat /\ (x[2] - g) + (-g) = e - f
        OBVIOUS
    <2>2. Pow2(e - f) = Pow2(x[2] - g) * Pow2(-g) /\ Pow2(x[2] - g) \in Nat /\ Pow2(-g) \in Nat
        BY <1>1, <2>1, Pow2Add, Pow2Step
    <2>3. x[1] * (Pow2(x[2] - g) * Pow2(-g)) = (x[1] * Pow2(x[2] - g)) * Pow2(-g)
        BY <1>1, <2>2
    <2>4. QED  BY <2>2, <2>3 DEF At
<1>4. g - f = y[2] - g
    OBVIOUS
<1>5. At(y, g) = D * Pow2(g - f)
    BY <1>4 DEF At
<1> HIDE DEF N, D, e, f
<1>6. r \in Int \X Int
    BY <1>1, RoundFloat
<1>7. g < r[2] /\ f < r[2]
    BY <1>1, <1>2, <1>6
<1>8. At(r, f) \in Int /\ Near(At(r, f) * D, N * Pow2(e - f))
    BY <1>1, <1>7, RoundNear
<1>9. At(r, g) \in Int /\ At(r, f) = At(r, g) * Pow2(g - f) /\ Pow2(g - f) \in Nat
    BY <1>1, <1>6, <1>7, AtFacts
<1>10. (At(r, g) * Pow2(g - f)) * D = At(r, g) * (D * Pow2(g - f))
    BY <1>1, <1>9
<1>11. QED  BY <1>2, <1>3, <1>5, <1>8, <1>9, <1>10

-----------------------------------------------------------------------------
(* Rounding keeps the order                                                *)

\* N * 2^e is rounded to m units of 2^u, and p bits of it lie above them.
RoundsTo(N, e, g, u, m, num, den) ==
  /\ g <= u /\ At(Round(N, 1, e), g) = m * Pow2(u - g)
  /\ Pow2(p - 1) * Pow2(u - g) <= N * Pow2(e - g)
  /\ N * Pow2(e - g) < Pow2(p) * Pow2(u - g)
  /\ Pow2(p - 1) <= m /\ m <= Pow2(p)
  /\ IsNearest(m, num, den)
  /\ num * Pow2(u - g) = (N * Pow2(e - g)) * den

LEMMA RoundUnit ==
    ASSUME NEW N \in Nat \ {0}, NEW e \in Int, NEW g \in Int,
           g <= e, g < Round(N, 1, e)[2]
    PROVE  \E u \in Int, m \in Nat, num \in Nat, den \in Nat \ {0} :
             RoundsTo(N, e, g, u, m, num, den)
<1> DEFINE s == Shift(Abs(N), 1)
           m == Significand(N, 1)
           num == Abs(N) * Up(-s)
           den == 1 * Up(s)
           u == e + s
           q == Pow2(u - g)
           v == N * Pow2(e - g)
           H == Pow2(p - 1)
           P == Pow2(p)
<1>0. N \in Int \ {0} /\ 1 \in Nat \ {0}
    OBVIOUS
<1>a. Abs(N) = N /\ Sgn(N) = 1
    BY DEF Abs, Sgn
<1>1. /\ s \in Int /\ m \in Nat /\ num \in Nat /\ den \in Nat \ {0}
      /\ H * den <= num /\ num < P * den /\ IsNearest(m, num, den)
      /\ m \in H .. P
    BY <1>0, SignificandFacts
<1>2. g <= u /\ At(Round(N, 1, e), g) = Sgn(N) * (m * q)
    <2>1. \A h \in Int : h < Round(N, 1, e)[2] =>
             /\ h <= e + Shift(Abs(N), 1)
             /\ At(Round(N, 1, e), h)
                  = Sgn(N) * (Significand(N, 1) * Pow2(e + Shift(Abs(N), 1) - h))
        BY <1>0, RoundValue
    <2>2. g <= u /\ At(Round(N, 1, e), g) = Sgn(N) * (m * Pow2(e + s - g))
        BY <2>1
    <2>3. e + s - g = u - g
        <3>1. s \in Int
            BY <1>1
        <3> HIDE DEF s
        <3>2. QED  BY <3>1
    <2>4. QED  BY <2>2, <2>3
<1>3. u \in Int /\ u - g \in Nat /\ e - g \in Nat
    BY <1>1, <1>2
<1>4. q \in Nat \ {0} /\ Pow2(e - g) \in Nat \ {0} /\ H \in Nat \ {0} /\ P \in Nat \ {0}
    BY <1>3, Pow2Step, Precision
<1>5. q * Up(-s) = Pow2(e - g) * Up(s) /\ Up(s) \in Nat \ {0} /\ Up(-s) \in Nat \ {0}
    <2>1. s \in Int /\ g <= e + s
        BY <1>1, <1>2
    <2> HIDE DEF s
    <2>2. e + s - g = u - g
        BY <2>1
    <2> HIDE DEF u
    <2>3. Pow2(e + s - g) * Up(-s) = Pow2(e - g) * Up(s)
        BY <2>1, UpScale
    <2>4. Up(s) \in Nat \ {0} /\ Up(-s) \in Nat \ {0}
        BY <2>1, UpFacts
    <2>5. QED  BY <2>2, <2>3, <2>4
<1>6. num * q = v * den
    <2> HIDE DEF s, q
    <2>1. num * q = N * (q * Up(-s))
        BY <1>a, <1>4, <1>5
    <2>2. v * den = N * (Pow2(e - g) * Up(s))
        BY <1>4, <1>5
    <2>3. QED  BY <1>5, <2>1, <2>2
<1>7. At(Round(N, 1, e), g) = m * q
    <2> HIDE DEF m, q
    <2>1. m * q \in Int
        BY <1>1, <1>4
    <2>2. QED  BY <1>a, <1>2, <2>1
<1>8. v \in Nat
    BY <1>4
<1> HIDE DEF s, m, num, den, u, q, v, H, P
<1>9. H * q <= v /\ v < P * q
    <2>1. (H * q) * den <= v * den
        <3>1. (H * den) * q <= num * q
            <4>1. H * den \in Int
                BY <1>1, <1>4
            <4>2. QED  BY <1>1, <1>4, <4>1, TimesOrder
        <3>2. (H * den) * q = (H * q) * den
            BY <1>1, <1>4
        <3>3. QED  BY <1>6, <3>1, <3>2
    <2>2. v * den < (P * q) * den
        <3>1. num * q + q <= (P * den) * q
            <4>1. P * den \in Int
                BY <1>1, <1>4
            <4>2. QED  BY <1>1, <1>4, <4>1, TimesOrder
        <3>2. (P * den) * q = (P * q) * den /\ (P * q) * den \in Int /\ num * q \in Int
            BY <1>1, <1>4
        <3>3. QED  BY <1>4, <1>6, <3>1, <3>2
    <2>3. H * q \in Int /\ P * q \in Int /\ v \in Int
        BY <1>1, <1>4, <1>8
    <2>4. v < P * q
        BY <1>1, <2>2, <2>3, TimesOrder
    <2>5. ASSUME v < H * q PROVE FALSE
        <3>1. v * den + den <= (H * q) * den
            BY <1>1, <2>3, <2>5, TimesOrder
        <3>2. v * den \in Int /\ (H * q) * den \in Int
            BY <1>1, <2>3
        <3>3. QED  BY <1>1, <2>1, <3>1, <3>2
    <2>6. QED  BY <2>3, <2>4, <2>5
<1>10. H <= m /\ m <= P
    BY <1>1
<1>11. /\ g <= u /\ At(Round(N, 1, e), g) = m * Pow2(u - g)
       /\ H * Pow2(u - g) <= N * Pow2(e - g) /\ N * Pow2(e - g) < P * Pow2(u - g)
       /\ num * Pow2(u - g) = (N * Pow2(e - g)) * den
    BY <1>2, <1>6, <1>7, <1>9 DEF q, v
<1>12. RoundsTo(N, e, g, u, m, num, den)
    BY <1>1, <1>10, <1>11 DEF RoundsTo, H, P
<1>13. QED  BY <1>1, <1>3, <1>12

LEMMA RoundOrderPositive ==
    ASSUME NEW M \in Nat \ {0}, NEW N \in Nat \ {0}, NEW e \in Int, NEW f \in Int,
           NEW g \in Int, g <= e, g <= f,
           M * Pow2(e - g) <= N * Pow2(f - g),
           g < Round(M, 1, e)[2], g < Round(N, 1, f)[2]
    PROVE  At(Round(M, 1, e), g) <= At(Round(N, 1, f), g)
<1> DEFINE v1 == M * Pow2(e - g)
           v2 == N * Pow2(f - g)
           H == Pow2(p - 1)
           P == Pow2(p)
<1>a. PICK u1 \in Int, m1 \in Nat, n1 \in Nat, d1 \in Nat \ {0} :
             RoundsTo(M, e, g, u1, m1, n1, d1)
    BY RoundUnit
<1>1. /\ g <= u1 /\ At(Round(M, 1, e), g) = m1 * Pow2(u1 - g)
      /\ H * Pow2(u1 - g) <= v1 /\ v1 < P * Pow2(u1 - g)
      /\ H <= m1 /\ m1 <= P
      /\ IsNearest(m1, n1, d1) /\ n1 * Pow2(u1 - g) = v1 * d1
    BY <1>a DEF RoundsTo
<1>b. PICK u2 \in Int, m2 \in Nat, n2 \in Nat, d2 \in Nat \ {0} :
             RoundsTo(N, f, g, u2, m2, n2, d2)
    BY RoundUnit
<1>2. /\ g <= u2 /\ At(Round(N, 1, f), g) = m2 * Pow2(u2 - g)
      /\ H * Pow2(u2 - g) <= v2 /\ v2 < P * Pow2(u2 - g)
      /\ H <= m2 /\ m2 <= P
      /\ IsNearest(m2, n2, d2) /\ n2 * Pow2(u2 - g) = v2 * d2
    BY <1>b DEF RoundsTo
<1> DEFINE q1 == Pow2(u1 - g)
           q2 == Pow2(u2 - g)
<1>3. q1 \in Nat \ {0} /\ q2 \in Nat \ {0}
    <2>1. u1 - g \in Nat /\ u2 - g \in Nat
        BY <1>1, <1>2
    <2>2. QED  BY <2>1, Pow2Step
<1>4. v1 \in Int /\ v2 \in Int /\ v1 <= v2
    <2>1. e - g \in Nat /\ f - g \in Nat
        OBVIOUS
    <2>2. Pow2(e - g) \in Nat /\ Pow2(f - g) \in Nat
        BY <2>1, Pow2Step
    <2>3. QED  BY <2>2
<1>5. H \in Nat \ {0} /\ P = 2 * H
    BY Precision
<1>6. ASSUME NEW u \in Int, NEW t \in Int, g <= u, u < t
      PROVE  2 * Pow2(u - g) <= Pow2(t - g) /\ Pow2(u - g) \in Nat /\ Pow2(t - g) \in Nat
    <2>1. u - g \in Nat /\ (u - g) + 1 \in Nat /\ t - g \in Nat /\ (u - g) + 1 <= t - g
        BY <1>6
    <2>2. QED  BY <2>1, Pow2Step, Pow2Grows
<1>7. ASSUME u1 < u2 PROVE m1 * q1 <= m2 * q2
    <2>1. 2 * q1 <= q2
        BY <1>1, <1>6, <1>7
    <2> HIDE DEF q1, q2, H, P
    <2>2. m1 * q1 <= P * q1
        BY <1>1, <1>3, <1>5, TimesOrder
    <2>3. H * q2 <= m2 * q2
        BY <1>2, <1>3, <1>5, TimesOrder
    <2>4. (2 * q1) * H <= q2 * H
        BY <1>3, <1>5, <2>1, TimesOrder
    <2>5. (2 * q1) * H = P * q1 /\ q2 * H = H * q2 /\ P * q1 \in Int /\ H * q2 \in Int
          /\ m1 * q1 \in Int /\ m2 * q2 \in Int
        BY <1>3, <1>5
    <2>6. QED  BY <2>2, <2>3, <2>4, <2>5
<1>8. ASSUME u2 < u1 PROVE FALSE
    <2>1. 2 * q2 <= q1
        BY <1>2, <1>6, <1>8
    <2>2. H * q1 <= v1 /\ v2 < P * q2
        BY <1>1, <1>2
    <2> HIDE DEF q1, q2, H, P, v1, v2
    <2>3. (2 * q2) * H <= q1 * H
        BY <1>3, <1>5, <2>1, TimesOrder
    <2>4. (2 * q2) * H = P * q2 /\ q1 * H = H * q1 /\ P * q2 \in Int /\ H * q1 \in Int
        BY <1>3, <1>5
    <2>5. QED  BY <1>4, <2>2, <2>3, <2>4
<1>9. ASSUME u1 = u2 PROVE m1 * q1 <= m2 * q2
    <2>1. q1 = q2 /\ n1 * q1 = v1 * d1 /\ n2 * q1 = v2 * d2
        BY <1>1, <1>2, <1>9
    <2> HIDE DEF q1, q2, H, P, v1, v2
    <2>2. v1 * (d1 * d2) <= v2 * (d1 * d2)
        <3>1. d1 * d2 \in Nat \ {0}
            OBVIOUS
        <3>2. QED  BY <1>4, <3>1, TimesOrder
    <2>3. v1 * (d1 * d2) = (v1 * d1) * d2 /\ v2 * (d1 * d2) = (v2 * d2) * d1
        BY <1>4
    <2>4. (n1 * q1) * d2 <= (n2 * q1) * d1
        BY <2>1, <2>2, <2>3
    <2>5. (n1 * q1) * d2 = (n1 * d2) * q1 /\ (n2 * q1) * d1 = (n2 * d1) * q1
          /\ n1 * d2 \in Int /\ n2 * d1 \in Int
        BY <1>3
    <2>6. n1 * d2 <= n2 * d1
        <3>1. ASSUME n2 * d1 < n1 * d2 PROVE FALSE
            <4>1. (n2 * d1) * q1 + q1 <= (n1 * d2) * q1
                BY <1>3, <2>5, <3>1, TimesOrder
            <4>2. (n2 * d1) * q1 \in Int /\ (n1 * d2) * q1 \in Int
                BY <1>3, <2>5
            <4>3. QED  BY <1>3, <2>4, <2>5, <4>1, <4>2
        <3>2. QED  BY <2>5, <3>1
    <2>7. m1 <= m2
        BY <1>1, <1>2, <2>6, NearestOrder
    <2>8. QED  BY <1>3, <2>1, <2>7, TimesOrder
<1>10. m1 * q1 <= m2 * q2
    BY <1>7, <1>8, <1>9
<1>11. QED  BY <1>1, <1>2, <1>10

LEMMA RoundNegated ==
    ASSUME NEW N \in Int \ {0}, NEW e \in Int, NEW g \in Int, g < Round(N, 1, e)[2]
    PROVE  /\ g < Round(-N, 1, e)[2]
           /\ At(Round(N, 1, e), g) \in Int
           /\ At(Round(-N, 1, e), g) = -At(Round(N, 1, e), g)
           /\ N > 0 => At(Round(N, 1, e), g) >= 0
<1> DEFINE m == Significand(N, 1)
           t == Pow2(e + Shift(Abs(N), 1) - g)
<1>1. -N \in Int \ {0} /\ Abs(-N) = Abs(N) /\ Sgn(-N) = -Sgn(N) /\ Sgn(N) \in {-1, 1}
      /\ (N > 0 => Sgn(N) = 1)
    BY DEF Abs, Sgn
<1>2. 1 \in Nat \ {0}
    OBVIOUS
<1>3. g <= e + Shift(Abs(N), 1) /\ At(Round(N, 1, e), g) = Sgn(N) * (m * t)
    BY <1>2, RoundValue
<1>4. Round(-N, 1, e)[2] = Round(N, 1, e)[2]
    <2> DEFINE s == Shift(Abs(N), 1)
               w == Nearest(Abs(N) * Up(-s), 1 * Up(s))
    <2>1. Round(N, 1, e) = IF w = Pow2(p) THEN <<Sgn(N) * Pow2(p - 1), e + s + 1>>
                           ELSE <<Sgn(N) * w, e + s>>
        BY DEF Round
    <2>2. Round(-N, 1, e) = IF w = Pow2(p) THEN <<Sgn(-N) * Pow2(p - 1), e + s + 1>>
                            ELSE <<Sgn(-N) * w, e + s>>
        BY <1>1 DEF Round
    <2> HIDE DEF w, s
    <2>3. QED  BY <2>1, <2>2
<1>5. At(Round(-N, 1, e), g) = Sgn(-N) * (Significand(-N, 1) * Pow2(e + Shift(Abs(-N), 1) - g))
    BY <1>1, <1>2, <1>4, RoundValue
<1>6. Significand(-N, 1) = m
    BY <1>1 DEF Significand
<1>7. m \in Nat /\ Shift(Abs(N), 1) \in Int
    BY <1>2, SignificandFacts
<1>8. t \in Nat
    <2>1. e + Shift(Abs(N), 1) - g \in Nat
        BY <1>3, <1>7
    <2>2. QED  BY <2>1, Pow2Step
<1>9. At(Round(-N, 1, e), g) = Sgn(-N) * (m * t)
    BY <1>1, <1>5, <1>6
<1> HIDE DEF m, t
<1>10. m * t \in Nat
    BY <1>7, <1>8
<1>11. QED  BY <1>1, <1>3, <1>4, <1>9, <1>10

LEMMA RoundOrder ==
    ASSUME NEW M \in Int, NEW N \in Int, NEW e \in Int, NEW f \in Int,
           NEW g \in Int, g <= e, g <= f,
           M * Pow2(e - g) <= N * Pow2(f - g),
           g < Round(M, 1, e)[2], g < Round(N, 1, f)[2]
    PROVE  At(Round(M, 1, e), g) <= At(Round(N, 1, f), g)
<1> DEFINE x == At(Round(M, 1, e), g)
           y == At(Round(N, 1, f), g)
           c == Pow2(e - g)
           d == Pow2(f - g)
<1>1. c \in Nat \ {0} /\ d \in Nat \ {0}
    <2>1. e - g \in Nat /\ f - g \in Nat
        OBVIOUS
    <2>2. QED  BY <2>1, Pow2Step
<1>2. ASSUME NEW K \in Int, K >= 0, NEW h \in Int, g < Round(K, 1, h)[2]
      PROVE  At(Round(K, 1, h), g) \in Int /\ At(Round(K, 1, h), g) >= 0
    <2>1. CASE K = 0
        <3>1. Round(K, 1, h)[1] = 0 /\ Round(K, 1, h)[2] = Emin /\ Emin \in Int
            BY <2>1, FitDomainConstants DEF Round, Zero
        <3>2. Emin - g \in Nat
            BY <1>2, <3>1
        <3>3. Pow2(Emin - g) \in Nat
            BY <3>2, Pow2Step
        <3>4. QED  BY <3>1, <3>3 DEF At
    <2>2. CASE K # 0
        <3>1. K \in Int \ {0} /\ K > 0
            BY <1>2, <2>2
        <3>2. QED  BY <1>2, <3>1, RoundNegated
    <2>3. QED  BY <2>1, <2>2
<1>3. ASSUME NEW K \in Int, K < 0, NEW h \in Int, g < Round(K, 1, h)[2]
      PROVE  At(Round(K, 1, h), g) \in Int /\ At(Round(K, 1, h), g) <= 0
    <2>1. K \in Int \ {0} /\ -K \in Int \ {0} /\ -K > 0 /\ -(-K) = K
        BY <1>3
    <2>2. g < Round(-K, 1, h)[2] /\ At(Round(K, 1, h), g) \in Int
          /\ At(Round(-K, 1, h), g) = -At(Round(K, 1, h), g)
        BY <1>3, <2>1, RoundNegated
    <2>3. At(Round(-K, 1, h), g) >= 0
        BY <2>1, <2>2, RoundNegated
    <2>4. QED  BY <2>2, <2>3
<1>4. CASE M > 0
    <2>1. N > 0
        <3> SUFFICES ASSUME N <= 0 PROVE FALSE
            OBVIOUS
        <3> HIDE DEF c, d
        <3>1. M * c > 0 /\ N * d <= 0
            BY <1>1, <1>4
        <3>2. M * c <= N * d
            BY DEF c, d
        <3>3. M * c \in Int /\ N * d \in Int
            BY <1>1
        <3>4. QED  BY <3>1, <3>2, <3>3
    <2>2. M \in Nat \ {0} /\ N \in Nat \ {0}
        BY <1>4, <2>1
    <2>3. QED  BY <2>2, RoundOrderPositive
<1>5. CASE M <= 0 /\ N >= 0
    <2>1. x \in Int /\ x <= 0
        <3>1. CASE M = 0
            <4>1. Round(M, 1, e)[1] = 0 /\ Round(M, 1, e)[2] = Emin /\ Emin \in Int
                BY <3>1, FitDomainConstants DEF Round, Zero
            <4>2. Emin - g \in Nat
                BY <4>1
            <4>3. Pow2(Emin - g) \in Nat
                BY <4>2, Pow2Step
            <4>4. QED  BY <4>1, <4>3 DEF At
        <3>2. CASE M < 0
            BY <1>3, <3>2
        <3>3. QED  BY <1>5, <3>1, <3>2
    <2>2. y \in Int /\ y >= 0
        BY <1>2, <1>5
    <2>3. QED  BY <2>1, <2>2
<1>6. CASE M <= 0 /\ N < 0
    <2>1. M < 0
        <3> SUFFICES ASSUME M = 0 PROVE FALSE
            BY <1>6
        <3> HIDE DEF c, d
        <3>1. N * d < 0 /\ M * c = 0
            BY <1>1, <1>6
        <3>2. M * c <= N * d
            BY DEF c, d
        <3>3. N * d \in Int
            BY <1>1
        <3>4. QED  BY <3>1, <3>2, <3>3
    <2>2. /\ M \in Int \ {0} /\ N \in Int \ {0} /\ -M \in Nat \ {0} /\ -N \in Nat \ {0}
        BY <1>6, <2>1
    <2>3. /\ g < Round(-M, 1, e)[2] /\ At(Round(-M, 1, e), g) = -x /\ x \in Int
          /\ g < Round(-N, 1, f)[2] /\ At(Round(-N, 1, f), g) = -y /\ y \in Int
        BY <2>2, RoundNegated
    <2>4. (-N) * d <= (-M) * c
        <3>1. (-N) * d = -(N * d) /\ (-M) * c = -(M * c) /\ N * d \in Int /\ M * c \in Int
            BY <1>1
        <3>2. M * c <= N * d
            OBVIOUS
        <3> HIDE DEF c, d
        <3>3. QED  BY <3>1, <3>2
    <2>5. At(Round(-N, 1, f), g) <= At(Round(-M, 1, e), g)
        BY <2>2, <2>3, <2>4, RoundOrderPositive
    <2> HIDE DEF x, y
    <2>6. QED  BY <2>3, <2>5 DEF x, y
<1>7. QED  BY <1>4, <1>5, <1>6

-----------------------------------------------------------------------------
(* Casts, halves and integers                                              *)

\* A cast rounds towards zero.
LEMMA CastFacts ==
    ASSUME NEW x \in Int \X Int, NEW g \in Int, g <= 0, g <= x[2]
    PROVE  /\ Cast(x) \in Int /\ Pow2(-g) \in Nat \ {0} /\ At(x, g) \in Int
           /\ At(x, g) >= 0 => Cast(x) * Pow2(-g) <= At(x, g) /\ At(x, g) < (Cast(x) + 1) * Pow2(-g)
           /\ At(x, g) <= 0 => (Cast(x) - 1) * Pow2(-g) < At(x, g) /\ At(x, g) <= Cast(x) * Pow2(-g)
<1> DEFINE m == x[1]
           V == At(x, g)
           O == Pow2(-g)
           c == Cast(x)
<1>1. -g \in Nat /\ x[2] \in Int /\ m \in Int
    OBVIOUS
<1>2. O \in Nat \ {0} /\ V \in Int
    <2>1. O \in Nat \ {0}
        BY <1>1, Pow2Step
    <2>2. V \in Int
        BY AtFacts
    <2>3. QED  BY <2>1, <2>2
<1>3. CASE x[2] >= 0
    <2>1. 0 \in Int /\ 0 <= x[2] /\ g <= 0 /\ 0 - g = -g
        BY <1>3
    <2>2. c \in Int /\ V = c * O
        <3>1. c = At(x, 0)
            BY <1>3 DEF Cast
        <3>2. At(x, 0) \in Int /\ At(x, g) = At(x, 0) * Pow2(0 - g)
            BY <2>1, AtFacts
        <3>3. QED  BY <2>1, <3>1, <3>2
    <2> HIDE DEF c, O, V
    <2>3. (c + 1) * O = c * O + O /\ (c - 1) * O = c * O - O /\ c * O \in Int
        BY <1>2, <2>2
    <2>4. c \in Int /\ c * O <= V /\ V < (c + 1) * O /\ (c - 1) * O < V /\ V <= c * O
        BY <1>2, <2>2, <2>3
    <2>5. QED  BY <1>2, <2>4 DEF c, O, V
<1>4. CASE x[2] < 0
    <2> DEFINE d == Pow2(-x[2])
               w == Pow2(x[2] - g)
               n == Abs(m)
               q == n \div d
               t == n % d
    <2>1. -x[2] \in Nat /\ x[2] - g \in Nat /\ (-x[2]) + (x[2] - g) = -g
        BY <1>4
    <2>2. d \in Nat \ {0} /\ w \in Nat \ {0} /\ O = d * w
        BY <2>1, Pow2Step, Pow2Add
    <2>3. n \in Nat /\ Sgn(m) \in {-1, 1} /\ m = Sgn(m) * n
        BY <1>1 DEF Abs, Sgn
    <2>4. V = m * w
        BY DEF At
    <2>5. c = Sgn(m) * q
        BY <1>4 DEF Cast
    <2>6. q \in Int /\ t \in 0 .. d - 1 /\ n = d * q + t
        <3> HIDE DEF d, n
        <3>1. n \in Int
            BY <2>3
        <3>2. QED  BY <2>2, <3>1, DivMod
    <2> HIDE DEF d, w, n, q, t, c, O, V
    <2>7. n * w = q * O + t * w
        <3>1. (d * q + t) * w = (d * q) * w + t * w /\ (d * q) * w = q * (d * w)
            BY <2>2, <2>6
        <3>2. QED  BY <2>2, <2>6, <3>1
    <2>8. 0 <= t * w /\ t * w < O /\ t * w \in Int
        <3>1. 0 * w <= t * w /\ t * w + w <= d * w
            BY <2>2, <2>6, TimesOrder
        <3>2. 0 * w = 0 /\ t * w \in Int
            BY <2>2, <2>6
        <3>3. QED  BY <2>2, <3>1, <3>2
    <2>9. q * O \in Int /\ (q + 1) * O = q * O + O /\ (-q - 1) * O = -(q * O) - O
          /\ (-q) * O = -(q * O) /\ (-q + 1) * O = -(q * O) + O /\ (q - 1) * O = q * O - O
        BY <1>2, <2>6
    <2>10. q >= 0
        <3>1. q + 1 > 0
            <4> SUFFICES ASSUME q + 1 <= 0 PROVE FALSE
                BY <2>6
            <4>1. (q + 1) * O <= 0 * O /\ 0 * O = 0
                BY <1>2, <2>6, TimesOrder
            <4>2. n * w \in Nat
                BY <2>2, <2>3
            <4>3. QED  BY <1>2, <2>7, <2>8, <2>9, <4>1, <4>2
        <3>2. QED  BY <2>6, <3>1
    <2>11. q * O >= 0
        BY <1>2, <2>6, <2>10
    <2>12. CASE Sgn(m) = 1
        <3>1. m = n /\ c = q
            BY <2>3, <2>5, <2>6, <2>12
        <3>2. V = q * O + t * w
            BY <2>4, <2>7, <3>1
        <3>3. /\ V >= 0 /\ c * O <= V /\ V < (c + 1) * O
              /\ V <= 0 => (c - 1) * O < V /\ V <= c * O
            BY <1>2, <2>8, <2>9, <2>11, <3>1, <3>2
        <3>4. QED  BY <1>2, <2>6, <3>1, <3>3 DEF c, O, V
    <2>13. CASE Sgn(m) = -1
        <3>1. m = -n /\ c = -q
            BY <2>3, <2>5, <2>6, <2>13
        <3>2. V = -(q * O) - t * w
            <4>1. (-n) * w = -(n * w) /\ n * w \in Int
                BY <2>2, <2>3
            <4>2. QED  BY <2>4, <2>7, <2>8, <2>9, <3>1, <4>1
        <3>3. /\ V <= 0 /\ (c - 1) * O < V /\ V <= c * O
              /\ V >= 0 => c * O <= V /\ V < (c + 1) * O
            BY <1>2, <2>8, <2>9, <2>11, <3>1, <3>2
        <3>4. QED  BY <1>2, <2>6, <3>1, <3>3 DEF c, O, V
    <2>14. QED  BY <2>3, <2>12, <2>13
<1>5. QED  BY <1>1, <1>3, <1>4

LEMMA CastOrder ==
    ASSUME NEW x \in Int \X Int, NEW y \in Int \X Int,
           NEW g \in Int, g <= 0, g <= x[2], g <= y[2], At(x, g) <= At(y, g)
    PROVE  Cast(x) <= Cast(y)
<1> DEFINE V == At(x, g)
           W == At(y, g)
           O == Pow2(-g)
           c == Cast(x)
           d == Cast(y)
<1>1. /\ c \in Int /\ O \in Nat \ {0} /\ V \in Int
      /\ V >= 0 => c * O <= V /\ V < (c + 1) * O
      /\ V <= 0 => (c - 1) * O < V /\ V <= c * O
    BY CastFacts
<1>2. /\ d \in Int /\ W \in Int
      /\ W >= 0 => d * O <= W /\ W < (d + 1) * O
      /\ W <= 0 => (d - 1) * O < W /\ W <= d * O
    BY CastFacts
<1>3. V <= W
    OBVIOUS
<1> HIDE DEF V, W, O, c, d
<1>4. c * O \in Int /\ d * O \in Int /\ (d + 1) * O \in Int /\ (c - 1) * O \in Int /\ 0 * O = 0
    BY <1>1, <1>2
<1>5. CASE V >= 0
    <2>1. c * O < (d + 1) * O
        BY <1>1, <1>2, <1>3, <1>4, <1>5
    <2>2. c < d + 1
        BY <1>1, <1>2, <2>1, TimesOrder
    <2>3. QED  BY <1>1, <1>2, <2>2 DEF c, d
<1>6. CASE W <= 0
    <2>1. (c - 1) * O < d * O
        BY <1>1, <1>2, <1>3, <1>4, <1>6
    <2>2. c - 1 < d
        BY <1>1, <1>2, <2>1, TimesOrder
    <2>3. QED  BY <1>1, <1>2, <2>2 DEF c, d
<1>7. CASE V < 0 /\ W > 0
    <2>1. (c - 1) * O < 0 * O /\ 0 * O < (d + 1) * O
        BY <1>1, <1>2, <1>4, <1>7
    <2>2. c - 1 < 0 /\ 0 < d + 1
        BY <1>1, <1>2, <2>1, TimesOrder
    <2>3. QED  BY <1>1, <1>2, <2>2 DEF c, d
<1>8. QED  BY <1>1, <1>2, <1>5, <1>6, <1>7

LEMMA HalvedFacts ==
    ASSUME NEW x \in Int \X Int, NEW g \in Int, g < x[2], g <= Emin
    PROVE  /\ Halved(x) \in Int \X Int /\ g <= Halved(x)[2]
           /\ At(Halved(x), g) \in Int /\ 2 * At(Halved(x), g) = At(x, g)
<1>1. CASE x[1] = 0
    <2>1. Halved(x) = Zero /\ Zero \in Int \X Int /\ Zero[1] = 0 /\ Zero[2] = Emin /\ Emin \in Int
        BY <1>1, FitDomainConstants DEF Halved, Zero
    <2>2. x[2] - g \in Nat /\ Emin - g \in Nat
        BY <2>1
    <2>3. Pow2(x[2] - g) \in Nat /\ Pow2(Emin - g) \in Nat
        BY <2>2, Pow2Step
    <2>4. At(x, g) = 0 /\ At(Zero, g) = 0
        BY <1>1, <2>1, <2>3 DEF At
    <2>5. QED  BY <2>1, <2>4
<1>2. CASE x[1] # 0
    <2> DEFINE y == <<x[1], x[2] - 1>>
    <2>1. Halved(x) = y
        BY <1>2 DEF Halved
    <2>2. y \in Int \X Int /\ y[1] = x[1] /\ y[2] = x[2] - 1 /\ x[1] \in Int
        OBVIOUS
    <2>3. y[2] - g \in Nat /\ (y[2] - g) + 1 = x[2] - g
        BY <2>2
    <2>4. Pow2(y[2] - g) \in Nat /\ Pow2(x[2] - g) = 2 * Pow2(y[2] - g)
        BY <2>3, Pow2Step
    <2>5. At(y, g) = x[1] * Pow2(y[2] - g) /\ At(x, g) = x[1] * Pow2(x[2] - g)
        BY <2>2 DEF At
    <2>6. g <= y[2]
        BY <2>2
    <2> HIDE DEF y
    <2>7. x[1] * (2 * Pow2(y[2] - g)) = 2 * (x[1] * Pow2(y[2] - g)) /\ x[1] * Pow2(y[2] - g) \in Int
        BY <2>2, <2>4
    <2>8. QED  BY <2>1, <2>2, <2>4, <2>5, <2>6, <2>7
<1>3. QED  BY <1>1, <1>2

LEMMA DoubledFacts ==
    ASSUME NEW x \in Int \X Int, NEW g \in Int, g <= x[2], g <= Emin
    PROVE  /\ Doubled(x) \in Int \X Int /\ g <= Doubled(x)[2]
           /\ At(Doubled(x), g) = 2 * At(x, g)
<1>0. x[2] - g \in Nat /\ x[1] \in Int
    OBVIOUS
<1>a. Pow2(x[2] - g) \in Nat /\ Pow2((x[2] - g) + 1) = 2 * Pow2(x[2] - g)
    BY <1>0, Pow2Step
<1>1. CASE x[1] = 0
    <2>1. Doubled(x) = Zero /\ Zero \in Int \X Int /\ Zero[1] = 0 /\ Zero[2] = Emin /\ Emin \in Int
        BY <1>1, FitDomainConstants DEF Doubled, Zero
    <2>2. Emin - g \in Nat
        BY <2>1
    <2>3. Pow2(Emin - g) \in Nat
        BY <2>2, Pow2Step
    <2>4. At(x, g) = 0 /\ At(Zero, g) = 0
        BY <1>1, <1>a, <2>1, <2>3 DEF At
    <2>5. QED  BY <2>1, <2>4
<1>2. CASE x[1] # 0
    <2> DEFINE y == <<x[1], x[2] + 1>>
    <2>1. Doubled(x) = y
        BY <1>2 DEF Doubled
    <2>2. y \in Int \X Int /\ y[1] = x[1] /\ y[2] = x[2] + 1
        OBVIOUS
    <2>3. y[2] - g = (x[2] - g) + 1 /\ g <= y[2]
        BY <2>2
    <2>4. At(y, g) = x[1] * Pow2((x[2] - g) + 1) /\ At(x, g) = x[1] * Pow2(x[2] - g)
        BY <2>2, <2>3 DEF At
    <2> HIDE DEF y
    <2>5. x[1] * (2 * Pow2(x[2] - g)) = 2 * (x[1] * Pow2(x[2] - g))
        BY <1>0, <1>a
    <2>6. QED  BY <1>a, <2>1, <2>2, <2>3, <2>4, <2>5
<1>3. QED  BY <1>1, <1>2

LEMMA FloatExact ==
    ASSUME NEW k \in Nat, k < Pow2(p), NEW g \in Int, g <= 0, g < Float(k)[2]
    PROVE  Float(k) \in Int \X Int /\ At(Float(k), g) = k * Pow2(-g)
<1>1. k \in Int /\ Abs(k) < Pow2(p) /\ 0 \in Int /\ g <= 0 /\ 0 - g = -g /\ 1 \in Nat \ {0}
    BY DEF Abs
<1>2. Float(k) = Round(k, 1, 0)
    BY DEF Float
<1>3. At(Round(k, 1, 0), g) = k * Pow2(0 - g)
    BY <1>1, <1>2, RoundExact
<1>4. Round(k, 1, 0) \in Int \X Int
    BY <1>1, RoundFloat
<1>5. QED  BY <1>1, <1>2, <1>3, <1>4

\* The middle of a bin, counted in bins, is a float.
LEMMA MiddleExact ==
    ASSUME NEW k \in Nat, 2 * k + 1 < Pow2(p),
           NEW g \in Int, g <= 0, g < -p,
           g < Float(k)[2], g < Plus(Float(k), <<Pow2(p - 1), -p>>)[2],
           g < Round(2 * k + 1, 1, -1)[2]
    PROVE  /\ Plus(Float(k), <<Pow2(p - 1), -p>>) \in Int \X Int
           /\ 2 * At(Plus(Float(k), <<Pow2(p - 1), -p>>), g) = (2 * k + 1) * Pow2(-g)
<1> DEFINE x == Float(k)
           y == <<Pow2(p - 1), -p>>
           e == Lower(x[2], y[2])
           N == At(x, e) + At(y, e)
           O == Pow2(-g)
<1>0. k < Pow2(p) /\ Pow2(p) \in Nat
    BY Precision
<1>1. x \in Int \X Int /\ At(x, g) = k * O
    BY <1>0, FloatExact
<1>2. p \in Int /\ Pow2(p - 1) \in Nat
    BY Precision
<1>3. y \in Int \X Int /\ y[1] = Pow2(p - 1) /\ y[2] = -p
    BY <1>2
<1>4. -1 - g \in Nat /\ -g \in Nat /\ (-1 - g) + 1 = -g /\ p - 1 \in Nat /\ y[2] - g \in Nat
    <2>1. p \in Nat \ {0} /\ g < -p /\ g \in Int /\ y[2] = -p
        BY <1>3, FitDomainConstants
    <2>2. QED  BY <2>1
<1>5. O \in Nat \ {0} /\ O = 2 * Pow2(-1 - g) /\ Pow2(-1 - g) \in Nat
    BY <1>4, Pow2Step
<1>6. At(y, g) = Pow2(-1 - g)
    <2>1. (p - 1) + (y[2] - g) = -1 - g
        BY <1>2, <1>3
    <2>2. Pow2((p - 1) + (y[2] - g)) = Pow2(p - 1) * Pow2(y[2] - g)
        BY <1>4, Pow2Add
    <2> HIDE DEF y
    <2>3. QED  BY <1>3, <2>1, <2>2 DEF At
<1>7. Plus(x, y) = Round(N, 1, e)
    BY DEF Plus
<1>8. e \in Int /\ g <= e /\ N \in Int /\ N * Pow2(e - g) = At(x, g) + At(y, g)
    <2>1. g <= x[2] /\ g <= y[2]
        BY <1>1, <1>3
    <2> HIDE DEF x, y
    <2>2. QED  BY <1>1, <1>3, <2>1, PlusExact
<1>9. (2 * k + 1) * Pow2(-1 - g) = N * Pow2(e - g)
    <2>1. (2 * k + 1) * Pow2(-1 - g) = k * (2 * Pow2(-1 - g)) + Pow2(-1 - g)
        BY <1>5
    <2> HIDE DEF N, e, x, y, O
    <2>2. QED  BY <1>1, <1>5, <1>6, <1>8, <2>1
<1>10. g < Round(N, 1, e)[2] /\ g < Round(2 * k + 1, 1, -1)[2]
    BY <1>7
<1> HIDE DEF x, y, e, N
<1>11. 2 * k + 1 \in Int /\ -1 \in Int /\ g <= -1 /\ 1 \in Nat \ {0}
    BY <1>4
<1>12. (2 * k + 1) * Pow2(-1 - g) \in Int /\ N * Pow2(e - g) \in Int
    BY <1>5, <1>9
<1>13. At(Round(2 * k + 1, 1, -1), g) <= At(Round(N, 1, e), g)
    BY <1>8, <1>9, <1>10, <1>11, <1>12, RoundOrder
<1>14. At(Round(N, 1, e), g) <= At(Round(2 * k + 1, 1, -1), g)
    BY <1>8, <1>9, <1>10, <1>11, <1>12, RoundOrder
<1>15. At(Round(2 * k + 1, 1, -1), g) = (2 * k + 1) * Pow2(-1 - g)
    <2>1. Abs(2 * k + 1) < Pow2(p)
        BY DEF Abs
    <2>2. QED  BY <1>10, <1>11, <2>1, RoundExact
<1>16. Round(N, 1, e) \in Int \X Int
    BY <1>8, <1>11, RoundFloat
<1>17. At(Round(N, 1, e), g) \in Int
    <2>1. g <= Round(N, 1, e)[2]
        BY <1>10, <1>16
    <2>2. QED  BY <1>16, <2>1, AtFacts
<1>18. At(Round(N, 1, e), g) = (2 * k + 1) * Pow2(-1 - g)
    BY <1>12, <1>13, <1>14, <1>15, <1>17
<1>19. 2 * ((2 * k + 1) * Pow2(-1 - g)) = (2 * k + 1) * O
    BY <1>5
<1>20. Plus(x, y) \in Int \X Int /\ 2 * At(Plus(x, y), g) = (2 * k + 1) * O
    BY <1>7, <1>16, <1>18, <1>19
<1>21. QED  BY <1>20 DEF x, y

LEMMA MinusOrder ==
    ASSUME NEW x \in Int \X Int, NEW y \in Int \X Int, NEW z \in Int \X Int,
           NEW g \in Int, g <= x[2], g <= y[2], g <= z[2], At(x, g) <= At(y, g),
           g < Minus(x, z)[2], g < Minus(y, z)[2]
    PROVE  At(Minus(x, z), g) <= At(Minus(y, z), g)
<1> DEFINE w == <<-z[1], z[2]>>
           e == Lower(x[2], w[2])
           f == Lower(y[2], w[2])
           M == At(x, e) + At(w, e)
           N == At(y, f) + At(w, f)
<1>1. w \in Int \X Int /\ w[2] = z[2]
    OBVIOUS
<1>2. Minus(x, z) = Round(M, 1, e) /\ Minus(y, z) = Round(N, 1, f)
    BY DEF Minus, Plus
<1> HIDE DEF w
<1>3. e \in Int /\ g <= e /\ M \in Int /\ M * Pow2(e - g) = At(x, g) + At(w, g)
    BY <1>1, PlusExact
<1>4. f \in Int /\ g <= f /\ N \in Int /\ N * Pow2(f - g) = At(y, g) + At(w, g)
    BY <1>1, PlusExact
<1> HIDE DEF e, f, M, N
<1>5. At(x, g) \in Int /\ At(y, g) \in Int /\ At(w, g) \in Int
    BY <1>1, AtFacts
<1>6. M * Pow2(e - g) <= N * Pow2(f - g)
    BY <1>3, <1>4, <1>5
<1>7. QED  BY <1>2, <1>3, <1>4, <1>6, RoundOrder

LEMMA TimesOrdered ==
    ASSUME NEW x \in Int \X Int, NEW y \in Int \X Int, NEW z \in Int \X Int,
           NEW g \in Int, g <= 0, g <= x[2], g <= y[2], g <= z[2],
           At(x, g) <= At(y, g), At(z, g) > 0,
           g < Times(x, z)[2], g < Times(y, z)[2]
    PROVE  At(Times(x, z), g) <= At(Times(y, z), g)
<1> DEFINE M == x[1] * z[1]
           N == y[1] * z[1]
           e == x[2] + z[2]
           f == y[2] + z[2]
           h == g + g
           c == At(z, g)
<1>a. /\ x[1] \in Int /\ y[1] \in Int /\ z[1] \in Int
      /\ x[2] - g \in Nat /\ y[2] - g \in Nat /\ z[2] - g \in Nat
      /\ e \in Int /\ f \in Int /\ h \in Int /\ h <= e /\ h <= f /\ h <= g
      /\ M \in Int /\ N \in Int
    OBVIOUS
<1>1. /\ x[1] \in Int /\ y[1] \in Int /\ z[1] \in Int
      /\ x[2] - g \in Nat /\ y[2] - g \in Nat /\ z[2] - g \in Nat
      /\ e \in Int /\ f \in Int /\ h \in Int /\ h <= e /\ h <= f /\ h <= g
      /\ M \in Int /\ N \in Int
      /\ (x[2] - g) + (z[2] - g) = e - h /\ (y[2] - g) + (z[2] - g) = f - h
    <2>1. x[2] \in Int /\ y[2] \in Int /\ z[2] \in Int
        OBVIOUS
    <2>2. (x[2] - g) + (z[2] - g) = e - h
        BY <2>1
    <2>3. (y[2] - g) + (z[2] - g) = f - h
        BY <2>1
    <2>4. QED  BY <1>a, <2>2, <2>3
<1>2. Times(x, z) = Round(M, 1, e) /\ Times(y, z) = Round(N, 1, f)
    BY DEF Times
<1>3. /\ Pow2(x[2] - g) \in Nat /\ Pow2(y[2] - g) \in Nat /\ Pow2(z[2] - g) \in Nat
      /\ Pow2(e - h) = Pow2(x[2] - g) * Pow2(z[2] - g)
      /\ Pow2(f - h) = Pow2(y[2] - g) * Pow2(z[2] - g)
    <2> HIDE DEF e, f, h, M, N, c
    <2>1. QED  BY <1>1, Pow2Add, Pow2Step
<1>4. /\ M * Pow2(e - h) = At(x, g) * c
      /\ N * Pow2(f - h) = At(y, g) * c
    <2>1. ASSUME NEW j \in Int, NEW k \in Int, NEW u \in Int, NEW v \in Int
          PROVE  (j * k) * (u * v) = (j * u) * (k * v)
        OBVIOUS
    <2>2. M * (Pow2(x[2] - g) * Pow2(z[2] - g)) = (x[1] * Pow2(x[2] - g)) * (z[1] * Pow2(z[2] - g))
        BY <1>1, <1>3, <2>1
    <2>3. N * (Pow2(y[2] - g) * Pow2(z[2] - g)) = (y[1] * Pow2(y[2] - g)) * (z[1] * Pow2(z[2] - g))
        BY <1>1, <1>3, <2>1
    <2>4. QED  BY <1>3, <2>2, <2>3 DEF At
<1>5. At(x, g) \in Int /\ At(y, g) \in Int /\ c \in Nat \ {0}
    <2>1. c \in Int
        BY AtFacts
    <2>2. At(x, g) \in Int /\ At(y, g) \in Int
        BY AtFacts
    <2>3. QED  BY <2>1, <2>2
<1>6. Round(M, 1, e) \in Int \X Int /\ Round(N, 1, f) \in Int \X Int
    <2> HIDE DEF e, f, h, M, N, c
    <2>1. 1 \in Nat \ {0}
        OBVIOUS
    <2>2. QED  BY <1>1, <2>1, RoundFloat
<1> HIDE DEF M, N, e, f, h, c
<1>7. M * Pow2(e - h) <= N * Pow2(f - h)
    <2>1. At(x, g) * c <= At(y, g) * c
        BY <1>5, TimesOrder
    <2>2. QED  BY <1>4, <2>1
<1>8. g <= Round(M, 1, e)[2] /\ g <= Round(N, 1, f)[2]
      /\ h < Round(M, 1, e)[2] /\ h < Round(N, 1, f)[2]
    BY <1>1, <1>2, <1>6
<1>9. At(Round(M, 1, e), h) <= At(Round(N, 1, f), h)
    BY <1>1, <1>7, <1>8, RoundOrder
<1>10. At(Round(M, 1, e), g) <= At(Round(N, 1, f), g)
    BY <1>1, <1>6, <1>8, <1>9, AtOrder
<1>11. QED  BY <1>2, <1>10

LEMMA LeqAt ==
    ASSUME NEW x \in Int \X Int, NEW y \in Int \X Int, NEW g \in Int, g <= x[2], g <= y[2]
    PROVE  leq(x, y) <=> At(x, g) <= At(y, g)
<1> DEFINE e == Lower(x[2], y[2])
<1>1. e \in Int /\ g <= e /\ e <= x[2] /\ e <= y[2]
    BY DEF Lower
<1>2. leq(x, y) <=> At(x, e) <= At(y, e)
    BY DEF leq
<1> HIDE DEF e
<1>3. At(x, e) <= At(y, e) <=> At(x, g) <= At(y, g)
    BY <1>1, AtOrder
<1>4. QED  BY <1>2, <1>3

-----------------------------------------------------------------------------
(* Errors in whole units                                                   *)

LEMMA NearWithin ==
    ASSUME NEW r \in Int, NEW v \in Int, Near(r, v), NEW d \in Int,
           -(Pow2(p) * d) <= v, v <= Pow2(p) * d
    PROVE  v - d <= r /\ r <= v + d
<1> DEFINE P == Pow2(p)
<1>1. P \in Nat \ {0}
    BY Precision
<1>2. /\ v >= 0 => (P - 1) * v <= P * r /\ P * r <= (P + 1) * v
      /\ v <= 0 => (P + 1) * v <= P * r /\ P * r <= (P - 1) * v
      /\ -(P * d) <= v /\ v <= P * d
    BY DEF Near
<1> HIDE DEF P
<1>3. (P - 1) * v = P * v - v /\ (P + 1) * v = P * v + v /\ P * v \in Int /\ P * r \in Int /\ P * d \in Int
    BY <1>1
<1>4. P * v - P * d <= P * r /\ P * r <= P * v + P * d
    BY <1>2, <1>3
<1>5. (v - d) * P <= r * P /\ r * P <= (v + d) * P
    <2>1. (v - d) * P = P * v - P * d /\ (v + d) * P = P * v + P * d /\ r * P = P * r
        BY <1>1
    <2>2. QED  BY <1>4, <2>1
<1>6. \A x, y \in Int : x * P <= y * P => x <= y
    <2> SUFFICES ASSUME NEW x \in Int, NEW y \in Int, x * P <= y * P, y < x PROVE FALSE
        OBVIOUS
    <2>1. y * P + P <= x * P
        BY <1>1, TimesOrder
    <2>2. x * P \in Int /\ y * P \in Int
        BY <1>1
    <2>3. QED  BY <1>1, <2>1, <2>2
<1>7. QED  BY <1>5, <1>6

\* Division of an inequality by a positive number.
LEMMA Cancel ==
    ASSUME NEW x \in Int, NEW y \in Int, NEW w \in Nat \ {0}
    PROVE  (x * w <= y * w <=> x <= y) /\ (x * w < y * w <=> x < y)
<1>1. x * w \in Int /\ y * w \in Int
    OBVIOUS
<1>2. (x <= y => x * w <= y * w) /\ (x < y => x * w + w <= y * w)
    BY TimesOrder
<1>3. (y <= x => y * w <= x * w) /\ (y < x => y * w + w <= x * w)
    BY TimesOrder
<1>4. QED  BY <1>1, <1>2, <1>3

\* Three roundings one after the other.
LEMMA ThreeRoundings ==
    ASSUME NEW P \in Nat, P >= 33,
           NEW v1 \in Nat, NEW v2 \in Nat, NEW v3 \in Nat, NEW v4 \in Nat,
           P * v1 <= (P + 1) * v2, P * v2 <= (P + 1) * v3, P * v3 <= (P + 1) * v4,
           (P - 1) * v2 <= P * v1, (P - 1) * v3 <= P * v2, (P - 1) * v4 <= P * v3
    PROVE  P * v1 <= (P + 4) * v4 /\ (P - 3) * v4 <= P * v1
<1>1. /\ (P + 1) * v2 = P * v2 + v2 /\ (P + 1) * v3 = P * v3 + v3 /\ (P + 1) * v4 = P * v4 + v4
      /\ (P - 1) * v2 = P * v2 - v2 /\ (P - 1) * v3 = P * v3 - v3 /\ (P - 1) * v4 = P * v4 - v4
      /\ (P + 4) * v4 = P * v4 + 4 * v4 /\ (P - 3) * v4 = P * v4 - 3 * v4
    OBVIOUS
<1>2. P * v1 \in Int /\ P * v2 \in Int /\ P * v3 \in Int /\ P * v4 \in Int
    OBVIOUS
<1>3. ASSUME NEW x \in Nat, NEW y \in Nat, P * x <= P * y + y
      PROVE  33 * x <= 34 * y
    <2>1. CASE x <= y
        BY <2>1
    <2>2. CASE x > y
        <3>1. 33 * (x - y) <= P * (x - y)
            BY <2>2, TimesOrder
        <3>2. P * (x - y) = P * x - P * y /\ P * x \in Int /\ P * y \in Int
            OBVIOUS
        <3>3. QED  BY <1>3, <3>1, <3>2
    <2>3. QED  BY <2>1, <2>2
<1>4. ASSUME NEW x \in Nat, NEW y \in Nat, x >= y
      PROVE  P * x >= P * y
    BY <1>4, TimesOrder
<1>5. P * v1 <= P * v4 + v4 + v3 + v2
    BY <1>1, <1>2
<1>6. 33 * v3 <= 34 * v4 /\ 33 * v2 <= 34 * v3
    BY <1>1, <1>2, <1>3
<1>7. P * v1 <= P * v4 + 4 * v4
    BY <1>2, <1>5, <1>6
<1>8. P * v1 >= P * v4 - 3 * v4
    <2>1. CASE v2 >= v4
        <3>1. P * v2 >= P * v4 /\ P * v1 >= P * v2 - v2
            BY <1>1, <1>2, <1>4, <2>1
        <3>2. CASE v2 <= 3 * v4
            BY <1>2, <3>1, <3>2
        <3>3. CASE v2 > 3 * v4
            <4>1. P * v2 - v2 = (P - 1) * v2 /\ (P - 1) * v2 >= (P - 1) * v4
                BY <1>1, <2>1, TimesOrder
            <4>2. QED  BY <1>1, <1>2, <3>1, <4>1
        <3>4. QED  BY <3>2, <3>3
    <2>2. CASE v2 < v4 /\ v3 >= v4
        <3>1. P * v2 >= (P - 1) * v3 /\ (P - 1) * v3 >= (P - 1) * v4
            BY <2>2, TimesOrder
        <3>2. QED  BY <1>1, <1>2, <2>2, <3>1
    <2>3. CASE v2 < v4 /\ v3 < v4
        BY <1>1, <1>2, <2>3
    <2>4. QED  BY <2>1, <2>2, <2>3
<1>9. QED  BY <1>1, <1>7, <1>8

\* An offset Y times a stored inverse: R2 is Y * N / T in units of O.
LEMMA Located ==
    ASSUME NEW Y \in Nat, NEW R1 \in Int, NEW R2 \in Int, NEW V \in Int,
           NEW T \in Nat \ {0}, NEW N \in Nat \ {0}, NEW O \in Nat \ {0},
           Pow2(p) >= 33,
           Near(R1, Y), Near(V * T, N * (O * O)), Near(R2 * O, R1 * V)
    PROVE  /\ R2 \in Nat /\ V \in Nat \ {0}
           /\ Pow2(p) * (R2 * T) <= (Pow2(p) + 4) * ((N * Y) * O)
           /\ (Pow2(p) - 3) * ((N * Y) * O) <= Pow2(p) * (R2 * T)
<1> DEFINE P == Pow2(p)
           v1 == (R2 * O) * T
           v2 == (R1 * V) * T
           v3 == Y * (V * T)
           v4 == Y * (N * (O * O))
<1>1. P \in Nat \ {0} /\ P >= 33
    BY Precision
<1>2. ASSUME NEW r \in Int, NEW v \in Nat, Near(r, v)
      PROVE  r \in Nat /\ P * r <= (P + 1) * v /\ (P - 1) * v <= P * r
    <2>1. P * r <= (P + 1) * v /\ (P - 1) * v <= P * r
        BY <1>2 DEF Near
    <2> HIDE DEF P
    <2>2. (P - 1) * v \in Nat
        BY <1>1
    <2>3. r >= 0
        <3> SUFFICES ASSUME r < 0 PROVE FALSE
            OBVIOUS
        <3>1. r * P < 0 * P /\ 0 * P = 0 /\ r * P = P * r
            BY <1>1, Cancel
        <3>2. P * r \in Int
            BY <1>1
        <3>3. QED  BY <2>1, <2>2, <3>1, <3>2
    <2>4. QED  BY <2>1, <2>3
<1>3. R1 \in Nat /\ P * R1 <= (P + 1) * Y /\ (P - 1) * Y <= P * R1
    BY <1>2
<1>4. O * O \in Nat \ {0} /\ N * (O * O) \in Nat \ {0}
    <2>1. O * O \in Nat \ {0}
        OBVIOUS
    <2> DEFINE o2 == O * O
    <2> HIDE DEF o2
    <2>2. o2 \in Nat \ {0} => N * o2 \in Nat \ {0}
        OBVIOUS
    <2>3. QED  BY <2>1, <2>2 DEF o2
<1>5. /\ V * T \in Nat /\ P * (V * T) <= (P + 1) * (N * (O * O))
      /\ (P - 1) * (N * (O * O)) <= P * (V * T)
    <2>1. V * T \in Int
        OBVIOUS
    <2>2. QED  BY <1>2, <1>4, <2>1
<1>6. V \in Nat \ {0}
    <2> SUFFICES ASSUME V <= 0 PROVE FALSE
        OBVIOUS
    <2>1. V * T <= 0 * T /\ 0 * T = 0
        BY Cancel
    <2>2. V * T = 0
        BY <1>5, <2>1
    <2> HIDE DEF P
    <2>3. P * 0 = 0
        BY <1>1
    <2>4. (P - 1) * (N * (O * O)) <= 0
        BY <1>5, <2>2, <2>3
    <2> DEFINE z == N * (O * O)
    <2>5. z \in Nat \ {0} /\ (P - 1) * z <= 0
        BY <1>4, <2>4
    <2> HIDE DEF z
    <2>6. P - 1 \in Nat \ {0}
        BY <1>1
    <2>7. ASSUME NEW c \in Nat \ {0}, NEW d \in Nat \ {0} PROVE c * d > 0
        OBVIOUS
    <2>8. (P - 1) * z > 0
        BY <2>5, <2>6, <2>7
    <2>9. (P - 1) * z \in Int
        BY <2>5, <2>6
    <2>10. QED  BY <2>5, <2>8, <2>9
<1>7. R1 * V \in Nat
    BY <1>3, <1>6
<1>8. /\ R2 * O \in Nat /\ P * (R2 * O) <= (P + 1) * (R1 * V)
      /\ (P - 1) * (R1 * V) <= P * (R2 * O)
    <2>1. R2 * O \in Int
        OBVIOUS
    <2>2. QED  BY <1>2, <1>7, <2>1
<1>9. R2 \in Nat
    <2> SUFFICES ASSUME R2 < 0 PROVE FALSE
        OBVIOUS
    <2>1. R2 * O < 0 * O /\ 0 * O = 0
        BY Cancel
    <2>2. QED  BY <1>8, <2>1
<1>10. ASSUME NEW x \in Nat, NEW y \in Nat, NEW c \in Nat,
              P * x <= (P + 1) * y, (P - 1) * y <= P * x
       PROVE  P * (x * c) <= (P + 1) * (y * c) /\ (P - 1) * (y * c) <= P * (x * c)
    <2> HIDE DEF P
    <2>1. P * (x * c) = (P * x) * c /\ (P + 1) * (y * c) = ((P + 1) * y) * c
          /\ (P - 1) * (y * c) = ((P - 1) * y) * c
        BY <1>1
    <2>2. P * x \in Int /\ (P + 1) * y \in Int /\ (P - 1) * y \in Int
        BY <1>1
    <2>3. CASE c = 0
        <3>1. (P * x) * c = 0 /\ ((P + 1) * y) * c = 0 /\ ((P - 1) * y) * c = 0
            BY <2>2, <2>3
        <3>2. QED  BY <2>1, <3>1
    <2>4. CASE c # 0
        <3>1. c \in Nat \ {0}
            BY <2>4
        <3>2. QED  BY <1>10, <2>1, <2>2, <3>1, TimesOrder
    <2>5. QED  BY <2>3, <2>4
<1>11. P * v1 <= (P + 1) * v2 /\ (P - 1) * v2 <= P * v1 /\ v1 \in Nat /\ v2 \in Nat
    <2>1. v1 \in Nat /\ v2 \in Nat
        BY <1>7, <1>8
    <2>2. QED  BY <1>7, <1>8, <1>10, <2>1
<1>12. P * v2 <= (P + 1) * v3 /\ (P - 1) * v3 <= P * v2 /\ v3 \in Nat
    <2>1. P * (R1 * (V * T)) <= (P + 1) * (Y * (V * T)) /\ (P - 1) * (Y * (V * T)) <= P * (R1 * (V * T))
        BY <1>3, <1>5, <1>10
    <2>2. (R1 * V) * T = R1 * (V * T) /\ v3 \in Nat
        BY <1>3, <1>5, <1>6
    <2>3. QED  BY <2>1, <2>2
<1>13. P * v3 <= (P + 1) * v4 /\ (P - 1) * v4 <= P * v3 /\ v4 \in Nat
    <2>1. P * ((V * T) * Y) <= (P + 1) * ((N * (O * O)) * Y) /\ (P - 1) * ((N * (O * O)) * Y) <= P * ((V * T) * Y)
        BY <1>4, <1>5, <1>10
    <2>2. (V * T) * Y = v3 /\ (N * (O * O)) * Y = v4 /\ v4 \in Nat
        <3>1. ASSUME NEW c \in Nat PROVE c * Y = Y * c /\ Y * c \in Nat
            OBVIOUS
        <3>2. QED  BY <1>4, <1>5, <3>1
    <2>3. QED  BY <2>1, <2>2
<1>14. v1 = (R2 * T) * O /\ v4 = ((N * Y) * O) * O
    OBVIOUS
<1> HIDE DEF v1, v2, v3, v4, P
<1>15. P * v1 <= (P + 4) * v4 /\ (P - 3) * v4 <= P * v1
    BY <1>1, <1>11, <1>12, <1>13, ThreeRoundings
<1>16. R2 * T \in Int /\ (N * Y) * O \in Int
    OBVIOUS
<1>17. (P * (R2 * T)) * O <= ((P + 4) * ((N * Y) * O)) * O /\ ((P - 3) * ((N * Y) * O)) * O <= (P * (R2 * T)) * O
    <2> DEFINE x == R2 * T
               y == (N * Y) * O
    <2>0. x \in Int /\ y \in Int /\ v1 = x * O /\ v4 = y * O
        BY <1>14, <1>16
    <2> HIDE DEF x, y
    <2>1. P * (x * O) = (P * x) * O /\ (P + 4) * (y * O) = ((P + 4) * y) * O
          /\ (P - 3) * (y * O) = ((P - 3) * y) * O
        BY <1>1, <2>0
    <2>2. (P * x) * O <= ((P + 4) * y) * O /\ ((P - 3) * y) * O <= (P * x) * O
        BY <1>15, <2>0, <2>1
    <2>3. QED  BY <2>2 DEF x, y
<1>18. P * (R2 * T) \in Int /\ (P + 4) * ((N * Y) * O) \in Int /\ (P - 3) * ((N * Y) * O) \in Int
    <2> DEFINE x == R2 * T
               y == (N * Y) * O
    <2>0. x \in Int /\ y \in Int
        BY <1>16
    <2> HIDE DEF x, y
    <2>1. P * x \in Int /\ (P + 4) * y \in Int /\ (P - 3) * y \in Int
        BY <1>1, <2>0
    <2>2. QED  BY <2>1 DEF x, y
<1>19. P * (R2 * T) <= (P + 4) * ((N * Y) * O) /\ (P - 3) * ((N * Y) * O) <= P * (R2 * T)
    BY <1>17, <1>18, Cancel
<1>20. QED  BY <1>6, <1>9, <1>19 DEF P

\* Corners A and B of at most 2^p units of U, rebuilt from a centre C and a
\* half length H, the halves of S and T.
LEMMA BoxError ==
    ASSUME NEW A \in Int, NEW B \in Int, NEW U \in Nat \ {0},
           -(Pow2(p) * U) <= A, A <= Pow2(p) * U, -(Pow2(p) * U) <= B, B <= Pow2(p) * U,
           Pow2(p) >= 33,
           NEW S \in Int, NEW T \in Int, NEW C \in Int, NEW H \in Int,
           Near(S, A + B), Near(T, B - A), 2 * C = S, 2 * H = T,
           NEW L \in Int, NEW R \in Int, Near(L, C - H), Near(R, C + H)
    PROVE  /\ A - 4 * U <= L /\ L <= A + 4 * U
           /\ B - 4 * U <= R /\ R <= B + 4 * U
           /\ B - A - 2 * U <= T /\ T <= B - A + 2 * U
           /\ R <= L + T + 4 * U
<1> DEFINE Q == Pow2(p) * U
           d == 2 * U
<1>1. Pow2(p) \in Nat \ {0}
    BY Precision
<1>2. Q \in Int /\ Pow2(p) * d = 2 * Q /\ Q >= 33 * U
    <2>1. Pow2(p) * (2 * U) = 2 * (Pow2(p) * U) /\ Pow2(p) * U \in Int
        BY <1>1
    <2>2. 33 * U <= Pow2(p) * U
        BY <1>1, TimesOrder
    <2>3. QED  BY <2>1, <2>2
<1>3. -Q <= A /\ A <= Q /\ -Q <= B /\ B <= Q /\ d \in Int /\ d = 2 * U
    OBVIOUS
<1> HIDE DEF Q, d
<1>4. A + B - d <= S /\ S <= A + B + d
    <2>1. A + B \in Int /\ -(Pow2(p) * d) <= A + B /\ A + B <= Pow2(p) * d
        BY <1>2, <1>3
    <2>2. QED  BY <1>3, <2>1, NearWithin
<1>5. B - A - d <= T /\ T <= B - A + d
    <2>1. B - A \in Int /\ -(Pow2(p) * d) <= B - A /\ B - A <= Pow2(p) * d
        BY <1>2, <1>3
    <2>2. QED  BY <1>3, <2>1, NearWithin
<1>6. C - H - d <= L /\ L <= C - H + d
    <2>1. C - H \in Int /\ -(Pow2(p) * d) <= C - H /\ C - H <= Pow2(p) * d
        BY <1>2, <1>3, <1>4, <1>5
    <2>2. QED  BY <1>3, <2>1, NearWithin
<1>7. C + H - d <= R /\ R <= C + H + d
    <2>1. C + H \in Int /\ -(Pow2(p) * d) <= C + H /\ C + H <= Pow2(p) * d
        BY <1>2, <1>3, <1>4, <1>5
    <2>2. QED  BY <1>3, <2>1, NearWithin
<1>8. QED  BY <1>3, <1>4, <1>5, <1>6, <1>7

\* Bin k of n between L and L + T: its bounds lo and hi, a half width V from
\* its centre C, which is Q from L.
LEMMA BinError ==
    ASSUME NEW n \in Nat \ {0}, NEW k \in 0 .. n - 1, NEW U \in Nat \ {0}, Pow2(p) >= 33,
           NEW L \in Int, NEW T \in Nat \ {0},
           -(Pow2(p) * U) - 4 * U <= L, L + T <= Pow2(p) * U + 10 * U,
           T <= 2 * (Pow2(p) * U),
           NEW W \in Int, NEW V \in Int, NEW Q \in Int, NEW C \in Int,
           NEW lo \in Int, NEW hi \in Int,
           Near(n * W, T), 2 * V = W, Near(2 * Q, (2 * k + 1) * W),
           Near(C, Q + L), Near(lo, C - V), Near(hi, C + V)
    PROVE  /\ 2 * (n * L) + 2 * (k * T) - 17 * (n * U) <= 2 * (n * lo)
           /\ 2 * (n * lo) <= 2 * (n * L) + 2 * (k * T) + 17 * (n * U)
           /\ 2 * (n * L) + 2 * ((k + 1) * T) - 17 * (n * U) <= 2 * (n * hi)
           /\ 2 * (n * hi) <= 2 * (n * L) + 2 * ((k + 1) * T) + 17 * (n * U)
<1> DEFINE P == Pow2(p) * U
           nW == n * W
           kW == k * W
           d == 2 * U
           f == 5 * U
<1>1. Pow2(p) \in Nat \ {0}
    BY Precision
<1>2. /\ P \in Int /\ P >= 33 * U /\ Pow2(p) * d = 2 * P /\ Pow2(p) * f = 5 * P
      /\ d \in Int /\ f \in Int /\ d = 2 * U /\ f = 5 * U
    <2>1. Pow2(p) * (2 * U) = 2 * (Pow2(p) * U) /\ Pow2(p) * (5 * U) = 5 * (Pow2(p) * U)
          /\ Pow2(p) * U \in Int
        BY <1>1
    <2>2. 33 * U <= Pow2(p) * U
        BY <1>1, TimesOrder
    <2>3. QED  BY <2>1, <2>2
<1>3. -P - 4 * U <= L /\ L + T <= P + 10 * U /\ T <= 2 * P /\ nW \in Int /\ kW \in Int
    OBVIOUS
<1>4. (2 * k + 1) * W = 2 * kW + W
    OBVIOUS
<1>5. k * T \in Int /\ (k + 1) * T = k * T + T /\ n * L \in Int /\ n * lo \in Int /\ n * hi \in Int
    OBVIOUS
<1> HIDE DEF P, d, f
<1>6. T - d <= nW /\ nW <= T + d
    BY <1>2, <1>3, NearWithin
<1>7. W >= 0
    <2> SUFFICES ASSUME W < 0 PROVE FALSE
        OBVIOUS
    <2>1. (Pow2(p) - 1) * T <= Pow2(p) * (n * W)
        BY DEF Near
    <2>2. W * n < 0 * n /\ 0 * n = 0 /\ W * n = n * W /\ n * W \in Int
        BY Cancel
    <2> DEFINE w == n * W
               e == Pow2(p)
    <2>3. w < 0 /\ w \in Int /\ (e - 1) * T <= e * w
        BY <2>1, <2>2
    <2> HIDE DEF w, e
    <2>4. e \in Nat \ {0}
        BY <1>1 DEF e
    <2>5. w * e < 0 * e /\ 0 * e = 0 /\ w * e = e * w /\ e * w \in Int
        BY <2>3, <2>4, Cancel
    <2>6. (e - 1) * T \in Nat
        BY <2>4
    <2>7. QED  BY <2>3, <2>5, <2>6
<1>8. 0 <= kW /\ kW + W <= nW
    <2>1. CASE W = 0
        BY <2>1
    <2>2. CASE W > 0
        <3>1. W \in Nat \ {0} /\ 0 \in Int /\ k \in Int /\ n \in Int /\ 0 <= k /\ k < n
            BY <2>2
        <3>2. 0 * W <= k * W /\ k * W + W <= n * W
            BY <3>1, TimesOrder
        <3>3. QED  BY <3>2
    <2>3. QED  BY <1>7, <2>1, <2>2
<1> DEFINE v == 2 * kW + W
<1>9. v \in Int /\ 0 <= v /\ v <= 2 * nW
    BY <1>3, <1>7, <1>8
<1>10. v - f <= 2 * Q /\ 2 * Q <= v + f
    <2>1. -(Pow2(p) * f) <= v /\ v <= Pow2(p) * f
        BY <1>2, <1>3, <1>6, <1>9
    <2>2. Near(2 * Q, v) /\ 2 * Q \in Int
        BY <1>4
    <2> HIDE DEF v
    <2>3. QED  BY <1>2, <1>9, <2>1, <2>2, NearWithin
<1>11. Q + L - d <= C /\ C <= Q + L + d
    <2>1. Q + L \in Int /\ -(Pow2(p) * d) <= Q + L /\ Q + L <= Pow2(p) * d
        BY <1>2, <1>3, <1>6, <1>9, <1>10
    <2>2. QED  BY <1>2, <2>1, NearWithin
<1>12. C - V - d <= lo /\ lo <= C - V + d
    <2>1. C - V \in Int /\ -(Pow2(p) * d) <= C - V /\ C - V <= Pow2(p) * d
        BY <1>2, <1>3, <1>6, <1>8, <1>10, <1>11
    <2>2. QED  BY <1>2, <2>1, NearWithin
<1>13. C + V - d <= hi /\ hi <= C + V + d
    <2>1. C + V \in Int /\ -(Pow2(p) * d) <= C + V /\ C + V <= Pow2(p) * d
        BY <1>2, <1>3, <1>6, <1>8, <1>10, <1>11
    <2>2. QED  BY <1>2, <2>1, NearWithin
<1>14. /\ 2 * L + 2 * kW - 13 * U <= 2 * lo /\ 2 * lo <= 2 * L + 2 * kW + 13 * U
       /\ 2 * L + 2 * (kW + W) - 13 * U <= 2 * hi /\ 2 * hi <= 2 * L + 2 * (kW + W) + 13 * U
    BY <1>2, <1>3, <1>10, <1>11, <1>12, <1>13
<1>15. ASSUME NEW x \in Int, NEW j \in Nat, j <= n,
              2 * L + 2 * (j * W) - 13 * U <= 2 * x, 2 * x <= 2 * L + 2 * (j * W) + 13 * U
       PROVE  /\ 2 * (n * L) + 2 * (j * T) - 17 * (n * U) <= 2 * (n * x)
              /\ 2 * (n * x) <= 2 * (n * L) + 2 * (j * T) + 17 * (n * U)
    <2>1. j * W \in Int /\ j * T \in Int /\ n * x \in Int /\ n * U \in Int /\ j * U \in Int /\ n * L \in Int
        OBVIOUS
    <2> DEFINE y == 2 * L + 2 * (j * W) - 13 * U
               z == 2 * L + 2 * (j * W) + 13 * U
    <2>2. y \in Int /\ z \in Int
        BY <2>1
    <2>3. y * n <= (2 * x) * n /\ (2 * x) * n <= z * n
        <3> HIDE DEF y, z
        <3>1. y <= 2 * x /\ 2 * x <= z
            BY <1>15 DEF y, z
        <3>2. QED  BY <2>2, <3>1, TimesOrder
    <2>4. y * n = 2 * (n * L) + 2 * (j * nW) - 13 * (n * U) /\ z * n = 2 * (n * L) + 2 * (j * nW) + 13 * (n * U)
          /\ (2 * x) * n = 2 * (n * x) /\ j * nW \in Int
        <3>1. ASSUME NEW c \in Int
              PROVE  /\ (2 * L + 2 * c - 13 * U) * n = 2 * (n * L) + 2 * (c * n) - 13 * (n * U)
                     /\ (2 * L + 2 * c + 13 * U) * n = 2 * (n * L) + 2 * (c * n) + 13 * (n * U)
            OBVIOUS
        <3>2. (j * W) * n = j * nW
            OBVIOUS
        <3>3. (2 * x) * n = 2 * (n * x) /\ j * nW \in Int
            BY <1>3
        <3>4. QED  BY <2>1, <3>1, <3>2, <3>3
    <2> HIDE DEF y, z
    <2>5. j * T - 2 * (j * U) <= j * nW /\ j * nW <= j * T + 2 * (j * U)
        <3> HIDE DEF nW
        <3>1. CASE j = 0
            BY <1>3, <3>1
        <3>2. CASE j # 0
            <4>1. j \in Nat \ {0}
                BY <3>2
            <4>2. T - 2 * U <= nW /\ nW <= T + 2 * U
                BY <1>2, <1>6
            <4>3. (T - 2 * U) * j <= nW * j /\ nW * j <= (T + 2 * U) * j
                BY <1>3, <4>1, <4>2, TimesOrder
            <4>4. (T - 2 * U) * j = j * T - 2 * (j * U) /\ (T + 2 * U) * j = j * T + 2 * (j * U) /\ nW * j = j * nW
                BY <1>3
            <4>5. QED  BY <4>3, <4>4
        <3>3. QED  BY <3>1, <3>2
    <2>6. j * U <= n * U
        BY <1>15, TimesOrder
    <2> HIDE DEF nW, kW
    <2>7. QED  BY <2>1, <2>3, <2>4, <2>5, <2>6
<1>16. (k + 1) * W = kW + W
    OBVIOUS
<1>17. /\ 2 * (n * L) + 2 * (k * T) - 17 * (n * U) <= 2 * (n * lo)
       /\ 2 * (n * lo) <= 2 * (n * L) + 2 * (k * T) + 17 * (n * U)
    BY <1>14, <1>15
<1>18. /\ 2 * (n * L) + 2 * ((k + 1) * T) - 17 * (n * U) <= 2 * (n * hi)
       /\ 2 * (n * hi) <= 2 * (n * L) + 2 * ((k + 1) * T) + 17 * (n * U)
    <2>1. k + 1 \in Nat /\ k + 1 <= n
        OBVIOUS
    <2>2. 2 * L + 2 * ((k + 1) * W) - 13 * U <= 2 * hi /\ 2 * hi <= 2 * L + 2 * ((k + 1) * W) + 13 * U
        BY <1>14, <1>16
    <2>3. QED  BY <1>15, <2>1, <2>2
<1>19. QED  BY <1>17, <1>18

\* The index c that an offset Y gets, in steps of T / N.
LEMMA IndexError ==
    ASSUME NEW Y \in Nat, NEW R2 \in Nat, NEW T \in Nat \ {0}, NEW N \in Nat \ {0},
           NEW O \in Nat \ {0}, NEW e \in Nat, NEW c \in Nat, Pow2(p) >= 33,
           Pow2(p) * (R2 * T) <= (Pow2(p) + 4) * ((N * Y) * O),
           (Pow2(p) - 3) * ((N * Y) * O) <= Pow2(p) * (R2 * T),
           4 * Y <= Pow2(p) * e
    PROVE  /\ c * O <= R2 => c * T <= N * Y + N * e
           /\ R2 < (c + 1) * O => N * Y <= (c + 1) * T + N * e
<1> DEFINE P == Pow2(p)
           z == N * Y
           w == N * e
<1>1. P \in Nat \ {0} /\ P >= 33
    BY Precision
<1>2. z \in Nat /\ w \in Nat
    OBVIOUS
<1>3. 4 * z <= P * w /\ P * w \in Int
    <2> HIDE DEF P
    <2>1. (4 * Y) * N <= (P * e) * N
        <3>1. 4 * Y \in Int /\ P * e \in Int /\ 4 * Y <= P * e
            BY <1>1 DEF P
        <3>2. QED  BY <3>1, TimesOrder
    <2>2. (4 * Y) * N = 4 * z /\ (P * e) * N = P * w /\ P * w \in Int
        BY <1>1
    <2>3. QED  BY <2>1, <2>2
<1>4. P * (R2 * T) <= (P + 4) * (z * O) /\ (P - 3) * (z * O) <= P * (R2 * T)
    OBVIOUS
<1> HIDE DEF P, z, w
<1>5. ASSUME NEW j \in Nat
      PROVE  (j * O) * T = (j * T) * O /\ (j * O) * T \in Int /\ j * T \in Int /\ R2 * T \in Int
             /\ j * O \in Int /\ P * (j * T) \in Int /\ P * ((j * T) * O) = (P * (j * T)) * O
             /\ (P + 4) * (z * O) = ((P + 4) * z) * O /\ (P - 3) * (z * O) = ((P - 3) * z) * O
             /\ (P + 4) * z \in Int /\ (P - 3) * z \in Int
             /\ (P + 4) * z = P * z + 4 * z /\ (P - 3) * z = P * z - 3 * z /\ P * z \in Int
             /\ P * (R2 * T) \in Int /\ (j * T) * O \in Int
    <2>1. (j * O) * T = (j * T) * O /\ (j * O) * T \in Int /\ j * T \in Int /\ R2 * T \in Int /\ j * O \in Int
        OBVIOUS
    <2> DEFINE y == j * T
               x == R2 * T
    <2>2. y \in Int /\ x \in Int
        BY <2>1
    <2> HIDE DEF y, x
    <2>3. P * y \in Int /\ P * (y * O) = (P * y) * O /\ P * x \in Int /\ y * O \in Int
        BY <1>1, <2>2
    <2>4. (P + 4) * (z * O) = ((P + 4) * z) * O /\ (P - 3) * (z * O) = ((P - 3) * z) * O
          /\ (P + 4) * z \in Int /\ (P - 3) * z \in Int
          /\ (P + 4) * z = P * z + 4 * z /\ (P - 3) * z = P * z - 3 * z /\ P * z \in Int
        BY <1>1, <1>2
    <2>5. QED  BY <2>1, <2>3, <2>4 DEF y, x
<1>6. ASSUME c * O <= R2 PROVE c * T <= z + w
    <2>1. (c * O) * T <= R2 * T
        BY <1>5, <1>6, TimesOrder
    <2>2. ((c * T) * O) * P <= (R2 * T) * P
        BY <1>1, <1>5, <2>1, TimesOrder
    <2>3. ((c * T) * O) * P = P * ((c * T) * O) /\ (R2 * T) * P = P * (R2 * T)
        BY <1>1, <1>5
    <2>4. (P * (c * T)) * O <= ((P + 4) * z) * O
        <3>1. P * ((c * T) * O) = (P * (c * T)) * O /\ (P + 4) * (z * O) = ((P + 4) * z) * O
              /\ P * (R2 * T) \in Int /\ P * (c * T) \in Int /\ (P + 4) * z \in Int
            BY <1>5
        <3>2. (P * (c * T)) * O <= P * (R2 * T)
            BY <2>2, <2>3, <3>1
        <3>3. P * (R2 * T) <= ((P + 4) * z) * O
            BY <1>4, <3>1
        <3> DEFINE x == (P * (c * T)) * O
                   y == ((P + 4) * z) * O
        <3>4. x \in Int /\ y \in Int
            BY <3>1
        <3> HIDE DEF x, y
        <3>5. x <= P * (R2 * T) /\ P * (R2 * T) <= y
            BY <3>2, <3>3 DEF x, y
        <3>6. x <= y
            BY <3>1, <3>4, <3>5
        <3>7. QED  BY <3>6 DEF x, y
    <2>5. P * (c * T) <= (P + 4) * z
        <3>1. P * (c * T) \in Int /\ (P + 4) * z \in Int
            BY <1>5
        <3>2. QED  BY <2>4, <3>1, Cancel
    <2>6. P * (c * T) <= P * z + P * w
        BY <1>2, <1>3, <1>5, <2>5
    <2>7. (c * T) * P <= (z + w) * P
        <3>1. c * T \in Int
            BY <1>5
        <3>2. (c * T) * P = P * (c * T) /\ (z + w) * P = P * z + P * w
            BY <1>1, <1>2, <3>1
        <3>3. QED  BY <2>6, <3>2
    <2>8. QED  BY <1>1, <1>2, <1>5, <2>7, Cancel
<1>7. ASSUME R2 < (c + 1) * O PROVE z <= (c + 1) * T + w
    <2> DEFINE j == c + 1
    <2>0. j \in Nat /\ R2 < j * O
        BY <1>7
    <2> HIDE DEF j
    <2>1. R2 * T <= (j * O) * T
        BY <1>5, <2>0, TimesOrder
    <2>2. (R2 * T) * P <= ((j * T) * O) * P
        BY <1>1, <1>5, <2>0, <2>1, TimesOrder
    <2>3. ((j * T) * O) * P = P * ((j * T) * O) /\ (R2 * T) * P = P * (R2 * T)
        BY <1>1, <1>5, <2>0
    <2>4. ((P - 3) * z) * O <= (P * (j * T)) * O
        <3>1. P * ((j * T) * O) = (P * (j * T)) * O /\ (P - 3) * (z * O) = ((P - 3) * z) * O
              /\ P * (R2 * T) \in Int /\ P * (j * T) \in Int /\ (P - 3) * z \in Int
            BY <1>5, <2>0
        <3>2. P * (R2 * T) <= (P * (j * T)) * O
            BY <2>2, <2>3, <3>1
        <3>3. ((P - 3) * z) * O <= P * (R2 * T)
            BY <1>4, <3>1
        <3> DEFINE x == (P * (j * T)) * O
                   y == ((P - 3) * z) * O
        <3>4. x \in Int /\ y \in Int
            BY <3>1
        <3> HIDE DEF x, y
        <3>5. y <= P * (R2 * T) /\ P * (R2 * T) <= x
            BY <3>2, <3>3 DEF x, y
        <3>6. y <= x
            BY <3>1, <3>4, <3>5
        <3>7. QED  BY <3>6 DEF x, y
    <2>5. (P - 3) * z <= P * (j * T)
        <3>1. P * (j * T) \in Int /\ (P - 3) * z \in Int
            BY <1>5, <2>0
        <3>2. QED  BY <2>4, <3>1, Cancel
    <2>6. P * z <= P * (j * T) + P * w
        BY <1>2, <1>3, <1>5, <2>0, <2>5
    <2>7. z * P <= (j * T + w) * P
        <3>1. j * T \in Int
            BY <1>5, <2>0
        <3>2. z * P = P * z /\ (j * T + w) * P = P * (j * T) + P * w
            BY <1>1, <1>2, <3>1
        <3>3. QED  BY <2>6, <3>2
    <2>8. z <= j * T + w
        BY <1>1, <1>2, <1>5, <2>0, <2>7, Cancel
    <2>9. QED  BY <2>8 DEF j
<1>8. QED  BY <1>6, <1>7 DEF z, w

\* The cell of a point X that is at most 18 units outside lo .. hi.
LEMMA CellError ==
    ASSUME NEW M \in Nat \ {0}, NEW U \in Nat \ {0}, NEW O \in Nat \ {0}, Pow2(p) >= 33,
           NEW lo \in Int, NEW hi \in Int, NEW X \in Int,
           45 * (M * U) <= hi - lo, hi - lo <= 2 * (Pow2(p) * U) + 20 * U,
           lo - 18 * U <= X, X <= hi + 18 * U,
           NEW T \in Int, NEW V \in Int, NEW R1 \in Int, NEW R2 \in Int, NEW q \in Int,
           Near(T, hi - lo), Near(V * T, M * (O * O)),
           Near(R1, X - lo), Near(R2 * O, R1 * V),
           R2 >= 0 => q * O <= R2 /\ R2 < (q + 1) * O,
           R2 <= 0 => (q - 1) * O < R2 /\ R2 <= q * O
    PROVE  LET c == Clamped(q, M - 1)
           IN  /\ c \in 0 .. M - 1
               /\ c * (hi - lo) - 18 * (M * U) <= M * (X - lo)
               /\ M * (X - lo) <= (c + 1) * (hi - lo) + 18 * (M * U)
<1> DEFINE P == Pow2(p)
           c == Clamped(q, M - 1)
           s == hi - lo
           mU == M * U
           PU == P * U
<1>1. P \in Nat \ {0} /\ P >= 33
    BY Precision
<1>2. /\ s \in Int /\ mU \in Nat \ {0} /\ mU >= U /\ PU \in Nat /\ PU >= 33 * U
    <2>1. s \in Int /\ mU \in Nat \ {0}
        OBVIOUS
    <2>2. 1 * U <= M * U
        BY TimesOrder
    <2> HIDE DEF P
    <2>3. PU \in Nat
        BY <1>1
    <2>4. 33 * U <= P * U
        BY <1>1, TimesOrder
    <2>5. QED  BY <2>1, <2>2, <2>3, <2>4
<1>3. 45 * mU <= s /\ s <= 2 * PU + 20 * U
    OBVIOUS
<1>4. s - 3 * U <= T /\ T <= s + 3 * U
    <2>1. 3 * U \in Int /\ P * (3 * U) = 3 * PU
        BY <1>1
    <2> HIDE DEF s, PU
    <2>2. -(P * (3 * U)) <= s /\ s <= P * (3 * U)
        BY <1>2, <1>3, <2>1
    <2>3. Near(T, s)
        BY DEF s
    <2>4. QED  BY <1>2, <2>1, <2>2, <2>3, NearWithin DEF P
<1>5. T \in Nat \ {0} /\ T >= 42 * mU
    <2> HIDE DEF mU, s
    <2>1. QED  BY <1>2, <1>3, <1>4
<1>6. q \in Nat => c \in 0 .. M - 1 /\ c <= q /\ (c = q \/ c = M - 1)
    BY DEF Clamped
<1> HIDE DEF c
<1>7. CASE X >= lo
    <2> DEFINE Y == X - lo
    <2>1. Y \in Nat /\ Near(R1, Y)
        BY <1>7
    <2>2. Y <= T + 21 * U /\ 4 * Y <= 14 * PU
        <3> HIDE DEF PU
        <3>1. X - lo <= s + 18 * U
            OBVIOUS
        <3> HIDE DEF s
        <3>2. QED  BY <1>2, <1>3, <1>4, <2>1, <3>1
    <2> HIDE DEF Y
    <2>3. /\ R2 \in Nat
          /\ P * (R2 * T) <= (P + 4) * ((M * Y) * O) /\ (P - 3) * ((M * Y) * O) <= P * (R2 * T)
        BY <1>1, <1>5, <2>1, Located
    <2>4. q * O <= R2 /\ R2 < (q + 1) * O
        BY <2>3
    <2>5. q \in Nat
        <3>1. 0 * O < (q + 1) * O
            <4>1. 0 * O = 0 /\ (q + 1) * O \in Int
                OBVIOUS
            <4>2. QED  BY <2>3, <2>4, <4>1
        <3>2. 0 < q + 1
            BY <3>1, Cancel
        <3>3. QED  BY <3>2
    <2>6. c \in 0 .. M - 1 /\ c <= q /\ (c = q \/ c = M - 1)
        BY <1>6, <2>5
    <2>7. c \in Nat /\ c * O <= R2
        <3>1. c * O <= q * O
            BY <2>5, <2>6, TimesOrder
        <3>2. c * O \in Int /\ q * O \in Int
            BY <2>5, <2>6
        <3>3. QED  BY <2>3, <2>4, <2>6, <3>1, <3>2
    <2> DEFINE e == 14 * U
    <2>8. e \in Nat /\ 4 * Y <= P * e
        <3>1. P * (14 * U) = 14 * PU
            BY <1>1
        <3>2. QED  BY <2>2, <3>1
    <2> HIDE DEF e
    <2>9. /\ c * T <= M * Y + M * e
          /\ R2 < (c + 1) * O => M * Y <= (c + 1) * T + M * e
        BY <1>1, <1>5, <2>1, <2>3, <2>7, <2>8, IndexError
    <2>10. M * e = 14 * mU
        BY DEF e
    <2>11. /\ c * T \in Int /\ M * Y \in Int /\ (c + 1) * T = c * T + T /\ c * s \in Int /\ (c + 1) * s = c * s + s
        <3> HIDE DEF s
        <3>1. QED  BY <1>2, <1>5, <2>1, <2>7
    <2>12. /\ c * s - 3 * (c * U) <= c * T /\ c * T <= c * s + 3 * (c * U)
           /\ c * U \in Int /\ c * U + U <= mU /\ c * U >= 0
        <3> HIDE DEF s, mU
        <3>1. CASE c = 0
            BY <1>2, <1>5, <3>1
        <3>2. CASE c # 0
            <4>1. c \in Nat \ {0}
                BY <2>7, <3>2
            <4>2. (s - 3 * U) * c <= T * c /\ T * c <= (s + 3 * U) * c
                BY <1>2, <1>4, <1>5, <4>1, TimesOrder
            <4>3. (s - 3 * U) * c = c * s - 3 * (c * U) /\ (s + 3 * U) * c = c * s + 3 * (c * U) /\ T * c = c * T
                BY <1>2, <1>5, <4>1
            <4>4. c * U + U <= M * U
                BY <2>6, <4>1, TimesOrder
            <4>5. c * U \in Nat
                BY <4>1
            <4>6. QED  BY <4>2, <4>3, <4>4, <4>5 DEF mU
        <3>3. QED  BY <3>1, <3>2
    <2>13. c * s - 18 * mU <= M * Y
        <3> HIDE DEF s, mU
        <3>1. QED  BY <1>2, <2>9, <2>10, <2>11, <2>12
    <2>14. M * Y <= (c + 1) * s + 18 * mU
        <3>1. CASE c = q
            <4> HIDE DEF s, mU
            <4>1. M * Y <= c * T + T + 14 * mU
                BY <2>4, <2>9, <2>10, <2>11, <3>1
            <4>2. QED  BY <1>2, <1>4, <2>11, <2>12, <4>1
        <3>2. CASE c = M - 1
            <4>1. Y <= s + 18 * U
                BY DEF Y
            <4>2. (c + 1) * s = M * s
                BY <2>7, <3>2
            <4> HIDE DEF s
            <4>3. Y * M <= (s + 18 * U) * M
                BY <1>2, <2>1, <4>1, TimesOrder
            <4>4. Y * M = M * Y /\ (s + 18 * U) * M = M * s + 18 * mU
                BY <1>2, <2>1
            <4>5. QED  BY <4>2, <4>3, <4>4
        <3>3. QED  BY <2>6, <3>1, <3>2
    <2>15. QED  BY <2>6, <2>13, <2>14 DEF Y, c
<1>8. CASE X < lo
    <2> DEFINE Y == lo - X
               S1 == -R1
               S2 == -R2
    <2>1. Y \in Nat /\ Y <= 18 * U /\ S1 \in Int /\ S2 \in Int
        BY <1>8
    <2>2. Near(S1, Y)
        <3>1. Near(-R1, -(X - lo)) /\ -(X - lo) = lo - X
            BY NearNegated
        <3>2. QED  BY <3>1
    <2>3. Near(S2 * O, S1 * V)
        <3>1. R2 * O \in Int /\ R1 * V \in Int
            OBVIOUS
        <3>2. Near(-(R2 * O), -(R1 * V))
            BY <3>1, NearNegated
        <3>3. -(R2 * O) = (-R2) * O /\ -(R1 * V) = (-R1) * V
            OBVIOUS
        <3>4. QED  BY <3>2, <3>3
    <2> HIDE DEF Y, S1, S2
    <2>4. /\ S2 \in Nat
          /\ P * (S2 * T) <= (P + 4) * ((M * Y) * O)
        BY <1>1, <1>5, <2>1, <2>2, <2>3, Located
    <2>5. (P + 4) * (M * Y) < P * T
        <3>1. Y * M <= (18 * U) * M
            BY <2>1, TimesOrder
        <3>2. M * Y <= 18 * mU /\ M * Y \in Nat
            BY <2>1, <3>1
        <3> DEFINE y == M * Y
        <3> HIDE DEF y, mU, P
        <3>3. y \in Int /\ y <= 18 * mU
            BY <3>2 DEF y
        <3>4. y * (P + 4) <= (18 * mU) * (P + 4)
            BY <1>1, <1>2, <3>3, TimesOrder
        <3>5. (42 * mU) * P <= T * P
            BY <1>1, <1>2, <1>5, TimesOrder
        <3>6. (18 * mU) * (P + 4) = 18 * (mU * P) + 72 * mU /\ (42 * mU) * P = 42 * (mU * P)
              /\ mU * P \in Int /\ y * (P + 4) = (P + 4) * y /\ T * P = P * T /\ P * T \in Int /\ (P + 4) * y \in Int
            BY <1>1, <1>2, <1>5, <3>3
        <3>7. 33 * mU <= P * mU /\ P * mU = mU * P
            BY <1>1, <1>2, TimesOrder
        <3>8. (P + 4) * y < P * T
            BY <1>2, <3>4, <3>5, <3>6, <3>7
        <3>9. QED  BY <3>8 DEF y
    <2>6. S2 < O
        <3> DEFINE y == M * Y
        <3>1. y \in Int
            BY <2>1
        <3>2. P * (S2 * T) <= (P + 4) * (y * O) /\ (P + 4) * y < P * T
            BY <2>4, <2>5
        <3> HIDE DEF y, P
        <3>3. (P + 4) * (y * O) = ((P + 4) * y) * O /\ (P + 4) * y \in Int /\ P * T \in Int
            BY <1>1, <1>5, <3>1
        <3>4. ((P + 4) * y) * O < (P * T) * O
            BY <3>2, <3>3, Cancel
        <3>5. P * (S2 * T) = S2 * (P * T) /\ (P * T) * O = O * (P * T) /\ P * (S2 * T) \in Int /\ O * (P * T) \in Int
            BY <1>1, <1>5, <2>4
        <3>6. ((P + 4) * y) * O \in Int
            BY <3>3
        <3>7. S2 * (P * T) < O * (P * T)
            BY <3>2, <3>3, <3>4, <3>5, <3>6
        <3>8. P * T \in Nat \ {0}
            BY <1>1, <1>5
        <3>9. QED  BY <2>4, <3>7, <3>8, Cancel
    <2>7. R2 <= 0 /\ -O < R2
        BY <2>4, <2>6 DEF S2
    <2>8. q = 0
        <3>1. (q - 1) * O < R2 /\ R2 <= q * O
            BY <2>7
        <3>2. 0 * O = 0 /\ (-1) * O = -O /\ (q - 1) * O \in Int /\ q * O \in Int
            OBVIOUS
        <3>3. (q - 1) * O < 0 * O /\ (-1) * O < q * O
            BY <2>7, <3>1, <3>2
        <3>4. q - 1 < 0 /\ -1 < q
            BY <3>3, Cancel
        <3>5. QED  BY <3>4
    <2>9. c = 0
        <3>1. c \in 0 .. M - 1 /\ c <= q
            BY <1>6, <2>8
        <3>2. QED  BY <2>8, <3>1
    <2>10. -(18 * mU) <= M * (X - lo) /\ M * (X - lo) <= 0
        <3>1. Y * M <= (18 * U) * M /\ 0 * M <= Y * M
            BY <2>1, TimesOrder
        <3>2. M * (X - lo) = -(Y * M) /\ (18 * U) * M = 18 * mU /\ 0 * M = 0 /\ Y * M \in Int
            BY <2>1 DEF Y
        <3>3. QED  BY <3>1, <3>2
    <2>11. 0 * s = 0 /\ (0 + 1) * s = s
        BY <1>2
    <2>12. M * (X - lo) \in Int
        OBVIOUS
    <2>13. c \in 0 .. M - 1 /\ c * s - 18 * mU <= M * (X - lo)
        BY <1>2, <2>9, <2>10, <2>11
    <2>14. M * (X - lo) <= (c + 1) * s + 18 * mU
        <3> HIDE DEF mU, s
        <3>1. QED  BY <1>2, <1>3, <2>9, <2>10, <2>11, <2>12
    <2>15. QED  BY <2>13, <2>14 DEF c
<1>9. QED  BY <1>7, <1>8

\* The bin of a point X between L and L + T + 4 * U.
LEMMA BinOfPoint ==
    ASSUME NEW n \in Nat \ {0}, NEW U \in Nat \ {0}, NEW O \in Nat \ {0}, Pow2(p) >= 33,
           NEW L \in Int, NEW T \in Nat \ {0}, NEW X \in Int,
           T <= 2 * (Pow2(p) * U), L <= X, X <= L + T + 4 * U,
           NEW V \in Int, NEW R1 \in Int, NEW R2 \in Int, NEW q \in Int,
           Near(V * T, n * (O * O)), Near(R1, X - L), Near(R2 * O, R1 * V),
           R2 >= 0 => q * O <= R2 /\ R2 < (q + 1) * O
    PROVE  LET k == Clamped(q, n - 1)
           IN  /\ k \in 0 .. n - 1
               /\ k * T <= n * (X - L) + 9 * (n * U)
               /\ n * (X - L) <= (k + 1) * T + 9 * (n * U)
<1> DEFINE P == Pow2(p)
           k == Clamped(q, n - 1)
           Y == X - L
           e == 9 * U
           nU == n * U
<1>1. P \in Nat \ {0} /\ P >= 33
    BY Precision
<1>2. Y \in Nat /\ e \in Nat /\ n * e = 9 * nU /\ nU \in Nat /\ Y <= T + 4 * U
    OBVIOUS
<1>3. 4 * Y <= P * e
    <2>1. P * e = 9 * (P * U) /\ P * U \in Int
        BY <1>1
    <2>2. 33 * U <= P * U
        BY <1>1, TimesOrder
    <2>3. T <= 2 * (P * U)
        OBVIOUS
    <2> HIDE DEF P, e, Y
    <2>4. QED  BY <1>2, <2>1, <2>2, <2>3
<1> HIDE DEF e
<1>4. /\ R2 \in Nat
      /\ P * (R2 * T) <= (P + 4) * ((n * Y) * O) /\ (P - 3) * ((n * Y) * O) <= P * (R2 * T)
    BY <1>1, <1>2, Located
<1>5. q * O <= R2 /\ R2 < (q + 1) * O
    BY <1>4
<1>6. q \in Nat
    <2>1. 0 * O = 0 /\ (q + 1) * O \in Int
        OBVIOUS
    <2>2. 0 * O < (q + 1) * O
        BY <1>4, <1>5, <2>1
    <2>3. 0 < q + 1
        BY <2>2, Cancel
    <2>4. QED  BY <2>3
<1>7. k \in 0 .. n - 1 /\ k <= q /\ (k = q \/ k = n - 1)
    BY <1>6 DEF Clamped
<1> HIDE DEF k
<1>8. k \in Nat /\ k * O <= R2
    <2>1. k * O <= q * O
        BY <1>6, <1>7, TimesOrder
    <2>2. k * O \in Int /\ q * O \in Int
        BY <1>6, <1>7
    <2>3. QED  BY <1>4, <1>5, <1>7, <2>1, <2>2
<1>9. /\ k * T <= n * Y + n * e
      /\ R2 < (k + 1) * O => n * Y <= (k + 1) * T + n * e
    <2> HIDE DEF Y
    <2>1. QED  BY <1>1, <1>2, <1>3, <1>4, <1>8, IndexError
<1>10. n * Y <= (k + 1) * T + 9 * nU
    <2>1. CASE k = q
        BY <1>2, <1>5, <1>9, <2>1
    <2>2. CASE k = n - 1
        <3>1. k + 1 = n
            BY <2>2
        <3> HIDE DEF Y
        <3>2. Y * n <= (T + 4 * U) * n
            BY <1>2, TimesOrder
        <3>3. Y * n = n * Y /\ (T + 4 * U) * n = n * T + 4 * nU /\ n * T \in Int
            BY <1>2
        <3>4. QED  BY <1>2, <3>1, <3>2, <3>3
    <2>3. QED  BY <1>7, <2>1, <2>2
<1>11. QED  BY <1>2, <1>7, <1>9, <1>10 DEF k

-----------------------------------------------------------------------------
(* The numbers of a fit                                                    *)

\* A unit below every exponent at hand.
LEMMA LowUnit ==
    ASSUME NEW e1 \in Int, NEW e2 \in Int, NEW e3 \in Int, NEW e4 \in Int,
           NEW e5 \in Int, NEW e6 \in Int
    PROVE  \E g \in Int : g < 0 /\ g < e1 /\ g < e2 /\ g < e3 /\ g < e4 /\ g < e5 /\ g < e6
<1>1. ASSUME NEW d \in Int, NEW e \in Int PROVE \E g \in Int : g <= d /\ g < e
    <2>1. CASE d < e
        BY <2>1
    <2>2. CASE e <= d
        <3>1. e - 1 \in Int /\ e - 1 <= d /\ e - 1 < e
            BY <2>2
        <3>2. QED  BY <3>1
    <2>3. QED  BY <2>1, <2>2
<1>2. PICK g1 \in Int : g1 <= -1 /\ g1 < e1
    <2>1. -1 \in Int
        OBVIOUS
    <2>2. QED  BY <1>1, <2>1
<1>3. PICK g2 \in Int : g2 <= g1 /\ g2 < e2
    BY <1>1
<1>4. PICK g3 \in Int : g3 <= g2 /\ g3 < e3
    BY <1>1
<1>5. PICK g4 \in Int : g4 <= g3 /\ g4 < e4
    BY <1>1
<1>6. PICK g5 \in Int : g5 <= g4 /\ g5 < e5
    BY <1>1
<1>7. PICK g6 \in Int : g6 <= g5 /\ g6 < e6
    BY <1>1
<1>8. g6 < 0 /\ g6 < e1 /\ g6 < e2 /\ g6 < e3 /\ g6 < e4 /\ g6 < e5 /\ g6 < e6
    BY <1>2, <1>3, <1>4, <1>5, <1>6, <1>7
<1>9. QED  BY <1>8

LEMMA Positive ==
    ASSUME NEW x \in Int \X Int, NEW g \in Int, g <= x[2], At(x, g) > 0
    PROVE  x[1] > 0
<1> DEFINE q == Pow2(x[2] - g)
<1>1. q \in Nat \ {0} /\ x[1] \in Int /\ At(x, g) = x[1] * q
    BY AtFacts DEF At
<1> HIDE DEF q
<1>2. 0 * q < x[1] * q
    <2>1. 0 * q = 0 /\ x[1] * q \in Int
        BY <1>1
    <2>2. QED  BY <1>1, <2>1
<1>3. QED  BY <1>1, <1>2, Cancel

LEMMA FloatsTyped ==
    ASSUME NEW x \in Int \X Int, NEW y \in Int \X Int
    PROVE  /\ Plus(x, y) \in Int \X Int /\ Minus(x, y) \in Int \X Int /\ Times(x, y) \in Int \X Int
           /\ y[1] > 0 => Over(x, y) \in Int \X Int
           /\ \A k \in Int : Float(k) \in Int \X Int
<1>0. 1 \in Nat \ {0} /\ 0 \in Int
    OBVIOUS
<1>1. ASSUME NEW u \in Int \X Int, NEW v \in Int \X Int PROVE Plus(u, v) \in Int \X Int
    <2> DEFINE e == Lower(u[2], v[2])
    <2>1. e \in Int /\ e <= u[2] /\ e <= v[2]
        BY DEF Lower
    <2>2. Plus(u, v) = Round(At(u, e) + At(v, e), 1, e)
        BY DEF Plus
    <2> HIDE DEF e
    <2>3. At(u, e) + At(v, e) \in Int
        <3>1. At(u, e) \in Int
            BY <2>1, AtFacts
        <3>2. At(v, e) \in Int
            BY <2>1, AtFacts
        <3>3. QED  BY <3>1, <3>2
    <2>4. QED  BY <1>0, <2>1, <2>2, <2>3, RoundFloat
<1>2. Minus(x, y) \in Int \X Int
    <2>1. <<-y[1], y[2]>> \in Int \X Int
        OBVIOUS
    <2>2. QED  BY <1>1, <2>1 DEF Minus
<1>3. Times(x, y) \in Int \X Int
    <2>1. x[1] * y[1] \in Int /\ x[2] + y[2] \in Int
        OBVIOUS
    <2>2. QED  BY <1>0, <2>1, RoundFloat DEF Times
<1>4. ASSUME y[1] > 0 PROVE Over(x, y) \in Int \X Int
    <2>1. Abs(y[1]) \in Nat \ {0} /\ Sgn(y[1]) * x[1] \in Int /\ x[2] - y[2] \in Int
        BY <1>4 DEF Abs, Sgn
    <2>2. QED  BY <2>1, RoundFloat DEF Over
<1>5. ASSUME NEW k \in Int PROVE Float(k) \in Int \X Int
    BY <1>0, RoundFloat DEF Float
<1>6. QED  BY <1>1, <1>2, <1>3, <1>4, <1>5

\* What fit() is called with, and what it computes from that.
Wide ==
  /\ a \in Corners /\ b \in Corners
  /\ n_subtrees_ \in Subtrees /\ bits \in TableBits
  /\ At(b, Emin) - At(a, Emin) >= MinWidth * n_subtrees_ * Pow2(bits) * Ulp(Emin)
Box ==
  /\ center = Halved(Plus(a, b))
  /\ half_length = Halved(Minus(b, a))
Grid ==
  /\ bin_size = Over(Doubled(half_length), Float(n_subtrees_))
  /\ inv_bin_size_ = Over(Halved(Float(n_subtrees_)), half_length)
  /\ lower_left_ = Minus(center, half_length)
  /\ upper_right_ = Plus(center, half_length)
Trees ==
  /\ lower_ = [k \in 0 .. n_subtrees_ - 1 |-> Minus(parent_center(k), Halved(bin_size))]
  /\ upper_ = [k \in 0 .. n_subtrees_ - 1 |-> Plus(parent_center(k), Halved(bin_size))]
  /\ inv_span_bins_ = [k \in 0 .. n_subtrees_ - 1 |->
                         Over(Float(Pow2(bits)), Minus(upper_[k], lower_[k]))]

LEMMA CornerFacts ==
    ASSUME NEW x \in Corners
    PROVE  x \in Int \X Int /\ Emin <= x[2] /\ Emin \in Int /\ Abs(x[1]) < Pow2(p)
<1>1. IsFloat(x) /\ x[2] >= Emin /\ Emin \in Int
    BY FitDomainConstants
<1>2. Pow2(p) \in Nat \ {0} /\ Pow2(p - 1) \in Nat
    BY Precision
<1>3. CASE x = Zero
    <2>1. x \in Int \X Int /\ x[1] = 0
        BY <1>1, <1>3 DEF Zero
    <2>2. QED  BY <1>1, <1>2, <2>1 DEF Abs
<1>4. CASE x # Zero
    <2>1. x \in Int \X Int /\ Abs(x[1]) \in Pow2(p - 1) .. Pow2(p) - 1
        BY <1>1, <1>4 DEF IsFloat
    <2>2. QED  BY <1>1, <1>2, <2>1
<1>5. QED  BY <1>3, <1>4

LEMMA WidthFacts ==
    ASSUME Wide, MinWidth >= 64, NEW g \in Int, g <= Emin
    PROVE  /\ a \in Int \X Int /\ b \in Int \X Int /\ g <= a[2] /\ g <= b[2]
           /\ n_subtrees_ \in Nat \ {0} /\ bits \in Nat /\ Pow2(bits) \in Nat \ {0}
           /\ Ulp(g) \in Nat \ {0} /\ At(a, g) \in Int /\ At(b, g) \in Int
           /\ -(Pow2(p) * Ulp(g)) + Ulp(g) <= At(a, g) /\ At(a, g) <= Pow2(p) * Ulp(g) - Ulp(g)
           /\ -(Pow2(p) * Ulp(g)) + Ulp(g) <= At(b, g) /\ At(b, g) <= Pow2(p) * Ulp(g) - Ulp(g)
           /\ 64 * (n_subtrees_ * (Pow2(bits) * Ulp(g))) <= At(b, g) - At(a, g)
<1> DEFINE n == n_subtrees_
           M == Pow2(bits)
           U == Ulp(g)
           U0 == Ulp(Emin)
           c == Pow2(Emin - g)
           P == Pow2(p)
           top == Higher(a[2], b[2])
<1>1. /\ a \in Int \X Int /\ Emin <= a[2] /\ Abs(a[1]) < P
      /\ b \in Int \X Int /\ Emin <= b[2] /\ Abs(b[1]) < P /\ Emin \in Int
    <2>1. a \in Corners /\ b \in Corners
        BY DEF Wide
    <2>2. a \in Int \X Int /\ Emin <= a[2] /\ Abs(a[1]) < P /\ Emin \in Int
        BY <2>1, CornerFacts
    <2>3. b \in Int \X Int /\ Emin <= b[2] /\ Abs(b[1]) < P
        BY <2>1, CornerFacts
    <2>4. QED  BY <2>2, <2>3
<1>2. n \in Nat \ {0} /\ bits \in Nat
    <2>1. n \in Subtrees /\ bits \in TableBits /\ Subtrees \subseteq Nat \ {0} /\ TableBits \subseteq Nat \ {0}
        BY FitDomainConstants DEF Wide
    <2>2. QED  BY <2>1
<1>3. M \in Nat \ {0}
    BY <1>2, Pow2Step
<1>4. top \in Int /\ a[2] <= top /\ b[2] <= top /\ top - g \in Nat /\ top - Emin \in Nat
      /\ Emin - g \in Nat /\ (top - Emin) + (Emin - g) = top - g
    BY <1>1 DEF Higher
<1>5. U = Pow2(top - g) /\ U0 = Pow2(top - Emin)
    BY DEF Ulp
<1>6. U \in Nat \ {0} /\ U0 \in Nat \ {0} /\ c \in Nat \ {0} /\ U = U0 * c
    <2> HIDE DEF top
    <2>1. Pow2(top - g) \in Nat \ {0} /\ Pow2(top - Emin) \in Nat \ {0} /\ Pow2(Emin - g) \in Nat \ {0}
          /\ Pow2((top - Emin) + (Emin - g)) = Pow2(top - Emin) * Pow2(Emin - g)
        BY <1>4, Pow2Step, Pow2Add
    <2>2. QED  BY <1>4, <1>5, <2>1
<1>7. P \in Nat \ {0}
    BY Precision
<1>8. ASSUME NEW x \in Int \X Int, Emin <= x[2], x[2] <= top, Abs(x[1]) < P
      PROVE  At(x, g) \in Int /\ -(P * U) + U <= At(x, g) /\ At(x, g) <= P * U - U
    <2> DEFINE q == Pow2(x[2] - g)
               m == x[1]
    <2>1. m \in Int /\ x[2] - g \in Nat /\ x[2] - g <= top - g /\ At(x, g) = m * q
        BY <1>1, <1>4, <1>8 DEF At
    <2>2. q \in Nat \ {0} /\ q <= U
        BY <1>4, <1>5, <2>1, Pow2Step, Pow2Grows
    <2>3. -(P - 1) <= m /\ m <= P - 1
        BY <1>7, <1>8, <2>1 DEF Abs
    <2> HIDE DEF P, q, m, U
    <2>4. (-(P - 1)) * q <= m * q /\ m * q <= (P - 1) * q
        BY <1>7, <2>1, <2>2, <2>3, TimesOrder
    <2>5. (P - 1) * q <= (P - 1) * U
        <3>1. ASSUME NEW y \in Nat PROVE y * q <= y * U
            <4>1. CASE y = 0
                <5>1. 0 * q = 0 /\ 0 * U = 0
                    BY <1>6, <2>2
                <5>2. QED  BY <4>1, <5>1
            <4>2. CASE y # 0
                <5>1. q * y <= U * y
                    BY <1>6, <2>2, <4>2, TimesOrder
                <5>2. q * y = y * q /\ U * y = y * U
                    BY <1>6, <2>2
                <5>3. QED  BY <5>1, <5>2
            <4>3. QED  BY <4>1, <4>2
        <3>2. P - 1 \in Nat
            BY <1>7
        <3>3. QED  BY <3>1, <3>2
    <2>6. (P - 1) * U = P * U - U /\ (-(P - 1)) * q = -((P - 1) * q) /\ (P - 1) * q \in Int
          /\ P * U \in Int /\ m * q \in Int
        BY <1>6, <1>7, <2>1, <2>2
    <2>7. QED  BY <1>6, <2>1, <2>4, <2>5, <2>6
<1>9. /\ At(a, g) \in Int /\ -(P * U) + U <= At(a, g) /\ At(a, g) <= P * U - U
      /\ At(b, g) \in Int /\ -(P * U) + U <= At(b, g) /\ At(b, g) <= P * U - U
    BY <1>1, <1>4, <1>8
<1>10. 64 * (n * (M * U)) <= At(b, g) - At(a, g)
    <2> DEFINE x == At(a, Emin)
               y == At(b, Emin)
    <2>1. x \in Int /\ y \in Int /\ At(a, g) = x * c /\ At(b, g) = y * c
        BY <1>1, AtFacts
    <2>2. y - x >= MinWidth * n * M * U0
        BY DEF Wide
    <2>3. MinWidth \in Int
        BY FitDomainConstants
    <2> HIDE DEF n, M, U, U0, c, x, y
    <2>4. n * M * U0 \in Nat
        BY <1>2, <1>3, <1>6
    <2> DEFINE z == n * M * U0
    <2>5. MinWidth * n * M * U0 = MinWidth * z
        BY <1>2, <1>3, <1>6, <2>3
    <2>6. 64 * z <= MinWidth * z
        <3> HIDE DEF z
        <3>1. z \in Nat
            BY <2>4 DEF z
        <3>2. CASE z = 0
            BY <2>3, <3>2
        <3>3. CASE z # 0
            BY <2>3, <3>1, <3>3, TimesOrder
        <3>4. QED  BY <3>2, <3>3
    <2>7. z \in Int /\ MinWidth * z \in Int
        BY <2>3, <2>4
    <2>8. 64 * z <= y - x
        <3> HIDE DEF z
        <3>1. QED  BY <2>1, <2>2, <2>5, <2>6, <2>7
    <2>9. (64 * z) * c <= (y - x) * c
        <3> HIDE DEF z
        <3>1. QED  BY <1>6, <2>1, <2>7, <2>8, TimesOrder
    <2>10. (64 * z) * c = 64 * (n * (M * U)) /\ (y - x) * c = y * c - x * c
        <3>1. (64 * (n * M * U0)) * c = 64 * (n * (M * (U0 * c)))
            BY <1>2, <1>3, <1>6
        <3>2. QED  BY <1>6, <2>1, <3>1
    <2>11. QED  BY <2>1, <2>9, <2>10
<1>11. g <= a[2] /\ g <= b[2]
    BY <1>1
<1>12. QED  BY <1>1, <1>2, <1>3, <1>6, <1>9, <1>10, <1>11

\* The bins and the cells of a table are fewer than a float can count.
LEMMA Counts ==
    ASSUME Wide, MinWidth >= 64
    PROVE  /\ Pow2(p) >= 33 /\ n_subtrees_ < Pow2(p) /\ Pow2(bits) < Pow2(p)
           /\ 2 * n_subtrees_ < Pow2(p)
<1> DEFINE n == n_subtrees_
           M == Pow2(bits)
           U == Ulp(Emin)
           P == Pow2(p)
           nM == n * M
<1>1. Emin \in Int /\ Emin <= Emin
    BY FitDomainConstants
<1>2. /\ n \in Nat \ {0} /\ M \in Nat \ {0} /\ U \in Nat \ {0}
      /\ At(a, Emin) \in Int /\ At(b, Emin) \in Int
      /\ -(P * U) + U <= At(a, Emin) /\ At(b, Emin) <= P * U - U
      /\ 64 * (n * (M * U)) <= At(b, Emin) - At(a, Emin)
    BY <1>1, WidthFacts
<1>3. P \in Nat \ {0}
    BY Precision
<1> HIDE DEF n, M, U, P
<1>4. P * U \in Int /\ nM \in Nat \ {0} /\ n * (M * U) = nM * U /\ nM * U \in Int
    BY <1>2, <1>3
<1>5. n <= nM /\ M <= nM
    <2>1. 1 * M <= n * M /\ 1 * n <= M * n
        BY <1>2, TimesOrder
    <2>2. M * n = nM /\ 1 * M = M /\ 1 * n = n
        BY <1>2
    <2>3. QED  BY <2>1, <2>2
<1> HIDE DEF nM
<1>6. 32 * (nM * U) <= P * U - U
    BY <1>2, <1>4
<1>7. (32 * nM) * U <= (P - 1) * U
    <2>1. (32 * nM) * U = 32 * (nM * U) /\ (P - 1) * U = P * U - U
        BY <1>2, <1>3, <1>4
    <2>2. QED  BY <1>6, <2>1
<1>8. 32 * nM <= P - 1
    BY <1>2, <1>3, <1>4, <1>7, Cancel
<1>9. P >= 33 /\ n < P /\ M < P /\ 2 * n < P
    BY <1>2, <1>3, <1>4, <1>5, <1>8
<1>10. QED  BY <1>9 DEF n, M, P

\* In units of 2^g: the corners of the Function, the width of a bin and its
\* inverse.
GridNumbers(g) ==
  LET n == n_subtrees_
      U == Ulp(g)
      PU == Pow2(p) * U
      O == Pow2(-g)
      T == At(Minus(b, a), g)
      L == At(lower_left_, g)
      R == At(upper_right_, g)
  IN  /\ O \in Nat \ {0} /\ L \in Int /\ R \in Int
      /\ -PU - 4 * U <= L /\ L + T <= PU + 10 * U /\ R <= L + T + 4 * U
      /\ At(bin_size, g) \in Int /\ Near(n * At(bin_size, g), T)
      /\ At(inv_bin_size_, g) \in Int /\ Near(At(inv_bin_size_, g) * T, n * (O * O))

\* The width of the box.
WidthNumbers(g) ==
  LET U == Ulp(g)
      T == At(Minus(b, a), g)
  IN  /\ T \in Nat \ {0} /\ T <= 2 * (Pow2(p) * U)
      /\ 64 * (n_subtrees_ * (Pow2(bits) * U)) <= T + 2 * U

LEMMA WidthPositive ==
    ASSUME Wide, MinWidth >= 64, NEW g \in Int, g <= Emin, g < Minus(b, a)[2]
    PROVE  WidthNumbers(g)
<1> DEFINE n == n_subtrees_
           M == Pow2(bits)
           U == Ulp(g)
           PU == Pow2(p) * U
           A == At(a, g)
           B == At(b, g)
           T == At(Minus(b, a), g)
           d == 2 * U
           w == n * (M * U)
<1>1. /\ a \in Int \X Int /\ b \in Int \X Int /\ g <= a[2] /\ g <= b[2]
      /\ n \in Nat \ {0} /\ M \in Nat \ {0} /\ U \in Nat \ {0} /\ A \in Int /\ B \in Int
      /\ -PU + U <= A /\ A <= PU - U /\ -PU + U <= B /\ B <= PU - U
      /\ 64 * w <= B - A
    BY WidthFacts
<1>2. Pow2(p) \in Nat \ {0}
    BY Precision
<1>3. PU \in Int /\ Pow2(p) * d = 2 * PU /\ d \in Int /\ d = 2 * U
    BY <1>1, <1>2
<1>4. T \in Int /\ Near(T, B - A)
    BY <1>1, MinusNear
<1>5. w \in Nat \ {0} /\ w >= U
    <2>1. M * U \in Nat \ {0} /\ 1 * U <= M * U
        BY <1>1, TimesOrder
    <2> DEFINE v == M * U
    <2> HIDE DEF v, n, U
    <2>2. v \in Nat \ {0} /\ U <= v /\ n \in Nat \ {0} /\ U \in Nat
        BY <1>1, <2>1 DEF v
    <2>3. 1 * v <= n * v /\ n * v \in Nat \ {0}
        BY <2>2, TimesOrder
    <2>4. QED  BY <2>2, <2>3 DEF v
<1> HIDE DEF w, PU, T, A, B, U, d
<1>6. B - A - d <= T /\ T <= B - A + d
    <2>1. B - A \in Int /\ -(Pow2(p) * d) <= B - A /\ B - A <= Pow2(p) * d
        BY <1>1, <1>3, <1>5
    <2>2. QED  BY <1>3, <1>4, <2>1, NearWithin
<1>7. T \in Nat \ {0} /\ T <= 2 * PU /\ 64 * w <= T + 2 * U
    BY <1>1, <1>3, <1>4, <1>5, <1>6
<1>8. QED  BY <1>7 DEF WidthNumbers, T, PU, U, w, n, M

\* All of the fit but its trees are floats, and what is divided by is
\* positive.
LEMMA GridTyped ==
    ASSUME Wide, Box, Grid, MinWidth >= 64
    PROVE  /\ Plus(a, b) \in Int \X Int /\ Minus(b, a) \in Int \X Int
           /\ center \in Int \X Int /\ half_length \in Int \X Int /\ half_length[1] > 0
           /\ Float(n_subtrees_) \in Int \X Int /\ Float(n_subtrees_)[1] > 0
           /\ bin_size \in Int \X Int /\ inv_bin_size_ \in Int \X Int
           /\ lower_left_ \in Int \X Int /\ upper_right_ \in Int \X Int
<1>1. Emin \in Int /\ Emin <= Emin
    BY FitDomainConstants
<1>2. a \in Int \X Int /\ b \in Int \X Int /\ n_subtrees_ \in Nat \ {0}
    BY <1>1, WidthFacts
<1>3. Plus(a, b) \in Int \X Int /\ Minus(b, a) \in Int \X Int /\ Float(n_subtrees_) \in Int \X Int
    <2>1. n_subtrees_ \in Int
        BY <1>2
    <2>2. QED  BY <1>2, <2>1, FloatsTyped
<1>4. PICK g \in Int : g < 0 /\ g < Emin /\ g < Minus(b, a)[2] /\ g < Plus(a, b)[2] /\ g < Float(n_subtrees_)[2]
    <2>1. Minus(b, a)[2] \in Int /\ Plus(a, b)[2] \in Int /\ Float(n_subtrees_)[2] \in Int
        BY <1>3
    <2>2. QED  BY <1>1, <2>1, LowUnit
<1>5. g <= Emin
    BY <1>1, <1>4
<1>6. center \in Int \X Int
    BY <1>3, <1>4, <1>5, HalvedFacts DEF Box
<1>7. /\ half_length \in Int \X Int /\ g <= half_length[2]
      /\ At(half_length, g) \in Int /\ 2 * At(half_length, g) = At(Minus(b, a), g)
    BY <1>3, <1>4, <1>5, HalvedFacts DEF Box
<1>8. At(Minus(b, a), g) \in Nat \ {0}
    BY <1>4, <1>5, WidthPositive DEF WidthNumbers
<1>9. half_length[1] > 0
    <2>1. At(half_length, g) > 0
        BY <1>7, <1>8
    <2>2. QED  BY <1>7, <2>1, Positive
<1>10. Float(n_subtrees_)[1] > 0
    <2>1. n_subtrees_ \in Nat /\ n_subtrees_ < Pow2(p)
        BY <1>2, Counts
    <2>2. g <= 0 /\ g \in Int
        BY <1>4
    <2>3. At(Float(n_subtrees_), g) = n_subtrees_ * Pow2(-g)
        BY <1>4, <2>1, <2>2, FloatExact
    <2>4. Pow2(-g) \in Nat \ {0}
        <3>1. -g \in Nat
            BY <2>2
        <3>2. QED  BY <3>1, Pow2Step
    <2>5. At(Float(n_subtrees_), g) > 0
        <3>1. ASSUME NEW c \in Nat \ {0}, NEW e \in Nat \ {0} PROVE c * e > 0
            OBVIOUS
        <3>2. QED  BY <1>2, <2>3, <2>4, <3>1
    <2>6. g <= Float(n_subtrees_)[2]
        BY <1>3, <1>4
    <2>7. QED  BY <1>3, <2>5, <2>6, Positive
<1>11. bin_size \in Int \X Int
    <2>1. Doubled(half_length) \in Int \X Int
        BY <1>5, <1>7, DoubledFacts
    <2>2. QED  BY <1>3, <1>10, <2>1, FloatsTyped DEF Grid
<1>12. inv_bin_size_ \in Int \X Int
    <2>1. Halved(Float(n_subtrees_)) \in Int \X Int
        BY <1>3, <1>4, <1>5, HalvedFacts
    <2>2. QED  BY <1>7, <1>9, <2>1, FloatsTyped DEF Grid
<1>13. lower_left_ \in Int \X Int /\ upper_right_ \in Int \X Int
    BY <1>6, <1>7, FloatsTyped DEF Grid
<1>14. QED  BY <1>3, <1>6, <1>7, <1>9, <1>10, <1>11, <1>12, <1>13

LEMMA GridFacts ==
    ASSUME Wide, Box, Grid, MinWidth >= 64,
           NEW g \in Int, g <= 0, g <= Emin,
           g < Plus(a, b)[2], g < Minus(b, a)[2], g < Float(n_subtrees_)[2],
           g < lower_left_[2], g < upper_right_[2], g < bin_size[2], g < inv_bin_size_[2]
    PROVE  GridNumbers(g)
<1> DEFINE n == n_subtrees_
           U == Ulp(g)
           PU == Pow2(p) * U
           O == Pow2(-g)
           A == At(a, g)
           B == At(b, g)
           S == At(Plus(a, b), g)
           T == At(Minus(b, a), g)
           C == At(center, g)
           H == At(half_length, g)
           L == At(lower_left_, g)
           R == At(upper_right_, g)
           W == At(bin_size, g)
           V == At(inv_bin_size_, g)
<1>1. /\ a \in Int \X Int /\ b \in Int \X Int /\ g <= a[2] /\ g <= b[2]
      /\ n \in Nat \ {0} /\ U \in Nat \ {0} /\ A \in Int /\ B \in Int
      /\ -PU + U <= A /\ A <= PU - U /\ -PU + U <= B /\ B <= PU - U
    BY WidthFacts
<1>2. T \in Nat \ {0}
    BY WidthPositive DEF WidthNumbers
<1>3. /\ Plus(a, b) \in Int \X Int /\ Minus(b, a) \in Int \X Int
      /\ center \in Int \X Int /\ half_length \in Int \X Int /\ half_length[1] > 0
      /\ Float(n) \in Int \X Int /\ Float(n)[1] > 0
    BY GridTyped
<1>4. O \in Nat \ {0}
    <2>1. -g \in Nat
        OBVIOUS
    <2>2. QED  BY <2>1, Pow2Step
<1>5. S \in Int /\ Near(S, A + B) /\ Near(T, B - A)
    <2>1. S \in Int /\ Near(S, A + B)
        BY <1>1, PlusNear
    <2>2. Near(T, B - A)
        BY <1>1, MinusNear
    <2>3. QED  BY <2>1, <2>2
<1>6. C \in Int /\ 2 * C = S /\ g <= center[2]
    BY <1>3, HalvedFacts DEF Box
<1>7. H \in Int /\ 2 * H = T /\ g <= half_length[2]
    BY <1>3, HalvedFacts DEF Box
<1>8. L \in Int /\ Near(L, C - H)
    BY <1>3, <1>6, <1>7, MinusNear DEF Grid
<1>9. R \in Int /\ Near(R, C + H)
    BY <1>3, <1>6, <1>7, PlusNear DEF Grid
<1>10. PU \in Int
    BY <1>1, Precision
<1>11. /\ -PU - 4 * U <= L /\ L + T <= PU + 10 * U /\ R <= L + T + 4 * U
    <2> HIDE DEF PU, U, A, B, S, T, C, H, L, R
    <2>1. -PU <= A /\ A <= PU /\ -PU <= B /\ B <= PU
        BY <1>1, <1>10
    <2>2. Pow2(p) >= 33
        BY Counts
    <2>3. T \in Int
        BY <1>2
    <2>4. /\ A - 4 * U <= L /\ L <= A + 4 * U
          /\ B - A - 2 * U <= T /\ T <= B - A + 2 * U
          /\ R <= L + T + 4 * U
        BY <1>1, <1>5, <1>6, <1>7, <1>8, <1>9, <2>1, <2>2, <2>3, BoxError DEF PU
    <2>5. QED  BY <1>1, <1>8, <1>10, <2>3, <2>4
<1>12. At(Float(n), g) = n * O
    <2>1. n \in Nat /\ n < Pow2(p)
        BY <1>1, Counts
    <2>2. QED  BY <2>1, FloatExact
<1>13. W \in Int /\ Near(n * W, T)
    <2> DEFINE x == Doubled(half_length)
               y == Float(n)
    <2>1. x \in Int \X Int /\ g <= x[2] /\ At(x, g) = T
        BY <1>3, <1>7, DoubledFacts
    <2>2. y \in Int \X Int /\ y[1] > 0 /\ g <= y[2]
        BY <1>3
    <2>3. bin_size = Over(x, y)
        BY DEF Grid
    <2> HIDE DEF x, y
    <2>4. W \in Int /\ Near(W * At(y, g), At(x, g) * O)
        BY <2>1, <2>2, <2>3, OverNear
    <2>5. W * At(y, g) = (n * W) * O /\ n * W \in Int
        <3> HIDE DEF W, O
        <3>1. W * (n * O) = (n * W) * O /\ n * W \in Int
            BY <1>1, <1>4, <2>4
        <3>2. QED  BY <1>12, <3>1 DEF y
    <2>6. Near((n * W) * O, T * O)
        BY <2>1, <2>4, <2>5
    <2> DEFINE z == n * W
    <2>7. z \in Int /\ Near(z * O, T * O)
        BY <2>5, <2>6
    <2> HIDE DEF z, T, O
    <2>8. Near(z, T)
        <3>1. T \in Int
            BY <1>2
        <3>2. QED  BY <1>4, <2>7, <3>1, NearTimes
    <2>9. QED  BY <2>4, <2>8 DEF z
<1>14. V \in Int /\ Near(V * T, n * (O * O))
    <2> DEFINE x == Halved(Float(n))
    <2>1. x \in Int \X Int /\ g <= x[2] /\ At(x, g) \in Int /\ 2 * At(x, g) = n * O
        BY <1>3, <1>12, HalvedFacts
    <2>2. inv_bin_size_ = Over(x, half_length)
        BY DEF Grid
    <2> DEFINE X == At(x, g)
    <2>3. V \in Int /\ Near(V * H, X * O)
        BY <1>3, <1>7, <2>1, <2>2, OverNear
    <2>4. X \in Int /\ 2 * X = n * O
        BY <2>1
    <2> HIDE DEF x, X, V, H, O, T
    <2>5. V * H \in Int /\ X * O \in Int /\ 2 \in Nat \ {0}
        BY <1>4, <1>7, <2>3, <2>4
    <2>6. Near((V * H) * 2, (X * O) * 2)
        BY <2>3, <2>5, NearTimes
    <2>7. (V * H) * 2 = V * T
        <3>1. (V * H) * 2 = V * (2 * H)
            BY <1>7, <2>3
        <3>2. QED  BY <1>7, <3>1
    <2>8. (X * O) * 2 = n * (O * O)
        <3>1. (X * O) * 2 = (2 * X) * O /\ (n * O) * O = n * (O * O)
            BY <1>1, <1>4, <2>4
        <3>2. QED  BY <2>4, <3>1
    <2>9. QED  BY <2>3, <2>6, <2>7, <2>8
<1>15. QED  BY <1>4, <1>8, <1>9, <1>11, <1>13, <1>14 DEF GridNumbers

\* The middle of a bin, counted in bins.
middle(k) == Plus(Float(k), <<Pow2(p - 1), -p>>)

\* A unit fine enough for the bins, for the bounds of the subtree of bin k.
GridUnit(g) ==
  /\ g \in Int /\ g <= 0 /\ g <= Emin
  /\ g < Plus(a, b)[2] /\ g < Minus(b, a)[2] /\ g < Float(n_subtrees_)[2]
  /\ g < lower_left_[2] /\ g < upper_right_[2] /\ g < bin_size[2] /\ g < inv_bin_size_[2]
TreeUnit(g, k) ==
  /\ g < -p /\ g < Float(k)[2] /\ g < middle(k)[2] /\ g < Round(2 * k + 1, 1, -1)[2]
  /\ g < Times(middle(k), bin_size)[2] /\ g < parent_center(k)[2]
  /\ g < lower_[k][2] /\ g < upper_[k][2]

TreeNumbers(g, k) ==
  LET n == n_subtrees_
      MU == Pow2(bits) * Ulp(g)
      nU == n * Ulp(g)
      T == At(Minus(b, a), g)
      nL == n * At(lower_left_, g)
      lo == At(lower_[k], g)
      hi == At(upper_[k], g)
  IN  /\ lo \in Int /\ hi \in Int
      /\ 2 * (n * lo) <= 2 * nL + 2 * (k * T) + 17 * nU
      /\ 2 * nL + 2 * ((k + 1) * T) - 17 * nU <= 2 * (n * hi)
      /\ 45 * MU <= hi - lo /\ hi - lo <= 2 * (Pow2(p) * Ulp(g)) + 20 * Ulp(g)

LEMMA TreeTyped ==
    ASSUME Wide, Box, Grid, Trees, MinWidth >= 64, NEW k \in 0 .. n_subtrees_ - 1
    PROVE  /\ Float(k) \in Int \X Int /\ middle(k) \in Int \X Int
           /\ Round(2 * k + 1, 1, -1) \in Int \X Int
           /\ Times(middle(k), bin_size) \in Int \X Int /\ parent_center(k) \in Int \X Int
           /\ Halved(bin_size) \in Int \X Int
           /\ lower_[k] \in Int \X Int /\ upper_[k] \in Int \X Int
           /\ Minus(upper_[k], lower_[k]) \in Int \X Int
           /\ Float(Pow2(bits)) \in Int \X Int
<1>1. bin_size \in Int \X Int /\ lower_left_ \in Int \X Int
    BY GridTyped
<1>2. k \in Int /\ Float(k) \in Int \X Int
    <2>1. k \in Int
        OBVIOUS
    <2>2. QED  BY <1>1, <2>1, FloatsTyped
<1>3. middle(k) \in Int \X Int
    <2>1. <<Pow2(p - 1), -p>> \in Int \X Int
        BY Precision
    <2>2. QED  BY <1>2, <2>1, FloatsTyped DEF middle
<1>4. Round(2 * k + 1, 1, -1) \in Int \X Int
    <2>1. 2 * k + 1 \in Int /\ -1 \in Int /\ 1 \in Nat \ {0}
        BY <1>2
    <2>2. QED  BY <2>1, RoundFloat
<1>5. Times(middle(k), bin_size) \in Int \X Int
    BY <1>1, <1>3, FloatsTyped
<1>6. parent_center(k) \in Int \X Int
    <2>1. parent_center(k) = Plus(Times(middle(k), bin_size), lower_left_)
        BY DEF parent_center, middle
    <2>2. QED  BY <1>1, <1>5, <2>1, FloatsTyped
<1>7. Halved(bin_size) \in Int \X Int
    <2>1. bin_size[2] \in Int /\ Emin \in Int
        BY <1>1, FitDomainConstants
    <2>2. PICK g \in Int : g < bin_size[2] /\ g < Emin
        BY <2>1, LowUnit
    <2>3. g <= Emin
        BY <2>1, <2>2
    <2>4. QED  BY <1>1, <2>2, <2>3, HalvedFacts
<1>8. lower_[k] \in Int \X Int /\ upper_[k] \in Int \X Int
    <2>1. lower_[k] = Minus(parent_center(k), Halved(bin_size))
          /\ upper_[k] = Plus(parent_center(k), Halved(bin_size))
        BY DEF Trees
    <2>2. QED  BY <1>6, <1>7, <2>1, FloatsTyped
<1>9. Minus(upper_[k], lower_[k]) \in Int \X Int
    BY <1>8, FloatsTyped
<1>10. Float(Pow2(bits)) \in Int \X Int
    <2>1. Emin \in Int /\ Emin <= Emin
        BY FitDomainConstants
    <2>2. Pow2(bits) \in Int
        BY <2>1, WidthFacts
    <2>3. QED  BY <1>1, <2>2, FloatsTyped
<1>11. QED  BY <1>2, <1>3, <1>4, <1>5, <1>6, <1>7, <1>8, <1>9, <1>10

LEMMA TreeFacts ==
    ASSUME Wide, Box, Grid, Trees, MinWidth >= 64, NEW k \in 0 .. n_subtrees_ - 1,
           NEW g \in Int, GridUnit(g), TreeUnit(g, k)
    PROVE  TreeNumbers(g, k)
<1> DEFINE n == n_subtrees_
           M == Pow2(bits)
           U == Ulp(g)
           MU == M * U
           PU == Pow2(p) * U
           O == Pow2(-g)
           T == At(Minus(b, a), g)
           L == At(lower_left_, g)
           W == At(bin_size, g)
           V == At(Halved(bin_size), g)
           half == At(middle(k), g)
           Q == At(Times(middle(k), bin_size), g)
           C == At(parent_center(k), g)
           lo == At(lower_[k], g)
           hi == At(upper_[k], g)
<1>1. g <= 0 /\ g <= Emin /\ g < Minus(b, a)[2] /\ g < bin_size[2] /\ g < lower_left_[2]
    BY DEF GridUnit
<1>2. n \in Nat \ {0} /\ M \in Nat \ {0} /\ U \in Nat \ {0}
    BY <1>1, WidthFacts
<1>3. T \in Nat \ {0} /\ T <= 2 * PU /\ 64 * (n * MU) <= T + 2 * U
    BY <1>1, WidthPositive DEF WidthNumbers
<1>4. /\ O \in Nat \ {0} /\ L \in Int /\ -PU - 4 * U <= L /\ L + T <= PU + 10 * U
      /\ W \in Int /\ Near(n * W, T)
    BY GridFacts DEF GridUnit, GridNumbers
<1>5. /\ bin_size \in Int \X Int /\ lower_left_ \in Int \X Int
      /\ middle(k) \in Int \X Int /\ Times(middle(k), bin_size) \in Int \X Int
      /\ parent_center(k) \in Int \X Int /\ Halved(bin_size) \in Int \X Int
      /\ lower_[k] \in Int \X Int /\ upper_[k] \in Int \X Int
    BY GridTyped, TreeTyped
<1>6. g <= bin_size[2] /\ g <= lower_left_[2] /\ g <= middle(k)[2] /\ g <= parent_center(k)[2]
      /\ g <= Times(middle(k), bin_size)[2]
    BY <1>1, <1>5 DEF TreeUnit
<1>7. k \in Nat /\ k + 1 <= n
    BY <1>2
<1>8. half \in Int /\ 2 * half = (2 * k + 1) * O
    <2>1. 2 * k + 1 < Pow2(p)
        <3>1. 2 * n < Pow2(p) /\ Pow2(p) \in Nat
            BY Counts, Precision
        <3>2. QED  BY <1>2, <1>7, <3>1
    <2>2. 2 * half = (2 * k + 1) * O
        BY <1>1, <1>7, <2>1, MiddleExact DEF TreeUnit, middle
    <2>3. half \in Int
        BY <1>5, <1>6, AtFacts
    <2>4. QED  BY <2>2, <2>3
<1>9. V \in Int /\ 2 * V = W /\ g <= Halved(bin_size)[2]
    BY <1>1, <1>5, HalvedFacts
<1>10. Q \in Int /\ Near(2 * Q, (2 * k + 1) * W)
    <2>1. Q \in Int /\ Near(Q * O, half * W)
        BY <1>1, <1>5, <1>6, TimesNear DEF TreeUnit
    <2> HIDE DEF Q, O, half, W
    <2>2. Q * O \in Int /\ half * W \in Int /\ 2 \in Nat \ {0}
        BY <1>4, <1>8, <2>1
    <2>3. Near((Q * O) * 2, (half * W) * 2)
        BY <2>1, <2>2, NearTimes
    <2>4. (Q * O) * 2 = (2 * Q) * O
        BY <1>4, <2>1
    <2>5. (half * W) * 2 = ((2 * k + 1) * W) * O
        <3>1. (half * W) * 2 = (2 * half) * W
            BY <1>4, <1>8
        <3>2. ((2 * k + 1) * O) * W = ((2 * k + 1) * W) * O
            BY <1>4, <1>7
        <3>3. QED  BY <1>8, <3>1, <3>2
    <2>6. 2 * Q \in Int /\ (2 * k + 1) * W \in Int
        BY <1>4, <1>7, <2>1
    <2> DEFINE x == 2 * Q
               y == (2 * k + 1) * W
    <2>7. x \in Int /\ y \in Int /\ Near(x * O, y * O)
        BY <2>3, <2>4, <2>5, <2>6
    <2> HIDE DEF x, y
    <2>8. Near(x, y)
        BY <1>4, <2>7, NearTimes
    <2>9. QED  BY <2>1, <2>8 DEF x, y
<1>11. C \in Int /\ Near(C, Q + L)
    <2>1. parent_center(k) = Plus(Times(middle(k), bin_size), lower_left_)
        BY DEF parent_center, middle
    <2>2. QED  BY <1>5, <1>6, <2>1, PlusNear DEF TreeUnit
<1>12. lo \in Int /\ Near(lo, C - V)
    <2>1. lower_[k] = Minus(parent_center(k), Halved(bin_size))
        BY DEF Trees
    <2>2. QED  BY <1>5, <1>6, <1>9, <2>1, MinusNear DEF TreeUnit
<1>13. hi \in Int /\ Near(hi, C + V)
    <2>1. upper_[k] = Plus(parent_center(k), Halved(bin_size))
        BY DEF Trees
    <2>2. QED  BY <1>5, <1>6, <1>9, <2>1, PlusNear DEF TreeUnit
<1>14. Pow2(p) >= 33 /\ PU \in Int /\ MU \in Nat \ {0}
    <2>1. Pow2(p) >= 33
        BY Counts
    <2>2. PU \in Int /\ MU \in Nat \ {0}
        BY <1>2, Precision
    <2>3. QED  BY <2>1, <2>2
<1>15. /\ 2 * (n * L) + 2 * (k * T) - 17 * (n * U) <= 2 * (n * lo)
       /\ 2 * (n * lo) <= 2 * (n * L) + 2 * (k * T) + 17 * (n * U)
       /\ 2 * (n * L) + 2 * ((k + 1) * T) - 17 * (n * U) <= 2 * (n * hi)
       /\ 2 * (n * hi) <= 2 * (n * L) + 2 * ((k + 1) * T) + 17 * (n * U)
    <2>1. -(Pow2(p) * U) - 4 * U <= L /\ L + T <= Pow2(p) * U + 10 * U /\ T <= 2 * (Pow2(p) * U)
        BY <1>3, <1>4
    <2> HIDE DEF n, U, T, L, W, V, Q, C, lo, hi
    <2>2. k \in 0 .. n - 1
        BY DEF n
    <2>3. QED  BY <1>2, <1>3, <1>4, <1>9, <1>10, <1>11, <1>12, <1>13, <1>14, <2>1, <2>2, BinError
<1> DEFINE s == hi - lo
<1>16. 45 * MU <= s /\ s <= 2 * PU + 20 * U
    <2> HIDE DEF n, U, T, L, lo, hi
    <2>1. /\ n * L \in Int /\ k * T \in Int /\ (k + 1) * T = k * T + T /\ n * lo \in Int /\ n * hi \in Int
          /\ n * s = n * hi - n * lo /\ n * U \in Nat /\ s \in Int
        BY <1>2, <1>3, <1>4, <1>7, <1>12, <1>13
    <2>2. 2 * T - 34 * (n * U) <= 2 * (n * s) /\ 2 * (n * s) <= 2 * T + 34 * (n * U)
        <3> HIDE DEF s
        <3>1. QED  BY <1>3, <1>15, <2>1
    <2>3. n * U <= n * MU /\ U <= n * U /\ n * MU \in Int
        <3>1. 1 * U <= M * U /\ 1 * U <= n * U
            BY <1>2, TimesOrder
        <3>2. U * n <= MU * n
            BY <1>2, <1>14, <3>1, TimesOrder
        <3>3. U * n = n * U /\ MU * n = n * MU /\ n * MU \in Int /\ 1 * U = U
            BY <1>2, <1>14
        <3>4. QED  BY <3>1, <3>2, <3>3
    <2> HIDE DEF MU, PU, s
    <2>4. 45 * (n * MU) <= n * s
        BY <1>2, <1>3, <2>1, <2>2, <2>3
    <2>5. (45 * MU) * n <= s * n
        <3>1. (45 * MU) * n = 45 * (n * MU) /\ s * n = n * s
            BY <1>2, <1>14, <2>1
        <3>2. QED  BY <2>4, <3>1
    <2>6. 45 * MU <= s
        BY <1>2, <1>14, <2>1, <2>5, Cancel
    <2>7. n * s <= n * (2 * PU + 17 * U)
        <3>1. 1 * PU <= n * PU
            <4>1. PU \in Nat \ {0}
                BY <1>2, <1>14, Precision DEF PU
            <4>2. QED  BY <1>2, <4>1, TimesOrder
        <3>2. n * (2 * PU + 17 * U) = 2 * (n * PU) + 17 * (n * U) /\ 1 * PU = PU /\ n * PU \in Int
            BY <1>2, <1>14
        <3>3. QED  BY <1>2, <1>3, <1>14, <2>1, <2>2, <3>1, <3>2
    <2>8. s <= 2 * PU + 17 * U
        <3> DEFINE y == 2 * PU + 17 * U
        <3>1. y \in Int /\ n * s <= n * y
            BY <1>2, <1>14, <2>7
        <3> HIDE DEF y
        <3>2. n * s = s * n /\ n * y = y * n
            BY <1>2, <2>1, <3>1
        <3>3. s <= y
            BY <1>2, <2>1, <3>1, <3>2, Cancel
        <3>4. QED  BY <3>3 DEF y
    <2>9. QED  BY <1>2, <1>14, <2>1, <2>6, <2>8
<1>17. QED  BY <1>12, <1>13, <1>15, <1>16 DEF TreeNumbers

LEMMA UnitExists ==
    ASSUME Wide, Box, Grid, Trees, MinWidth >= 64, NEW k \in 0 .. n_subtrees_ - 1, NEW e \in Int
    PROVE  \E g \in Int : g < e /\ GridUnit(g) /\ TreeUnit(g, k)
<1>1. Emin \in Int /\ p \in Int /\ -p \in Int
    BY FitDomainConstants
<1>2. /\ Plus(a, b)[2] \in Int /\ Minus(b, a)[2] \in Int /\ Float(n_subtrees_)[2] \in Int
      /\ bin_size[2] \in Int /\ inv_bin_size_[2] \in Int
      /\ lower_left_[2] \in Int /\ upper_right_[2] \in Int
    BY GridTyped
<1>3. /\ Float(k)[2] \in Int /\ middle(k)[2] \in Int /\ Round(2 * k + 1, 1, -1)[2] \in Int
      /\ Times(middle(k), bin_size)[2] \in Int /\ parent_center(k)[2] \in Int
      /\ lower_[k][2] \in Int /\ upper_[k][2] \in Int
    BY TreeTyped
<1>4. PICK g1 \in Int :
        /\ g1 < e /\ g1 < Emin /\ g1 < Plus(a, b)[2]
        /\ g1 < Minus(b, a)[2] /\ g1 < Float(n_subtrees_)[2] /\ g1 < -p
    BY <1>1, <1>2, LowUnit
<1>5. PICK g2 \in Int :
        /\ g2 < g1 /\ g2 < bin_size[2] /\ g2 < inv_bin_size_[2]
        /\ g2 < lower_left_[2] /\ g2 < upper_right_[2] /\ g2 < Float(k)[2]
    BY <1>2, <1>3, LowUnit
<1>6. PICK g3 \in Int :
        /\ g3 < g2 /\ g3 < middle(k)[2] /\ g3 < Round(2 * k + 1, 1, -1)[2]
        /\ g3 < Times(middle(k), bin_size)[2] /\ g3 < parent_center(k)[2] /\ g3 < lower_[k][2]
    <2> DEFINE m1 == middle(k)[2]
               m2 == Round(2 * k + 1, 1, -1)[2]
               m3 == Times(middle(k), bin_size)[2]
               m4 == parent_center(k)[2]
               m5 == lower_[k][2]
    <2>1. m1 \in Int /\ m2 \in Int /\ m3 \in Int /\ m4 \in Int /\ m5 \in Int
        BY <1>3
    <2> HIDE DEF m1, m2, m3, m4, m5
    <2>2. \E g3 \in Int : g3 < g2 /\ g3 < m1 /\ g3 < m2 /\ g3 < m3 /\ g3 < m4 /\ g3 < m5
        BY <2>1, LowUnit
    <2>3. QED  BY <2>2 DEF m1, m2, m3, m4, m5
<1>7. PICK g \in Int : g < 0 /\ g < g3 /\ g < upper_[k][2]
    BY <1>3, LowUnit
<1>8. g < g1 /\ g < g2 /\ g < e /\ g <= 0
    BY <1>4, <1>5, <1>6, <1>7
<1>9. /\ g <= Emin
      /\ g < Plus(a, b)[2] /\ g < Minus(b, a)[2] /\ g < Float(n_subtrees_)[2] /\ g < -p
    BY <1>1, <1>2, <1>4, <1>8
<1>10. /\ g < lower_left_[2] /\ g < upper_right_[2] /\ g < bin_size[2] /\ g < inv_bin_size_[2]
       /\ g < Float(k)[2]
    BY <1>2, <1>3, <1>5, <1>8
<1>11. /\ g < middle(k)[2] /\ g < Round(2 * k + 1, 1, -1)[2]
       /\ g < Times(middle(k), bin_size)[2] /\ g < parent_center(k)[2]
       /\ g < lower_[k][2] /\ g < upper_[k][2]
    BY <1>3, <1>6, <1>7
<1>12. GridUnit(g)
    BY <1>8, <1>9, <1>10 DEF GridUnit
<1>13. TreeUnit(g, k)
    BY <1>9, <1>10, <1>11 DEF TreeUnit
<1>14. QED  BY <1>8, <1>12, <1>13

LEMMA SpanTyped ==
    ASSUME Wide, Box, Grid, Trees, MinWidth >= 64, NEW k \in 0 .. n_subtrees_ - 1
    PROVE  Minus(upper_[k], lower_[k])[1] > 0 /\ inv_span_bins_[k] \in Int \X Int
<1> DEFINE x == Minus(upper_[k], lower_[k])
<1>1. /\ x \in Int \X Int /\ lower_[k] \in Int \X Int /\ upper_[k] \in Int \X Int
      /\ Float(Pow2(bits)) \in Int \X Int
    BY TreeTyped
<1>2. x[2] \in Int
    BY <1>1
<1>3. PICK g \in Int : g < x[2] /\ GridUnit(g) /\ TreeUnit(g, k)
    BY <1>2, UnitExists
<1> DEFINE lo == At(lower_[k], g)
           hi == At(upper_[k], g)
           T == At(x, g)
<1>4. lo \in Int /\ hi \in Int /\ 45 * (Pow2(bits) * Ulp(g)) <= hi - lo
    BY <1>3, TreeFacts DEF TreeNumbers
<1>5. Pow2(bits) \in Nat \ {0} /\ Ulp(g) \in Nat \ {0}
    BY <1>3, WidthFacts DEF GridUnit
<1>6. T \in Int /\ Near(T, hi - lo)
    BY <1>1, <1>3, MinusNear DEF TreeUnit
<1>7. T > 0
    <2> DEFINE v == hi - lo
               P == Pow2(p)
    <2>1. v \in Nat \ {0}
        <3>1. Pow2(bits) * Ulp(g) \in Nat \ {0}
            BY <1>5
        <3>2. QED  BY <1>4, <3>1
    <2>2. P \in Nat /\ P >= 33
        BY Counts, Precision
    <2>3. (P - 1) * v <= P * T
        BY <1>6, <2>1 DEF Near
    <2> HIDE DEF v, P, T
    <2>4. ASSUME NEW c \in Nat \ {0}, NEW d \in Nat \ {0} PROVE c * d > 0
        OBVIOUS
    <2>5. (P - 1) * v > 0 /\ P * T \in Int /\ (P - 1) * v \in Int
        <3>1. P - 1 \in Nat \ {0}
            BY <2>2
        <3>2. QED  BY <1>6, <2>1, <2>2, <2>4, <3>1
    <2>6. 0 * P < T * P
        <3>1. 0 * P = 0 /\ T * P = P * T
            BY <1>6, <2>2
        <3>2. QED  BY <2>3, <2>5, <3>1
    <2>7. P \in Nat \ {0}
        BY <2>2
    <2>8. QED  BY <1>6, <2>6, <2>7, Cancel
<1>8. x[1] > 0
    BY <1>1, <1>3, <1>7, Positive
<1>9. inv_span_bins_[k] = Over(Float(Pow2(bits)), x)
    BY DEF Trees
<1>a. x \in Int \X Int
    BY <1>1
<1> HIDE DEF x
<1>10. inv_span_bins_[k] \in Int \X Int
    <2> DEFINE f == Float(Pow2(bits))
    <2>1. f \in Int \X Int /\ inv_span_bins_[k] = Over(f, x)
        BY <1>1, <1>9
    <2> HIDE DEF f
    <2>2. Over(f, x) \in Int \X Int
        BY <1>a, <1>8, <2>1, FloatsTyped
    <2>3. QED  BY <2>1, <2>2
<1>11. QED  BY <1>8, <1>10 DEF x

-----------------------------------------------------------------------------
(* The bin and the cell of a point                                         *)

\* The bin whose subtree a point of the domain is given to.
bin_of(x) == IF n_subtrees_ = 1 THEN 0 ELSE get_linear_bin(x)

LEMMA BinFacts ==
    ASSUME Wide, Box, Grid, MinWidth >= 64, n_subtrees_ # 1,
           NEW x \in Int \X Int, leq(lower_left_, x), leq(x, upper_right_),
           NEW g \in Int, GridUnit(g), g <= x[2],
           g < Minus(x, lower_left_)[2], g < Times(Minus(x, lower_left_), inv_bin_size_)[2]
    PROVE  LET n == n_subtrees_
               k == get_linear_bin(x)
               T == At(Minus(b, a), g)
               Y == At(x, g) - At(lower_left_, g)
           IN  /\ k \in 0 .. n - 1 /\ At(x, g) \in Int
               /\ k * T <= n * Y + 9 * (n * Ulp(g))
               /\ n * Y <= (k + 1) * T + 9 * (n * Ulp(g))
<1> DEFINE n == n_subtrees_
           U == Ulp(g)
           O == Pow2(-g)
           T == At(Minus(b, a), g)
           L == At(lower_left_, g)
           R == At(upper_right_, g)
           X == At(x, g)
           V == At(inv_bin_size_, g)
           y == Minus(x, lower_left_)
           z == Times(y, inv_bin_size_)
           q == Cast(z)
<1>1. g <= 0 /\ g <= Emin /\ g < Minus(b, a)[2] /\ g < lower_left_[2] /\ g < upper_right_[2] /\ g < inv_bin_size_[2]
    BY DEF GridUnit
<1>2. n \in Nat \ {0} /\ U \in Nat \ {0}
    BY <1>1, WidthFacts
<1>3. T \in Nat \ {0} /\ T <= 2 * (Pow2(p) * U)
    BY <1>1, WidthPositive DEF WidthNumbers
<1>4. /\ O \in Nat \ {0} /\ L \in Int /\ R \in Int /\ R <= L + T + 4 * U
      /\ V \in Int /\ Near(V * T, n * (O * O))
    BY GridFacts DEF GridUnit, GridNumbers
<1>5. lower_left_ \in Int \X Int /\ upper_right_ \in Int \X Int /\ inv_bin_size_ \in Int \X Int
    BY GridTyped
<1>6. y \in Int \X Int
    BY <1>5, FloatsTyped
<1>7. z \in Int \X Int
    <2> HIDE DEF y
    <2>1. QED  BY <1>5, <1>6, FloatsTyped
<1>8. g <= lower_left_[2] /\ g <= upper_right_[2] /\ g <= inv_bin_size_[2] /\ g <= y[2] /\ g <= z[2]
    BY <1>1, <1>5, <1>6, <1>7
<1>9. X \in Int /\ L <= X /\ X <= R
    <2>1. L <= X
        BY <1>5, <1>8, LeqAt
    <2>2. X <= R
        BY <1>5, <1>8, LeqAt
    <2>3. X \in Int
        BY AtFacts
    <2>4. QED  BY <2>1, <2>2, <2>3
<1>10. At(y, g) \in Int /\ Near(At(y, g), X - L)
    BY <1>5, <1>8, MinusNear
<1>11. At(z, g) \in Int /\ Near(At(z, g) * O, At(y, g) * V)
    <2>1. g < z[2]
        OBVIOUS
    <2> HIDE DEF y
    <2>2. QED  BY <1>1, <1>5, <1>6, <1>8, <2>1, TimesNear
<1>12. get_linear_bin(x) = Clamped(q, n - 1)
    BY DEF get_linear_bin
<1>13. q \in Int /\ (At(z, g) >= 0 => q * O <= At(z, g) /\ At(z, g) < (q + 1) * O)
    <2> HIDE DEF z
    <2>1. QED  BY <1>1, <1>7, <1>8, CastFacts
<1>14. Pow2(p) >= 33
    BY Counts
<1> DEFINE R1 == At(y, g)
           R2 == At(z, g)
<1> HIDE DEF n, U, O, T, L, R, X, V, y, z, q, R1, R2
<1>15. LET k == Clamped(q, n - 1)
       IN  /\ k \in 0 .. n - 1
           /\ k * T <= n * (X - L) + 9 * (n * U)
           /\ n * (X - L) <= (k + 1) * T + 9 * (n * U)
    <2>1. X <= L + T + 4 * U
        BY <1>2, <1>3, <1>4, <1>9
    <2>2. R1 \in Int /\ R2 \in Int /\ Near(R1, X - L) /\ Near(R2 * O, R1 * V)
          /\ (R2 >= 0 => q * O <= R2 /\ R2 < (q + 1) * O)
        BY <1>10, <1>11, <1>13 DEF R1, R2
    <2>3. QED  BY <1>2, <1>3, <1>4, <1>9, <1>13, <1>14, <2>1, <2>2, BinOfPoint
<1>16. QED  BY <1>9, <1>12, <1>15 DEF n, U, T, L, X

LEMMA BinTyped ==
    ASSUME Wide, Box, Grid, Trees, MinWidth >= 64, NEW x \in Int \X Int, InDomain(x)
    PROVE  bin_of(x) \in 0 .. n_subtrees_ - 1
<1>1. Emin \in Int /\ Emin <= Emin
    BY FitDomainConstants
<1>2. n_subtrees_ \in Nat \ {0}
    BY <1>1, WidthFacts
<1>3. CASE n_subtrees_ = 1
    BY <1>3 DEF bin_of
<1>4. CASE n_subtrees_ # 1
    <2>1. leq(lower_left_, x) /\ leq(x, upper_right_)
        BY <1>4 DEF InDomain
    <2> DEFINE y == Minus(x, lower_left_)
               z == Times(y, inv_bin_size_)
    <2>2. lower_left_ \in Int \X Int /\ inv_bin_size_ \in Int \X Int
        BY GridTyped
    <2>3. y \in Int \X Int
        BY <2>2, FloatsTyped
    <2>4. z \in Int \X Int
        <3> HIDE DEF y
        <3>1. QED  BY <2>2, <2>3, FloatsTyped
    <2>5. y[2] \in Int /\ z[2] \in Int /\ x[2] \in Int
        <3> HIDE DEF y, z
        <3>1. QED  BY <2>3, <2>4
    <2>6. PICK e \in Int : e < x[2] /\ e < y[2] /\ e < z[2]
        BY <2>5, LowUnit
    <2>7. 0 \in 0 .. n_subtrees_ - 1
        BY <1>2
    <2>8. PICK g \in Int : g < e /\ GridUnit(g) /\ TreeUnit(g, 0)
        BY <2>7, UnitExists
    <2>9. g <= x[2] /\ g < y[2] /\ g < z[2]
        BY <2>5, <2>6, <2>8
    <2>10. get_linear_bin(x) \in 0 .. n_subtrees_ - 1
        BY <1>4, <2>1, <2>8, <2>9, BinFacts
    <2>11. QED  BY <1>4, <2>10 DEF bin_of
<1>5. QED  BY <1>3, <1>4

\* A point is at most 18 units outside the subtree it is given to.
LEMMA PointInTree ==
    ASSUME Wide, Box, Grid, Trees, MinWidth >= 64, NEW x \in Int \X Int, InDomain(x),
           NEW k, k = bin_of(x), NEW g \in Int, GridUnit(g), TreeUnit(g, k), g <= x[2],
           g < Minus(x, lower_left_)[2], g < Times(Minus(x, lower_left_), inv_bin_size_)[2]
    PROVE  /\ At(x, g) \in Int /\ At(lower_[k], g) \in Int /\ At(upper_[k], g) \in Int
           /\ At(lower_[k], g) - 18 * Ulp(g) <= At(x, g)
           /\ At(x, g) <= At(upper_[k], g) + 18 * Ulp(g)
<1> DEFINE n == n_subtrees_
           U == Ulp(g)
           T == At(Minus(b, a), g)
           L == At(lower_left_, g)
           X == At(x, g)
           lo == At(lower_[k], g)
           hi == At(upper_[k], g)
<1>1. k \in 0 .. n - 1
    BY BinTyped
<1>2. g <= 0 /\ g <= Emin /\ g < Minus(b, a)[2]
    BY DEF GridUnit
<1>3. n \in Nat \ {0} /\ U \in Nat \ {0}
    BY <1>2, WidthFacts
<1>4. /\ lo \in Int /\ hi \in Int
      /\ 2 * (n * lo) <= 2 * (n * L) + 2 * (k * T) + 17 * (n * U)
      /\ 2 * (n * L) + 2 * ((k + 1) * T) - 17 * (n * U) <= 2 * (n * hi)
    BY <1>1, TreeFacts DEF TreeNumbers
<1>5. X \in Int
    BY AtFacts
<1>6. CASE n = 1
    <2>1. k = 0 /\ leq(lower_[k], x) /\ leq(x, upper_[k])
        BY <1>6 DEF bin_of, InDomain
    <2>2. lower_[k] \in Int \X Int /\ upper_[k] \in Int \X Int
        BY <1>1, TreeTyped
    <2>3. g <= lower_[k][2] /\ g <= upper_[k][2]
        BY <2>2 DEF TreeUnit
    <2>4. lo <= X
        BY <2>1, <2>2, <2>3, LeqAt
    <2>5. X <= hi
        BY <2>1, <2>2, <2>3, LeqAt
    <2> HIDE DEF lo, hi, X, U
    <2>6. lo - 18 * U <= X /\ X <= hi + 18 * U
        BY <1>3, <1>4, <1>5, <2>4, <2>5
    <2>7. QED  BY <1>4, <1>5, <2>6 DEF lo, hi, X, U
<1>7. CASE n # 1
    <2>1. leq(lower_left_, x) /\ leq(x, upper_right_) /\ k = get_linear_bin(x)
        BY <1>7 DEF bin_of, InDomain
    <2>2. /\ k * T <= n * (X - L) + 9 * (n * U)
          /\ n * (X - L) <= (k + 1) * T + 9 * (n * U)
        BY <1>7, <2>1, BinFacts
    <2>3. L \in Int /\ T \in Int
        <3>1. L \in Int
            BY GridFacts DEF GridUnit, GridNumbers
        <3>2. T \in Int
            BY <1>2, WidthPositive DEF WidthNumbers
        <3>3. QED  BY <3>1, <3>2
    <2> HIDE DEF n, U, T, L, X, lo, hi
    <2>4. /\ n * (X - L) = n * X - n * L /\ n * X \in Int /\ n * L \in Int /\ n * U \in Int
          /\ k * T \in Int /\ (k + 1) * T \in Int /\ n * lo \in Int /\ n * hi \in Int
        BY <1>1, <1>3, <1>4, <1>5, <2>3
    <2>5. 2 * (n * lo) <= 2 * (n * X) + 36 * (n * U) /\ 2 * (n * X) <= 2 * (n * hi) + 36 * (n * U)
        <3>1. 0 <= n * U
            BY <1>3
        <3>2. QED  BY <1>4, <2>2, <2>4, <3>1
    <2>6. lo * n <= (X + 18 * U) * n /\ X * n <= (hi + 18 * U) * n
        <3>1. lo * n = n * lo /\ X * n = n * X
              /\ (X + 18 * U) * n = n * X + 18 * (n * U) /\ (hi + 18 * U) * n = n * hi + 18 * (n * U)
            BY <1>3, <1>4, <1>5
        <3>2. QED  BY <2>4, <2>5, <3>1
    <2>7. lo <= X + 18 * U /\ X <= hi + 18 * U
        BY <1>3, <1>4, <1>5, <2>6, Cancel
    <2>8. lo - 18 * U <= X /\ X <= hi + 18 * U
        BY <1>3, <1>4, <1>5, <2>7
    <2>9. QED  BY <1>4, <1>5, <2>8 DEF X, lo, hi, U
<1>8. QED  BY <1>6, <1>7

PointUnit(g, k, x) ==
  /\ GridUnit(g) /\ TreeUnit(g, k) /\ g <= x[2]
  /\ g < Minus(x, lower_left_)[2] /\ g < Times(Minus(x, lower_left_), inv_bin_size_)[2]
  /\ g < Minus(upper_[k], lower_[k])[2] /\ g < Float(Pow2(bits))[2] /\ g < inv_span_bins_[k][2]
  /\ g < Minus(x, lower_[k])[2] /\ g < Times(Minus(x, lower_[k]), inv_span_bins_[k])[2]

LEMMA PointUnitExists ==
    ASSUME Wide, Box, Grid, Trees, MinWidth >= 64, NEW x \in Int \X Int,
           NEW k \in 0 .. n_subtrees_ - 1, NEW e0 \in Int
    PROVE  \E g \in Int : g < e0 /\ PointUnit(g, k, x)
<1>1. lower_left_ \in Int \X Int /\ inv_bin_size_ \in Int \X Int
    BY GridTyped
<1>2. /\ lower_[k] \in Int \X Int /\ Minus(upper_[k], lower_[k]) \in Int \X Int
      /\ Float(Pow2(bits)) \in Int \X Int
    BY TreeTyped
<1>3. inv_span_bins_[k] \in Int \X Int
    BY SpanTyped
<1>4. Minus(x, lower_left_) \in Int \X Int /\ Minus(x, lower_[k]) \in Int \X Int
    <2>1. Minus(x, lower_left_) \in Int \X Int
        BY <1>1, FloatsTyped
    <2>2. Minus(x, lower_[k]) \in Int \X Int
        BY <1>2, FloatsTyped
    <2>3. QED  BY <2>1, <2>2
<1>5. /\ Times(Minus(x, lower_left_), inv_bin_size_) \in Int \X Int
      /\ Times(Minus(x, lower_[k]), inv_span_bins_[k]) \in Int \X Int
    <2>1. Times(Minus(x, lower_left_), inv_bin_size_) \in Int \X Int
        BY <1>1, <1>4, FloatsTyped
    <2>2. Times(Minus(x, lower_[k]), inv_span_bins_[k]) \in Int \X Int
        BY <1>3, <1>4, FloatsTyped
    <2>3. QED  BY <2>1, <2>2
<1>6. /\ x[2] \in Int /\ Minus(x, lower_left_)[2] \in Int
      /\ Times(Minus(x, lower_left_), inv_bin_size_)[2] \in Int
      /\ Minus(upper_[k], lower_[k])[2] \in Int /\ Float(Pow2(bits))[2] \in Int
      /\ inv_span_bins_[k][2] \in Int /\ Minus(x, lower_[k])[2] \in Int
      /\ Times(Minus(x, lower_[k]), inv_span_bins_[k])[2] \in Int
    BY <1>2, <1>3, <1>4, <1>5
<1>7. PICK e1 \in Int :
        /\ e1 < e0 /\ e1 < x[2] /\ e1 < Minus(x, lower_left_)[2]
        /\ e1 < Times(Minus(x, lower_left_), inv_bin_size_)[2]
        /\ e1 < Minus(upper_[k], lower_[k])[2]
    BY <1>6, LowUnit
<1>8. PICK e \in Int :
        /\ e < e1 /\ e < Float(Pow2(bits))[2] /\ e < inv_span_bins_[k][2]
        /\ e < Minus(x, lower_[k])[2] /\ e < Times(Minus(x, lower_[k]), inv_span_bins_[k])[2]
    BY <1>6, LowUnit
<1>9. PICK g \in Int : g < e /\ GridUnit(g) /\ TreeUnit(g, k)
    BY UnitExists
<1>10. g < e1 /\ g < e0 /\ g <= x[2] /\ g < Minus(x, lower_left_)[2]
       /\ g < Times(Minus(x, lower_left_), inv_bin_size_)[2] /\ g < Minus(upper_[k], lower_[k])[2]
    BY <1>6, <1>7, <1>8, <1>9
<1>11. g < Float(Pow2(bits))[2] /\ g < inv_span_bins_[k][2]
       /\ g < Minus(x, lower_[k])[2] /\ g < Times(Minus(x, lower_[k]), inv_span_bins_[k])[2]
    BY <1>6, <1>8, <1>9
<1>12. QED  BY <1>9, <1>10, <1>11 DEF PointUnit

\* In units of 2^g: the width of a subtree and its inverse.
LEMMA SpanFacts ==
    ASSUME Wide, Box, Grid, Trees, MinWidth >= 64, NEW k \in 0 .. n_subtrees_ - 1,
           NEW g \in Int, GridUnit(g), TreeUnit(g, k),
           g < Minus(upper_[k], lower_[k])[2], g < Float(Pow2(bits))[2], g < inv_span_bins_[k][2]
    PROVE  LET T == At(Minus(upper_[k], lower_[k]), g)
               V == At(inv_span_bins_[k], g)
               O == Pow2(-g)
           IN  /\ T \in Nat \ {0} /\ V \in Int /\ O \in Nat \ {0} /\ Pow2(bits) \in Nat \ {0}
               /\ Near(T, At(upper_[k], g) - At(lower_[k], g))
               /\ Near(V * T, Pow2(bits) * (O * O))
<1> DEFINE x == Minus(upper_[k], lower_[k])
           f == Float(Pow2(bits))
           M == Pow2(bits)
           O == Pow2(-g)
           T == At(x, g)
           V == At(inv_span_bins_[k], g)
<1>1. /\ x \in Int \X Int /\ lower_[k] \in Int \X Int /\ upper_[k] \in Int \X Int
      /\ f \in Int \X Int /\ x[1] > 0 /\ inv_span_bins_[k] \in Int \X Int
    BY TreeTyped, SpanTyped
<1>2. g <= 0 /\ g <= Emin
    BY DEF GridUnit
<1>3. M \in Nat \ {0} /\ M < Pow2(p)
    BY <1>2, WidthFacts, Counts
<1>4. O \in Nat \ {0}
    <2>1. -g \in Nat
        BY <1>2
    <2>2. QED  BY <2>1, Pow2Step
<1>5. T \in Int /\ Near(T, At(upper_[k], g) - At(lower_[k], g))
    BY <1>1, MinusNear DEF TreeUnit
<1>6. g <= x[2] /\ g <= f[2] /\ g < inv_span_bins_[k][2]
    <2> HIDE DEF x, f
    <2>1. g < x[2] /\ g < f[2]
        BY DEF x, f
    <2>2. QED  BY <1>1, <2>1
<1>7. T > 0
    <2> DEFINE q == Pow2(x[2] - g)
    <2>1. q \in Nat \ {0} /\ x[1] \in Int /\ T = x[1] * q
        BY <1>1, <1>6, AtFacts DEF At
    <2> HIDE DEF q, T
    <2>2. ASSUME NEW c \in Nat \ {0}, NEW d \in Nat \ {0} PROVE c * d > 0
        OBVIOUS
    <2>3. x[1] \in Nat \ {0}
        BY <1>1, <2>1
    <2>4. QED  BY <2>1, <2>2, <2>3
<1>8. At(f, g) = M * O
    <2>1. M \in Nat /\ g < Float(M)[2]
        BY <1>3
    <2>2. QED  BY <1>2, <1>3, <2>1, FloatExact
<1>9. inv_span_bins_[k] = Over(f, x)
    BY DEF Trees
<1>10. V \in Int /\ Near(V * T, At(f, g) * O)
    <2> HIDE DEF f, x
    <2>1. QED  BY <1>1, <1>2, <1>6, <1>9, OverNear
<1>11. At(f, g) * O = M * (O * O)
    <2> HIDE DEF M, O
    <2>1. (M * O) * O = M * (O * O)
        BY <1>3, <1>4
    <2>2. QED  BY <1>8, <2>1
<1>12. T \in Nat \ {0}
    BY <1>5, <1>7
<1>13. Near(V * T, M * (O * O))
    BY <1>10, <1>11
<1>14. QED  BY <1>3, <1>4, <1>5, <1>10, <1>12, <1>13

LEMMA PointPlaced ==
    ASSUME Wide, Box, Grid, Trees, MinWidth >= 64, NEW x \in Int \X Int, InDomain(x),
           NEW k, k = bin_of(x), NEW g \in Int, PointUnit(g, k, x)
    PROVE  LET M == Pow2(bits)
               U == Ulp(g)
               X == At(x, g)
               lo == At(lower_[k], g)
               hi == At(upper_[k], g)
               c == find_cell(k, x)
           IN  /\ c \in 0 .. M - 1
               /\ c * (hi - lo) - 18 * (M * U) <= M * (X - lo)
               /\ M * (X - lo) <= (c + 1) * (hi - lo) + 18 * (M * U)
<1> DEFINE M == Pow2(bits)
           U == Ulp(g)
           O == Pow2(-g)
           X == At(x, g)
           lo == At(lower_[k], g)
           hi == At(upper_[k], g)
           d == Minus(upper_[k], lower_[k])
           T == At(d, g)
           V == At(inv_span_bins_[k], g)
           y == Minus(x, lower_[k])
           z == Times(y, inv_span_bins_[k])
           R1 == At(y, g)
           R2 == At(z, g)
           q == Cast(z)
<1>1. k \in 0 .. n_subtrees_ - 1
    BY BinTyped
<1>2. /\ GridUnit(g) /\ TreeUnit(g, k) /\ g <= x[2]
      /\ g < Minus(x, lower_left_)[2] /\ g < Times(Minus(x, lower_left_), inv_bin_size_)[2]
      /\ g < d[2] /\ g < Float(M)[2] /\ g < inv_span_bins_[k][2] /\ g < y[2] /\ g < z[2]
    BY DEF PointUnit
<1>3. g <= 0 /\ g <= Emin
    BY <1>2 DEF GridUnit
<1>4. U \in Nat \ {0}
    BY <1>3, WidthFacts
<1>5. /\ T \in Nat \ {0} /\ V \in Int /\ O \in Nat \ {0} /\ M \in Nat \ {0}
      /\ Near(T, hi - lo) /\ Near(V * T, M * (O * O))
    BY <1>1, <1>2, SpanFacts
<1>6. lower_[k] \in Int \X Int /\ inv_span_bins_[k] \in Int \X Int
    BY <1>1, TreeTyped, SpanTyped
<1>7. g <= lower_[k][2] /\ g <= inv_span_bins_[k][2]
    <2>1. g < lower_[k][2]
        BY <1>2 DEF TreeUnit
    <2>2. QED  BY <1>2, <1>6, <2>1
<1>8. y \in Int \X Int
    BY <1>6, FloatsTyped
<1>9. z \in Int \X Int
    <2> HIDE DEF y
    <2>1. QED  BY <1>6, <1>8, FloatsTyped
<1>10. g <= y[2] /\ g <= z[2]
    <2> HIDE DEF y, z
    <2>1. QED  BY <1>2, <1>8, <1>9
<1>11. R1 \in Int /\ Near(R1, X - lo)
    BY <1>2, <1>6, <1>7, MinusNear
<1>12. R2 \in Int /\ Near(R2 * O, R1 * V)
    <2> HIDE DEF y
    <2>1. QED  BY <1>2, <1>3, <1>6, <1>7, <1>8, <1>10, TimesNear
<1>13. /\ q \in Int
       /\ R2 >= 0 => q * O <= R2 /\ R2 < (q + 1) * O
       /\ R2 <= 0 => (q - 1) * O < R2 /\ R2 <= q * O
    <2> HIDE DEF z
    <2>1. QED  BY <1>3, <1>9, <1>10, CastFacts
<1>14. /\ 45 * (M * U) <= hi - lo /\ hi - lo <= 2 * (Pow2(p) * U) + 20 * U
    BY <1>1, <1>2, TreeFacts DEF TreeNumbers
<1>15. /\ X \in Int /\ lo \in Int /\ hi \in Int
       /\ lo - 18 * U <= X /\ X <= hi + 18 * U
    BY <1>2, PointInTree
<1>16. find_cell(k, x) = Clamped(q, M - 1)
    BY DEF find_cell
<1>17. Pow2(p) >= 33
    BY Counts
<1> HIDE DEF M, U, O, X, lo, hi, T, V, R1, R2, q, d, y, z
<1>18. T \in Int
    BY <1>5
<1>19. LET c == Clamped(q, M - 1)
       IN  /\ c \in 0 .. M - 1
           /\ c * (hi - lo) - 18 * (M * U) <= M * (X - lo)
           /\ M * (X - lo) <= (c + 1) * (hi - lo) + 18 * (M * U)
    BY <1>4, <1>5, <1>11, <1>12, <1>13, <1>14, <1>15, <1>17, <1>18, CellError
<1>20. QED  BY <1>16, <1>19 DEF M, U, X, lo, hi

LEMMA UlpScale ==
    ASSUME Wide, NEW e \in Int, e <= Emin, NEW g \in Int, g <= e
    PROVE  Ulp(e) \in Nat \ {0} /\ Pow2(e - g) \in Nat \ {0} /\ Ulp(g) = Ulp(e) * Pow2(e - g)
<1> DEFINE top == Higher(a[2], b[2])
<1>1. a \in Int \X Int /\ Emin <= a[2] /\ Emin \in Int
    BY CornerFacts DEF Wide
<1>2. b \in Int \X Int
    BY CornerFacts DEF Wide
<1>3. top \in Int /\ a[2] <= top
    BY <1>1, <1>2 DEF Higher
<1>4. top - e \in Nat /\ e - g \in Nat /\ (top - e) + (e - g) = top - g
    <2> HIDE DEF top
    <2>1. a[2] \in Int
        BY <1>1
    <2>2. QED  BY <1>1, <1>3, <2>1
<1>5. Ulp(e) = Pow2(top - e) /\ Ulp(g) = Pow2(top - g)
    BY DEF Ulp
<1> HIDE DEF top
<1>6. Pow2(top - e) \in Nat \ {0} /\ Pow2(e - g) \in Nat \ {0}
      /\ Pow2((top - e) + (e - g)) = Pow2(top - e) * Pow2(e - g)
    BY <1>4, Pow2Step, Pow2Add
<1>7. QED  BY <1>4, <1>5, <1>6

\* The same in the unit of the property, where a boundary may be Slack ulps off.
LEMMA PointNearCell ==
    ASSUME Wide, Box, Grid, Trees, MinWidth >= 64, Slack >= 18,
           NEW x \in Int \X Int, Emin <= x[2], InDomain(x), NEW k, k = bin_of(x)
    PROVE  LET e == Lower(Emin, Lower(lower_[k][2], upper_[k][2]))
               c == find_cell(k, x)
               above == Pow2(bits) * (At(x, e) - At(lower_[k], e))
               span == At(upper_[k], e) - At(lower_[k], e)
               off == Pow2(bits) * Slack * Ulp(e)
           IN  /\ k \in 0 .. n_subtrees_ - 1 /\ c \in 0 .. Pow2(bits) - 1
               /\ above >= c * span - off
               /\ above <= (c + 1) * span + off
<1> DEFINE e == Lower(Emin, Lower(lower_[k][2], upper_[k][2]))
           c == find_cell(k, x)
           M == Pow2(bits)
           lo == lower_[k]
           hi == upper_[k]
<1>1. k \in 0 .. n_subtrees_ - 1
    BY BinTyped
<1>2. lo \in Int \X Int /\ hi \in Int \X Int /\ Emin \in Int
    BY <1>1, TreeTyped, FitDomainConstants
<1>3. e \in Int /\ e <= Emin /\ e <= lo[2] /\ e <= hi[2]
    BY <1>2 DEF Lower
<1>4. e <= x[2]
    <2>1. x[2] \in Int
        OBVIOUS
    <2> HIDE DEF e
    <2>2. QED  BY <1>2, <1>3, <2>1
<1> HIDE DEF e
<1>5. PICK g \in Int : g < e /\ PointUnit(g, k, x)
    BY <1>1, <1>3, PointUnitExists
<1> DEFINE X0 == At(x, e)
           l0 == At(lo, e)
           h0 == At(hi, e)
           U0 == Ulp(e)
           X == At(x, g)
           l == At(lo, g)
           h == At(hi, g)
           U == Ulp(g)
           w == Pow2(e - g)
<1>6. /\ c \in 0 .. M - 1
      /\ c * (h - l) - 18 * (M * U) <= M * (X - l)
      /\ M * (X - l) <= (c + 1) * (h - l) + 18 * (M * U)
    BY <1>5, PointPlaced
<1>7. g <= e
    BY <1>3, <1>5
<1>8. /\ w \in Nat \ {0} /\ X0 \in Int /\ X = X0 * w
      /\ l0 \in Int /\ l = l0 * w /\ h0 \in Int /\ h = h0 * w
    <2>1. X0 \in Int /\ w \in Nat \ {0} /\ X = X0 * w
        BY <1>3, <1>4, <1>7, AtFacts
    <2>2. l0 \in Int /\ l = l0 * w
        BY <1>2, <1>3, <1>7, AtFacts
    <2>3. h0 \in Int /\ h = h0 * w
        BY <1>2, <1>3, <1>7, AtFacts
    <2>4. QED  BY <2>1, <2>2, <2>3
<1>9. U0 \in Nat \ {0} /\ U = U0 * w
    BY <1>3, <1>7, UlpScale
<1>10. M \in Nat \ {0} /\ Slack \in Nat
    <2>1. M \in Nat \ {0}
        BY <1>3, WidthFacts
    <2>2. QED  BY <2>1, FitDomainConstants
<1> HIDE DEF c, M, X0, l0, h0, U0, X, l, h, U, w
<1> DEFINE s0 == h0 - l0
           y0 == M * (X0 - l0)
           v0 == M * U0
<1>11. c \in Nat /\ s0 \in Int /\ y0 \in Int /\ v0 \in Nat
    BY <1>6, <1>8, <1>9, <1>10
<1>12. h - l = s0 * w /\ M * (X - l) = y0 * w /\ M * U = v0 * w
    BY <1>8, <1>9, <1>10
<1> HIDE DEF s0, y0, v0
<1>13. /\ (c * s0 - 18 * v0) * w = c * (s0 * w) - 18 * (v0 * w)
       /\ ((c + 1) * s0 + 18 * v0) * w = (c + 1) * (s0 * w) + 18 * (v0 * w)
       /\ c * s0 \in Int /\ (c + 1) * s0 \in Int
    BY <1>8, <1>11
<1>14. (c * s0 - 18 * v0) * w <= y0 * w /\ y0 * w <= ((c + 1) * s0 + 18 * v0) * w
    BY <1>6, <1>12, <1>13
<1>15. c * s0 - 18 * v0 <= y0 /\ y0 <= (c + 1) * s0 + 18 * v0
    BY <1>8, <1>11, <1>13, <1>14, Cancel
<1>16. M * Slack * U0 \in Int /\ 18 * v0 <= M * Slack * U0
    <2>1. M * Slack * U0 = Slack * v0 /\ Slack * v0 \in Int
        BY <1>9, <1>10 DEF v0
    <2>2. v0 \in Nat \ {0}
        BY <1>9, <1>10 DEF v0
    <2>3. 18 * v0 <= Slack * v0
        BY <1>10, <2>2, TimesOrder
    <2>4. QED  BY <2>1, <2>3
<1>17. y0 >= c * s0 - M * Slack * U0 /\ y0 <= (c + 1) * s0 + M * Slack * U0
    BY <1>11, <1>13, <1>15, <1>16
<1>18. QED  BY <1>1, <1>6, <1>17 DEF y0, s0, c, M, X0, l0, h0, U0, e

LEMMA PositiveAt ==
    ASSUME NEW x \in Int \X Int, x[1] > 0, NEW g \in Int, g <= x[2]
    PROVE  At(x, g) > 0
<1> DEFINE q == Pow2(x[2] - g)
<1>1. q \in Nat \ {0} /\ At(x, g) = x[1] * q
    BY AtFacts DEF At
<1>2. x[1] \in Nat \ {0}
    OBVIOUS
<1> HIDE DEF q
<1>3. ASSUME NEW c \in Nat \ {0}, NEW d \in Nat \ {0} PROVE c * d > 0
    OBVIOUS
<1>4. QED  BY <1>1, <1>2, <1>3

\* An offset from z, times a positive inverse, keeps the order of the points.
LEMMA LocateOrder ==
    ASSUME NEW x \in Int \X Int, NEW y \in Int \X Int, NEW z \in Int \X Int,
           NEW w \in Int \X Int, w[1] > 0,
           NEW h \in Int, h <= x[2], h <= y[2], At(x, h) <= At(y, h)
    PROVE  Cast(Times(Minus(x, z), w)) <= Cast(Times(Minus(y, z), w))
<1> DEFINE u == Minus(x, z)
           v == Minus(y, z)
           s == Times(u, w)
           t == Times(v, w)
<1>1. u \in Int \X Int /\ v \in Int \X Int
    <2>1. u \in Int \X Int
        BY FloatsTyped
    <2>2. v \in Int \X Int
        BY FloatsTyped
    <2>3. QED  BY <2>1, <2>2
<1>2. s \in Int \X Int /\ t \in Int \X Int
    <2> HIDE DEF u, v
    <2>1. s \in Int \X Int
        BY <1>1, FloatsTyped
    <2>2. t \in Int \X Int
        BY <1>1, FloatsTyped
    <2>3. QED  BY <2>1, <2>2
<1> HIDE DEF s, t
<1>3. u[2] \in Int /\ v[2] \in Int /\ s[2] \in Int /\ t[2] \in Int /\ w[2] \in Int /\ z[2] \in Int
    <2> HIDE DEF u, v
    <2>1. QED  BY <1>1, <1>2
<1> HIDE DEF u, v
<1>4. PICK e \in Int : e < h /\ e < u[2] /\ e < v[2] /\ e < s[2] /\ e < t[2] /\ e < w[2]
    <2> DEFINE m1 == u[2]
               m2 == v[2]
               m3 == s[2]
               m4 == t[2]
               m5 == w[2]
    <2>1. m1 \in Int /\ m2 \in Int /\ m3 \in Int /\ m4 \in Int /\ m5 \in Int
        BY <1>3
    <2> HIDE DEF m1, m2, m3, m4, m5
    <2>2. \E e \in Int : e < h /\ e < m1 /\ e < m2 /\ e < m3 /\ e < m4 /\ e < m5
        BY <2>1, LowUnit
    <2>3. QED  BY <2>2 DEF m1, m2, m3, m4, m5
<1>5. PICK g \in Int : g < 0 /\ g < e /\ g < z[2]
    BY <1>3, LowUnit
<1>6. /\ g <= 0 /\ g <= h /\ g <= x[2] /\ g <= y[2] /\ g <= z[2] /\ g <= w[2]
      /\ g < u[2] /\ g < v[2] /\ g < s[2] /\ g < t[2]
    <2>1. x[2] \in Int /\ y[2] \in Int
        OBVIOUS
    <2>2. QED  BY <1>3, <1>4, <1>5, <2>1
<1>7. At(x, g) <= At(y, g)
    BY <1>6, AtOrder
<1>8. At(u, g) <= At(v, g)
    BY <1>6, <1>7, MinusOrder DEF u, v
<1>9. At(w, g) > 0
    BY <1>6, PositiveAt
<1>10. g <= u[2] /\ g <= v[2] /\ g <= s[2] /\ g <= t[2]
    BY <1>3, <1>6
<1>11. At(s, g) <= At(t, g)
    BY <1>1, <1>6, <1>8, <1>9, <1>10, TimesOrdered DEF s, t
<1>12. Cast(s) <= Cast(t)
    BY <1>2, <1>6, <1>10, <1>11, CastOrder
<1>13. QED  BY <1>12 DEF s, t, u, v

LEMMA InversesPositive ==
    ASSUME Wide, Box, Grid, Trees, MinWidth >= 64, NEW k \in 0 .. n_subtrees_ - 1
    PROVE  inv_bin_size_[1] > 0 /\ inv_span_bins_[k][1] > 0
<1>1. inv_bin_size_ \in Int \X Int /\ inv_span_bins_[k] \in Int \X Int
    BY GridTyped, SpanTyped
<1>2. /\ Minus(upper_[k], lower_[k])[2] \in Int /\ Float(Pow2(bits))[2] \in Int
      /\ inv_span_bins_[k][2] \in Int
    BY <1>1, TreeTyped
<1>3. PICK e \in Int : e < Minus(upper_[k], lower_[k])[2] /\ e < Float(Pow2(bits))[2] /\ e < inv_span_bins_[k][2]
    BY <1>2, LowUnit
<1>4. PICK g \in Int : g < e /\ GridUnit(g) /\ TreeUnit(g, k)
    BY UnitExists
<1>5. /\ g < Minus(upper_[k], lower_[k])[2] /\ g < Float(Pow2(bits))[2] /\ g < inv_span_bins_[k][2]
      /\ g <= inv_span_bins_[k][2]
    BY <1>2, <1>3, <1>4
<1>6. ASSUME NEW V \in Int, NEW T \in Nat \ {0}, NEW N \in Nat \ {0}, NEW O \in Nat \ {0},
             Near(V * T, N * (O * O))
      PROVE  V > 0
    <2>1. Near(0, 0)
        <3>1. Pow2(p) \in Int
            BY Precision
        <3>2. QED  BY <3>1 DEF Near
    <2>2. 0 * O = 0 /\ 0 * V = 0 /\ 0 \in Nat /\ 0 \in Int
        OBVIOUS
    <2>3. Near(0 * O, 0 * V)
        BY <2>1, <2>2
    <2>4. Pow2(p) >= 33
        BY Counts
    <2>5. V \in Nat \ {0}
        BY <1>6, <2>1, <2>2, <2>3, <2>4, Located
    <2>6. QED  BY <2>5
<1> DEFINE O == Pow2(-g)
<1>7. inv_span_bins_[k][1] > 0
    <2> DEFINE T == At(Minus(upper_[k], lower_[k]), g)
               V == At(inv_span_bins_[k], g)
    <2>1. T \in Nat \ {0} /\ V \in Int /\ O \in Nat \ {0} /\ Pow2(bits) \in Nat \ {0}
          /\ Near(V * T, Pow2(bits) * (O * O))
        BY <1>4, <1>5, SpanFacts
    <2> HIDE DEF T, V, O
    <2>2. V > 0
        BY <1>6, <2>1
    <2>3. QED  BY <1>1, <1>5, <2>2, Positive DEF V
<1>8. inv_bin_size_[1] > 0
    <2> DEFINE T == At(Minus(b, a), g)
               V == At(inv_bin_size_, g)
    <2>1. g <= Emin /\ g < Minus(b, a)[2] /\ g < inv_bin_size_[2]
        BY <1>4 DEF GridUnit
    <2>2. T \in Nat \ {0}
        BY <2>1, WidthPositive DEF WidthNumbers
    <2>3. n_subtrees_ \in Nat \ {0}
        BY <2>1, WidthFacts
    <2>4. V \in Int /\ O \in Nat \ {0} /\ Near(V * T, n_subtrees_ * (O * O))
        BY <1>4, GridFacts DEF GridUnit, GridNumbers
    <2>5. g <= inv_bin_size_[2]
        BY <1>1, <2>1
    <2> HIDE DEF T, V, O
    <2>6. V > 0
        BY <1>6, <2>2, <2>3, <2>4
    <2>7. QED  BY <1>1, <2>5, <2>6, Positive DEF V
<1>9. QED  BY <1>7, <1>8

LEMMA CastTyped ==
    ASSUME NEW x \in Int \X Int
    PROVE  Cast(x) \in Int
<1>1. x[2] \in Int
    OBVIOUS
<1>2. PICK g \in Int : g < 0 /\ g < x[2]
    BY <1>1, LowUnit
<1>3. g <= 0 /\ g <= x[2]
    BY <1>1, <1>2
<1>4. QED  BY <1>3, CastFacts

LEMMA CellsOrdered ==
    ASSUME Wide, Box, Grid, Trees, MinWidth >= 64,
           NEW x \in Int \X Int, NEW y \in Int \X Int, Emin <= x[2], Emin <= y[2],
           At(x, Emin) <= At(y, Emin), InDomain(x), InDomain(y)
    PROVE  /\ bin_of(x) \in Int /\ bin_of(y) \in Int /\ bin_of(x) <= bin_of(y)
           /\ bin_of(x) = bin_of(y) => find_cell(bin_of(x), x) <= find_cell(bin_of(y), y)
<1>1. bin_of(x) \in 0 .. n_subtrees_ - 1 /\ bin_of(y) \in 0 .. n_subtrees_ - 1
    BY BinTyped
<1>2. Emin \in Int /\ Emin <= Emin
    BY FitDomainConstants
<1>3. n_subtrees_ \in Nat \ {0} /\ Pow2(bits) \in Nat \ {0}
    BY <1>2, WidthFacts
<1>4. ASSUME NEW z \in Int \X Int, NEW w \in Int \X Int, w[1] > 0, NEW m \in Int
      PROVE  Clamped(Cast(Times(Minus(x, z), w)), m) <= Clamped(Cast(Times(Minus(y, z), w)), m)
    <2>1. Cast(Times(Minus(x, z), w)) <= Cast(Times(Minus(y, z), w))
        BY <1>2, <1>4, LocateOrder
    <2>2. Cast(Times(Minus(x, z), w)) \in Int
        <3>1. Minus(x, z) \in Int \X Int
            BY FloatsTyped
        <3>2. Times(Minus(x, z), w) \in Int \X Int
            BY <3>1, FloatsTyped
        <3>3. QED  BY <3>2, CastTyped
    <2>3. Cast(Times(Minus(y, z), w)) \in Int
        <3>1. Minus(y, z) \in Int \X Int
            BY FloatsTyped
        <3>2. Times(Minus(y, z), w) \in Int \X Int
            BY <3>1, FloatsTyped
        <3>3. QED  BY <3>2, CastTyped
    <2> DEFINE c == Cast(Times(Minus(x, z), w))
               d == Cast(Times(Minus(y, z), w))
    <2>4. c \in Int /\ d \in Int /\ c <= d
        BY <2>1, <2>2, <2>3
    <2> HIDE DEF c, d
    <2>5. Clamped(c, m) <= Clamped(d, m)
        BY <2>4 DEF Clamped
    <2>6. QED  BY <2>5 DEF c, d
<1>5. bin_of(x) <= bin_of(y)
    <2>1. CASE n_subtrees_ = 1
        BY <2>1 DEF bin_of
    <2>2. CASE n_subtrees_ # 1
        <3>1. lower_left_ \in Int \X Int /\ inv_bin_size_ \in Int \X Int /\ n_subtrees_ - 1 \in Int
            BY <1>3, GridTyped
        <3>2. inv_bin_size_[1] > 0
            BY <1>1, InversesPositive
        <3>3. get_linear_bin(x) <= get_linear_bin(y)
            BY <1>4, <3>1, <3>2 DEF get_linear_bin
        <3>4. QED  BY <2>2, <3>3 DEF bin_of
    <2>3. QED  BY <2>1, <2>2
<1>6. ASSUME bin_of(x) = bin_of(y)
      PROVE  find_cell(bin_of(x), x) <= find_cell(bin_of(y), y)
    <2> DEFINE k == bin_of(x)
    <2>1. k \in 0 .. n_subtrees_ - 1 /\ bin_of(y) = k
        BY <1>1, <1>6
    <2> HIDE DEF k
    <2>2. lower_[k] \in Int \X Int /\ inv_span_bins_[k] \in Int \X Int /\ Pow2(bits) - 1 \in Int
        BY <1>3, <2>1, TreeTyped, SpanTyped
    <2>3. inv_span_bins_[k][1] > 0
        BY <2>1, InversesPositive
    <2>4. find_cell(k, x) <= find_cell(k, y)
        BY <1>4, <2>2, <2>3 DEF find_cell
    <2>5. QED  BY <2>1, <2>4 DEF k
<1>7. QED  BY <1>1, <1>5, <1>6

-----------------------------------------------------------------------------
(* Theorems                                                                *)

DomainInvariant ==
  /\ Wide
  /\ pc \in {"fit", "bins", "subtrees", "fitted"}
  /\ pc # "fit" => Box
  /\ pc \in {"subtrees", "fitted"} => Grid
  /\ pc = "fitted" => Trees
  /\ i \in 0 .. Len(xp)
  /\ got # ood_id => pc = "fitted" /\ i # 0 /\ got = leaf_id_of(xp[i])

\* What each step of a fit computed stays a function of the corners, and what
\* a point got is what the finished fit gives it: MakeBox, MakeBins,
\* MakeSubtrees and Locate never meet half of a fit.
THEOREM DomainInvariantHolds == Spec => []DomainInvariant
<1>0. Len(xp) \in Nat
    <2>1. xp \in Seq(Int \X Int)
        BY FitDomainConstants
    <2>2. QED  BY <2>1, LenProperties
<1>1. Init => DomainInvariant
    BY <1>0 DEF Init, DomainInvariant, Wide
<1>2. ASSUME DomainInvariant, [Next]_vars PROVE DomainInvariant'
    <2>0. /\ Wide /\ i \in 0 .. Len(xp)
          /\ pc # "fit" => Box
          /\ pc \in {"subtrees", "fitted"} => Grid
          /\ pc = "fitted" => Trees
          /\ pc \in {"fit", "bins", "subtrees", "fitted"}
          /\ got # ood_id => pc = "fitted" /\ i # 0 /\ got = leaf_id_of(xp[i])
        BY <1>2 DEF DomainInvariant
    <2>a. ASSUME UNCHANGED caller
          PROVE  Wide'
        BY <2>0, <2>a DEF caller, Wide, Ulp
    <2>b. ASSUME UNCHANGED <<caller, box>>, Box
          PROVE  Box'
        BY <2>b DEF caller, box, Box
    <2>c. ASSUME UNCHANGED <<caller, box, grid>>, Grid
          PROVE  Grid'
        BY <2>c DEF caller, box, grid, Grid
    <2>d. ASSUME UNCHANGED <<caller, box, grid, trees>>, Trees
          PROVE  Trees'
        <3>1. /\ n_subtrees_' = n_subtrees_ /\ bits' = bits /\ bin_size' = bin_size
              /\ lower_left_' = lower_left_ /\ lower_' = lower_ /\ upper_' = upper_
              /\ inv_span_bins_' = inv_span_bins_
            BY <2>d DEF caller, grid, trees
        <3>2. \A k : parent_center(k)' = parent_center(k)
            BY <3>1 DEF parent_center
        <3>3. lower_' = [k \in 0 .. n_subtrees_' - 1 |-> Minus(parent_center(k)', Halved(bin_size'))]
            BY <2>d, <3>1, <3>2 DEF Trees
        <3>4. upper_' = [k \in 0 .. n_subtrees_' - 1 |-> Plus(parent_center(k)', Halved(bin_size'))]
            BY <2>d, <3>1, <3>2 DEF Trees
        <3>5. inv_span_bins_' = [k \in 0 .. n_subtrees_' - 1 |->
                                   Over(Float(Pow2(bits')), Minus(upper_'[k], lower_'[k]))]
            BY <2>d, <3>1 DEF Trees
        <3>6. QED  BY <3>3, <3>4, <3>5 DEF Trees
    <2>e. ASSUME UNCHANGED <<caller, box, grid, trees>>
          PROVE  \A x : leaf_id_of(x)' = leaf_id_of(x)
        <3>1. /\ n_subtrees_' = n_subtrees_ /\ bits' = bits
              /\ lower_left_' = lower_left_ /\ upper_right_' = upper_right_
              /\ inv_bin_size_' = inv_bin_size_ /\ lower_' = lower_ /\ upper_' = upper_
              /\ inv_span_bins_' = inv_span_bins_
            BY <2>e DEF caller, grid, trees
        <3>2. \A x : InDomain(x)' = InDomain(x) /\ get_linear_bin(x)' = get_linear_bin(x)
            BY <3>1 DEF InDomain, get_linear_bin
        <3>3. \A k, x : find_cell(k, x)' = find_cell(k, x)
            BY <3>1 DEF find_cell
        <3>4. QED  BY <3>1, <3>2, <3>3 DEF leaf_id_of
    <2>1. CASE MakeBox
        <3>1. /\ pc = "fit" /\ pc' = "bins" /\ UNCHANGED caller /\ i' = i /\ got' = got
              /\ center' = Halved(Plus(a, b)) /\ half_length' = Halved(Minus(b, a))
            BY <2>1 DEF MakeBox
        <3>2. a' = a /\ b' = b
            BY <3>1 DEF caller
        <3>3. Wide' /\ Box' /\ got' = ood_id /\ i' \in 0 .. Len(xp)
            BY <2>0, <2>a, <3>1, <3>2 DEF Box
        <3>4. QED  BY <3>1, <3>3 DEF DomainInvariant
    <2>2. CASE MakeBins
        <3>1. /\ pc = "bins" /\ pc' = "subtrees" /\ UNCHANGED <<caller, box>> /\ i' = i /\ got' = got
              /\ bin_size' = Over(Doubled(half_length), Float(n_subtrees_))
              /\ inv_bin_size_' = Over(Halved(Float(n_subtrees_)), half_length)
              /\ lower_left_' = Minus(center, half_length)
              /\ upper_right_' = Plus(center, half_length)
            BY <2>2 DEF MakeBins
        <3>2. n_subtrees_' = n_subtrees_ /\ center' = center /\ half_length' = half_length
            BY <3>1 DEF caller, box
        <3>3. Grid'
            BY <3>1, <3>2 DEF Grid
        <3>4. Wide' /\ Box' /\ got' = ood_id /\ i' \in 0 .. Len(xp)
            BY <2>0, <2>a, <2>b, <3>1
        <3>5. QED  BY <3>1, <3>3, <3>4 DEF DomainInvariant
    <2>3. CASE MakeSubtrees
        <3> DEFINE Bins == 0 .. n_subtrees_ - 1
                   lo == [k \in Bins |-> Minus(parent_center(k), Halved(bin_size))]
                   hi == [k \in Bins |-> Plus(parent_center(k), Halved(bin_size))]
        <3>1. /\ pc = "subtrees" /\ pc' = "fitted" /\ UNCHANGED <<caller, box, grid>>
              /\ i' = i /\ got' = got
              /\ lower_' = lo /\ upper_' = hi
              /\ inv_span_bins_' = [k \in Bins |-> Over(Float(Pow2(bits)), Minus(hi[k], lo[k]))]
            BY <2>3 DEF MakeSubtrees
        <3>2. /\ n_subtrees_' = n_subtrees_ /\ bits' = bits
              /\ bin_size' = bin_size /\ lower_left_' = lower_left_
            BY <3>1 DEF caller, grid
        <3>3. \A k : parent_center(k)' = parent_center(k)
            BY <3>2 DEF parent_center
        <3>4. lower_' = [k \in 0 .. n_subtrees_' - 1 |-> Minus(parent_center(k)', Halved(bin_size'))]
            BY <3>1, <3>2, <3>3
        <3>5. upper_' = [k \in 0 .. n_subtrees_' - 1 |-> Plus(parent_center(k)', Halved(bin_size'))]
            BY <3>1, <3>2, <3>3
        <3>6. inv_span_bins_' = [k \in 0 .. n_subtrees_' - 1 |->
                                   Over(Float(Pow2(bits')), Minus(upper_'[k], lower_'[k]))]
            BY <3>1, <3>2
        <3>7. Trees'
            BY <3>4, <3>5, <3>6 DEF Trees
        <3>8. Wide' /\ Box' /\ Grid' /\ got' = ood_id /\ i' \in 0 .. Len(xp)
            BY <2>0, <2>a, <2>b, <2>c, <3>1
        <3>9. QED  BY <3>1, <3>7, <3>8 DEF DomainInvariant
    <2>4. CASE Locate
        <3>1. /\ pc = "fitted" /\ i < Len(xp) /\ i' = i + 1 /\ got' = leaf_id_of(xp[i + 1])
              /\ UNCHANGED <<caller, box, grid, trees>> /\ pc' = pc
            BY <2>4 DEF Locate
        <3>2. Wide' /\ Box' /\ Grid' /\ Trees'
            BY <2>0, <2>a, <2>b, <2>c, <2>d, <3>1
        <3>3. i' \in 0 .. Len(xp) /\ i' # 0
            BY <1>0, <2>0, <3>1
        <3>4. got' = leaf_id_of(xp[i])'
            BY <2>e, <3>1
        <3>5. QED  BY <3>1, <3>2, <3>3, <3>4 DEF DomainInvariant
    <2>5. CASE UNCHANGED vars
        <3>1. UNCHANGED <<caller, box, grid, trees>> /\ i' = i /\ got' = got /\ pc' = pc
            BY <2>5 DEF vars
        <3>2. Wide' /\ (Box => Box') /\ (Grid => Grid') /\ (Trees => Trees')
            BY <2>a, <2>b, <2>c, <2>d, <3>1
        <3>3. got' # ood_id => got' = leaf_id_of(xp[i])'
            BY <2>0, <2>e, <3>1
        <3>4. QED  BY <2>0, <3>1, <3>2, <3>3 DEF DomainInvariant
    <2>6. QED  BY <1>2, <2>1, <2>2, <2>3, <2>4, <2>5 DEF Next
<1>3. QED  BY <1>1, <1>2, PTL DEF Spec

LEMMA PointTyped ==
    ASSUME NEW k \in 1 .. Len(xp)
    PROVE  xp[k] \in Int \X Int /\ Emin <= xp[k][2]
<1>1. xp \in Seq(Int \X Int) /\ Emin \in Int /\ xp[k][2] >= Emin
    BY FitDomainConstants
<1>2. xp[k] \in Int \X Int
    BY <1>1, ElementOfSeq
<1>3. QED  BY <1>1, <1>2

LEMMA GotFacts ==
    ASSUME DomainInvariant, got # ood_id
    PROVE  /\ Wide /\ Box /\ Grid /\ Trees
           /\ i \in 1 .. Len(xp) /\ InDomain(xp[i])
           /\ got = [bin |-> bin_of(xp[i]), cell |-> find_cell(bin_of(xp[i]), xp[i])]
<1>1. /\ Wide /\ Box /\ Grid /\ Trees
      /\ i \in 0 .. Len(xp) /\ i # 0 /\ got = leaf_id_of(xp[i])
    BY DEF DomainInvariant
<1>2. InDomain(xp[i])
    BY <1>1 DEF leaf_id_of
<1>3. got = [bin |-> bin_of(xp[i]), cell |-> find_cell(bin_of(xp[i]), xp[i])]
    BY <1>1, <1>2 DEF leaf_id_of, bin_of
<1>4. i \in 1 .. Len(xp)
    <2>1. Len(xp) \in Nat
        <3>1. xp \in Seq(Int \X Int)
            BY FitDomainConstants
        <3>2. QED  BY <3>1, LenProperties
    <2>2. QED  BY <1>1, <2>1
<1>5. QED  BY <1>1, <1>2, <1>3, <1>4

\* For every precision, when a cell is at least 64 ulps wide, no bin and no
\* cell is out of range: get_linear_bin and the quantize of a leaf table
\* neither cast a number of -1 or less nor read past the last entry.
THEOREM IndicesInTable ==
    ASSUME MinWidth >= 64
    PROVE  Spec => []IndexInTable
<1>1. ASSUME DomainInvariant PROVE IndexInTable
    <2> SUFFICES ASSUME got # ood_id
                 PROVE  got.bin \in 0 .. n_subtrees_ - 1 /\ got.cell \in 0 .. Pow2(bits) - 1
        BY DEF IndexInTable
    <2> DEFINE x == xp[i]
               k == bin_of(x)
    <2>1. /\ Wide /\ Box /\ Grid /\ Trees /\ i \in 1 .. Len(xp) /\ InDomain(x)
          /\ got.bin = k /\ got.cell = find_cell(k, x)
        BY <1>1, GotFacts
    <2>2. x \in Int \X Int
        BY <2>1, PointTyped
    <2> HIDE DEF x
    <2>3. k \in 0 .. n_subtrees_ - 1
        BY <2>1, <2>2, BinTyped
    <2>4. PICK g \in Int : g < 0 /\ PointUnit(g, k, x)
        <3>1. 0 \in Int
            OBVIOUS
        <3>2. QED  BY <2>1, <2>2, <2>3, <3>1, PointUnitExists
    <2>5. find_cell(k, x) \in 0 .. Pow2(bits) - 1
        BY <2>1, <2>2, <2>4, PointPlaced
    <2>6. QED  BY <2>1, <2>3, <2>5
<1>2. QED  BY <1>1, DomainInvariantHolds, PTL

\* For every precision, when a cell is at least 64 ulps wide, a point is at
\* most 18 ulps outside the cell it is given: the centre and half length of
\* fit(), the bins of the Function, the bounds of the subtrees and the two
\* stored inverses round at most that much away from one another.
THEOREM NearOwnCells ==
    ASSUME MinWidth >= 64, Slack >= 18
    PROVE  Spec => []NearOwnCell
<1>1. ASSUME DomainInvariant PROVE NearOwnCell
    <2>1. CASE got = ood_id
        BY <2>1 DEF NearOwnCell
    <2>2. CASE got # ood_id
        <3> DEFINE x == xp[i]
                   k == bin_of(x)
        <3>1. /\ Wide /\ Box /\ Grid /\ Trees /\ i \in 1 .. Len(xp) /\ InDomain(x)
              /\ got.bin = k /\ got.cell = find_cell(k, x)
            BY <1>1, <2>2, GotFacts
        <3>2. x \in Int \X Int /\ Emin <= x[2]
            BY <3>1, PointTyped
        <3> HIDE DEF x
        <3>3. LET e == Lower(Emin, Lower(lower_[k][2], upper_[k][2]))
                  c == find_cell(k, x)
                  above == Pow2(bits) * (At(x, e) - At(lower_[k], e))
                  span == At(upper_[k], e) - At(lower_[k], e)
                  off == Pow2(bits) * Slack * Ulp(e)
              IN  above >= c * span - off /\ above <= (c + 1) * span + off
            BY <3>1, <3>2, PointNearCell
        <3>4. QED  BY <3>1, <3>3 DEF NearOwnCell, x
    <2>3. QED  BY <2>1, <2>2
<1>2. QED  BY <1>1, DomainInvariantHolds, PTL

\* For every precision, when a cell is at least 64 ulps wide, ascending
\* points get ascending bins, and in one bin ascending cells: subtraction of
\* a bound, multiplication by a stored inverse, the cast and the clamp all
\* keep the order, as the run walk over a sorted batch expects.
THEOREM CellsAscend ==
    ASSUME MinWidth >= 64
    PROVE  Spec => AscendingCells
<1>1. ASSUME DomainInvariant, [Next]_vars
      PROVE  [got # ood_id /\ got' # ood_id =>
                got.bin < got'.bin \/ (got.bin = got'.bin /\ got.cell <= got'.cell)]_vars
    <2>1. CASE UNCHANGED vars
        BY <2>1
    <2>2. ASSUME Next, got # ood_id, got' # ood_id
          PROVE  got.bin < got'.bin \/ (got.bin = got'.bin /\ got.cell <= got'.cell)
        <3> DEFINE x == xp[i]
                   y == xp[i + 1]
        <3>1. /\ Wide /\ Box /\ Grid /\ Trees /\ i \in 1 .. Len(xp) /\ InDomain(x)
              /\ got.bin = bin_of(x) /\ got.cell = find_cell(bin_of(x), x)
            BY <1>1, <2>2, GotFacts
        <3>2. Locate
            BY <1>1, <2>2 DEF Next, MakeBox, MakeBins, MakeSubtrees, DomainInvariant
        <3>3. i < Len(xp) /\ got' = leaf_id_of(y)
            BY <3>2 DEF Locate
        <3>4. InDomain(y) /\ got' = [bin |-> bin_of(y), cell |-> find_cell(bin_of(y), y)]
            <4>1. InDomain(y)
                BY <2>2, <3>3 DEF leaf_id_of
            <4>2. QED  BY <3>3, <4>1 DEF leaf_id_of, bin_of
        <3>5. Len(xp) \in Nat
            <4>1. xp \in Seq(Int \X Int)
                BY FitDomainConstants
            <4>2. QED  BY <4>1, LenProperties
        <3>6. i \in 1 .. Len(xp) - 1 /\ i + 1 \in 1 .. Len(xp)
            BY <3>1, <3>3, <3>5
        <3>7. x \in Int \X Int /\ Emin <= x[2]
            BY <3>1, PointTyped
        <3>8. y \in Int \X Int /\ Emin <= y[2]
            BY <3>6, PointTyped
        <3>9. At(x, Emin) <= At(y, Emin)
            <4>1. At(x, Emin) < At(y, Emin) /\ Emin \in Int
                BY <3>6, FitDomainConstants
            <4>2. At(x, Emin) \in Int
                BY <3>7, <4>1, AtFacts
            <4>3. At(y, Emin) \in Int
                BY <3>8, <4>1, AtFacts
            <4>4. QED  BY <4>1, <4>2, <4>3
        <3> HIDE DEF x, y
        <3>10. /\ bin_of(x) \in Int /\ bin_of(y) \in Int /\ bin_of(x) <= bin_of(y)
               /\ bin_of(x) = bin_of(y) => find_cell(bin_of(x), x) <= find_cell(bin_of(y), y)
            BY <3>1, <3>4, <3>7, <3>8, <3>9, CellsOrdered
        <3>11. QED  BY <3>1, <3>4, <3>10
    <2>3. QED  BY <1>1, <2>1, <2>2
<1>2. QED  BY <1>1, DomainInvariantHolds, PTL DEF Spec, AscendingCells
=============================================================================
