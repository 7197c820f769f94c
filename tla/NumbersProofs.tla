---------------------------- MODULE NumbersProofs ----------------------------
(***************************************************************************)
(* For every format of int and float and whatever the arguments of the     *)
(* calls: what the arithmetic of mtddata.c answers is exact, or as near as *)
(* a float comes, its comparisons agree with the order of the numbers and  *)
(* with one another, and sqrt, floor and random keep what they promise.    *)
(*                                                                         *)
(* Typed is the inductive type invariant.  ArithmeticInv says, turn by     *)
(* turn of a loop, what the result so far is; OrderInv, which arguments    *)
(* have been compared, and how the call before ended; FunctionInv, what a  *)
(* function of one argument gave.  Beneath them lie the lemmas on the      *)
(* magnitudes and on the rounding of C.                                    *)
(***************************************************************************)
EXTENDS Numbers, SequenceTheorems, WellFoundedInduction, TLAPS

-----------------------------------------------------------------------------
(* Recursion over the natural numbers.                                     *)

\* What holds for 0, and for n + 1 when for n, holds for all numbers.
LEMMA Induction ==
    ASSUME NEW S, 0 \in S, \A n \in Nat : n \in S => n + 1 \in S
    PROVE  Nat \subseteq S
<1>1. SUFFICES ASSUME Nat \ S # {} PROVE FALSE
    OBVIOUS
<1>2. PICK R : R = OpToRel(<, Nat)
    OBVIOUS
<1>3. PICK n \in Nat \ S : \A m \in Nat \ S : ~(<<m, n>> \in R)
    <2>1. IsWellFoundedOn(R, Nat)
        BY <1>2, NatLessThanWellFounded
    <2>2. Nat \ S \subseteq Nat /\ Nat \ S # {}
        BY <1>1
    <2> QED
        BY <2>1, <2>2, WFMin
<1>4. n # 0 /\ n - 1 \in Nat /\ n - 1 < n /\ (n - 1) + 1 = n
    BY <1>3
<1>5. <<n - 1, n>> \in R
    BY <1>2, <1>3, <1>4 DEF OpToRel
<1>6. n - 1 \in S
    BY <1>3, <1>4, <1>5
<1> QED
    BY <1>3, <1>4, <1>6

\* f goes from b on by g, which is told the step.
Iterates(f, n, b, g) == f = [k \in 0..n |-> IF k = 0 THEN b ELSE g[<<k, f[k - 1]>>]]

\* Such a function exists.
LEMMA Iteration ==
    ASSUME NEW N \in Nat, NEW V, NEW b \in V, NEW g \in [Nat \X V -> V]
    PROVE  \E f \in [0..N -> V] : Iterates(f, N, b, g)
<1> DEFINE Good == {n \in Nat : \E f \in [0..n -> V] : Iterates(f, n, b, g)}
<1>1. 0 \in Good
    <2>1. PICK f : f = [k \in 0..0 |-> b]
        OBVIOUS
    <2>2. f \in [0..0 -> V] /\ Iterates(f, 0, b, g)
        BY <2>1 DEF Iterates
    <2> QED
        BY <2>2
<1>2. ASSUME NEW n \in Nat, n \in Good PROVE n + 1 \in Good
    <2>1. PICK f \in [0..n -> V] : Iterates(f, n, b, g)
        BY <1>2
    <2>2. PICK h : h = [k \in 0..n + 1 |-> IF k = n + 1 THEN g[<<n + 1, f[n]>>] ELSE f[k]]
        OBVIOUS
    <2>3. h \in [0..n + 1 -> V]
        BY <2>1, <2>2
    <2>4. \A k \in 0..n : h[k] = f[k] /\ f[k] = IF k = 0 THEN b ELSE g[<<k, f[k - 1]>>]
        BY <2>1, <2>2 DEF Iterates
    <2>5. ASSUME NEW k \in 0..n + 1 PROVE h[k] = IF k = 0 THEN b ELSE g[<<k, h[k - 1]>>]
        <3>1. CASE k = n + 1
            <4>1. k # 0 /\ k - 1 = n /\ n \in 0..n /\ k \in 0..n + 1
                BY <3>1
            <4>2. h[n] = f[n] /\ h[k] = g[<<n + 1, f[n]>>]
                BY <2>2, <2>4, <3>1, <4>1
            <4> QED
                BY <3>1, <4>1, <4>2
        <3>2. CASE k \in 0..n
            <4>1. k # 0 => h[k - 1] = f[k - 1]
                <5>1. k # 0 => k - 1 \in 0..n
                    BY <3>2
                <5> QED
                    BY <2>4, <5>1
            <4>2. h[k] = IF k = 0 THEN b ELSE g[<<k, f[k - 1]>>]
                BY <2>4, <3>2
            <4> QED
                BY <4>1, <4>2
        <3> QED
            BY <3>1, <3>2
    <2>6. Iterates(h, n + 1, b, g)
        BY <2>2, <2>5 DEF Iterates
    <2> QED
        BY <2>3, <2>6
<1>3. Nat \subseteq Good
    <2> HIDE DEF Good
    <2> QED
        BY <1>1, <1>2, Induction
<1> QED
    BY <1>3

-----------------------------------------------------------------------------
(* Powers of 2.                                                            *)

Double == [kx \in Nat \X Nat |-> 2 * kx[2]]

LEMMA ZeroIn ==
    ASSUME NEW n \in Nat
    PROVE  0 \in 0..n
OBVIOUS

LEMMA IterationsAgree ==
    ASSUME NEW b, NEW g, NEW m \in Nat, NEW n \in Nat, m <= n,
           NEW p, Iterates(p, m, b, g), NEW q, Iterates(q, n, b, g)
    PROVE  p[m] = q[m]
<1> DEFINE Good == {k \in Nat : k <= m => p[k] = q[k]}
<1>1. /\ \A k \in 0..m : p[k] = IF k = 0 THEN b ELSE g[<<k, p[k - 1]>>]
      /\ \A k \in 0..n : q[k] = IF k = 0 THEN b ELSE g[<<k, q[k - 1]>>]
    BY DEF Iterates
<1>2. 0 \in Good
    <2>1. p[0] = b /\ q[0] = b
        BY <1>1, Zenon, ZeroIn
    <2> QED
        BY <2>1
<1>3. ASSUME NEW k \in Nat, k \in Good PROVE k + 1 \in Good
    <2>1. CASE k + 1 <= m
        <3>1. k + 1 \in 0..m /\ k + 1 \in 0..n /\ k + 1 # 0 /\ (k + 1) - 1 = k /\ p[k] = q[k]
            BY <1>3, <2>1
        <3>2. p[k + 1] = g[<<k + 1, p[k]>>] /\ q[k + 1] = g[<<k + 1, q[k]>>]
            BY <1>1, <3>1
        <3> QED
            BY <3>1, <3>2
    <2> QED
        BY <2>1
<1>4. Nat \subseteq Good
    <2> HIDE DEF Good
    <2> QED
        BY <1>2, <1>3, Induction
<1> QED
    BY <1>4

LEMMA PowersOf2 ==
    /\ PowerOf2 \in [Nat -> Nat \ {0}] /\ PowerOf2[0] = 1
    /\ \A n \in Nat : PowerOf2[n + 1] = 2 * PowerOf2[n]
<1> DEFINE Is(f) == f = [n \in Nat |-> IF n = 0 THEN 1 ELSE 2 * f[n - 1]]
           Part(n, p) == p \in [0..n -> Nat] /\ Iterates(p, n, 1, Double)
<1>1. Double \in [Nat \X Nat -> Nat]
    BY DEF Double
<1>2. \A n \in Nat : \E p : Part(n, p)
    BY <1>1, Iteration
<1>3. PICK part : part = [n \in Nat |-> CHOOSE p : Part(n, p)]
    OBVIOUS
<1>4. \A n \in Nat : Part(n, part[n])
    BY <1>2, <1>3
<1>5. PICK f : f = [n \in Nat |-> part[n][n]]
    OBVIOUS
<1> HIDE DEF Part
<1>6. ASSUME NEW n \in Nat PROVE f[n] \in Nat /\ f[n] = IF n = 0 THEN 1 ELSE 2 * f[n - 1]
    <2>1. part[n] \in [0..n -> Nat] /\ Iterates(part[n], n, 1, Double)
        BY <1>4 DEF Part
    <2>2. f[n] = part[n][n] /\ n \in 0..n
        BY <1>5
    <2>3. f[n] \in Nat
        BY <2>1, <2>2
    <2>4. part[n][n] = IF n = 0 THEN 1 ELSE Double[<<n, part[n][n - 1]>>]
        BY <2>1, <2>2 DEF Iterates
    <2>5. CASE n # 0
        <3>1. n - 1 \in Nat /\ n - 1 <= n /\ n - 1 \in 0..n
            BY <2>5
        <3>2. Iterates(part[n - 1], n - 1, 1, Double)
            BY <1>4, <3>1 DEF Part
        <3>3. part[n - 1][n - 1] = part[n][n - 1]
            BY <2>1, <3>1, <3>2, IterationsAgree
        <3>4. f[n - 1] = part[n][n - 1] /\ part[n][n - 1] \in Nat
            BY <1>5, <2>1, <3>1, <3>3
        <3> QED
            BY <2>2, <2>3, <2>4, <2>5, <3>4 DEF Double
    <2> QED
        BY <2>2, <2>3, <2>4, <2>5
<1>7. Is(f)
    BY <1>5, <1>6
<1>8. PICK h : h = CHOOSE powers : Is(powers)
    OBVIOUS
<1>9. Is(h) /\ PowerOf2 = h
    BY <1>7, <1>8 DEF PowerOf2
<1>10. h[0] = 1
    BY <1>9
<1>11. ASSUME NEW n \in Nat PROVE h[n + 1] = 2 * h[n]
    <2>1. n + 1 \in Nat /\ n + 1 # 0 /\ (n + 1) - 1 = n
        OBVIOUS
    <2> QED
        BY <1>9, <2>1
<1> DEFINE Good == {n \in Nat : h[n] \in Nat \ {0}}
<1>12. Nat \subseteq Good
    <2>1. 0 \in Good
        BY <1>10
    <2>2. ASSUME NEW n \in Nat, n \in Good PROVE n + 1 \in Good
        <3>1. h[n] \in Nat \ {0} /\ h[n + 1] = 2 * h[n]
            BY <1>11, <2>2
        <3> QED
            BY <3>1
    <2> HIDE DEF Good
    <2> QED
        BY <2>1, <2>2, Induction
<1>13. h \in [Nat -> Nat \ {0}]
    BY <1>9, <1>12
<1> QED
    BY <1>9, <1>10, <1>11, <1>13

-----------------------------------------------------------------------------
(* The magnitudes increase.                                                *)

\* Quotient and remainder are determined.
LEMMA Division ==
    ASSUME NEW a \in Int, NEW d \in Nat \ {0}
    PROVE  /\ a \div d \in Int /\ a % d \in 0..d - 1 /\ a % d = a - d * (a \div d)
           /\ a \in Nat => a \div d \in Nat
           /\ \A q \in Int, r \in 0..d - 1 : a = d * q + r => a \div d = q /\ a % d = r
           /\ \E q \in Int, r \in 0..d - 1 : a = d * q + r /\ a \div d = q /\ a % d = r
<1>1. a \div d \in Int /\ a % d \in 0..d - 1 /\ a % d = a - d * (a \div d)
    <2>1. a \div d \in Int /\ a % d \in 0..d - 1
        OBVIOUS
    <2>2. a % d = a - d * (a \div d)
        BY SMTT(30)
    <2> QED
        BY <2>1, <2>2, Zenon
<1> DEFINE p == a \div d
           s == a % d
<1>2. p \in Int /\ s \in 0..d - 1 /\ s = a - d * p
    BY <1>1, Zenon
<1> HIDE DEF p, s
<1>3. ASSUME NEW x \in Int, NEW y \in Int, x < y PROVE d * y - d * x >= d
    <2>1. y - x >= 1 /\ y - x \in Int
        BY <1>3
    <2>2. d * (y - x) >= d
        BY <2>1
    <2>3. d * (y - x) = d * y - d * x
        OBVIOUS
    <2> QED
        BY <2>2, <2>3
<1>4. a \in Nat => p \in Nat
    <2>1. p < 0 => d * 0 - d * p >= d
        BY <1>2, <1>3
    <2>2. d * p \in Int
        BY <1>2
    <2> QED
        BY <1>2, <2>1, <2>2
<1>5. ASSUME NEW q \in Int, NEW r \in 0..d - 1, a = d * q + r PROVE p = q /\ s = r
    <2>1. d * p \in Int /\ d * q \in Int
        BY <1>2
    <2>2. ~(p < q)
        BY <1>2, <1>3, <1>5, <2>1
    <2>3. ~(q < p)
        BY <1>2, <1>3, <1>5, <2>1
    <2>4. p = q
        BY <1>2, <2>2, <2>3
    <2> QED
        BY <1>2, <1>5, <2>1, <2>4
<1>6. \E q \in Int, r \in 0..d - 1 : a = d * q + r /\ p = q /\ s = r
    <2>1. d * p \in Int
        BY <1>2
    <2>2. a = d * p + s
        BY <1>2, <2>1
    <2> QED
        BY <1>2, <2>2
<1> QED
    BY <1>1, <1>4, <1>5, <1>6 DEF p, s

LEMMA Format ==
    /\ Hidden \in Nat \ {0} /\ LastFinite \in Nat /\ UnitsPerOne \in Nat \ {0}
    /\ PowerOf2[IntBits - 1] \in Nat \ {0} /\ PowerOf2[IntBits] = 2 * PowerOf2[IntBits - 1]
    /\ IntMin = -PowerOf2[IntBits - 1] /\ IntMax = PowerOf2[IntBits - 1] - 1
<1>1. IntBits - 1 \in Nat /\ Precision - 1 \in Nat /\ (IntBits - 1) + 1 = IntBits
    BY FormatAssumption
<1> QED
    BY <1>1, FormatAssumption, PowersOf2 DEF Hidden, IntMin, IntMax

\* The significand and the exponent of the i-th magnitude.
LEMMA MagnitudeIs ==
    ASSUME NEW k \in 0..LastFinite + 1, NEW q \in Nat, NEW r \in 0..Hidden - 1, k = Hidden * q + r
    PROVE  Magnitude[k] = IF q = 0 THEN r ELSE (Hidden + r) * PowerOf2[q - 1]
<1>1. k \in Int /\ Hidden \in Nat \ {0} /\ q \in Int /\ LastFinite \in Nat
    BY Format
<1>2. k \div Hidden = q /\ k % Hidden = r
    BY <1>1, Division
<1>3. Magnitude[k] = IF k < Hidden THEN k ELSE (Hidden + (k % Hidden)) * PowerOf2[k \div Hidden - 1]
    BY DEF Magnitude
<1>4. k < Hidden <=> q = 0
    <2>1. q # 0 => Hidden * q >= Hidden
        BY <1>1
    <2> QED
        BY <1>1, <2>1
<1>5. q = 0 => k = r
    BY <1>1
<1> QED
    BY <1>2, <1>3, <1>4, <1>5

\* What the k-th magnitude is made of.
LEMMA Exponent ==
    ASSUME NEW k \in 0..LastFinite + 1
    PROVE  \E q \in Nat, r \in 0..Hidden - 1 : k = Hidden * q + r
<1>1. Hidden \in Nat \ {0} /\ LastFinite \in Nat
    BY Format
<1>2. k \in Int /\ k \in Nat
    BY <1>1
<1>3. PICK q \in Int, r \in 0..Hidden - 1 : k = Hidden * q + r /\ k \div Hidden = q
    BY <1>1, <1>2, Division
<1>4. q \in Nat
    BY <1>1, <1>2, <1>3, Division
<1> QED
    BY <1>3, <1>4

\* The gap from a magnitude to the next is about its 2^Precision-th part.
LEMMA Gap ==
    ASSUME NEW k \in 0..LastFinite
    PROVE  \E m \in Nat, gap \in Nat \ {0} :
              /\ Magnitude[k] = m /\ Magnitude[k + 1] = m + gap
              /\ m <= (2 * Hidden - 1) * gap
              /\ k >= Hidden => Hidden * gap <= m
<1>1. PICK h \in Nat \ {0} : h = Hidden
    BY Format
<1>2. LastFinite \in Nat /\ k \in 0..LastFinite + 1 /\ k + 1 \in 0..LastFinite + 1
    BY Format
<1>3. PICK q \in Nat, r \in 0..h - 1 : k = h * q + r
    BY <1>1, <1>2, Exponent
<1>4. Magnitude[k] = IF q = 0 THEN r ELSE (h + r) * PowerOf2[q - 1]
    BY <1>1, <1>2, <1>3, MagnitudeIs
<1>5. CASE q = 0
    <2>1. k = r /\ k < h
        BY <1>1, <1>3, <1>5
    <2>2. Magnitude[k + 1] = r + 1
        <3>1. CASE r + 1 < h
            <4>1. k + 1 = h * 0 + (r + 1) /\ r + 1 \in 0..h - 1 /\ 0 \in Nat
                BY <1>1, <2>1, <3>1
            <4> QED
                BY <1>1, <1>2, <4>1, MagnitudeIs
        <3>2. CASE r + 1 = h
            <4>1. k + 1 = h * 1 + 0 /\ 0 \in 0..h - 1 /\ 1 \in Nat /\ 1 - 1 = 0
                BY <1>1, <2>1, <3>2
            <4>2. Magnitude[k + 1] = (h + 0) * PowerOf2[0]
                BY <1>1, <1>2, <4>1, MagnitudeIs
            <4> QED
                BY <1>1, <3>2, <4>2, PowersOf2
        <3> QED
            BY <1>1, <3>1, <3>2
    <2>3. r \in Nat /\ 1 \in Nat \ {0} /\ r <= (2 * h - 1) * 1 /\ ~(k >= h)
        BY <1>1, <2>1
    <2> QED
        BY <1>1, <1>4, <1>5, <2>2, <2>3
<1>6. CASE q # 0
    <2>1. PICK w \in Nat \ {0} : w = PowerOf2[q - 1]
        BY <1>6, PowersOf2
    <2>2. PICK m \in Nat : m = (h + r) * w
        BY <1>1
    <2>3. Magnitude[k] = m
        BY <1>4, <1>6, <2>1, <2>2
    <2>4. Magnitude[k + 1] = m + w
        <3>1. (h + (r + 1)) * w = m + w
            BY <1>1, <2>2
        <3>2. CASE r + 1 < h
            <4>1. k + 1 = h * q + (r + 1) /\ r + 1 \in 0..h - 1
                BY <1>1, <1>3, <3>2
            <4>2. Magnitude[k + 1] = IF q = 0 THEN r + 1 ELSE (h + (r + 1)) * PowerOf2[q - 1]
                BY <1>1, <1>2, <4>1, MagnitudeIs
            <4> QED
                BY <1>6, <2>1, <3>1, <4>2
        <3>3. CASE r + 1 = h
            <4>1. k + 1 = h * (q + 1) + 0 /\ 0 \in 0..h - 1 /\ q + 1 \in Nat /\ (q + 1) - 1 = q
                <5>1. h * (q + 1) = h * q + h
                    BY <1>1
                <5> QED
                    BY <1>1, <1>3, <3>3, <5>1
            <4>2. Magnitude[k + 1] = (h + 0) * PowerOf2[q]
                BY <1>1, <1>2, <4>1, MagnitudeIs
            <4>3. q - 1 \in Nat /\ (q - 1) + 1 = q
                BY <1>6
            <4>4. PowerOf2[q] = 2 * w
                BY <2>1, <4>3, PowersOf2
            <4>5. (h + 0) * (2 * w) = (h + (r + 1)) * w
                BY <1>1, <3>3
            <4> QED
                BY <3>1, <4>2, <4>4, <4>5
        <3> QED
            BY <1>1, <3>2, <3>3
    <2>5. m <= (2 * h - 1) * w /\ h * w <= m
        <3>1. ((2 * h - 1) - (h + r)) * w \in Nat /\ r * w \in Nat
            <4>1. (2 * h - 1) - (h + r) \in Nat /\ r \in Nat
                BY <1>1
            <4> QED
                BY <4>1
        <3>2. ((2 * h - 1) - (h + r)) * w = (2 * h - 1) * w - m /\ m = h * w + r * w
            BY <1>1, <2>2
        <3>3. (2 * h - 1) * w \in Int /\ h * w \in Int
            BY <1>1
        <3> QED
            BY <3>1, <3>2, <3>3
    <2> QED
        BY <1>1, <2>3, <2>4, <2>5
<1> QED
    BY <1>5, <1>6

LEMMA MagnitudeGrows ==
    /\ \A k \in 0..LastFinite + 1 : Magnitude[k] \in Nat
    /\ Magnitude[0] = 0
    /\ \A k \in 0..LastFinite : Magnitude[k] < Magnitude[k + 1]
<1>1. Hidden \in Nat \ {0} /\ LastFinite \in Nat
    BY Format
<1>2. Magnitude[0] = 0
    <2>1. 0 \in 0..LastFinite + 1 /\ 0 \in 0..Hidden - 1 /\ 0 = Hidden * 0 + 0
        BY <1>1
    <2> QED
        BY <2>1, MagnitudeIs
<1>3. \A k \in 0..LastFinite : Magnitude[k] \in Nat /\ Magnitude[k + 1] \in Nat
                                  /\ Magnitude[k] < Magnitude[k + 1]
    BY Gap
<1>4. ASSUME NEW k \in 0..LastFinite + 1 PROVE Magnitude[k] \in Nat
    <2>1. k \in 0..LastFinite \/ (k = LastFinite + 1 /\ LastFinite \in 0..LastFinite)
        BY <1>1
    <2> QED
        BY <1>3, <2>1
<1> QED
    BY <1>2, <1>3, <1>4

LEMMA MagnitudesIncrease ==
    ASSUME NEW j \in 0..LastFinite + 1, NEW k \in 0..LastFinite + 1
    PROVE  /\ j < k => Magnitude[j] < Magnitude[k]
           /\ j <= k <=> Magnitude[j] <= Magnitude[k]
           /\ Magnitude[j] \in Nat /\ Magnitude[k] \in Nat
<1> DEFINE Good == {n \in Nat : \A a \in 0..LastFinite + 1 : a + n + 1 <= LastFinite + 1 =>
                                    Magnitude[a] < Magnitude[a + n + 1]}
<1>1. LastFinite \in Nat
    BY Format
<1>2. 0 \in Good
    <2>1. ASSUME NEW a \in 0..LastFinite + 1, a + 0 + 1 <= LastFinite + 1
          PROVE  Magnitude[a] < Magnitude[a + 0 + 1]
        <3>1. a \in 0..LastFinite /\ a + 0 + 1 = a + 1
            BY <1>1, <2>1
        <3> QED
            BY <3>1, MagnitudeGrows
    <2> QED
        BY <2>1
<1>3. ASSUME NEW n \in Nat, n \in Good PROVE n + 1 \in Good
    <2>1. ASSUME NEW a \in 0..LastFinite + 1, a + (n + 1) + 1 <= LastFinite + 1
          PROVE  Magnitude[a] < Magnitude[a + (n + 1) + 1]
        <3>1. a + n + 1 \in 0..LastFinite /\ a + (n + 1) + 1 = (a + n + 1) + 1 /\ a + n + 1 <= LastFinite + 1
              /\ a + n + 1 \in 0..LastFinite + 1 /\ (a + n + 1) + 1 \in 0..LastFinite + 1
            BY <1>1, <2>1
        <3>2. Magnitude[a] < Magnitude[a + n + 1]
            BY <1>3, <3>1
        <3>3. Magnitude[a + n + 1] < Magnitude[(a + n + 1) + 1]
            BY <3>1, MagnitudeGrows
        <3>4. Magnitude[a] \in Nat /\ Magnitude[a + n + 1] \in Nat /\ Magnitude[(a + n + 1) + 1] \in Nat
            BY <3>1, MagnitudeGrows
        <3> QED
            BY <3>1, <3>2, <3>3, <3>4
    <2> QED
        BY <2>1
<1>4. Nat \subseteq Good
    <2> HIDE DEF Good
    <2> QED
        BY <1>2, <1>3, Induction
<1>5. ASSUME NEW a \in 0..LastFinite + 1, NEW b \in 0..LastFinite + 1, a < b
      PROVE  Magnitude[a] < Magnitude[b]
    <2>1. b - a - 1 \in Nat /\ a + (b - a - 1) + 1 = b
        BY <1>1, <1>5
    <2>2. b - a - 1 \in Good
        BY <1>4, <2>1
    <2>3. \A c \in 0..LastFinite + 1 : c + (b - a - 1) + 1 <= LastFinite + 1 =>
              Magnitude[c] < Magnitude[c + (b - a - 1) + 1]
        BY <2>2
    <2>4. a + (b - a - 1) + 1 <= LastFinite + 1
        BY <1>1, <2>1
    <2> QED
        BY <2>1, <2>3, <2>4
<1>6. Magnitude[j] \in Nat /\ Magnitude[k] \in Nat
    BY MagnitudeGrows
<1>7. j <= k <=> Magnitude[j] <= Magnitude[k]
    BY <1>1, <1>5, <1>6
<1> QED
    BY <1>5, <1>6, <1>7

-----------------------------------------------------------------------------
(* The nearest magnitude.                                                  *)

\* The sign that Rounded gives NearestBy.
Signs(num, den) == [h \in Nat |-> SignOf(2 * num - h * den)]

\* k is the last magnitude not above num / den; m[j] is den times a magnitude.
Below(k, m, num) == m[k] <= num /\ (k = LastFinite + 1 \/ num < m[k + 1])

\* The next one is nearer; a tie goes to the even one.
RoundsUp(k, m, num) ==
    /\ k <= LastFinite
    /\ 2 * num > m[k] + m[k + 1] \/ (2 * num = m[k] + m[k + 1] /\ k % 2 = 1)

LEMMA LastBelow ==
    ASSUME NEW m \in [0..LastFinite + 1 -> Nat], NEW num \in Nat, m[0] <= num
    PROVE  \E k \in 0..LastFinite + 1 : Below(k, m, num)
<1> DEFINE Good == {n \in Nat : n <= LastFinite + 1 => m[n] <= num}
<1>1. LastFinite \in Nat
    BY Format
<1>2. SUFFICES ASSUME ~ \E k \in 0..LastFinite + 1 : Below(k, m, num) PROVE FALSE
    OBVIOUS
<1>3. 0 \in Good
    OBVIOUS
<1>4. ASSUME NEW n \in Nat, n \in Good PROVE n + 1 \in Good
    <2>1. CASE n + 1 <= LastFinite + 1
        <3>1. n \in 0..LastFinite + 1 /\ n # LastFinite + 1 /\ n + 1 \in 0..LastFinite + 1
            BY <1>1, <2>1
        <3>2. m[n] <= num /\ m[n] \in Nat /\ m[n + 1] \in Nat
            BY <1>4, <3>1
        <3> QED
            BY <1>2, <3>1, <3>2 DEF Below
    <2> QED
        BY <1>1, <2>1
<1>5. Nat \subseteq Good
    <2> HIDE DEF Good
    <2> QED
        BY <1>3, <1>4, Induction
<1>6. LastFinite + 1 \in Good /\ LastFinite + 1 \in 0..LastFinite + 1
    BY <1>1, <1>5
<1> QED
    BY <1>2, <1>6 DEF Below

\* What NearestBy chooses.
LEMMA NearestIs ==
    ASSUME NEW num \in Nat, NEW den \in Nat \ {0}, NEW m \in [0..LastFinite + 1 -> Nat],
           \A j \in 0..LastFinite + 1 : m[j] = Magnitude[j] * den
    PROVE  \E k \in 0..LastFinite + 1 :
              /\ Below(k, m, num)
              /\ NearestBy(Signs(num, den)) =
                    IF RoundsUp(k, m, num) THEN k + 1 ELSE k
<1>1. LastFinite \in Nat /\ \A j \in 0..LastFinite + 1 : Magnitude[j] \in Nat
    BY Format, MagnitudeGrows
<1>2. PICK sign : sign = Signs(num, den)
    OBVIOUS
<1>3. \A h \in Nat : sign[h] = SignOf(2 * num - h * den) /\ h * den \in Nat
    BY <1>2 DEF Signs
<1>4. ASSUME NEW j \in 0..LastFinite + 1
      PROVE  sign[2 * Magnitude[j]] >= 0 <=> m[j] <= num
    <2>1. 2 * Magnitude[j] \in Nat /\ (2 * Magnitude[j]) * den = 2 * m[j]
        <3>1. (2 * Magnitude[j]) * den = 2 * (Magnitude[j] * den)
            BY <1>1
        <3> QED
            BY <1>1, <3>1
    <2>2. sign[2 * Magnitude[j]] = SignOf(2 * num - 2 * m[j])
        BY <1>3, <2>1
    <2> QED
        BY <2>2 DEF SignOf
<1>5. ASSUME NEW j \in 0..LastFinite + 1
      PROVE  sign[2 * Magnitude[j]] < 0 <=> num < m[j]
    <2>1. 2 * Magnitude[j] \in Nat /\ (2 * Magnitude[j]) * den = 2 * m[j]
        <3>1. (2 * Magnitude[j]) * den = 2 * (Magnitude[j] * den)
            BY <1>1
        <3> QED
            BY <1>1, <3>1
    <2>2. sign[2 * Magnitude[j]] = SignOf(2 * num - 2 * m[j])
        BY <1>3, <2>1
    <2> QED
        BY <2>2 DEF SignOf
<1> DEFINE IsK(j) == sign[2 * Magnitude[j]] >= 0
                     /\ (j = LastFinite + 1 \/ sign[2 * Magnitude[j + 1]] < 0)
<1>6. ASSUME NEW j \in 0..LastFinite + 1 PROVE IsK(j) <=> Below(j, m, num)
    <2>1. j # LastFinite + 1 => j + 1 \in 0..LastFinite + 1
        BY <1>1
    <2> QED
        BY <1>4, <1>5, <2>1 DEF Below
<1>7. Magnitude[0] = 0 /\ 0 \in 0..LastFinite + 1
    BY <1>1, MagnitudeGrows
<1>8. m[0] <= num
    BY <1>7
<1>9. \E k \in 0..LastFinite + 1 : Below(k, m, num)
    BY <1>8, LastBelow
<1>10. PICK k : k = CHOOSE j \in 0..LastFinite + 1 : IsK(j)
    OBVIOUS
<1>11. k \in 0..LastFinite + 1 /\ IsK(k)
    <2> HIDE DEF IsK
    <2> QED
        BY <1>6, <1>9, <1>10
<1>12. Below(k, m, num)
    BY <1>6, <1>11
<1>13. PICK half : half = sign[Magnitude[k] + Magnitude[k + 1]]
    OBVIOUS
<1>14. NearestBy(sign) = IF k <= LastFinite /\ (half > 0 \/ (half = 0 /\ k % 2 = 1)) THEN k + 1 ELSE k
    BY <1>10, <1>13 DEF NearestBy
<1>15. ASSUME k <= LastFinite
       PROVE  /\ half > 0 <=> 2 * num > m[k] + m[k + 1]
              /\ half = 0 <=> 2 * num = m[k] + m[k + 1]
    <2>1. k + 1 \in 0..LastFinite + 1
        BY <1>1, <1>11, <1>15
    <2>2. PICK a \in Nat, b \in Nat : a = Magnitude[k] /\ b = Magnitude[k + 1]
        BY <1>1, <1>11, <2>1
    <2>3. (a + b) * den = a * den + b * den /\ a + b \in Nat
        OBVIOUS
    <2>4. m[k] = a * den /\ m[k + 1] = b * den
        BY <1>11, <2>1, <2>2
    <2>5. half = SignOf(2 * num - (m[k] + m[k + 1]))
        BY <1>3, <1>13, <2>2, <2>3, <2>4
    <2>6. m[k] \in Nat /\ m[k + 1] \in Nat
        BY <1>11, <2>1
    <2> QED
        BY <2>5, <2>6 DEF SignOf
<1>16. NearestBy(sign) = IF RoundsUp(k, m, num) THEN k + 1 ELSE k
    BY <1>1, <1>11, <1>14, <1>15 DEF RoundsUp
<1> QED
    BY <1>2, <1>11, <1>12, <1>16

\* Den times a magnitude increases with the number of the magnitude.
LEMMA Multiples ==
    ASSUME NEW den \in Nat \ {0}
    PROVE  \E m \in [0..LastFinite + 1 -> Nat] :
              /\ \A j \in 0..LastFinite + 1 : m[j] = Magnitude[j] * den
              /\ \A j, k \in 0..LastFinite + 1 : (j <= k <=> m[j] <= m[k]) /\ (j < k => m[j] < m[k])
<1>1. PICK m : m = [j \in 0..LastFinite + 1 |-> Magnitude[j] * den]
    OBVIOUS
<1>2. \A j \in 0..LastFinite + 1 : Magnitude[j] \in Nat
    BY MagnitudeGrows
<1>3. m \in [0..LastFinite + 1 -> Nat]
    <2>1. ASSUME NEW j \in 0..LastFinite + 1 PROVE Magnitude[j] * den \in Nat
        <3>1. PICK a \in Nat : a = Magnitude[j]
            BY <1>2
        <3> QED
            BY <3>1
    <2> QED
        BY <1>1, <2>1
<1>4. ASSUME NEW j \in 0..LastFinite + 1, NEW k \in 0..LastFinite + 1, j < k PROVE m[j] < m[k]
    <2>1. PICK a \in Nat, b \in Nat : a = Magnitude[j] /\ b = Magnitude[k]
        BY <1>2
    <2>2. a < b
        BY <1>4, <2>1, MagnitudesIncrease
    <2>3. a * den < b * den
        <3>1. b - a \in Nat \ {0}
            BY <2>2
        <3>2. (b - a) * den >= 1 /\ (b - a) * den \in Nat
            BY <3>1
        <3>3. (b - a) * den = b * den - a * den /\ a * den \in Nat /\ b * den \in Nat
            OBVIOUS
        <3> QED
            BY <3>2, <3>3
    <2> QED
        BY <1>1, <2>1, <2>3
<1>5. ASSUME NEW j \in 0..LastFinite + 1, NEW k \in 0..LastFinite + 1 PROVE j <= k <=> m[j] <= m[k]
    <2>1. j \in Int /\ k \in Int /\ m[j] \in Nat /\ m[k] \in Nat
        BY <1>3, Format
    <2>2. CASE j < k
        BY <1>4, <2>1, <2>2
    <2>3. CASE k < j
        BY <1>4, <2>1, <2>3
    <2>4. CASE k = j
        BY <2>1, <2>4
    <2> QED
        BY <2>1, <2>2, <2>3, <2>4
<1> QED
    BY <1>1, <1>3, <1>4, <1>5

\* No magnitude is nearer to num / den than the one of the number r; it is
\* not below, nor above, a magnitude that is not above, or not below.
IsNearest(r, num, den) ==
    /\ r \in 0..LastFinite + 1
    /\ \A j \in 0..LastFinite + 1 : Magnitude[j] * den <= num => j <= r
    /\ \A j \in 0..LastFinite + 1 : num <= Magnitude[j] * den => r <= j
    /\ r <= LastFinite => \A j \in 0..LastFinite :
           Abs(Magnitude[r] * den - num) <= Abs(Magnitude[j] * den - num)

LEMMA Nearest ==
    ASSUME NEW num \in Nat, NEW den \in Nat \ {0}
    PROVE  IsNearest(NearestBy(Signs(num, den)), num, den)
<1>1. LastFinite \in Nat
    BY Format
<1>2. PICK m \in [0..LastFinite + 1 -> Nat] :
          /\ \A j \in 0..LastFinite + 1 : m[j] = Magnitude[j] * den
          /\ \A j, k \in 0..LastFinite + 1 : (j <= k <=> m[j] <= m[k]) /\ (j < k => m[j] < m[k])
    BY Multiples
<1>3. PICK r : r = NearestBy(Signs(num, den))
    OBVIOUS
<1>4. PICK k \in 0..LastFinite + 1 :
          /\ Below(k, m, num)
          /\ r = IF RoundsUp(k, m, num) THEN k + 1 ELSE k
    BY <1>2, <1>3, NearestIs
<1>5. m[k] \in Nat /\ (k # LastFinite + 1 => k + 1 \in 0..LastFinite + 1 /\ m[k + 1] \in Nat)
    BY <1>1, <1>2, <1>4
<1>6. ASSUME NEW j \in 0..LastFinite + 1 PROVE m[j] \in Nat /\ j \in Int /\ (m[j] <= num => j <= k)
    <2>1. m[j] \in Nat /\ j \in Int
        BY <1>1, <1>2
    <2>2. CASE m[j] <= num /\ k < j
        <3>1. k + 1 <= j /\ k # LastFinite + 1 /\ k + 1 \in 0..LastFinite + 1
            BY <1>1, <1>4, <2>1, <2>2
        <3>2. m[k + 1] <= m[j]
            BY <1>2, <3>1
        <3>3. num < m[k + 1]
            BY <1>4, <3>1 DEF Below
        <3> QED
            BY <1>5, <2>1, <2>2, <3>1, <3>2, <3>3
    <2> QED
        BY <1>1, <1>4, <2>1, <2>2
<1>7. CASE r = k
    <2>1. ASSUME NEW j \in 0..LastFinite + 1, num <= m[j] PROVE r <= j
        <3>1. m[k] <= m[j]
            BY <1>4, <1>5, <1>6, <2>1 DEF Below
        <3> QED
            BY <1>2, <1>4, <1>7, <3>1
    <2>2. ASSUME r <= LastFinite, NEW j \in 0..LastFinite PROVE Abs(m[r] - num) <= Abs(m[j] - num)
        <3>1. j \in 0..LastFinite + 1 /\ k + 1 \in 0..LastFinite + 1 /\ k \in Int
            BY <1>1, <1>4, <1>7, <2>2
        <3>2. m[k] <= num /\ num < m[k + 1] /\ 2 * num <= m[k] + m[k + 1]
            BY <1>4, <1>5, <1>7, <2>2, <3>1 DEF Below, RoundsUp
        <3>3. j <= k => m[j] <= m[k]
            BY <1>2, <3>1
        <3>4. k < j => m[k + 1] <= m[j]
            <4>1. k < j => k + 1 <= j
                BY <3>1
            <4> QED
                BY <1>2, <3>1, <4>1
        <3>5. m[j] \in Nat /\ m[k] \in Nat /\ m[k + 1] \in Nat
            BY <1>2, <3>1
        <3>6. j <= k \/ k < j
            BY <3>1
        <3> QED
            BY <1>7, <3>2, <3>3, <3>4, <3>5, <3>6 DEF Abs
    <2> QED
        BY <1>1, <1>2, <1>3, <1>4, <1>6, <1>7, <2>1, <2>2 DEF IsNearest
<1>8. CASE r = k + 1 /\ k <= LastFinite /\ 2 * num >= m[k] + m[k + 1]
    <2>1. r \in 0..LastFinite + 1 /\ k + 1 \in 0..LastFinite + 1 /\ k \in Int
        BY <1>1, <1>4, <1>8
    <2>2. m[k] <= num /\ num < m[k + 1] /\ m[k] \in Nat /\ m[k + 1] \in Nat
        BY <1>1, <1>4, <1>5, <1>8, <2>1 DEF Below
    <2>3. ASSUME NEW j \in 0..LastFinite + 1, m[j] <= num PROVE j <= r
        BY <1>6, <1>8, <2>1, <2>3
    <2>4. ASSUME NEW j \in 0..LastFinite + 1, num <= m[j] PROVE r <= j
        <3>1. j \in Int /\ m[j] \in Nat
            BY <1>6
        <3>2. j <= k => m[j] <= m[k]
            BY <1>2, <1>4
        <3>3. k < k + 1 => m[k] < m[k + 1]
            BY <1>2, <1>4, <2>1
        <3> QED
            BY <1>8, <2>1, <2>2, <2>4, <3>1, <3>2, <3>3
    <2>5. ASSUME NEW j \in 0..LastFinite PROVE Abs(m[r] - num) <= Abs(m[j] - num)
        <3>1. j \in 0..LastFinite + 1
            BY <1>1
        <3>2. j <= k => m[j] <= m[k]
            BY <1>2, <1>4, <3>1
        <3>3. k < j => m[k + 1] <= m[j]
            <4>1. k < j => k + 1 <= j
                BY <2>1, <3>1
            <4> QED
                BY <1>2, <2>1, <3>1, <4>1
        <3>4. m[j] \in Nat
            BY <1>2, <3>1
        <3>5. j <= k \/ k < j
            BY <2>1
        <3> QED
            BY <1>8, <2>2, <3>2, <3>3, <3>4, <3>5 DEF Abs
    <2> QED
        BY <1>1, <1>2, <1>3, <2>1, <2>3, <2>4, <2>5 DEF IsNearest
<1> QED
    BY <1>1, <1>4, <1>5, <1>7, <1>8 DEF RoundsUp

\* A magnitude is its own nearest one.
LEMMA NearestOfItself ==
    ASSUME NEW j \in 0..LastFinite + 1
    PROVE  NearestBy(Signs(Magnitude[j], 1)) = j
<1>1. Magnitude[j] \in Nat /\ LastFinite \in Nat
    BY MagnitudeGrows, Format
<1>2. IsNearest(NearestBy(Signs(Magnitude[j], 1)), Magnitude[j], 1)
    BY <1>1, Nearest
<1>3. Magnitude[j] * 1 = Magnitude[j]
    BY <1>1
<1> QED
    BY <1>1, <1>2, <1>3 DEF IsNearest

-----------------------------------------------------------------------------
(* Values.                                                                 *)

LEMMA ValueIs ==
    ASSUME NEW v \in Values \cup {Wild}
    PROVE  /\ IsInt(v) => v.n \in IntMin..IntMax /\ v = MkInt(v.n)
           /\ IsFloat(v) => /\ v \in Floats /\ v = MkFloat(v.neg, v.i) /\ v.neg \in BOOLEAN
                            /\ v.i \in 0..LastFinite + 2 /\ (v.i = LastFinite + 2 => ~v.neg)
           /\ IsString(v) => v.s \in Int /\ v = MkString(v.s)
           /\ ~(IsInt(v) /\ IsFloat(v)) /\ ~(IsInt(v) /\ IsString(v)) /\ ~(IsFloat(v) /\ IsString(v))
<1>1. LastFinite \in Nat /\ Strings \subseteq Int
    BY FormatAssumption
<1>2. CASE v \in Ints
    <2>1. PICK n \in IntMin..IntMax : v = MkInt(n)
        BY <1>2 DEF Ints
    <2> QED
        BY <2>1 DEF IsInt, IsFloat, IsString, MkInt
<1>3. CASE v \in Floats
    <2>1. PICK s \in BOOLEAN, k \in 0..LastFinite + 2 : v = MkFloat(s, k) /\ (k = LastFinite + 2 => ~s)
        <3>1. CASE v = NaN
            <4>1. FALSE \in BOOLEAN /\ LastFinite + 2 \in 0..LastFinite + 2
                BY <1>1
            <4>2. v = MkFloat(FALSE, LastFinite + 2)
                BY <3>1 DEF NaN
            <4> QED
                BY <4>1, <4>2
        <3>2. CASE v # NaN
            <4>1. PICK s \in BOOLEAN, k \in 0..LastFinite + 1 : v = MkFloat(s, k)
                BY <1>3, <3>2 DEF Floats
            <4>2. k \in 0..LastFinite + 2 /\ k # LastFinite + 2
                BY <1>1
            <4> QED
                BY <4>1, <4>2
        <3> QED
            BY <3>1, <3>2
    <2>2. v.t = "FLOAT" /\ v.neg = s /\ v.i = k
        BY <2>1 DEF MkFloat
    <2> QED
        BY <1>3, <2>1, <2>2 DEF IsInt, IsFloat, IsString
<1>4. CASE v \in {MkString(s) : s \in Strings}
    <2>1. PICK s \in Strings : v = MkString(s)
        BY <1>4
    <2> QED
        BY <1>1, <2>1 DEF IsInt, IsFloat, IsString, MkString
<1>5. CASE v \in {T, Nil, Open, Symbol, Wild}
    BY <1>5 DEF IsInt, IsFloat, IsString, T, Nil, Open, Symbol, Wild
<1> QED
    BY <1>2, <1>3, <1>4, <1>5 DEF Values

LEMMA FloatIs ==
    ASSUME NEW f \in Floats
    PROVE  /\ f \in Values /\ IsFloat(f) /\ ~IsInt(f) /\ IsNumber(f)
           /\ f.neg \in BOOLEAN /\ f.i \in 0..LastFinite + 2 /\ f = MkFloat(f.neg, f.i)
           /\ IsNaN(f) <=> f = NaN
<1>1. f \in Values
    BY DEF Values
<1>2. IsFloat(f)
    <2>1. f = NaN \/ \E s \in BOOLEAN, k \in 0..LastFinite + 1 : f = MkFloat(s, k)
        BY DEF Floats
    <2> QED
        BY <2>1 DEF IsFloat, MkFloat, NaN
<1>3. f.neg \in BOOLEAN /\ f.i \in 0..LastFinite + 2 /\ f = MkFloat(f.neg, f.i) /\ ~IsInt(f)
      /\ (f.i = LastFinite + 2 => ~f.neg)
    BY <1>1, <1>2, ValueIs
<1>4. IsNaN(f) <=> f = NaN
    <2>1. CASE f.i = LastFinite + 2
        BY <1>2, <1>3, <2>1 DEF IsNaN, NaN
    <2>2. CASE f.i # LastFinite + 2
        BY <2>2 DEF IsNaN, NaN, MkFloat
    <2> QED
        BY <2>1, <2>2
<1> QED
    BY <1>1, <1>2, <1>3, <1>4 DEF IsNumber

\* A float that is no NaN stands for a magnitude or its opposite.
LEMMA FloatUnits ==
    ASSUME NEW f \in Floats, ~IsNaN(f)
    PROVE  /\ f.i \in 0..LastFinite + 1 /\ Units(f) = IF f.neg THEN -Magnitude[f.i] ELSE Magnitude[f.i]
           /\ Units(f) \in Int /\ Magnitude[f.i] \in Nat
           /\ IsFinite(f) <=> f.i \in 0..LastFinite
           /\ Units(f) = 0 <=> f.i = 0
<1>1. LastFinite \in Nat /\ f.neg \in BOOLEAN /\ f.i \in 0..LastFinite + 2 /\ IsFloat(f) /\ ~IsInt(f)
      /\ IsNumber(f)
    BY Format, FloatIs
<1>2. f.i \in 0..LastFinite + 1
    BY <1>1 DEF IsNaN
<1>3. Magnitude[f.i] \in Nat
    BY <1>2, MagnitudeGrows
<1>4. Units(f) = IF f.neg THEN -Magnitude[f.i] ELSE Magnitude[f.i]
    BY <1>1 DEF Units
<1>5. IsFinite(f) <=> f.i \in 0..LastFinite
    BY <1>1, <1>2 DEF IsFinite, IsNaN, IsInf
<1>6. Magnitude[f.i] = 0 <=> f.i = 0
    <2>1. Magnitude[0] = 0 /\ 0 \in 0..LastFinite + 1
        BY <1>1, MagnitudeGrows
    <2>2. f.i # 0 => 0 < f.i
        BY <1>2
    <2>3. 0 < f.i => Magnitude[0] < Magnitude[f.i]
        BY <1>2, <2>1, MagnitudesIncrease
    <2> QED
        BY <1>3, <2>1, <2>2, <2>3
<1> QED
    BY <1>1, <1>2, <1>3, <1>4, <1>5, <1>6

LEMMA MkFloatIs ==
    ASSUME NEW s \in BOOLEAN, NEW k \in 0..LastFinite + 1
    PROVE  /\ MkFloat(s, k) \in Floats /\ ~IsNaN(MkFloat(s, k))
           /\ MkFloat(s, k).neg = s /\ MkFloat(s, k).i = k
           /\ Units(MkFloat(s, k)) = IF s THEN -Magnitude[k] ELSE Magnitude[k]
<1>1. MkFloat(s, k) \in Floats
    BY DEF Floats
<1>2. MkFloat(s, k).neg = s /\ MkFloat(s, k).i = k /\ MkFloat(s, k).t = "FLOAT"
    BY DEF MkFloat
<1>3. ~IsNaN(MkFloat(s, k))
    BY <1>2, Format DEF IsNaN
<1> QED
    BY <1>1, <1>2, <1>3, FloatUnits

-----------------------------------------------------------------------------
(* Rounding.                                                               *)

\* f is a float that x / den units may be rounded to: it is not on the other
\* side of any float, and no finite float is nearer.
RoundsTo(f, x, den) ==
    /\ f \in Floats /\ ~IsNaN(f)
    /\ \A g \in Floats : ~IsNaN(g) =>
          /\ x <= Units(g) * den => Units(f) <= Units(g)
          /\ Units(g) * den <= x => Units(g) <= Units(f)
    /\ IsFinite(f) => \A g \in Floats : IsFinite(g) =>
           Abs(Units(f) * den - x) <= Abs(Units(g) * den - x)

LEMMA FiniteIsNumber ==
    ASSUME NEW g, IsFinite(g)
    PROVE  IsNumber(g) /\ ~IsNaN(g)
BY DEF IsFinite

\* The nearest magnitude to x >= 0, compared with the magnitudes and their opposites.
LEMMA NearestOfAll ==
    ASSUME NEW x \in Nat, NEW den \in Nat \ {0}, NEW r, IsNearest(r, x, den),
           NEW s \in BOOLEAN, NEW j \in 0..LastFinite + 1,
           NEW u, u = IF s THEN -Magnitude[j] ELSE Magnitude[j]
    PROVE  /\ u \in Int /\ u * den \in Int
           /\ x <= u * den => Magnitude[r] <= u
           /\ u * den <= x => u <= Magnitude[r]
           /\ r <= LastFinite /\ j <= LastFinite =>
                  Abs(Magnitude[r] * den - x) <= Abs(u * den - x)
<1>1. LastFinite \in Nat /\ r \in 0..LastFinite + 1 /\ j \in Int
    BY Format DEF IsNearest
<1>2. PICK a \in Nat, b \in Nat : a = Magnitude[r] /\ b = Magnitude[j]
    BY <1>1, MagnitudeGrows
<1>3. PICK p \in Nat, q \in Nat : p = a * den /\ q = b * den
    OBVIOUS
<1>4. q = 0 <=> b = 0
    BY <1>3
<1>5. /\ q <= x => j <= r
      /\ x <= q => r <= j
      /\ r <= LastFinite /\ j <= LastFinite => Abs(p - x) <= Abs(q - x)
    BY <1>1, <1>2, <1>3 DEF IsNearest
<1>6. (r <= j <=> a <= b) /\ (j <= r <=> b <= a)
    BY <1>1, <1>2, MagnitudesIncrease
<1>7. CASE s
    <2>1. u = -b /\ u * den = -q
        <3>1. (-b) * den = -(b * den)
            OBVIOUS
        <3> QED
            BY <1>2, <1>3, <1>7, <3>1
    <2>2. x <= -q => a <= -b
        BY <1>4, <1>5, <1>6
    <2>3. r <= LastFinite /\ j <= LastFinite => Abs(p - x) <= Abs(-q - x)
        BY <1>5 DEF Abs
    <2> QED
        BY <1>2, <1>3, <2>1, <2>2, <2>3
<1>8. CASE ~s
    BY <1>2, <1>3, <1>5, <1>6, <1>8
<1> QED
    BY <1>7, <1>8

LEMMA Rounding ==
    ASSUME NEW negative \in BOOLEAN, NEW x \in Int, NEW den \in Nat \ {0},
           negative => x <= 0, ~negative => x >= 0
    PROVE  RoundsTo(Rounded(negative, x, den), x, den) /\ Rounded(negative, x, den).neg = negative
<1>1. PICK r : r = NearestBy(Signs(Abs(x), den))
    OBVIOUS
<1>2. Abs(x) \in Nat /\ LastFinite \in Nat
    BY Format DEF Abs
<1>3. IsNearest(r, Abs(x), den)
    BY <1>1, <1>2, Nearest
<1>4. r \in 0..LastFinite + 1
    BY <1>3 DEF IsNearest
<1>5. PICK f : f = Rounded(negative, x, den)
    OBVIOUS
<1>6. f = MkFloat(negative, r)
    BY <1>1, <1>5 DEF Rounded, Signs
<1>7. f \in Floats /\ ~IsNaN(f) /\ f.neg = negative /\ f.i = r
      /\ Units(f) = IF negative THEN -Magnitude[r] ELSE Magnitude[r]
    BY <1>4, <1>6, MkFloatIs
<1>8. PICK a \in Nat : a = Magnitude[r]
    BY <1>4, MagnitudeGrows
<1>9. ASSUME NEW g \in Floats, ~IsNaN(g)
      PROVE  /\ Units(g) \in Int /\ Units(g) * den \in Int
             /\ x <= Units(g) * den => Units(f) <= Units(g)
             /\ Units(g) * den <= x => Units(g) <= Units(f)
             /\ IsFinite(f) /\ IsFinite(g) => Abs(Units(f) * den - x) <= Abs(Units(g) * den - x)
    <2>1. g.neg \in BOOLEAN /\ g.i \in 0..LastFinite + 1 /\ Magnitude[g.i] \in Nat
          /\ Units(g) = IF g.neg THEN -Magnitude[g.i] ELSE Magnitude[g.i]
        BY <1>9, FloatIs, FloatUnits
    <2>2. (IsFinite(f) => r <= LastFinite) /\ (IsFinite(g) => g.i <= LastFinite)
        BY <1>2, <1>7, <1>9, FloatUnits
    <2>3. CASE ~negative
        <3>1. Abs(x) = x /\ x \in Nat
            BY <2>3 DEF Abs
        <3>2. IsNearest(r, x, den)
            BY <1>3, <3>1
        <3>3. /\ Units(g) \in Int /\ Units(g) * den \in Int
              /\ x <= Units(g) * den => Magnitude[r] <= Units(g)
              /\ Units(g) * den <= x => Units(g) <= Magnitude[r]
              /\ r <= LastFinite /\ g.i <= LastFinite =>
                     Abs(Magnitude[r] * den - x) <= Abs(Units(g) * den - x)
            BY <2>1, <3>1, <3>2, NearestOfAll
        <3> QED
            BY <1>7, <2>2, <2>3, <3>3
    <2>4. CASE negative
        <3>1. PICK y \in Nat : y = -x /\ y = Abs(x)
            BY <2>4 DEF Abs
        <3>2. IsNearest(r, y, den)
            BY <1>3, <3>1
        <3>3. PICK u : u = IF ~g.neg THEN -Magnitude[g.i] ELSE Magnitude[g.i]
            OBVIOUS
        <3>4. (~g.neg) \in BOOLEAN
            OBVIOUS
        <3>5. /\ u \in Int /\ u * den \in Int
              /\ y <= u * den => Magnitude[r] <= u
              /\ u * den <= y => u <= Magnitude[r]
              /\ r <= LastFinite /\ g.i <= LastFinite =>
                     Abs(Magnitude[r] * den - y) <= Abs(u * den - y)
            BY <2>1, <3>2, <3>3, <3>4, NearestOfAll
        <3>6. Units(g) = -u /\ Units(g) \in Int
            BY <2>1, <3>3
        <3>7. PICK w \in Int : w = u * den
            BY <3>5
        <3>8. Units(g) * den = -w
            BY <3>5, <3>6, <3>7
        <3>9. PICK p \in Int : p = Magnitude[r] * den
            BY <1>8
        <3>10. Units(f) = -a /\ Units(f) * den = -p
            BY <1>7, <1>8, <2>4, <3>9
        <3>11. Abs(-p - x) = Abs(p - y) /\ Abs(-w - x) = Abs(w - y)
            BY <3>1 DEF Abs
        <3>12. x <= -w => -a <= -u
            BY <1>8, <3>1, <3>5, <3>7
        <3>13. -w <= x => -u <= -a
            BY <1>8, <3>1, <3>5, <3>7
        <3>14. r <= LastFinite /\ g.i <= LastFinite => Abs(p - y) <= Abs(w - y)
            BY <3>5, <3>7, <3>9
        <3> QED
            BY <2>2, <3>6, <3>8, <3>10, <3>11, <3>12, <3>13, <3>14
    <2> QED
        BY <2>3, <2>4
<1>10. RoundsTo(f, x, den)
    BY <1>7, <1>9, FiniteIsNumber DEF RoundsTo
<1> QED
    BY <1>5, <1>7, <1>10

-----------------------------------------------------------------------------
(* Operands.                                                               *)

\* The integers lie within the finite floats.
LEMMA IntUnits ==
    ASSUME NEW v \in Values, IsInt(v)
    PROVE  /\ v.n \in Int /\ v.n \in IntMin..IntMax /\ Units(v) = v.n * UnitsPerOne /\ Units(v) \in Int
           /\ (v.n < 0 <=> Units(v) < 0) /\ (v.n = 0 <=> Units(v) = 0)
           /\ Units(v) <= Magnitude[LastFinite] /\ -Magnitude[LastFinite] <= Units(v)
<1>1. PICK p \in Nat \ {0}, w \in Nat \ {0} :
          p = PowerOf2[IntBits - 1] /\ w = UnitsPerOne /\ IntMin = -p /\ IntMax = p - 1
    BY Format
<1>2. v.n \in Int /\ -p <= v.n /\ v.n <= p - 1 /\ v.n \in IntMin..IntMax
    <2>1. v.n \in IntMin..IntMax
        BY ValueIs
    <2> QED
        BY <1>1, <2>1
<1>3. PICK n \in Int : n = v.n
    BY <1>2
<1>4. PICK u \in Int : u = n * w
    OBVIOUS
<1>5. Units(v) = u
    BY <1>1, <1>3, <1>4 DEF Units
<1>6. p * w <= Magnitude[LastFinite] /\ p * w \in Int
    BY <1>1, FormatAssumption
<1>7. Magnitude[LastFinite] \in Nat
    <2>1. LastFinite \in 0..LastFinite + 1
        BY Format
    <2> QED
        BY <2>1, MagnitudeGrows
<1>8. u <= p * w /\ -(p * w) <= u
    <2>1. p - n \in Nat /\ n + p \in Nat
        BY <1>2, <1>3
    <2>2. (p - n) * w >= 0 /\ (n + p) * w >= 0
        BY <2>1
    <2>3. (p - n) * w = p * w - n * w /\ (n + p) * w = n * w + p * w
        OBVIOUS
    <2> QED
        BY <1>4, <1>6, <2>2, <2>3
<1>9. (n < 0 <=> u < 0) /\ (n = 0 <=> u = 0)
    BY <1>4
<1> QED
    BY <1>1, <1>2, <1>3, <1>4, <1>5, <1>6, <1>7, <1>8, <1>9

LEMMA GreatestFloat ==
    \E f \in Floats : \E g \in Floats :
        /\ ~IsNaN(f) /\ ~IsNaN(g)
        /\ Units(f) = Magnitude[LastFinite] /\ Units(g) = -Magnitude[LastFinite]
<1>1. LastFinite \in 0..LastFinite + 1 /\ TRUE \in BOOLEAN /\ FALSE \in BOOLEAN
    BY Format
<1> QED
    BY <1>1, MkFloatIs

\* The float of an operand: an integer is rounded to a finite one.
LEMMA Converted ==
    ASSUME NEW v \in Values, IsNumber(v)
    PROVE  /\ ToFloat(v) \in Floats /\ (IsNaN(ToFloat(v)) <=> IsNaN(v))
           /\ (IsFinite(ToFloat(v)) <=> IsFinite(v))
           /\ IsFloat(v) => ToFloat(v) = v
           /\ IsInt(v) => RoundsTo(ToFloat(v), Units(v), 1) /\ (ToFloat(v).neg <=> v.n < 0)
           /\ ~IsNaN(v) => Units(v) \in Int /\ Units(ToFloat(v)) \in Int
<1>1. CASE IsFloat(v)
    <2>1. v \in Floats /\ ~IsInt(v)
        BY <1>1, ValueIs
    <2> QED
        BY <1>1, <2>1, FloatUnits DEF ToFloat
<1>2. CASE IsInt(v)
    <2>1. v.n \in Int /\ Units(v) \in Int /\ (v.n < 0 <=> Units(v) < 0)
          /\ Units(v) <= Magnitude[LastFinite] /\ -Magnitude[LastFinite] <= Units(v)
        BY <1>2, IntUnits
    <2>2. PICK x \in Int : x = Units(v)
        BY <2>1
    <2>3. PICK f : f = Rounded(v.n < 0, x, 1)
        OBVIOUS
    <2>4. f = ToFloat(v)
        BY <1>2, <2>2, <2>3 DEF ToFloat
    <2>5. PICK negative \in BOOLEAN : negative = (v.n < 0)
        <3>1. (v.n < 0) \in BOOLEAN
            BY <2>1
        <3> QED
            BY <3>1, Zenon
    <2>6. (negative => x <= 0) /\ (~negative => x >= 0) /\ 1 \in Nat \ {0}
        <3>1. negative <=> v.n < 0
            BY <2>5, Zenon
        <3> QED
            BY <2>1, <2>2, <3>1
    <2>7. RoundsTo(f, x, 1) /\ f.neg = negative
        BY <2>3, <2>5, <2>6, Rounding
    <2>8. f \in Floats /\ ~IsNaN(f)
        BY <2>7 DEF RoundsTo
    <2>9. f.i \in 0..LastFinite
        <3>1. LastFinite \in 0..LastFinite + 1 /\ LastFinite \in Nat
            BY Format
        <3>2. PICK m \in Nat : m = Magnitude[LastFinite]
            BY <3>1, MagnitudeGrows
        <3>3. PICK g \in Floats, h \in Floats : ~IsNaN(g) /\ ~IsNaN(h) /\ Units(g) = m /\ Units(h) = -m
            BY <3>2, GreatestFloat
        <3>4. Units(g) * 1 = m /\ Units(h) * 1 = -m
            BY <3>3
        <3>5. x <= m /\ -m <= x
            BY <2>1, <2>2, <3>2
        <3>6. Units(f) <= m /\ -m <= Units(f)
            BY <2>7, <3>3, <3>4, <3>5 DEF RoundsTo
        <3>7. f.i \in 0..LastFinite + 1 /\ Magnitude[f.i] \in Nat
              /\ Units(f) = IF f.neg THEN -Magnitude[f.i] ELSE Magnitude[f.i]
            BY <2>8, FloatUnits
        <3>8. Magnitude[f.i] <= Magnitude[LastFinite]
            BY <3>2, <3>6, <3>7
        <3>9. f.i <= LastFinite
            BY <3>1, <3>7, <3>8, MagnitudesIncrease
        <3> QED
            BY <3>1, <3>7, <3>9
    <2>10. IsFinite(f) /\ Units(f) \in Int
        BY <2>8, <2>9, FloatUnits
    <2>11. ~IsFloat(v) /\ ~IsNaN(v) /\ IsFinite(v)
        <3>1. ~IsFloat(v)
            BY <1>2, ValueIs
        <3> QED
            BY <1>2, <3>1 DEF IsNaN, IsInf, IsFinite, IsNumber
    <2> QED
        BY <2>2, <2>4, <2>5, <2>7, <2>8, <2>10, <2>11
<1> QED
    BY <1>1, <1>2 DEF IsNumber

\* What is compared is in the order of the numbers, or has become equal.
LEMMA OrderKept ==
    ASSUME NEW a \in Values, NEW b \in Values, IsNumber(a), IsNumber(b), ~IsNaN(a), ~IsNaN(b)
    PROVE  /\ Left(a, b) \in Int /\ Right(a, b) \in Int /\ Units(a) \in Int /\ Units(b) \in Int
           /\ Units(a) <= Units(b) => Left(a, b) <= Right(a, b)
           /\ Units(b) <= Units(a) => Right(a, b) <= Left(a, b)
<1>1. /\ ToFloat(a) \in Floats /\ ~IsNaN(ToFloat(a)) /\ Units(a) \in Int /\ Units(ToFloat(a)) \in Int
      /\ IsFloat(a) => ToFloat(a) = a
      /\ IsInt(a) => RoundsTo(ToFloat(a), Units(a), 1)
    BY Converted
<1>2. /\ ToFloat(b) \in Floats /\ ~IsNaN(ToFloat(b)) /\ Units(b) \in Int /\ Units(ToFloat(b)) \in Int
      /\ IsFloat(b) => ToFloat(b) = b
      /\ IsInt(b) => RoundsTo(ToFloat(b), Units(b), 1)
    BY Converted
<1>3. PICK p \in Int, q \in Int : p = Units(ToFloat(a)) /\ q = Units(ToFloat(b))
    BY <1>1, <1>2
<1>4. p * 1 = p /\ q * 1 = q
    OBVIOUS
<1>5. Left(a, b) = IF IsInt(a) /\ IsInt(b) THEN Units(a) ELSE p
    BY <1>3 DEF Left
<1>6. Right(a, b) = IF IsInt(a) /\ IsInt(b) THEN Units(b) ELSE q
    BY <1>3 DEF Right, Left
<1>7. CASE IsInt(a) /\ IsInt(b)
    BY <1>1, <1>2, <1>5, <1>6, <1>7
<1>8. CASE IsFloat(a) /\ IsFloat(b)
    <2>1. ~IsInt(a) /\ p = Units(a) /\ q = Units(b)
        BY <1>1, <1>2, <1>3, <1>8, ValueIs
    <2> QED
        BY <1>1, <1>2, <1>5, <1>6, <2>1
<1>9. CASE IsInt(a) /\ IsFloat(b)
    <2>1. ~IsInt(b) /\ q = Units(b)
        BY <1>2, <1>3, <1>9, ValueIs
    <2>2. (Units(a) <= q => p <= q) /\ (q <= Units(a) => q <= p)
        BY <1>1, <1>2, <1>3, <1>4, <1>9 DEF RoundsTo
    <2> QED
        BY <1>1, <1>2, <1>5, <1>6, <2>1, <2>2
<1>10. CASE IsFloat(a) /\ IsInt(b)
    <2>1. ~IsInt(a) /\ p = Units(a)
        BY <1>1, <1>3, <1>10, ValueIs
    <2>2. (Units(b) <= p => q <= p) /\ (p <= Units(b) => p <= q)
        BY <1>1, <1>2, <1>3, <1>4, <1>10 DEF RoundsTo
    <2> QED
        BY <1>1, <1>2, <1>5, <1>6, <2>1, <2>2
<1> QED
    BY <1>7, <1>8, <1>9, <1>10 DEF IsNumber

-----------------------------------------------------------------------------
(* The operations on two values.                                           *)

\* Wrap brings a number into the range of int, and changes it by a multiple
\* of 2^IntBits.
Congruent(a, b) == \E q \in Int : a - b = q * PowerOf2[IntBits]

LEMMA WrapIs ==
    ASSUME NEW n \in Int
    PROVE  /\ Wrap(n) \in IntMin..IntMax /\ Wrap(n) \in Int /\ Congruent(Wrap(n), n)
           /\ n \in IntMin..IntMax => Wrap(n) = n
<1>1. PICK p \in Nat \ {0}, d \in Nat \ {0} :
          /\ p = PowerOf2[IntBits - 1] /\ d = PowerOf2[IntBits] /\ d = 2 * p
          /\ IntMin = -p /\ IntMax = p - 1
    BY Format
<1>2. PICK a \in Int : a = n + p
    BY <1>1
<1>3. PICK q \in Int, r \in 0..d - 1 : a = d * q + r /\ a \div d = q /\ a % d = r
    BY Division
<1>4. Wrap(n) = (a % d) + (-p)
    <2>1. n - IntMin = a
        BY <1>1, <1>2
    <2> QED
        BY <1>1, <2>1 DEF Wrap
<1>5. Wrap(n) = r - p
    BY <1>3, <1>4
<1>6. PICK c \in Int : c = d * q
    OBVIOUS
<1>7. Wrap(n) - n = (-q) * d
    <2>1. (-q) * d = -c
        BY <1>6
    <2> QED
        BY <1>2, <1>3, <1>5, <1>6, <2>1
<1>8. Congruent(Wrap(n), n)
    <2>1. -q \in Int
        OBVIOUS
    <2> QED
        BY <1>1, <1>7, <2>1 DEF Congruent
<1>9. ASSUME n \in IntMin..IntMax PROVE Wrap(n) = n
    <2>1. a \in 0..d - 1
        BY <1>1, <1>2, <1>9
    <2>2. a = d * 0 + a /\ 0 \in Int
        OBVIOUS
    <2>3. a % d = a
        BY <2>1, <2>2, Division
    <2> QED
        BY <1>2, <1>4, <2>3
<1> QED
    BY <1>1, <1>5, <1>8, <1>9

LEMMA IntIs ==
    ASSUME NEW n \in IntMin..IntMax
    PROVE  MkInt(n) \in Values /\ IsInt(MkInt(n)) /\ MkInt(n).n = n /\ IsNumber(MkInt(n))
BY DEF MkInt, Ints, Values, IsInt, IsNumber

LEMMA SmallInts ==
    /\ 0 \in IntMin..IntMax /\ 1 \in IntMin..IntMax /\ -1 \in IntMin..IntMax /\ IntMin \in IntMin..IntMax
<1>1. IntBits - 1 \in Nat /\ IntBits - 1 # 0 /\ (IntBits - 1) - 1 \in Nat
      /\ ((IntBits - 1) - 1) + 1 = IntBits - 1
    BY FormatAssumption
<1>2. PICK p \in Nat \ {0} : p = PowerOf2[(IntBits - 1) - 1]
    BY <1>1, PowersOf2
<1>3. PowerOf2[IntBits - 1] = 2 * p
    BY <1>1, <1>2, PowersOf2
<1>4. IntMin = -(2 * p) /\ IntMax = 2 * p - 1
    BY <1>3 DEF IntMin, IntMax
<1> QED
    BY <1>4

LEMMA NaNIs ==
    NaN \in Floats /\ IsNaN(NaN) /\ ~IsFinite(NaN)
<1>1. NaN \in Floats
    BY DEF Floats
<1>2. IsNaN(NaN)
    BY <1>1, FloatIs
<1> QED
    BY <1>1, <1>2 DEF IsFinite

\* A finite float has the sign it says, and is no infinity.
LEMMA FiniteFloat ==
    ASSUME NEW x \in Floats, IsFinite(x)
    PROVE  /\ ~IsNaN(x) /\ ~IsInf(x) /\ x.neg \in BOOLEAN /\ Units(x) \in Int
           /\ x.neg => Units(x) <= 0
           /\ ~x.neg => Units(x) >= 0
           /\ Units(x) = 0 <=> x.i = 0
BY FloatIs, FloatUnits DEF IsFinite

LEMMA SumIs ==
    ASSUME NEW x \in Floats, NEW y \in Floats
    PROVE  /\ FloatSum(x, y) \in Floats
           /\ IsFinite(x) /\ IsFinite(y) => RoundsTo(FloatSum(x, y), Units(x) + Units(y), 1)
<1>1. CASE ~(~IsNaN(x) /\ ~IsNaN(y) /\ ~IsInf(x) /\ ~IsInf(y))
    <2>1. FloatSum(x, y) \in Floats
        BY <1>1, NaNIs DEF FloatSum
    <2> QED
        BY <1>1, <2>1 DEF IsFinite
<1>2. CASE ~IsNaN(x) /\ ~IsNaN(y) /\ ~IsInf(x) /\ ~IsInf(y)
    <2>1. IsFinite(x) /\ IsFinite(y)
        BY <1>2, FloatIs DEF IsFinite
    <2>2. PICK a \in Int, b \in Int : a = Units(x) /\ b = Units(y)
        BY <2>1, FiniteFloat
    <2>3. x.neg \in BOOLEAN /\ y.neg \in BOOLEAN /\ (x.neg => a <= 0) /\ (y.neg => b <= 0)
        BY <2>1, <2>2, FiniteFloat
    <2>4. PICK negative \in BOOLEAN : negative = (a + b < 0 \/ (x.neg /\ y.neg))
        <3>1. (a + b < 0 \/ (x.neg /\ y.neg)) \in BOOLEAN
            BY SMT
        <3> QED
            BY <3>1, Zenon
    <2>5. negative <=> (a + b < 0 \/ (x.neg /\ y.neg))
        BY <2>4, Zenon
    <2>6. (negative => a + b <= 0) /\ (~negative => a + b >= 0) /\ a + b \in Int /\ 1 \in Nat \ {0}
        BY <2>3, <2>5
    <2>7. FloatSum(x, y) = Rounded(negative, a + b, 1)
        BY <1>2, <2>2, <2>4, Zenon DEF FloatSum
    <2>8. RoundsTo(FloatSum(x, y), a + b, 1)
        BY <2>6, <2>7, Rounding
    <2> QED
        BY <2>2, <2>8 DEF RoundsTo
<1> QED
    BY <1>1, <1>2

\* The sign of the product.
LEMMA Signed ==
    ASSUME NEW x \in Floats, NEW y \in Floats, IsFinite(x), IsFinite(y)
    PROVE  /\ (x.neg # y.neg) \in BOOLEAN
           /\ x.neg # y.neg => Units(x) * Units(y) <= 0
           /\ ~(x.neg # y.neg) => Units(x) * Units(y) >= 0
<1>1. PICK a \in Int, b \in Int : a = Units(x) /\ b = Units(y)
    BY FiniteFloat
<1>2. /\ x.neg \in BOOLEAN /\ y.neg \in BOOLEAN
      /\ (x.neg => a <= 0) /\ (~x.neg => a >= 0) /\ (y.neg => b <= 0) /\ (~y.neg => b >= 0)
    BY <1>1, FiniteFloat
<1>3. a <= 0 /\ b <= 0 => a * b >= 0
    <2>1. SUFFICES ASSUME a <= 0, b <= 0 PROVE a * b >= 0
        OBVIOUS
    <2>2. PICK c \in Nat, d \in Nat : c = -a /\ d = -b
        BY <2>1
    <2>3. a * b = c * d
        <3>1. (-c) * (-d) = c * d
            OBVIOUS
        <3> QED
            BY <2>2, <3>1
    <2> QED
        BY <2>2, <2>3
<1>4. a >= 0 /\ b >= 0 => a * b >= 0
    OBVIOUS
<1>5. (a >= 0 /\ b <= 0) \/ (a <= 0 /\ b >= 0) => a * b <= 0
    <2>1. CASE a >= 0 /\ b <= 0
        <3>1. PICK d \in Nat : d = -b
            BY <2>1
        <3>2. a * d >= 0 /\ a * b = -(a * d)
            <4>1. a * (-d) = -(a * d) /\ a * d >= 0
                BY <2>1
            <4> QED
                BY <3>1, <4>1
        <3> QED
            BY <3>2
    <2>2. CASE a <= 0 /\ b >= 0
        <3>1. PICK c \in Nat : c = -a
            BY <2>2
        <3>2. c * b >= 0 /\ a * b = -(c * b)
            <4>1. (-c) * b = -(c * b) /\ c * b >= 0
                BY <2>2
            <4> QED
                BY <3>1, <4>1
        <3> QED
            BY <3>2
    <2> QED
        BY <2>1, <2>2
<1> QED
    BY <1>1, <1>2, <1>3, <1>4, <1>5

LEMMA ProductIs ==
    ASSUME NEW x \in Floats, NEW y \in Floats
    PROVE  /\ FloatProduct(x, y) \in Floats
           /\ IsFinite(x) /\ IsFinite(y) =>
                  RoundsTo(FloatProduct(x, y), Units(x) * Units(y), UnitsPerOne)
<1>1. PICK negative \in BOOLEAN : negative = (x.neg # y.neg)
    BY FloatIs
<1>2. LastFinite + 1 \in 0..LastFinite + 1 /\ UnitsPerOne \in Nat \ {0}
    BY Format
<1>3. MkFloat(negative, LastFinite + 1) \in Floats
    BY <1>2, MkFloatIs
<1>4. CASE IsNaN(x) \/ IsNaN(y) \/ IsInf(x) \/ IsInf(y)
    <2>1. FloatProduct(x, y) \in Floats
        BY <1>1, <1>3, <1>4, NaNIs, Zenon DEF FloatProduct
    <2> QED
        BY <1>4, <2>1 DEF IsFinite
<1>5. CASE ~(IsNaN(x) \/ IsNaN(y) \/ IsInf(x) \/ IsInf(y))
    <2>1. IsFinite(x) /\ IsFinite(y)
        BY <1>5, FloatIs DEF IsFinite
    <2>2. PICK p \in Int : p = Units(x) * Units(y)
        BY <2>1, FiniteFloat
    <2>3. (negative => p <= 0) /\ (~negative => p >= 0)
        BY <1>1, <2>1, <2>2, Signed
    <2>4. FloatProduct(x, y) = Rounded(negative, p, UnitsPerOne)
        BY <1>1, <1>5, <2>2, Zenon DEF FloatProduct
    <2>5. RoundsTo(FloatProduct(x, y), p, UnitsPerOne)
        BY <1>2, <2>3, <2>4, Rounding
    <2> QED
        BY <2>2, <2>5 DEF RoundsTo
<1> QED
    BY <1>4, <1>5

LEMMA QuotientIs ==
    ASSUME NEW x \in Floats, NEW y \in Floats
    PROVE  /\ FloatQuotient(x, y) \in Floats
           /\ IsFinite(x) /\ IsFinite(y) /\ y.i # 0 =>
                  RoundsTo(FloatQuotient(x, y), Units(x) * UnitsPerOne * SignOf(Units(y)), Abs(Units(y)))
           /\ y.i = 0 => ~IsFinite(FloatQuotient(x, y))
<1>1. PICK negative \in BOOLEAN : negative = (x.neg # y.neg)
    BY FloatIs
<1>2. LastFinite + 1 \in 0..LastFinite + 1 /\ 0 \in 0..LastFinite + 1 /\ UnitsPerOne \in Nat \ {0}
    BY Format
<1>3. /\ MkFloat(negative, LastFinite + 1) \in Floats /\ MkFloat(negative, 0) \in Floats
      /\ IsInf(MkFloat(negative, LastFinite + 1))
    <2>1. MkFloat(negative, LastFinite + 1) \in Floats /\ MkFloat(negative, 0) \in Floats
          /\ MkFloat(negative, LastFinite + 1).i = LastFinite + 1
        BY <1>2, MkFloatIs
    <2> QED
        BY <2>1, FloatIs DEF IsInf
<1>4. CASE IsNaN(x) \/ IsNaN(y) \/ IsInf(x) \/ IsInf(y) \/ y.i = 0
    <2>1. FloatQuotient(x, y) \in Floats
        BY <1>1, <1>3, <1>4, NaNIs, Zenon DEF FloatQuotient
    <2>2. y.i = 0 => ~IsFinite(FloatQuotient(x, y))
        <3>1. SUFFICES ASSUME y.i = 0 PROVE FloatQuotient(x, y) \in {NaN, MkFloat(negative, LastFinite + 1)}
            BY <1>3, NaNIs DEF IsFinite
        <3> QED
            BY <1>1, <3>1 DEF FloatQuotient
    <2> QED
        BY <1>4, <2>1, <2>2 DEF IsFinite
<1>5. CASE ~(IsNaN(x) \/ IsNaN(y) \/ IsInf(x) \/ IsInf(y) \/ y.i = 0)
    <2>1. IsFinite(x) /\ IsFinite(y)
        BY <1>5, FloatIs DEF IsFinite
    <2>2. PICK a \in Int, b \in Int : a = Units(x) /\ b = Units(y)
        BY <2>1, FiniteFloat
    <2>3. b # 0
        BY <1>5, <2>1, <2>2, FiniteFloat
    <2>4. PICK p \in Int : p = a * UnitsPerOne
        BY <1>2
    <2>5. PICK num \in Int : num = p * SignOf(b)
        BY DEF SignOf
    <2>6. Abs(num) = Abs(p) /\ Abs(b) \in Nat \ {0}
        BY <2>3, <2>5 DEF SignOf, Abs
    <2>7. FloatQuotient(x, y) = Rounded(negative, p, Abs(b))
        BY <1>1, <1>5, <2>2, <2>4, Zenon DEF FloatQuotient
    <2>8. Rounded(negative, p, Abs(b)) = Rounded(negative, num, Abs(b))
        BY <2>6 DEF Rounded
    <2>9. (negative => num <= 0) /\ (~negative => num >= 0)
        <3>1. /\ x.neg \in BOOLEAN /\ y.neg \in BOOLEAN
              /\ (x.neg => a <= 0) /\ (~x.neg => a >= 0) /\ (y.neg => b <= 0) /\ (~y.neg => b >= 0)
            BY <2>1, <2>2, FiniteFloat
        <3>2. (a <= 0 => p <= 0) /\ (a >= 0 => p >= 0)
            BY <1>2, <2>4
        <3>3. num = IF b < 0 THEN -p ELSE p
            BY <2>3, <2>5 DEF SignOf
        <3>4. num = IF y.neg THEN -p ELSE p
            BY <2>3, <3>1, <3>3
        <3>5. negative <=> ~(x.neg <=> y.neg)
            BY <1>1, <3>1
        <3>6. CASE x.neg
            BY <3>1, <3>2, <3>4, <3>5, <3>6
        <3>7. CASE ~x.neg
            BY <3>1, <3>2, <3>4, <3>5, <3>7
        <3> QED
            BY <3>6, <3>7
    <2>10. RoundsTo(FloatQuotient(x, y), num, Abs(b))
        BY <2>6, <2>7, <2>8, <2>9, Rounding
    <2>11. num = Units(x) * UnitsPerOne * SignOf(Units(y))
        BY <2>2, <2>4, <2>5
    <2> QED
        BY <1>5, <2>2, <2>10, <2>11 DEF RoundsTo
<1> QED
    BY <1>4, <1>5

LEMMA NegatedIs ==
    ASSUME NEW v \in Values, IsNumber(v)
    PROVE  /\ Negated(v) \in Values /\ IsNumber(Negated(v))
           /\ IsInt(v) => Negated(v) = MkInt(Wrap(-v.n)) /\ IsInt(Negated(v))
           /\ IsFloat(v) => Negated(v) \in Floats
           /\ IsFloat(v) /\ IsFinite(v) => IsFinite(Negated(v)) /\ Units(Negated(v)) = -Units(v)
<1>1. CASE IsInt(v)
    <2>1. v.n \in Int /\ -v.n \in Int /\ ~IsFloat(v)
        BY <1>1, IntUnits, ValueIs
    <2>2. Negated(v) = MkInt(Wrap(-v.n))
        BY <1>1 DEF Negated
    <2>3. Wrap(-v.n) \in IntMin..IntMax
        BY <2>1, WrapIs
    <2> QED
        BY <2>1, <2>2, <2>3, IntIs
<1>2. CASE IsFloat(v)
    <2>1. v \in Floats /\ ~IsInt(v) /\ v = MkFloat(v.neg, v.i) /\ v.neg \in BOOLEAN
        BY <1>2, ValueIs
    <2>2. CASE IsNaN(v)
        <3>1. Negated(v) = v
            BY <2>1, <2>2 DEF Negated
        <3> QED
            BY <1>2, <2>1, <2>2, <3>1 DEF IsFinite
    <2>3. CASE ~IsNaN(v)
        <3>1. /\ v.i \in 0..LastFinite + 1 /\ Magnitude[v.i] \in Nat
              /\ IsFinite(v) <=> v.i \in 0..LastFinite
              /\ Units(v) = IF v.neg THEN -Magnitude[v.i] ELSE Magnitude[v.i]
            BY <2>1, <2>3, FloatUnits
        <3>2. PICK negative \in BOOLEAN : negative = ~v.neg
            BY <2>1
        <3>3. Negated(v) = MkFloat(negative, v.i)
            <4>1. Negated(v) = [v EXCEPT !.neg = ~@]
                BY <2>1, <2>3 DEF Negated
            <4>2. [v EXCEPT !.neg = ~@] = [t |-> "FLOAT", neg |-> ~v.neg, i |-> v.i]
                BY <2>1 DEF MkFloat
            <4> QED
                BY <3>2, <4>1, <4>2 DEF MkFloat
        <3>4. /\ Negated(v) \in Floats /\ ~IsNaN(Negated(v)) /\ Negated(v).i = v.i
              /\ Units(Negated(v)) = IF negative THEN -Magnitude[v.i] ELSE Magnitude[v.i]
            BY <3>1, <3>3, MkFloatIs
        <3>5. IsFinite(Negated(v)) <=> v.i \in 0..LastFinite
            BY <3>4, FloatUnits
        <3>6. Units(Negated(v)) = -Units(v)
            <4>1. CASE v.neg
                <5>1. ~negative
                    BY <3>2, <4>1
                <5> QED
                    BY <3>1, <3>4, <4>1, <5>1
            <4>2. CASE ~v.neg
                <5>1. negative
                    BY <3>2, <4>2
                <5> QED
                    BY <3>1, <3>4, <4>2, <5>1
            <4> QED
                BY <4>1, <4>2
        <3> QED
            BY <2>1, <3>1, <3>4, <3>5, <3>6, FloatIs
    <2> QED
        BY <2>2, <2>3
<1> QED
    BY <1>1, <1>2 DEF IsNumber

\* The result of an operation on two numbers.
IsResult(x, a, b, exact, num, den) ==
    /\ x \in Values /\ IsNumber(x)
    /\ IsInt(a) /\ IsInt(b) => x = MkInt(Wrap(exact)) /\ IsInt(x)
    /\ ~(IsInt(a) /\ IsInt(b)) =>
           /\ x \in Floats
           /\ IsFinite(a) /\ IsFinite(b) => RoundsTo(x, num, den)

LEMMA IntResult ==
    ASSUME NEW n \in Int
    PROVE  MkInt(Wrap(n)) \in Values /\ IsNumber(MkInt(Wrap(n))) /\ IsInt(MkInt(Wrap(n)))
BY WrapIs, IntIs

LEMMA AddTwoIs ==
    ASSUME NEW a \in Values, NEW b \in Values, IsNumber(a), IsNumber(b)
    PROVE  IsResult(AddTwo(a, b), a, b, a.n + b.n, Units(ToFloat(a)) + Units(ToFloat(b)), 1)
<1>1. CASE IsInt(a) /\ IsInt(b)
    <2>1. a.n + b.n \in Int /\ AddTwo(a, b) = MkInt(Wrap(a.n + b.n))
        BY <1>1, IntUnits DEF AddTwo
    <2> QED
        BY <1>1, <2>1, IntResult DEF IsResult
<1>2. CASE ~(IsInt(a) /\ IsInt(b))
    <2>1. ToFloat(a) \in Floats /\ ToFloat(b) \in Floats
          /\ (IsFinite(a) <=> IsFinite(ToFloat(a))) /\ (IsFinite(b) <=> IsFinite(ToFloat(b)))
        BY Converted
    <2>2. AddTwo(a, b) = FloatSum(ToFloat(a), ToFloat(b))
        BY <1>2 DEF AddTwo
    <2> QED
        BY <1>2, <2>1, <2>2, SumIs, FloatIs DEF IsResult
<1> QED
    BY <1>1, <1>2

LEMMA SubTwoIs ==
    ASSUME NEW a \in Values, NEW b \in Values, IsNumber(a), IsNumber(b)
    PROVE  IsResult(SubTwo(a, b), a, b, a.n - b.n, Units(ToFloat(a)) - Units(ToFloat(b)), 1)
<1>1. CASE IsInt(a) /\ IsInt(b)
    <2>1. a.n - b.n \in Int /\ SubTwo(a, b) = MkInt(Wrap(a.n - b.n))
        BY <1>1, IntUnits DEF SubTwo
    <2> QED
        BY <1>1, <2>1, IntResult DEF IsResult
<1>2. CASE ~(IsInt(a) /\ IsInt(b))
    <2>1. ToFloat(a) \in Floats /\ ToFloat(b) \in Floats
          /\ (IsFinite(a) <=> IsFinite(ToFloat(a))) /\ (IsFinite(b) <=> IsFinite(ToFloat(b)))
        BY Converted
    <2>2. SubTwo(a, b) = FloatSum(ToFloat(a), Negated(ToFloat(b)))
        BY <1>2 DEF SubTwo
    <2>3. PICK y \in Floats :
              /\ y = Negated(ToFloat(b))
              /\ IsFinite(ToFloat(b)) => IsFinite(y) /\ Units(y) = -Units(ToFloat(b))
        BY <2>1, FloatIs, NegatedIs
    <2>4. FloatSum(ToFloat(a), y) \in Floats
        BY <2>1, SumIs
    <2>5. ASSUME IsFinite(a), IsFinite(b)
          PROVE  RoundsTo(FloatSum(ToFloat(a), y), Units(ToFloat(a)) - Units(ToFloat(b)), 1)
        <3>1. RoundsTo(FloatSum(ToFloat(a), y), Units(ToFloat(a)) + Units(y), 1)
            BY <2>1, <2>3, <2>5, SumIs
        <3>2. Units(ToFloat(a)) \in Int /\ Units(ToFloat(b)) \in Int
            BY <2>1, <2>5, FiniteFloat
        <3>3. Units(ToFloat(a)) + Units(y) = Units(ToFloat(a)) - Units(ToFloat(b))
            BY <2>1, <2>3, <2>5, <3>2
        <3> QED
            BY <3>1, <3>3
    <2> QED
        BY <1>2, <2>2, <2>3, <2>4, <2>5, FloatIs DEF IsResult
<1> QED
    BY <1>1, <1>2

LEMMA MulTwoIs ==
    ASSUME NEW a \in Values, NEW b \in Values, IsNumber(a), IsNumber(b)
    PROVE  IsResult(MulTwo(a, b), a, b, a.n * b.n, Units(ToFloat(a)) * Units(ToFloat(b)), UnitsPerOne)
<1>1. CASE IsInt(a) /\ IsInt(b)
    <2>1. PICK m \in Int, n \in Int : m = a.n /\ n = b.n
        BY <1>1, IntUnits
    <2>2. PICK p \in Int : p = m * n
        OBVIOUS
    <2>3. a.n * b.n = p /\ MulTwo(a, b) = MkInt(Wrap(p))
        BY <1>1, <2>1, <2>2 DEF MulTwo
    <2> QED
        BY <1>1, <2>3, IntResult DEF IsResult
<1>2. CASE ~(IsInt(a) /\ IsInt(b))
    <2>1. ToFloat(a) \in Floats /\ ToFloat(b) \in Floats
          /\ (IsFinite(a) <=> IsFinite(ToFloat(a))) /\ (IsFinite(b) <=> IsFinite(ToFloat(b)))
        BY Converted
    <2>2. MulTwo(a, b) = FloatProduct(ToFloat(a), ToFloat(b))
        BY <1>2 DEF MulTwo
    <2> QED
        BY <1>2, <2>1, <2>2, ProductIs, FloatIs DEF IsResult
<1> QED
    BY <1>1, <1>2

\* A multiple of b leaves no remainder.
LEMMA Divisible ==
    ASSUME NEW r \in Int, NEW b \in Int, b # 0, NEW c \in Int, c * b = r
    PROVE  r % Abs(b) = 0
<1>1. PICK n \in Nat \ {0} : n = Abs(b)
    BY DEF Abs
<1>2. PICK s \in {1, -1} : s = SignOf(b) /\ b = s * n /\ n = s * b
    BY <1>1 DEF SignOf, Abs
<1>3. PICK e \in Int : e = s * c
    BY <1>2
<1>4. r = n * e + 0
    <2>1. CASE s = 1
        <3>1. c * b = b * c
            BY <1>2
        <3> QED
            BY <1>2, <1>3, <2>1, <3>1
    <2>2. CASE s = -1
        <3>1. n = -b /\ e = -c
            BY <1>2, <1>3, <2>2
        <3>2. (-b) * (-c) = c * b
            OBVIOUS
        <3> QED
            BY <3>1, <3>2
    <2> QED
        BY <2>1, <2>2
<1>5. 0 \in 0..n - 1
    BY <1>1
<1>6. \A q \in Int, d \in 0..n - 1 : r = n * q + d => r \div n = q /\ r % n = d
    BY Division, Zenon
<1> QED
    BY <1>1, <1>4, <1>5, <1>6, Zenon

\* The quotient of two integers, when there is one.
LEMMA IntQuotient ==
    ASSUME NEW r \in Int, NEW b \in Int, b # 0, NEW p \in Nat \ {0}, -p <= r, r <= p - 1,
           ~(r = -p /\ b = -1), NEW q, q = SignOf(b) * (r \div Abs(b))
    PROVE  /\ r % Abs(b) = 0 => /\ q \in Int /\ -p <= q /\ q <= p - 1 /\ q * b = r
                                /\ q = -p => r = -p /\ b = 1
<1>1. PICK n \in Nat \ {0} : n = Abs(b)
    BY DEF Abs
<1>2. PICK s \in {1, -1} : s = SignOf(b) /\ b = s * n /\ n = s * b
    BY <1>1 DEF SignOf, Abs
<1>4. ASSUME r % n = 0 PROVE q \in Int /\ -p <= q /\ q <= p - 1 /\ q * b = r /\ (q = -p => r = -p /\ b = 1)
    <2>1. PICK d \in Int, e \in 0..n - 1 : r = n * d + e /\ r \div n = d /\ r % n = e
        BY Division, Zenon
    <2>2. r = n * d /\ q = s * d
        <3>1. e = 0
            BY <1>4, <2>1
        <3>2. q = s * d
            BY <1>1, <1>2, <2>1, Zenon
        <3> QED
            BY <2>1, <3>1, <3>2
    <2>3. PICK m \in Nat : m = n - 1
        BY <1>1
    <2>4. PICK md \in Int, mp \in Int : md = m * d /\ mp = m * p
        OBVIOUS
    <2>5. r = md + d
        <3>1. n * d = (n - 1) * d + d
            BY <1>1
        <3> QED
            BY <1>1, <2>2, <2>3, <2>4, <3>1
    <2>6. (d >= 0 => md >= 0) /\ (d <= 0 => md <= 0) /\ (m = 0 <=> mp = 0) /\ mp >= 0
        <3>1. d >= 0 => md >= 0
            BY <2>4
        <3>2. d <= 0 => md <= 0
            <4>1. SUFFICES ASSUME d <= 0 PROVE md <= 0
                OBVIOUS
            <4>2. PICK f \in Nat : f = -d
                BY <4>1
            <4>3. m * f >= 0 /\ m * (-f) = -(m * f)
                OBVIOUS
            <4> QED
                BY <2>4, <4>2, <4>3
        <3>3. (m = 0 <=> mp = 0) /\ mp >= 0
            BY <2>4
        <3> QED
            BY <3>1, <3>2, <3>3
    <2>7. -p <= d /\ d <= p - 1
        BY <2>5, <2>6
    <2>8. d = -p => r = -p /\ n = 1
        <3>1. d = -p => md = -mp
            BY <2>4
        <3> QED
            BY <1>1, <2>3, <2>4, <2>5, <2>6, <3>1
    <2>9. CASE s = 1
        <3>1. b = n /\ q = d
            BY <1>2, <2>2, <2>9
        <3>2. q * b = r
            BY <2>2, <3>1
        <3> QED
            BY <2>7, <2>8, <3>1, <3>2
    <2>10. CASE s = -1
        <3>1. b = -n /\ q = -d
            BY <1>2, <2>2, <2>10
        <3>2. q * b = r
            <4>1. (-d) * (-n) = n * d
                OBVIOUS
            <4> QED
                BY <2>2, <3>1, <4>1
        <3> QED
            BY <2>7, <2>8, <3>1, <3>2
    <2> QED
        BY <2>9, <2>10
<1> QED
    BY <1>1, <1>4

\* What _div makes of its two operands: an integer only where it is exact.
LEMMA DividedIs ==
    ASSUME NEW r \in Values \cup {Wild}, NEW v \in Values, IsNumber(v), ~IsZero(v),
           ~(r = MkInt(IntMin) /\ v = MkInt(-1)), NEW x \in Divided(r, v)
    PROVE  /\ x \in Values \cup {Wild}
           /\ IsNumber(r) => x \in Values /\ IsNumber(x)
           /\ ~IsNumber(r) => ~IsNumber(x)
           /\ IsInt(r) /\ IsInt(v) =>
                 /\ (\E c \in Int : c * v.n = r.n) => IsInt(x) /\ x.n * v.n = r.n
                 /\ ~(\E c \in Int : c * v.n = r.n) => IsFloat(x)
           /\ IsNumber(r) /\ IsFloat(x) => x = FloatQuotient(ToFloat(r), ToFloat(v))
           /\ x = MkInt(IntMin) => r = MkInt(IntMin) /\ v = MkInt(1)
<1>1. CASE ~IsNumber(r)
    <2>1. x = r \/ x = Wild
        BY <1>1 DEF Divided
    <2>2. ~IsNumber(Wild)
        BY DEF Wild, IsNumber, IsInt, IsFloat
    <2>3. IsNumber(MkInt(IntMin)) /\ (IsInt(r) => IsNumber(r))
        BY SmallInts, IntIs DEF IsNumber
    <2> QED
        BY <1>1, <2>1, <2>2, <2>3
<1>2. CASE IsNumber(r)
    <2>1. r \in Values
        BY <1>2 DEF IsNumber, IsInt, IsFloat, Wild
    <2>2. PICK f : f = FloatQuotient(ToFloat(r), ToFloat(v))
        OBVIOUS
    <2>3. f \in Floats /\ f \in Values /\ IsNumber(f) /\ IsFloat(f) /\ ~IsInt(f)
        BY <1>2, <2>1, <2>2, Converted, QuotientIs, FloatIs
    <2>4. f # MkInt(IntMin)
        BY <2>3, SmallInts, IntIs
    <2>5. CASE ~(IsInt(r) /\ IsInt(v) /\ r.n % Abs(v.n) = 0)
        <3>1. x = f
            BY <1>2, <2>2, <2>5 DEF Divided
        <3>2. ASSUME IsInt(r), IsInt(v) PROVE ~(\E c \in Int : c * v.n = r.n)
            <4>1. PICK p \in Nat \ {0} : p = PowerOf2[IntBits - 1] /\ IntMin = -p /\ IntMax = p - 1
                BY Format
            <4>2. r.n \in Int /\ -p <= r.n /\ r.n <= p - 1 /\ v.n \in Int /\ v.n # 0
                BY <2>1, <3>2, <4>1, IntUnits DEF IsZero
            <4>3. ASSUME NEW c \in Int, c * v.n = r.n PROVE r.n % Abs(v.n) = 0
                BY <4>2, <4>3, Divisible
            <4> QED
                BY <2>5, <3>2, <4>3
        <3> QED
            BY <1>2, <2>2, <2>3, <2>4, <3>1, <3>2
    <2>6. CASE IsInt(r) /\ IsInt(v) /\ r.n % Abs(v.n) = 0
        <3>1. PICK q : q = SignOf(v.n) * (r.n \div Abs(v.n))
            OBVIOUS
        <3>2. x = MkInt(q)
            BY <1>2, <2>6, <3>1 DEF Divided
        <3>3. PICK p \in Nat \ {0} : p = PowerOf2[IntBits - 1] /\ IntMin = -p /\ IntMax = p - 1
            BY Format
        <3>4. r.n \in Int /\ -p <= r.n /\ r.n <= p - 1 /\ v.n \in Int /\ v.n # 0
            BY <2>1, <2>6, <3>3, IntUnits DEF IsZero
        <3>5. ~(r.n = -p /\ v.n = -1)
            BY <2>1, <2>6, <3>3, ValueIs
        <3>6. q \in Int /\ -p <= q /\ q <= p - 1 /\ q * v.n = r.n /\ (q = -p => r.n = -p /\ v.n = 1)
            BY <2>6, <3>1, <3>4, <3>5, IntQuotient
        <3>7. q \in IntMin..IntMax
            BY <3>3, <3>6
        <3>8. x \in Values /\ IsInt(x) /\ x.n = q /\ IsNumber(x)
            BY <3>2, <3>7, IntIs
        <3>9. ~IsFloat(x)
            BY <3>8, ValueIs
        <3>10. x = MkInt(IntMin) => r = MkInt(IntMin) /\ v = MkInt(1)
            <4>1. x = MkInt(IntMin) => q = IntMin
                BY <3>8, SmallInts, IntIs
            <4> QED
                BY <2>1, <2>6, <3>3, <3>6, <4>1, ValueIs
        <3> QED
            BY <1>2, <2>6, <3>6, <3>8, <3>9, <3>10
    <2> QED
        BY <2>5, <2>6
<1> QED
    BY <1>1, <1>2

-----------------------------------------------------------------------------
(* The types.                                                              *)

ArithmeticStep == EnterAddOrMul \/ EnterSub \/ EnterDiv
                      \/ AddTurn \/ SubTurn \/ MulTurn \/ DivTurn \/ ArithmeticEnd
ComparisonStep == EnterCompare \/ CompareTurn \/ CompareEnd
StringStep == EnterString \/ StringTurn \/ StringEnd
FunctionStep == Sqrt \/ Random \/ Circular \/ Floor

\* The number of arguments is one the table allows.
Called ==
    /\ args \in Seq(Values)
    /\ op # "none" => Len(args) >= MinArgs(op) /\ (TakesOne(op) => Len(args) = 1)

\* The result so far of an arithmetic operation is a number; / keeps
\* the type of its first argument.
ResultTyped ==
    /\ op \in {"-", "/"} => i # 1
    /\ op \in {"+", "-", "*"} /\ i # 0 => res \in Values /\ IsNumber(res)
    /\ op = "/" /\ i # 0 /\ IsNumber(args[1]) => res \in Values /\ IsNumber(res)

OutTyped == out.k = "running" => out = Running

Typed == TypeOK /\ Called /\ ResultTyped /\ OutTyped

\* A new call, or the return from one, starts anew.
Begins == i' = 0 /\ out' = Running /\ res' \in Values \cup {Wild}

\* A step of the call in progress.
Proceeds == out = Running /\ op # "none" /\ op' = op /\ args' = args /\ before' = before

LEMMA Kinds ==
    ASSUME TypeOK, Next
    PROVE  \/ Begins /\ \E o \in Operations : Call(o)
           \/ Begins /\ Repeat
           \/ Begins /\ Return
           \/ UNCHANGED vars
           \/ Proceeds /\ op \in Arithmetic /\ ArithmeticStep
           \/ Proceeds /\ op \in NumberComparisons /\ ComparisonStep
           \/ Proceeds /\ op \in StringComparisons /\ StringStep
           \/ Proceeds /\ op \in Functions /\ FunctionStep
           \/ Proceeds /\ op \in Predicates /\ Predicate
<1>1. Nil \in Values
    BY DEF Values
<1>2. ASSUME NEW o \in Operations, Call(o) PROVE Begins
    BY <1>2 DEF Call, Begins, TypeOK
<1>3. Repeat \/ Return => Begins
    BY <1>1 DEF Repeat, Return, Begins
<1>4. Ended => UNCHANGED vars
    BY DEF Ended
<1>5. ArithmeticStep => Proceeds /\ op \in Arithmetic
    BY DEF ArithmeticStep, EnterAddOrMul, EnterSub, EnterDiv, AddTurn, SubTurn, MulTurn, DivTurn,
           ArithmeticEnd, Entering, Looping, Finished, InBody, Stop, Continue, EnterWith, Proceeds,
           Arithmetic
<1>6. ComparisonStep => Proceeds /\ op \in NumberComparisons
    BY DEF ComparisonStep, EnterCompare, CompareTurn, CompareEnd, Entering, Looping, Finished,
           InBody, Stop, Continue, EnterWith, Proceeds
<1>7. StringStep => Proceeds /\ op \in StringComparisons
    BY DEF StringStep, EnterString, StringTurn, StringEnd, Entering, Looping, Finished,
           InBody, Stop, Continue, EnterWith, Proceeds
<1>8. FunctionStep => Proceeds /\ op \in Functions
    BY DEF FunctionStep, Sqrt, Random, Circular, Floor, Entering, InBody, Stop, Proceeds, Functions
<1>9. Predicate => Proceeds /\ op \in Predicates
    BY DEF Predicate, Entering, InBody, Stop, Proceeds
<1> QED
    BY <1>2, <1>3, <1>4, <1>5, <1>6, <1>7, <1>8, <1>9
       DEF Next, ArithmeticStep, ComparisonStep, StringStep, FunctionStep

LEMMA ArgumentIs ==
    ASSUME Called, NEW k \in 1..Len(args)
    PROVE  args[k] \in Values /\ k \in DOMAIN args
BY DEF Called

LEMMA LenArgs ==
    ASSUME Called
    PROVE  Len(args) \in Nat /\ DOMAIN args = 1..Len(args) /\ (op \in {"-", "/"} => 1 \in 1..Len(args))
<1>1. Len(args) \in Nat /\ DOMAIN args = 1..Len(args)
    BY DEF Called
<1>2. op \in {"-", "/"} => Len(args) >= 1
    BY DEF Called, MinArgs
<1> QED
    BY <1>1, <1>2

\* What a step of a call has to show.
StepTyped ==
    /\ i' \in 0..Len(args) + 2 /\ res' \in Values \cup {Wild}
    /\ out'.k \in {"running", "value", "error", "trap"} /\ OutTyped'
    /\ ResultTyped'

LEMMA ProceedsTyped ==
    ASSUME Typed, Proceeds, StepTyped
    PROVE  Typed'
BY DEF Typed, TypeOK, Called, Proceeds, StepTyped

LEMMA OutcomeTyped ==
    ASSUME NEW x, NEW y
    PROVE  /\ Value(x).k = "value" /\ Value(x).v = x /\ Expected(x, y).k = "error"
           /\ Exception(x).k = "error" /\ Trap.k = "trap" /\ Running.k = "running"
BY DEF Value, Expected, Exception, Trap, Running

\* Stop leaves everything but out.
LEMMA StopTyped ==
    ASSUME Typed, NEW o, Stop(o), o.k \in {"value", "error", "trap"}
    PROVE  StepTyped
BY DEF Typed, TypeOK, ResultTyped, OutTyped, StepTyped, Stop

\* A result in progress that is a value, and a number for arithmetic.
LEMMA GoesOnTyped ==
    ASSUME Typed, Proceeds, out' = out, i' \in 1..Len(args) + 2, op \in {"-", "/"} => i' # 1,
           res' \in Values \cup {Wild},
           op \in {"+", "-", "*"} => res' \in Values /\ IsNumber(res'),
           op = "/" /\ IsNumber(args[1]) => res' \in Values /\ IsNumber(res')
    PROVE  StepTyped
<1>1. out.k \in {"running", "value", "error", "trap"} /\ OutTyped /\ Len(args) \in Nat
    BY LenArgs DEF Typed, TypeOK
<1>2. OutTyped'
    BY <1>1 DEF OutTyped
<1>3. ResultTyped'
    BY DEF ResultTyped, Proceeds
<1> QED
    BY <1>1, <1>2, <1>3 DEF StepTyped

LEMMA ArithmeticTyped ==
    ASSUME Typed, Proceeds, ArithmeticStep
    PROVE  Typed'
<1>1. Called /\ Len(args) \in Nat /\ (op \in {"-", "/"} => 1 \in 1..Len(args) /\ args[1] \in Values)
    BY LenArgs, ArgumentIs DEF Typed
<1> SUFFICES StepTyped
    BY ProceedsTyped
<1>2. CASE EnterAddOrMul
    <2>1. i' = 1 /\ out' = out /\ op \in {"+", "*"} /\ res' = MkInt(IF op = "+" THEN 0 ELSE 1)
        BY <1>2 DEF EnterAddOrMul, EnterWith, Entering
    <2>2. res' \in Values /\ IsNumber(res')
        BY <2>1, SmallInts, IntIs
    <2>3. i' \in 1..Len(args) + 2
        BY <1>1, <2>1
    <2> QED
        BY <2>1, <2>2, <2>3, GoesOnTyped
<1>3. CASE EnterSub
    <2>1. op = "-" /\ 1 \in 1..Len(args)
        BY <1>1, <1>3 DEF EnterSub, Entering
    <2>2. CASE IsNumber(args[1]) /\ Len(args) # 1
        <3>1. i' = 2 /\ out' = out /\ res' = args[1]
            BY <1>3, <2>2 DEF EnterSub, EnterWith
        <3> QED
            BY <1>1, <2>1, <2>2, <3>1, GoesOnTyped
    <2>3. CASE ~(IsNumber(args[1]) /\ Len(args) # 1)
        <3>1. Stop(Expected("number", args[1])) \/ Stop(Value(Negated(args[1])))
            BY <1>3, <2>3 DEF EnterSub
        <3> QED
            BY <3>1, OutcomeTyped, StopTyped
    <2> QED
        BY <2>2, <2>3
<1>4. CASE EnterDiv
    <2>1. op = "/" /\ 1 \in 1..Len(args) /\ i' = 2 /\ out' = out /\ res' = args[1]
        BY <1>1, <1>4 DEF EnterDiv, EnterWith, Entering
    <2> QED
        BY <1>1, <2>1, GoesOnTyped
<1>5. ASSUME i \in 1..Len(args), i' = i + 1
      PROVE  i' \in 1..Len(args) + 2 /\ i' # 1 /\ i # 0 /\ args[i] \in Values
    BY <1>1, <1>5, ArgumentIs
<1>6. CASE AddTurn
    <2>1. op = "+" /\ i \in 1..Len(args)
        BY <1>6 DEF AddTurn, Looping
    <2>2. CASE IsNumber(args[i])
        <3>1. i' = i + 1 /\ out' = out /\ res' = AddTwo(res, args[i])
            BY <1>6, <2>2 DEF AddTurn, Continue
        <3>2. res \in Values /\ IsNumber(res) /\ args[i] \in Values
            BY <1>5, <2>1, <3>1 DEF Typed, ResultTyped
        <3>3. res' \in Values /\ IsNumber(res')
            BY <2>2, <3>1, <3>2, AddTwoIs DEF IsResult
        <3> QED
            BY <1>5, <2>1, <3>1, <3>3, GoesOnTyped
    <2>3. CASE ~IsNumber(args[i])
        BY <1>6, <2>3, OutcomeTyped, StopTyped DEF AddTurn
    <2> QED
        BY <2>2, <2>3
<1>7. CASE SubTurn
    <2>1. op = "-" /\ i \in 1..Len(args)
        BY <1>7 DEF SubTurn, Looping
    <2>2. CASE IsNumber(args[i])
        <3>1. i' = i + 1 /\ out' = out /\ res' = SubTwo(res, args[i])
            BY <1>7, <2>2 DEF SubTurn, Continue
        <3>2. res \in Values /\ IsNumber(res) /\ args[i] \in Values
            BY <1>5, <2>1, <3>1 DEF Typed, ResultTyped
        <3>3. res' \in Values /\ IsNumber(res')
            BY <2>2, <3>1, <3>2, SubTwoIs DEF IsResult
        <3> QED
            BY <1>5, <2>1, <3>1, <3>3, GoesOnTyped
    <2>3. CASE ~IsNumber(args[i])
        BY <1>7, <2>3, OutcomeTyped, StopTyped DEF SubTurn
    <2> QED
        BY <2>2, <2>3
<1>8. CASE MulTurn
    <2>1. op = "*" /\ i \in 1..Len(args)
        BY <1>8 DEF MulTurn, Looping
    <2>2. CASE IsNumber(args[i])
        <3>1. i' = i + 1 /\ out' = out /\ res' = MulTwo(res, args[i])
            BY <1>8, <2>2 DEF MulTurn, Continue
        <3>2. res \in Values /\ IsNumber(res) /\ args[i] \in Values
            BY <1>5, <2>1, <3>1 DEF Typed, ResultTyped
        <3>3. res' \in Values /\ IsNumber(res')
            BY <2>2, <3>1, <3>2, MulTwoIs DEF IsResult
        <3> QED
            BY <1>5, <2>1, <3>1, <3>3, GoesOnTyped
    <2>3. CASE ~IsNumber(args[i])
        BY <1>8, <2>3, OutcomeTyped, StopTyped DEF MulTurn
    <2> QED
        BY <2>2, <2>3
<1>9. CASE DivTurn
    <2>1. op = "/" /\ i \in 1..Len(args)
        BY <1>9 DEF DivTurn, Looping
    <2>2. CASE IsNumber(args[i]) /\ ~IsZero(args[i]) /\ ~(res = MkInt(IntMin) /\ args[i] = MkInt(-1))
        <3>1. PICK r \in Divided(res, args[i]) : i' = i + 1 /\ out' = out /\ res' = r
            BY <1>9, <2>2 DEF DivTurn, Continue
        <3>2. /\ args[i] \in Values /\ res \in Values \cup {Wild} /\ i # 0
              /\ IsNumber(args[1]) => res \in Values /\ IsNumber(res)
            BY <1>5, <2>1, <3>1 DEF Typed, ResultTyped, TypeOK
        <3>3. r \in Values \cup {Wild} /\ (IsNumber(res) => r \in Values /\ IsNumber(r))
            BY <2>2, <3>1, <3>2, DividedIs
        <3> QED
            BY <1>5, <2>1, <3>1, <3>2, <3>3, GoesOnTyped
    <2>3. CASE ~(IsNumber(args[i]) /\ ~IsZero(args[i]) /\ ~(res = MkInt(IntMin) /\ args[i] = MkInt(-1)))
        <3>1. Stop(Expected("number", res)) \/ Stop(Exception("0 div")) \/ Stop(Trap)
            BY <1>9, <2>3 DEF DivTurn
        <3>2. PICK o : o = Exception("0 div")
            OBVIOUS
        <3>3. o.k = "error"
            BY <3>2 DEF Exception
        <3>4. Stop(o) => StepTyped
            BY <3>3, StopTyped
        <3>5. Stop(Expected("number", res)) => StepTyped
            BY OutcomeTyped, StopTyped
        <3>6. Stop(Trap) => StepTyped
            BY OutcomeTyped, StopTyped
        <3> QED
            BY <3>1, <3>2, <3>4, <3>5, <3>6
    <2> QED
        BY <2>2, <2>3
<1>10. CASE ArithmeticEnd
    BY <1>10, OutcomeTyped, StopTyped DEF ArithmeticEnd
<1> QED
    BY <1>2, <1>3, <1>4, <1>6, <1>7, <1>8, <1>9, <1>10 DEF ArithmeticStep

LEMMA OthersTyped ==
    ASSUME Typed, Proceeds,
           \/ op \in NumberComparisons /\ ComparisonStep
           \/ op \in StringComparisons /\ StringStep
           \/ op \in Functions /\ FunctionStep
           \/ op \in Predicates /\ Predicate
    PROVE  Typed'
<1>1. Called /\ Len(args) \in Nat
    BY LenArgs DEF Typed
<1> SUFFICES StepTyped
    BY ProceedsTyped
<1>2. op \notin {"+", "-", "*", "/"}
    BY DEF NumberComparisons, StringComparisons, Functions, Predicates
<1>3. ASSUME NEW v \in Values, NEW n \in 1..Len(args) + 2, res' = v, i' = n, out' = out PROVE StepTyped
    BY <1>2, <1>3, GoesOnTyped
<1>4. CASE EnterCompare
    <2>1. PICK first \in IF args = <<>> THEN Values ELSE {args[1]} :
              \/ Stop(Expected("number", first)) \/ Stop(Value(T)) \/ EnterWith(first, 2)
        BY <1>4 DEF EnterCompare
    <2>2. args # <<>> => 1 \in 1..Len(args)
        BY <1>1 DEF Called
    <2>3. first \in Values
        BY <1>1, <2>1, <2>2, ArgumentIs
    <2>4. 2 \in 1..Len(args) + 2
        BY <1>1
    <2>5. EnterWith(first, 2) => StepTyped
        BY <1>3, <2>3, <2>4 DEF EnterWith
    <2> QED
        BY <2>1, <2>5, OutcomeTyped, StopTyped
<1>5. ASSUME NEW ops, Looping(ops), Continue(args[i]) PROVE StepTyped
    <2>1. i \in 1..Len(args) /\ i' = i + 1 /\ res' = args[i] /\ out' = out
        BY <1>5 DEF Looping, Continue
    <2>2. i + 1 \in 1..Len(args) + 2 /\ args[i] \in Values
        BY <1>1, <2>1, ArgumentIs
    <2> QED
        BY <1>3, <2>1, <2>2
<1>6. CASE CompareTurn
    <2>1. \/ Stop(Expected("number", args[i])) \/ Stop(Value(MkBool(op = "/="))) \/ Continue(args[i])
        BY <1>6 DEF CompareTurn
    <2> QED
        BY <1>5, <1>6, <2>1, OutcomeTyped, StopTyped DEF CompareTurn
<1>7. CASE CompareEnd
    BY <1>7, OutcomeTyped, StopTyped DEF CompareEnd
<1>8. CASE EnterString
    <2>1. op \in StringComparisons /\ (Stop(Expected("string", args[1])) \/ EnterWith(args[1], 2))
        BY <1>8 DEF EnterString, Entering
    <2>2. Len(args) >= 1
        BY <1>1, <2>1 DEF Called, StringComparisons, MinArgs
    <2>3. args[1] \in Values /\ 2 \in 1..Len(args) + 2
        BY <1>1, <2>2, ArgumentIs
    <2>4. EnterWith(args[1], 2) => StepTyped
        BY <1>3, <2>3 DEF EnterWith
    <2> QED
        BY <2>1, <2>4, OutcomeTyped, StopTyped
<1>9. CASE StringTurn
    <2>1. \/ Stop(Exception("type error!!")) \/ Stop(Expected("string", args[i]))
          \/ Stop(Value(Nil)) \/ Continue(args[i])
        BY <1>9 DEF StringTurn
    <2>2. PICK o : o = Exception("type error!!")
        OBVIOUS
    <2>3. o.k = "error"
        BY <2>2 DEF Exception
    <2>4. Looping(StringComparisons)
        BY <1>9 DEF StringTurn
    <2>5. Stop(o) => StepTyped
        BY <2>3, StopTyped
    <2>6. Stop(Expected("string", args[i])) \/ Stop(Value(Nil)) => StepTyped
        BY OutcomeTyped, StopTyped
    <2> QED
        BY <1>5, <2>1, <2>2, <2>4, <2>5, <2>6
<1>10. CASE StringEnd
    BY <1>10, OutcomeTyped, StopTyped DEF StringEnd
<1>11. CASE Sqrt
    <2>1. Stop(Value(SquareRoot(args[1]))) \/ Stop(Expected("number", args[1]))
        BY <1>11 DEF Sqrt
    <2> QED
        BY <2>1, OutcomeTyped, StopTyped
<1>12. CASE Random
    <2>1. PICK rand \in 0..RandMax :
              Stop(CASE args[1] = MkInt(0) -> Trap
                     [] IsInt(args[1]) /\ args[1].n # 0 -> Value(MkInt(Remainder(rand, args[1].n)))
                     [] IsFloat(args[1]) ->
                           Value(FloatQuotient(ToFloat(MkInt(rand)),
                                     FloatQuotient(ToFloat(MkInt(RandMax)), args[1])))
                     [] OTHER -> Expected("number", args[1]))
        BY <1>12 DEF Random
    <2>2. \E x, y : Stop(Trap) \/ Stop(Value(x)) \/ Stop(Expected(x, y))
        BY <2>1
    <2> QED
        BY <2>2, OutcomeTyped, StopTyped
<1>13. CASE Circular
    <2>1. \E x, y : Stop(Value(x)) \/ Stop(Expected(x, y))
        BY <1>13 DEF Circular
    <2> QED
        BY <2>1, OutcomeTyped, StopTyped
<1>14. CASE Floor
    <2>1. \E x, y : Stop(Value(x)) \/ Stop(Expected(x, y))
        BY <1>14 DEF Floor
    <2> QED
        BY <2>1, OutcomeTyped, StopTyped
<1>15. CASE Predicate
    <2>1. Stop(Value(MkBool(Holds(op, args[1]))))
        BY <1>15 DEF Predicate
    <2> QED
        BY <2>1, OutcomeTyped, StopTyped
<1> QED
    BY <1>4, <1>6, <1>7, <1>8, <1>9, <1>10, <1>11, <1>12, <1>13, <1>14, <1>15
       DEF ComparisonStep, StringStep, FunctionStep

LEMMA BeginsTyped ==
    ASSUME Begins, TypeOK, Called,
           (\E o \in Operations : Call(o)) \/ Repeat \/ Return
    PROVE  Typed'
<1>1. OutTyped' /\ ResultTyped' /\ out'.k = "running"
    BY OutcomeTyped DEF Begins, OutTyped, ResultTyped
<1>2. CASE \E o \in Operations : Call(o)
    <2>1. PICK o \in Operations, a \in Inputs :
              /\ Len(a) >= MinArgs(o) /\ (TakesOne(o) => Len(a) = 1)
              /\ args' = a /\ op' = o /\ before' = NoCall
        BY <1>2 DEF Call
    <2>2. a \in Seq(Values)
        BY <2>1, InputsAssumption
    <2>3. Called'
        BY <2>1, <2>2 DEF Called
    <2>4. \A k \in DOMAIN args' : args'[k] \in Values
        BY <2>1, <2>2
    <2>5. i' \in 0..Len(args') + 2
        BY <2>1, <2>2 DEF Begins
    <2> QED
        BY <1>1, <2>1, <2>3, <2>4, <2>5 DEF Typed, TypeOK, Begins, NoCall
<1>3. CASE Repeat
    <2>1. Companion(op) # "none" /\ op' = Companion(op) /\ args' = args /\ before'.op = op
        BY <1>3 DEF Repeat
    <2>2. /\ op \in {"<=", ">=", "/=", "STRING<=", "STRING>=", "STRING/="}
          /\ Companion(op) \in {">", "<", "=", "STRING>", "STRING<", "STRING="}
        BY <2>1 DEF Companion
    <2>3. op' \in Operations /\ op \in Operations
        BY <2>1, <2>2 DEF Operations, NumberComparisons, StringComparisons
    <2>4. Len(args) >= 1 /\ Len(args) \in Nat
        BY <2>2, LenArgs DEF Called, MinArgs
    <2>5. MinArgs(op') \in {0, 1} /\ ~TakesOne(op')
        BY <2>1, <2>2 DEF MinArgs, TakesOne, Predicates, Functions
    <2>6. Called'
        BY <2>1, <2>4, <2>5 DEF Called
    <2> QED
        BY <1>1, <2>1, <2>3, <2>4, <2>6 DEF Typed, TypeOK, Begins
<1>4. CASE Return
    <2>1. op' = "none" /\ args' = <<>> /\ before' = NoCall
        BY <1>4 DEF Return
    <2>2. Called'
        BY <2>1 DEF Called
    <2> QED
        BY <1>1, <2>1, <2>2 DEF Typed, TypeOK, Begins, NoCall
<1> QED
    BY <1>2, <1>3, <1>4

\* The state has its types: the result so far of an arithmetic call is a number
\* (of / only if its first argument is), and its index stays within the arguments.
THEOREM TypedInvariant == Spec => []Typed
<1>1. ASSUME Init PROVE Typed
    <2>1. op = "none" /\ args = <<>> /\ i = 0 /\ res = Nil /\ out = Running /\ before = NoCall
        BY <1>1 DEF Init
    <2>2. Nil \in Values
        BY DEF Values
    <2> QED
        BY <2>1, <2>2, OutcomeTyped DEF Typed, TypeOK, Called, ResultTyped, OutTyped, NoCall
<1>2. ASSUME Typed, [Next]_vars PROVE Typed'
    <2>1. CASE UNCHANGED vars
        BY <1>2, <2>1 DEF Typed, TypeOK, Called, ResultTyped, OutTyped, vars
    <2>2. CASE Next
        <3>1. TypeOK /\ Called
            BY <1>2 DEF Typed
        <3> QED
            BY <1>2, <2>1, <2>2, <3>1, Kinds, BeginsTyped, ArithmeticTyped, OthersTyped
    <2> QED
        BY <1>2, <2>1, <2>2
<1> QED
    BY <1>1, <1>2, PTL DEF Spec

-----------------------------------------------------------------------------
(* Exact sums and products.                                                *)

\* f holds the sums of the first integers of a, up to the one of all.
IsSums(f, a) ==
    /\ f \in [0..Len(a) -> Int] /\ f[0] = 0
    /\ \A k \in 1..Len(a) : f[k] = f[k - 1] + a[k].n
    /\ ExactSum(a) = f[Len(a)]

IsProducts(f, a) ==
    /\ f \in [0..Len(a) -> Int] /\ f[0] = 1
    /\ \A k \in 1..Len(a) : f[k] = f[k - 1] * a[k].n
    /\ ExactProduct(a) = f[Len(a)]

\* f folds the integers of a, one after the other.
LEMMA Folding ==
    ASSUME NEW a \in Seq(Values), \A k \in 1..Len(a) : IsInt(a[k]),
           NEW b \in Int, NEW G \in [Int \X Int -> Int]
    PROVE  \E f \in [0..Len(a) -> Int] :
              f[0] = b /\ \A k \in 1..Len(a) : f[k] = G[<<f[k - 1], a[k].n>>] /\ a[k].n \in Int
<1>1. Len(a) \in Nat /\ \A k \in 1..Len(a) : a[k] \in Values /\ a[k].n \in Int
    BY IntUnits
<1>2. PICK c : c = [k \in Nat |-> IF k \in 1..Len(a) THEN a[k].n ELSE 0]
    OBVIOUS
<1>3. c \in [Nat -> Int] /\ \A k \in 1..Len(a) : c[k] = a[k].n
    BY <1>1, <1>2
<1>4. PICK g : g = [kx \in Nat \X Int |-> G[<<kx[2], c[kx[1]]>>]]
    OBVIOUS
<1>5. g \in [Nat \X Int -> Int]
    BY <1>3, <1>4
<1>6. PICK f \in [0..Len(a) -> Int] : Iterates(f, Len(a), b, g)
    BY <1>1, <1>5, Iteration
<1>7. ASSUME NEW k \in 1..Len(a) PROVE f[k] = G[<<f[k - 1], a[k].n>>]
    <2>1. k \in 0..Len(a) /\ k # 0 /\ k - 1 \in 0..Len(a) /\ k \in Nat
        BY <1>1
    <2>2. f[k] = g[<<k, f[k - 1]>>]
        BY <1>6, <2>1 DEF Iterates
    <2>3. f[k - 1] \in Int
        BY <1>6, <2>1
    <2>4. g[<<k, f[k - 1]>>] = G[<<f[k - 1], c[k]>>]
        BY <1>4, <2>1, <2>3
    <2> QED
        BY <1>3, <2>2, <2>4
<1>8. f[0] = b
    <2>1. 0 \in 0..Len(a)
        BY <1>1
    <2> QED
        BY <1>6, <2>1 DEF Iterates
<1> QED
    BY <1>1, <1>6, <1>7, <1>8

LEMMA SumsOf ==
    ASSUME NEW a \in Seq(Values), \A k \in 1..Len(a) : IsInt(a[k])
    PROVE  \E f : IsSums(f, a)
<1> DEFINE Is(f) == f = [k \in 0..Len(a) |-> IF k = 0 THEN 0 ELSE f[k - 1] + a[k].n]
<1>1. Len(a) \in Nat /\ 0 \in 0..Len(a) /\ \A k \in 1..Len(a) : k \in 0..Len(a) /\ k # 0
    OBVIOUS
<1>2. PICK G : G = [xy \in Int \X Int |-> xy[1] + xy[2]]
    OBVIOUS
<1>3. G \in [Int \X Int -> Int] /\ 0 \in Int
    BY <1>2
<1>4. PICK f \in [0..Len(a) -> Int] :
          f[0] = 0 /\ \A k \in 1..Len(a) : f[k] = G[<<f[k - 1], a[k].n>>] /\ a[k].n \in Int
    BY <1>3, Folding
<1>5. Is(f)
    <2>1. ASSUME NEW k \in 0..Len(a) PROVE f[k] = IF k = 0 THEN 0 ELSE f[k - 1] + a[k].n
        <3>1. CASE k # 0
            <4>1. k \in 1..Len(a) /\ k - 1 \in 0..Len(a)
                BY <1>1, <3>1
            <4>2. f[k - 1] \in Int /\ a[k].n \in Int /\ f[k] = G[<<f[k - 1], a[k].n>>]
                BY <1>4, <4>1
            <4> QED
                BY <1>2, <3>1, <4>2
        <3> QED
            BY <1>4, <3>1
    <2> QED
        BY <2>1
<1>6. PICK h : h = CHOOSE s : Is(s)
    OBVIOUS
<1>7. Is(h)
    BY <1>5, <1>6
<1>8. h[0] = 0 /\ \A k \in 1..Len(a) : h[k] = h[k - 1] + a[k].n
    BY <1>1, <1>7
<1> DEFINE Good == {n \in Nat : n <= Len(a) => h[n] \in Int}
<1>9. 0 \in Good
    BY <1>8
<1>10. ASSUME NEW n \in Nat, n \in Good PROVE n + 1 \in Good
    <2>1. CASE n + 1 <= Len(a)
        <3>1. n + 1 \in 1..Len(a) /\ (n + 1) - 1 = n /\ n <= Len(a)
            BY <1>1, <2>1
        <3>2. h[n + 1] = h[n] + a[n + 1].n
            BY <1>8, <3>1
        <3>3. h[n] \in Int /\ a[n + 1].n \in Int
            BY <1>4, <1>10, <3>1
        <3>4. h[n + 1] \in Int
            BY <3>2, <3>3
        <3> QED
            BY <3>4
    <2> QED
        BY <2>1
<1>11. Nat \subseteq Good
    <2> HIDE DEF Good
    <2> QED
        BY <1>9, <1>10, Induction
<1>12. h \in [0..Len(a) -> Int]
    <2>1. \A k \in 0..Len(a) : h[k] \in Int
        BY <1>1, <1>11
    <2>2. \E E : h = [k \in 0..Len(a) |-> E[k]]
        <3>1. PICK E : E = [k \in 0..Len(a) |-> IF k = 0 THEN 0 ELSE h[k - 1] + a[k].n]
            OBVIOUS
        <3>2. h = E /\ E = [k \in 0..Len(a) |-> E[k]]
            BY <1>7, <3>1
        <3> QED
            BY <3>2
    <2> QED
        BY <2>1, <2>2
<1>13. ExactSum(a) = h[Len(a)]
    BY <1>6 DEF ExactSum
<1> QED
    BY <1>8, <1>12, <1>13 DEF IsSums

LEMMA ProductsOf ==
    ASSUME NEW a \in Seq(Values), \A k \in 1..Len(a) : IsInt(a[k])
    PROVE  \E f : IsProducts(f, a)
<1> DEFINE Is(f) == f = [k \in 0..Len(a) |-> IF k = 0 THEN 1 ELSE f[k - 1] * a[k].n]
<1>1. Len(a) \in Nat /\ 0 \in 0..Len(a) /\ \A k \in 1..Len(a) : k \in 0..Len(a) /\ k # 0
    OBVIOUS
<1>2. PICK G : G = [xy \in Int \X Int |-> xy[1] * xy[2]]
    OBVIOUS
<1>3. G \in [Int \X Int -> Int] /\ 1 \in Int
    BY <1>2
<1>4. PICK f \in [0..Len(a) -> Int] :
          f[0] = 1 /\ \A k \in 1..Len(a) : f[k] = G[<<f[k - 1], a[k].n>>] /\ a[k].n \in Int
    BY <1>3, Folding
<1>5. Is(f)
    <2>1. ASSUME NEW k \in 0..Len(a) PROVE f[k] = IF k = 0 THEN 1 ELSE f[k - 1] * a[k].n
        <3>1. CASE k # 0
            <4>1. k \in 1..Len(a) /\ k - 1 \in 0..Len(a)
                BY <1>1, <3>1
            <4>2. f[k - 1] \in Int /\ a[k].n \in Int /\ f[k] = G[<<f[k - 1], a[k].n>>]
                BY <1>4, <4>1
            <4> QED
                BY <1>2, <3>1, <4>2
        <3> QED
            BY <1>4, <3>1
    <2> QED
        BY <2>1
<1>6. PICK h : h = CHOOSE s : Is(s)
    OBVIOUS
<1>7. Is(h)
    BY <1>5, <1>6
<1>8. h[0] = 1 /\ \A k \in 1..Len(a) : h[k] = h[k - 1] * a[k].n
    BY <1>1, <1>7
<1> DEFINE Good == {n \in Nat : n <= Len(a) => h[n] \in Int}
<1>9. 0 \in Good
    BY <1>8
<1>10. ASSUME NEW n \in Nat, n \in Good PROVE n + 1 \in Good
    <2>1. CASE n + 1 <= Len(a)
        <3>1. n + 1 \in 1..Len(a) /\ (n + 1) - 1 = n /\ n <= Len(a)
            BY <1>1, <2>1
        <3>2. h[n + 1] = h[n] * a[n + 1].n
            BY <1>8, <3>1
        <3>3. h[n] \in Int /\ a[n + 1].n \in Int
            BY <1>4, <1>10, <3>1
        <3>4. h[n + 1] \in Int
            BY <3>2, <3>3
        <3> QED
            BY <3>4
    <2> QED
        BY <2>1
<1>11. Nat \subseteq Good
    <2> HIDE DEF Good
    <2> QED
        BY <1>9, <1>10, Induction
<1>12. h \in [0..Len(a) -> Int]
    <2>1. \A k \in 0..Len(a) : h[k] \in Int
        BY <1>1, <1>11
    <2>2. \E E : h = [k \in 0..Len(a) |-> E[k]]
        <3>1. PICK E : E = [k \in 0..Len(a) |-> IF k = 0 THEN 1 ELSE h[k - 1] * a[k].n]
            OBVIOUS
        <3>2. h = E /\ E = [k \in 0..Len(a) |-> E[k]]
            BY <1>7, <3>1
        <3> QED
            BY <3>2
    <2> QED
        BY <2>1, <2>2
<1>13. ExactProduct(a) = h[Len(a)]
    BY <1>6 DEF ExactProduct
<1> QED
    BY <1>8, <1>12, <1>13 DEF IsProducts

-----------------------------------------------------------------------------
(* Arithmetic.                                                             *)

LEMMA Congruences ==
    ASSUME NEW a \in Int, NEW b \in Int, NEW c \in Int, Congruent(a, b)
    PROVE  /\ Congruent(Wrap(a + c), b + c) /\ Congruent(Wrap(a - c), b - c)
           /\ Congruent(Wrap(a * c), b * c)
<1>1. PICK d \in Nat : d = PowerOf2[IntBits]
    BY Format
<1>2. PICK q \in Int : a - b = q * d
    BY <1>1 DEF Congruent
<1>3. PICK qd \in Int : qd = q * d
    BY <1>1
<1>4. ASSUME NEW x \in Int, NEW y \in Int, NEW e \in Int, x - y = e * d
      PROVE  Congruent(Wrap(x), y)
    <2>1. PICK w \in Int, f \in Int : w = Wrap(x) /\ w - x = f * d
        <3>1. Wrap(x) \in Int /\ Congruent(Wrap(x), x)
            BY WrapIs
        <3> QED
            BY <1>1, <3>1, Zenon DEF Congruent
    <2>2. PICK ed \in Int, fd \in Int : ed = e * d /\ fd = f * d
        BY <1>1
    <2>3. (e + f) * d = ed + fd
        BY <1>1, <2>2
    <2>4. w - y = (e + f) * d
        BY <1>4, <2>1, <2>2, <2>3
    <2> QED
        BY <1>1, <2>1, <2>4 DEF Congruent
<1>5. Congruent(Wrap(a + c), b + c)
    <2>1. PICK x \in Int, y \in Int : x = a + c /\ y = b + c
        OBVIOUS
    <2>2. x - y = q * d
        BY <1>2, <1>3, <2>1
    <2>3. Congruent(Wrap(x), y)
        BY <1>4, <2>2, Zenon
    <2> QED
        BY <2>1, <2>3, Zenon
<1>6. Congruent(Wrap(a - c), b - c)
    <2>1. PICK x \in Int, y \in Int : x = a - c /\ y = b - c
        OBVIOUS
    <2>2. x - y = q * d
        BY <1>2, <1>3, <2>1
    <2>3. Congruent(Wrap(x), y)
        BY <1>4, <2>2, Zenon
    <2> QED
        BY <2>1, <2>3, Zenon
<1>7. Congruent(Wrap(a * c), b * c)
    <2>1. PICK ac \in Int, bc \in Int : ac = a * c /\ bc = b * c
        OBVIOUS
    <2>2. ac - bc = (a - b) * c
        BY <2>1
    <2>3. (a - b) * c = (q * d) * c
        BY <1>2
    <2>4. (q * d) * c = (q * c) * d
        BY <1>1
    <2>5. PICK qc \in Int : qc = q * c
        OBVIOUS
    <2>6. ac - bc = qc * d
        BY <2>2, <2>3, <2>4, <2>5
    <2>7. Congruent(Wrap(ac), bc)
        BY <1>4, <2>6, Zenon
    <2> QED
        BY <2>1, <2>7, Zenon
<1> QED
    BY <1>5, <1>6, <1>7

LEMMA CongruentSelf ==
    ASSUME NEW a \in Int
    PROVE  Congruent(a, a)
<1>1. PICK d \in Nat : d = PowerOf2[IntBits]
    BY Format
<1>2. a - a = 0 * d
    BY <1>1
<1> QED
    BY <1>1, <1>2 DEF Congruent

\* The result so far is congruent to the exact one.
IntsExact ==
    op \in {"+", "-", "*"} /\ AllInts /\ i # 0 =>
        /\ IsInt(res)
        /\ op = "+" => \E f : IsSums(f, args) /\ Congruent(res.n, f[i - 1])
        /\ op = "-" => \E f : /\ IsSums(f, args)
                              /\ Congruent(res.n, args[1].n - (f[i - 1] - args[1].n))
        /\ op = "*" => \E f : IsProducts(f, args) /\ Congruent(res.n, f[i - 1])

\* How far the loop is, and what it ends with.
ArithmeticEnds ==
    op \in Arithmetic =>
        /\ i <= Len(args) + 1
        /\ op = "-" /\ Len(args) = 1 => i = 0
        /\ out.k = "value" =>
              \/ i = Len(args) + 1 /\ out.v = res
              \/ op = "-" /\ Len(args) = 1 /\ IsNumber(args[1]) /\ out.v = Negated(args[1])

\* The result after the first and after the second of two arguments.
First(o, a) == IF o = "+" THEN AddTwo(MkInt(0), a) ELSE IF o = "*" THEN MulTwo(MkInt(1), a) ELSE a
Second(o, x, b) == IF o = "+" THEN {AddTwo(x, b)} ELSE IF o = "*" THEN {MulTwo(x, b)}
                   ELSE IF o = "-" THEN {SubTwo(x, b)} ELSE Divided(x, b)

TwoArguments ==
    op \in Arithmetic /\ Len(args) = 2 =>
        /\ i = 1 => res = IF op = "+" THEN MkInt(0) ELSE MkInt(1)
        /\ i = 2 => res = First(op, args[1])
        /\ i = 3 => /\ res \in Second(op, First(op, args[1]), args[2])
                    /\ op = "/" => /\ IsNumber(args[2]) /\ ~IsZero(args[2])
                                   /\ ~(args[1] = MkInt(IntMin) /\ args[2] = MkInt(-1))

\* _div meets IntMin only if it started from it.
IntMinStays ==
    op = "/" /\ i # 0 /\ res = MkInt(IntMin) =>
        args[1] = MkInt(IntMin) /\ \A j \in 2..i - 1 : args[j] = MkInt(1)

TrapExcused ==
    out = Trap =>
        \/ op = "RANDOM" /\ args = <<MkInt(0)>>
        \/ /\ op = "/" /\ args[1] = MkInt(IntMin)
           /\ \E k \in 2..Len(args) : /\ args[k] = MkInt(-1)
                                      /\ \A j \in 2..k - 1 : args[j] = MkInt(1)

ArithmeticInv == ArithmeticEnds /\ IntsExact /\ TwoArguments /\ IntMinStays /\ TrapExcused

\* A step that stops, but not with a trap.
LEMMA StopArithmetic ==
    ASSUME Typed, ArithmeticInv, NEW o, Stop(o), o.k \in {"value", "error"},
           op \in Arithmetic /\ o.k = "value" =>
              \/ i = Len(args) + 1 /\ o.v = res
              \/ op = "-" /\ Len(args) = 1 /\ IsNumber(args[1]) /\ o.v = Negated(args[1])
    PROVE  ArithmeticInv'
<1>1. out' = o /\ op' = op /\ args' = args /\ i' = i /\ res' = res
    BY DEF Stop
<1>2. out' # Trap
    BY <1>1 DEF Trap
<1>3. ArithmeticEnds' /\ TrapExcused'
    BY <1>1, <1>2 DEF ArithmeticEnds, TrapExcused, ArithmeticInv
<1>4. IntsExact' /\ TwoArguments' /\ IntMinStays'
    BY <1>1 DEF IntsExact, TwoArguments, IntMinStays, AllInts, ArithmeticInv
<1> QED
    BY <1>3, <1>4 DEF ArithmeticInv

\* A step that goes on.
LEMMA GoesOnArithmetic ==
    ASSUME Typed, Proceeds, out' = Running, i' <= Len(args) + 1, op = "-" => Len(args) # 1,
           IntsExact', TwoArguments', IntMinStays'
    PROVE  ArithmeticInv'
<1>1. out'.k = "running" /\ out' # Trap
    BY DEF Running, Trap
<1> QED
    BY <1>1 DEF ArithmeticInv, ArithmeticEnds, TrapExcused, Proceeds

\* A step of another operation.
LEMMA OthersArithmetic ==
    ASSUME Typed, Proceeds, op \notin Arithmetic, out' = Trap => op = "RANDOM" /\ args = <<MkInt(0)>>
    PROVE  ArithmeticInv'
BY DEF Proceeds, Arithmetic, ArithmeticInv, ArithmeticEnds, IntsExact, TwoArguments, IntMinStays, TrapExcused

LEMMA TrapIs ==
    ASSUME NEW o, o.k # "trap"
    PROVE  o # Trap
BY DEF Trap

LEMMA OnlyRandomTraps ==
    ASSUME Typed, Proceeds, out' = Trap,
           \/ op \in NumberComparisons /\ ComparisonStep
           \/ op \in StringComparisons /\ StringStep
           \/ op \in Functions /\ FunctionStep
           \/ op \in Predicates /\ Predicate
    PROVE  op = "RANDOM" /\ args = <<MkInt(0)>>
<1>1. out = Running /\ Running # Trap
    BY DEF Proceeds, Running, Trap
<1>2. ASSUME NEW o, Stop(o) PROVE o = Trap
    BY <1>2 DEF Stop
<1>3. \A x, y : ~Stop(Value(x)) /\ ~Stop(Expected(x, y)) /\ ~Stop(Exception(x))
    BY <1>2 DEF Value, Expected, Exception, Trap
<1>4. ASSUME NEW r, NEW n PROVE ~EnterWith(r, n) /\ ~Continue(r)
    BY <1>1 DEF EnterWith, Continue
<1>5. ~ComparisonStep
    BY <1>3, <1>4 DEF ComparisonStep, EnterCompare, CompareTurn, CompareEnd
<1>6. ~StringStep
    <2>1. ~EnterString /\ ~StringEnd
        BY <1>3, <1>4 DEF EnterString, StringEnd
    <2>2. ~StringTurn
        BY <1>3, <1>4 DEF StringTurn
    <2> QED
        BY <2>1, <2>2 DEF StringStep
<1>7. ~Sqrt /\ ~Circular /\ ~Floor /\ ~Predicate
    BY <1>3 DEF Sqrt, Circular, Floor, Predicate
<1>8. CASE Random
    <2>1. op = "RANDOM"
        BY <1>8 DEF Random, Entering
    <2>2. args[1] = MkInt(0)
        <3>1. SUFFICES ASSUME args[1] # MkInt(0) PROVE FALSE
            OBVIOUS
        <3>2. PICK rand \in 0..RandMax :
                  Stop(CASE args[1] = MkInt(0) -> Trap
                         [] IsInt(args[1]) /\ args[1].n # 0 -> Value(MkInt(Remainder(rand, args[1].n)))
                         [] IsFloat(args[1]) ->
                               Value(FloatQuotient(ToFloat(MkInt(rand)),
                                         FloatQuotient(ToFloat(MkInt(RandMax)), args[1])))
                         [] OTHER -> Expected("number", args[1]))
            BY <1>8 DEF Random
        <3>3. (\E x : Stop(Value(x))) \/ Stop(Expected("number", args[1]))
            BY <3>1, <3>2, ValueIs
        <3> QED
            BY <1>3, <3>3
    <2>3. Len(args) = 1 /\ args \in Seq(Values)
        BY <2>1 DEF Typed, Called, TakesOne, Functions, Proceeds
    <2>4. args = <<args[1]>>
        BY <2>3
    <2> QED
        BY <2>1, <2>2, <2>4
<1> QED
    BY <1>5, <1>6, <1>7, <1>8 DEF FunctionStep

\* AllInts, over the indices of the arguments.
LEMMA AllIntsIs ==
    ASSUME Called
    PROVE  AllInts <=> \A k \in 1..Len(args) : IsInt(args[k])
BY LenArgs DEF AllInts

\* Two integers give what the exact operation gives, wrapped.
LEMMA EntryExact ==
    ASSUME Typed, Proceeds, op \in {"+", "*"}, i' = 1,
           res' = MkInt(IF op = "+" THEN 0 ELSE 1)
    PROVE  IntsExact'
<1>1. SUFFICES ASSUME AllInts PROVE
          /\ IsInt(res')
          /\ op = "+" => \E f : IsSums(f, args) /\ Congruent(res'.n, f[0])
          /\ op = "*" => \E f : IsProducts(f, args) /\ Congruent(res'.n, f[0])
    <2>1. i' - 1 = 0 /\ args' = args /\ op' = op
        BY DEF Proceeds
    <2> QED
        BY <2>1 DEF IntsExact, AllInts
<1>2. args \in Seq(Values) /\ \A k \in 1..Len(args) : IsInt(args[k])
    BY <1>1, AllIntsIs DEF Typed, Called
<1>3. IsInt(res') /\ res'.n = IF op = "+" THEN 0 ELSE 1
    BY SmallInts, IntIs
<1>4. ASSUME op = "+" PROVE \E f : IsSums(f, args) /\ Congruent(res'.n, f[0])
    <2>1. PICK f : IsSums(f, args)
        BY <1>2, SumsOf
    <2>2. f[0] = 0 /\ Congruent(0, 0)
        BY <2>1, CongruentSelf DEF IsSums
    <2> QED
        BY <1>3, <1>4, <2>1, <2>2
<1>5. ASSUME op = "*" PROVE \E f : IsProducts(f, args) /\ Congruent(res'.n, f[0])
    <2>1. PICK f : IsProducts(f, args)
        BY <1>2, ProductsOf
    <2>2. f[0] = 1 /\ Congruent(1, 1)
        BY <2>1, CongruentSelf DEF IsProducts
    <2> QED
        BY <1>3, <1>5, <2>1, <2>2
<1> QED
    BY <1>3, <1>4, <1>5

\* What the turns of +, - and * show about the state before them.
LEMMA TurnExact ==
    ASSUME Typed, ArithmeticInv, AllInts, op \in {"+", "-", "*"}, i \in 1..Len(args)
    PROVE  /\ IsInt(res) /\ res \in Values /\ res.n \in Int
           /\ IsInt(args[i]) /\ args[i] \in Values /\ args[i].n \in Int
           /\ IsInt(args[1]) /\ args[1].n \in Int
<1>1. Called /\ i # 0 /\ Len(args) \in Nat
    BY LenArgs DEF Typed
<1>2. IsInt(args[i]) /\ args[i] \in Values /\ IsInt(args[1]) /\ args[1] \in Values
    <2>1. 1 \in 1..Len(args)
        BY <1>1
    <2> QED
        BY <1>1, <2>1, AllIntsIs, ArgumentIs
<1>3. IsInt(res) /\ res \in Values
    BY <1>1 DEF ArithmeticInv, IntsExact, Typed, ResultTyped
<1> QED
    BY <1>2, <1>3, IntUnits

LEMMA StepIndex ==
    ASSUME Typed, i \in 1..Len(args)
    PROVE  /\ i \in Nat /\ i # 0 /\ Len(args) \in Nat /\ (i + 1) - 1 = i /\ i - 1 \in 0..Len(args)
           /\ i + 1 # 0 /\ i + 1 <= Len(args) + 1 /\ i \in 0..Len(args) /\ i + 1 # 1
<1>1. Len(args) \in Nat
    BY LenArgs DEF Typed
<1> QED
    BY <1>1

LEMMA AddExact ==
    ASSUME Typed, ArithmeticInv, Proceeds, op = "+", i \in 1..Len(args), IsNumber(args[i]),
           i' = i + 1, res' = AddTwo(res, args[i])
    PROVE  IntsExact'
<1>1. SUFFICES ASSUME AllInts PROVE IsInt(res') /\ \E f : IsSums(f, args) /\ Congruent(res'.n, f[i])
    <2>1. i' - 1 = i /\ args' = args /\ op' = op
        BY StepIndex DEF Proceeds
    <2> QED
        BY <2>1 DEF IntsExact, AllInts
<1>2. /\ IsInt(res) /\ res \in Values /\ res.n \in Int
      /\ IsInt(args[i]) /\ args[i] \in Values /\ args[i].n \in Int
    BY <1>1, TurnExact
<1>3. PICK f : IsSums(f, args) /\ Congruent(res.n, f[i - 1])
    BY <1>1, StepIndex DEF ArithmeticInv, IntsExact
<1>4. f[i - 1] \in Int /\ f[i] = f[i - 1] + args[i].n
    BY <1>3, StepIndex DEF IsSums
<1>5. PICK n \in IntMin..IntMax : n = Wrap(res.n + args[i].n)
    BY <1>2, WrapIs
<1>6. res' = MkInt(n)
    BY <1>2, <1>5 DEF AddTwo
<1>7. IsInt(res') /\ res'.n = n
    BY <1>6, IntIs
<1>8. Congruent(n, f[i])
    BY <1>2, <1>3, <1>4, <1>5, Congruences
<1> QED
    BY <1>3, <1>7, <1>8

LEMMA SubExact ==
    ASSUME Typed, ArithmeticInv, Proceeds, op = "-", i \in 1..Len(args), IsNumber(args[i]),
           i' = i + 1, res' = SubTwo(res, args[i])
    PROVE  IntsExact'
<1>1. SUFFICES ASSUME AllInts
               PROVE  /\ IsInt(res')
                      /\ \E f : IsSums(f, args) /\ Congruent(res'.n, args[1].n - (f[i] - args[1].n))
    <2>1. i' - 1 = i /\ args' = args /\ op' = op
        BY StepIndex DEF Proceeds
    <2> QED
        BY <2>1 DEF IntsExact, AllInts
<1>2. /\ IsInt(res) /\ res \in Values /\ res.n \in Int /\ args[1].n \in Int
      /\ IsInt(args[i]) /\ args[i] \in Values /\ args[i].n \in Int
    BY <1>1, TurnExact
<1>3. PICK f : IsSums(f, args) /\ Congruent(res.n, args[1].n - (f[i - 1] - args[1].n))
    BY <1>1, StepIndex DEF ArithmeticInv, IntsExact
<1>4. f[i - 1] \in Int /\ f[i] = f[i - 1] + args[i].n
    BY <1>3, StepIndex DEF IsSums
<1>5. PICK n \in IntMin..IntMax : n = Wrap(res.n - args[i].n)
    BY <1>2, WrapIs
<1>6. res' = MkInt(n)
    BY <1>2, <1>5 DEF SubTwo
<1>7. IsInt(res') /\ res'.n = n
    BY <1>6, IntIs
<1>8. PICK m \in Int : m = args[1].n - (f[i - 1] - args[1].n)
    BY <1>2, <1>4
<1>9. Congruent(n, m - args[i].n)
    BY <1>2, <1>3, <1>5, <1>8, Congruences
<1>10. m - args[i].n = args[1].n - (f[i] - args[1].n)
    BY <1>2, <1>4, <1>8
<1> QED
    BY <1>3, <1>7, <1>9, <1>10

LEMMA MulExact ==
    ASSUME Typed, ArithmeticInv, Proceeds, op = "*", i \in 1..Len(args), IsNumber(args[i]),
           i' = i + 1, res' = MulTwo(res, args[i])
    PROVE  IntsExact'
<1>1. SUFFICES ASSUME AllInts PROVE IsInt(res') /\ \E f : IsProducts(f, args) /\ Congruent(res'.n, f[i])
    <2>1. i' - 1 = i /\ args' = args /\ op' = op
        BY StepIndex DEF Proceeds
    <2> QED
        BY <2>1 DEF IntsExact, AllInts
<1>2. /\ IsInt(res) /\ res \in Values /\ res.n \in Int
      /\ IsInt(args[i]) /\ args[i] \in Values /\ args[i].n \in Int
    BY <1>1, TurnExact
<1>3. PICK f : IsProducts(f, args) /\ Congruent(res.n, f[i - 1])
    BY <1>1, StepIndex DEF ArithmeticInv, IntsExact
<1>4. f[i - 1] \in Int /\ f[i] = f[i - 1] * args[i].n
    BY <1>3, StepIndex DEF IsProducts
<1>5. PICK p \in Int : p = res.n * args[i].n
    BY <1>2
<1>6. PICK n \in IntMin..IntMax : n = Wrap(p)
    BY WrapIs
<1>7. res' = MkInt(n)
    BY <1>2, <1>5, <1>6 DEF MulTwo
<1>8. IsInt(res') /\ res'.n = n
    BY <1>7, IntIs
<1>9. Congruent(n, f[i])
    <2>1. Congruent(Wrap(res.n * args[i].n), f[i - 1] * args[i].n)
        BY <1>2, <1>3, <1>4, Congruences
    <2> QED
        BY <1>4, <1>5, <1>6, <2>1, Zenon
<1> QED
    BY <1>3, <1>8, <1>9

\* The result after the turns of two arguments.
LEMMA TurnTwo ==
    ASSUME Typed, ArithmeticInv, Proceeds, op \in Arithmetic, i \in 1..Len(args), i' = i + 1,
           res' \in Second(op, res, args[i]),
           op = "/" => /\ IsNumber(args[i]) /\ ~IsZero(args[i])
                       /\ ~(res = MkInt(IntMin) /\ args[i] = MkInt(-1))
    PROVE  TwoArguments'
<1>1. SUFFICES ASSUME Len(args) = 2
               PROVE  /\ i' = 2 => res' = First(op, args[1])
                      /\ i' = 3 => /\ res' \in Second(op, First(op, args[1]), args[2])
                                   /\ op = "/" => /\ IsNumber(args[2]) /\ ~IsZero(args[2])
                                                  /\ ~(args[1] = MkInt(IntMin) /\ args[2] = MkInt(-1))
    <2>1. op' = op /\ args' = args /\ i' # 1
        BY StepIndex DEF Proceeds
    <2> QED
        BY <2>1 DEF TwoArguments
<1>2. op \in {"-", "/"} => i # 1
    BY DEF Typed, ResultTyped
<1>3. i' = 2 => i = 1 /\ op \in {"+", "*"}
    BY <1>2, StepIndex DEF Arithmetic
<1>4. i' = 3 => i = 2
    BY StepIndex
<1>5. CASE i = 1
    <2>1. res = IF op = "+" THEN MkInt(0) ELSE MkInt(1)
        BY <1>1, <1>5 DEF ArithmeticInv, TwoArguments
    <2> QED
        BY <1>2, <1>3, <1>5, <2>1 DEF Second, First, Arithmetic
<1>6. CASE i = 2
    <2>1. res = First(op, args[1])
        BY <1>1, <1>6 DEF ArithmeticInv, TwoArguments
    <2>2. op = "/" => First(op, args[1]) = args[1]
        BY DEF First
    <2> QED
        BY <1>6, <2>1, <2>2
<1> QED
    BY <1>3, <1>4, <1>5, <1>6

LEMMA ArithmeticStays ==
    ASSUME Typed, ArithmeticInv, Proceeds, op \in Arithmetic, ArithmeticStep
    PROVE  ArithmeticInv'
<1>1. Called /\ Len(args) \in Nat /\ (op \in {"-", "/"} => 1 \in 1..Len(args) /\ args[1] \in Values)
      /\ out = Running
    BY LenArgs, ArgumentIs DEF Typed, Proceeds
<1>2. CASE EnterAddOrMul
    <2>1. i' = 1 /\ out' = Running /\ op \in {"+", "*"} /\ res' = MkInt(IF op = "+" THEN 0 ELSE 1)
        BY <1>1, <1>2 DEF EnterAddOrMul, EnterWith, Entering
    <2>2. IntsExact'
        BY <2>1, EntryExact
    <2>3. TwoArguments' /\ IntMinStays' /\ i' <= Len(args) + 1
        BY <1>1, <2>1 DEF TwoArguments, IntMinStays, Proceeds
    <2> QED
        BY <2>1, <2>2, <2>3, GoesOnArithmetic
<1>3. CASE EnterSub
    <2>1. op = "-" /\ 1 \in 1..Len(args)
        BY <1>1, <1>3 DEF EnterSub, Entering
    <2>2. CASE IsNumber(args[1]) /\ Len(args) # 1
        <3>1. i' = 2 /\ out' = Running /\ res' = args[1]
            BY <1>1, <1>3, <2>2 DEF EnterSub, EnterWith
        <3>2. IntsExact'
            <4>1. SUFFICES ASSUME AllInts
                           PROVE  /\ IsInt(args[1])
                                  /\ \E f : /\ IsSums(f, args)
                                            /\ Congruent(args[1].n, args[1].n - (f[1] - args[1].n))
                BY <2>1, <3>1 DEF IntsExact, AllInts, Proceeds
            <4>2. args \in Seq(Values) /\ \A k \in 1..Len(args) : IsInt(args[k])
                BY <1>1, <4>1, AllIntsIs DEF Called
            <4>3. PICK f : IsSums(f, args)
                BY <4>2, SumsOf
            <4>4. PICK n \in Int : n = args[1].n
                BY <1>1, <2>1, <4>2, IntUnits
            <4>5. f[1] = n
                BY <2>1, <4>3, <4>4 DEF IsSums
            <4>6. n = n - (f[1] - n)
                BY <4>5
            <4> QED
                BY <2>1, <4>2, <4>3, <4>4, <4>6, CongruentSelf
        <3>3. TwoArguments' /\ IntMinStays' /\ i' <= Len(args) + 1
            BY <1>1, <2>1, <3>1 DEF TwoArguments, IntMinStays, Proceeds, First
        <3> QED
            BY <2>2, <3>1, <3>2, <3>3, GoesOnArithmetic
    <2>3. CASE ~IsNumber(args[1])
        <3>1. Stop(Expected("number", args[1]))
            BY <1>3, <2>3 DEF EnterSub
        <3> QED
            BY <3>1, OutcomeTyped, StopArithmetic
    <2>4. CASE IsNumber(args[1]) /\ Len(args) = 1
        <3>1. Stop(Value(Negated(args[1])))
            BY <1>3, <2>4 DEF EnterSub
        <3> QED
            BY <2>1, <2>4, <3>1, OutcomeTyped, StopArithmetic
    <2> QED
        BY <2>2, <2>3, <2>4
<1>4. CASE EnterDiv
    <2>1. op = "/" /\ 1 \in 1..Len(args) /\ i' = 2 /\ out' = Running /\ res' = args[1]
        BY <1>1, <1>4 DEF EnterDiv, EnterWith, Entering
    <2>2. IntsExact' /\ TwoArguments'
        BY <2>1 DEF IntsExact, TwoArguments, Proceeds, First
    <2>3. IntMinStays' /\ i' <= Len(args) + 1
        BY <1>1, <2>1 DEF IntMinStays, Proceeds
    <2> QED
        BY <2>1, <2>2, <2>3, GoesOnArithmetic
<1>5. CASE AddTurn
    <2>1. op = "+" /\ i \in 1..Len(args)
        BY <1>5 DEF AddTurn, Looping
    <2>2. CASE IsNumber(args[i])
        <3>1. i' = i + 1 /\ out' = Running /\ res' = AddTwo(res, args[i])
            BY <1>1, <1>5, <2>2 DEF AddTurn, Continue
        <3>2. res' \in Second(op, res, args[i])
            BY <2>1, <3>1 DEF Second
        <3>3. IntsExact' /\ TwoArguments' /\ i' <= Len(args) + 1
            BY <2>1, <2>2, <3>1, <3>2, AddExact, TurnTwo, StepIndex
        <3>4. IntMinStays'
            BY <2>1 DEF IntMinStays, Proceeds
        <3> QED
            BY <2>1, <3>1, <3>3, <3>4, GoesOnArithmetic
    <2>3. CASE ~IsNumber(args[i])
        <3>1. Stop(Expected("number", args[i]))
            BY <1>5, <2>3 DEF AddTurn
        <3> QED
            BY <3>1, OutcomeTyped, StopArithmetic
    <2> QED
        BY <2>2, <2>3
<1>6. CASE SubTurn
    <2>1. op = "-" /\ i \in 1..Len(args)
        BY <1>6 DEF SubTurn, Looping
    <2>2. CASE IsNumber(args[i])
        <3>1. i' = i + 1 /\ out' = Running /\ res' = SubTwo(res, args[i])
            BY <1>1, <1>6, <2>2 DEF SubTurn, Continue
        <3>2. res' \in Second(op, res, args[i])
            BY <2>1, <3>1 DEF Second
        <3>3. IntsExact' /\ TwoArguments' /\ i' <= Len(args) + 1
            BY <2>1, <2>2, <3>1, <3>2, SubExact, TurnTwo, StepIndex
        <3>4. IntMinStays'
            BY <2>1 DEF IntMinStays, Proceeds
        <3>5. Len(args) # 1
            BY <2>1, StepIndex DEF ArithmeticInv, ArithmeticEnds, Arithmetic
        <3> QED
            BY <3>1, <3>3, <3>4, <3>5, GoesOnArithmetic
    <2>3. CASE ~IsNumber(args[i])
        <3>1. Stop(Expected("number", res))
            BY <1>6, <2>3 DEF SubTurn
        <3> QED
            BY <3>1, OutcomeTyped, StopArithmetic
    <2> QED
        BY <2>2, <2>3
<1>7. CASE MulTurn
    <2>1. op = "*" /\ i \in 1..Len(args)
        BY <1>7 DEF MulTurn, Looping
    <2>2. CASE IsNumber(args[i])
        <3>1. i' = i + 1 /\ out' = Running /\ res' = MulTwo(res, args[i])
            BY <1>1, <1>7, <2>2 DEF MulTurn, Continue
        <3>2. res' \in Second(op, res, args[i])
            BY <2>1, <3>1 DEF Second
        <3>3. IntsExact' /\ TwoArguments' /\ i' <= Len(args) + 1
            BY <2>1, <2>2, <3>1, <3>2, MulExact, TurnTwo, StepIndex
        <3>4. IntMinStays'
            BY <2>1 DEF IntMinStays, Proceeds
        <3> QED
            BY <2>1, <3>1, <3>3, <3>4, GoesOnArithmetic
    <2>3. CASE ~IsNumber(args[i])
        <3>1. Stop(Expected("number", res))
            BY <1>7, <2>3 DEF MulTurn
        <3> QED
            BY <3>1, OutcomeTyped, StopArithmetic
    <2> QED
        BY <2>2, <2>3
<1>8. CASE DivTurn
    <2>1. op = "/" /\ i \in 1..Len(args) /\ i # 1 /\ i # 0 /\ args[i] \in Values /\ res \in Values \cup {Wild}
        <3>1. op = "/" /\ i \in 1..Len(args)
            BY <1>8 DEF DivTurn, Looping
        <3>2. args[i] \in Values
            BY <1>1, <3>1, ArgumentIs
        <3> QED
            BY <3>1, <3>2, StepIndex DEF Typed, ResultTyped, TypeOK
    <2>2. CASE IsNumber(args[i]) /\ ~IsZero(args[i]) /\ ~(res = MkInt(IntMin) /\ args[i] = MkInt(-1))
        <3>1. PICK r \in Divided(res, args[i]) : i' = i + 1 /\ out' = Running /\ res' = r
            BY <1>1, <1>8, <2>2 DEF DivTurn, Continue
        <3>2. res' \in Second(op, res, args[i])
            BY <2>1, <3>1 DEF Second
        <3>3. TwoArguments' /\ i' <= Len(args) + 1
            BY <2>1, <2>2, <3>1, <3>2, TurnTwo, StepIndex
        <3>4. IntsExact'
            BY <2>1 DEF IntsExact, Proceeds
        <3>5. r = MkInt(IntMin) => res = MkInt(IntMin) /\ args[i] = MkInt(1)
            BY <2>1, <2>2, <3>1, DividedIs
        <3>6. IntMinStays'
            <4>1. SUFFICES ASSUME r = MkInt(IntMin)
                           PROVE  args[1] = MkInt(IntMin) /\ \A j \in 2..i' - 1 : args[j] = MkInt(1)
                BY <3>1 DEF IntMinStays, Proceeds
            <4>2. args[1] = MkInt(IntMin) /\ \A j \in 2..i - 1 : args[j] = MkInt(1)
                BY <2>1, <3>5, <4>1 DEF ArithmeticInv, IntMinStays
            <4>3. \A j \in 2..i' - 1 : j \in 2..i - 1 \/ j = i
                BY <2>1, <3>1, StepIndex
            <4> QED
                BY <3>5, <4>1, <4>2, <4>3
        <3> QED
            BY <2>1, <3>1, <3>3, <3>4, <3>6, GoesOnArithmetic
    <2>3. CASE Stop(Trap) /\ res = MkInt(IntMin) /\ args[i] = MkInt(-1)
        <3>1. out' = Trap /\ op' = op /\ args' = args /\ i' = i /\ res' = res
            BY <2>3 DEF Stop
        <3>2. args[1] = MkInt(IntMin) /\ \A j \in 2..i - 1 : args[j] = MkInt(1)
            BY <2>1, <2>3 DEF ArithmeticInv, IntMinStays
        <3>3. i \in 2..Len(args)
            BY <1>1, <2>1
        <3>4. TrapExcused'
            BY <2>1, <2>3, <3>1, <3>2, <3>3 DEF TrapExcused
        <3>5. ArithmeticEnds'
            BY <3>1 DEF ArithmeticInv, ArithmeticEnds, Trap
        <3>6. IntsExact' /\ TwoArguments' /\ IntMinStays'
            BY <3>1 DEF IntsExact, TwoArguments, IntMinStays, AllInts, ArithmeticInv
        <3> QED
            BY <3>4, <3>5, <3>6 DEF ArithmeticInv
    <2>4. CASE Stop(Expected("number", res))
        BY <2>4, OutcomeTyped, StopArithmetic
    <2>5. CASE Stop(Exception("0 div"))
        <3>1. PICK o : o = Exception("0 div")
            OBVIOUS
        <3>2. o.k = "error"
            BY <3>1 DEF Exception
        <3>3. Stop(o)
            BY <2>5, <3>1
        <3> QED
            BY <3>2, <3>3, StopArithmetic
    <2> QED
        BY <1>8, <2>2, <2>3, <2>4, <2>5 DEF DivTurn
<1>9. CASE ArithmeticEnd
    <2>1. Stop(Value(res)) /\ i > Len(args)
        BY <1>9 DEF ArithmeticEnd, Finished
    <2>2. i = Len(args) + 1
        <3>1. i <= Len(args) + 1 /\ i \in Nat
            BY <1>1 DEF ArithmeticInv, ArithmeticEnds, Typed, TypeOK
        <3> QED
            BY <1>1, <2>1, <3>1
    <2> QED
        BY <2>1, <2>2, OutcomeTyped, StopArithmetic
<1> QED
    BY <1>2, <1>3, <1>4, <1>5, <1>6, <1>7, <1>8, <1>9 DEF ArithmeticStep

\* At every step of a call of add, sub, mul or _div.
LEMMA ArithmeticInvariant == Spec => []ArithmeticInv
<1>1. ASSUME Init PROVE ArithmeticInv
    <2>1. op = "none" /\ i = 0 /\ out = Running
        BY <1>1 DEF Init
    <2>2. op \notin Arithmetic /\ op # "/" /\ out # Trap
        BY <2>1 DEF Arithmetic, Running, Trap
    <2> QED
        BY <2>1, <2>2 DEF ArithmeticInv, ArithmeticEnds, IntsExact, TwoArguments, IntMinStays, TrapExcused
<1>2. ASSUME Typed, Typed', ArithmeticInv, [Next]_vars PROVE ArithmeticInv'
    <2>1. CASE UNCHANGED vars
        BY <1>2, <2>1 DEF ArithmeticInv, ArithmeticEnds, IntsExact, TwoArguments, IntMinStays,
               TrapExcused, AllInts, vars
    <2>2. CASE Begins
        <3>1. i' = 0 /\ out' = Running /\ out'.k = "running" /\ out' # Trap
            BY <2>2 DEF Begins, Running, Trap
        <3>2. i' <= Len(args') + 1
            <4>1. Called'
                BY <1>2 DEF Typed
            <4>2. Len(args') \in Nat
                BY <4>1 DEF Called
            <4> QED
                BY <3>1, <4>2
        <3> QED
            BY <3>1, <3>2 DEF ArithmeticInv, ArithmeticEnds, IntsExact, TwoArguments, IntMinStays, TrapExcused
    <2>3. CASE Proceeds /\ op \in Arithmetic /\ ArithmeticStep
        BY <1>2, <2>3, ArithmeticStays
    <2>4. CASE /\ Proceeds
               /\ \/ op \in NumberComparisons /\ ComparisonStep
                  \/ op \in StringComparisons /\ StringStep
                  \/ op \in Functions /\ FunctionStep
                  \/ op \in Predicates /\ Predicate
        <3>1. op \notin Arithmetic
            BY <2>4 DEF NumberComparisons, StringComparisons, Functions, Predicates, Arithmetic
        <3> QED
            BY <1>2, <2>4, <3>1, OnlyRandomTraps, OthersArithmetic
    <2>5. TypeOK
        BY <1>2 DEF Typed
    <2> QED
        BY <1>2, <2>1, <2>2, <2>3, <2>4, <2>5, Kinds
<1> QED
    BY <1>1, <1>2, TypedInvariant, PTL DEF Spec

-----------------------------------------------------------------------------
(* What the operations of arithmetic answer.                               *)

LEMMA CongruentRemainder ==
    ASSUME NEW a \in Int, NEW b \in Int, Congruent(a, b)
    PROVE  (a - b) % PowerOf2[IntBits] = 0
<1>1. PICK d \in Nat \ {0} : d = PowerOf2[IntBits]
    BY Format
<1>2. PICK q \in Int : a - b = q * d
    BY <1>1 DEF Congruent
<1>3. PICK e \in Int : e = a - b
    OBVIOUS
<1>4. e = d * q + 0 /\ 0 \in 0..d - 1
    <2>1. q * d = d * q
        BY <1>1
    <2> QED
        BY <1>1, <1>2, <1>3, <2>1
<1>5. \A f \in Int, r \in 0..d - 1 : e = d * f + r => e \div d = f /\ e % d = r
    BY Division, Zenon
<1>6. e % d = 0
    BY <1>4, <1>5, Zenon
<1> QED
    BY <1>1, <1>3, <1>6

LEMMA AnswerIs ==
    ASSUME Typed, ArithmeticInv, Answered, op \in Arithmetic
    PROVE  \/ /\ i = Len(args) + 1 /\ i # 0 /\ out.v = res /\ res \in Values \cup {Wild}
              /\ ~(op = "-" /\ Len(args) = 1)
              /\ op \in {"+", "-", "*"} => res \in Values /\ IsNumber(res)
              /\ op = "/" /\ IsNumber(args[1]) => res \in Values /\ IsNumber(res)
           \/ /\ op = "-" /\ Len(args) = 1 /\ IsNumber(args[1]) /\ out.v = Negated(args[1])
              /\ args[1] \in Values
<1>1. Called /\ Len(args) \in Nat
    BY LenArgs DEF Typed
<1>2. \/ i = Len(args) + 1 /\ out.v = res
      \/ op = "-" /\ Len(args) = 1 /\ IsNumber(args[1]) /\ out.v = Negated(args[1])
    BY DEF ArithmeticInv, ArithmeticEnds, Answered
<1>3. op = "-" /\ Len(args) = 1 => i = 0
    BY DEF ArithmeticInv, ArithmeticEnds
<1>4. Len(args) = 1 => args[1] \in Values
    BY <1>1, ArgumentIs
<1>5. i = Len(args) + 1 => i # 0
    BY <1>1
<1> QED
    BY <1>2, <1>3, <1>4, <1>5 DEF Typed, TypeOK, ResultTyped

LEMMA ExactModulo ==
    ASSUME Typed, ArithmeticInv
    PROVE  IntegersExactModulo
<1>1. SUFFICES ASSUME Answered, AllInts, op \in {"+", "-", "*"},
                      NEW exact, exact = (IF op = "+" THEN ExactSum(args)
                                          ELSE IF op = "*" THEN ExactProduct(args)
                                          ELSE IF Len(args) = 1 THEN -args[1].n
                                          ELSE args[1].n - (ExactSum(args) - args[1].n))
               PROVE  /\ IsInt(out.v) /\ out.v.n \in IntMin..IntMax
                      /\ (out.v.n - exact) % PowerOf2[IntBits] = 0
    BY DEF IntegersExactModulo
<1>2. SUFFICES IsInt(out.v) /\ out.v \in Values /\ exact \in Int /\ Congruent(out.v.n, exact)
    BY <1>1, IntUnits, CongruentRemainder
<1>3. Called /\ Len(args) \in Nat /\ op \in Arithmetic /\ (op = "-" => 1 \in 1..Len(args))
    BY <1>1, LenArgs DEF Typed, Arithmetic
<1>4. op = "-" => args[1].n \in Int
    BY <1>1, <1>3, AllIntsIs, ArgumentIs, IntUnits
<1>5. CASE i = Len(args) + 1 /\ out.v = res /\ ~(op = "-" /\ Len(args) = 1)
    <2>1. i # 0 /\ i - 1 = Len(args) /\ Len(args) \in 0..Len(args)
        BY <1>3, <1>5
    <2>2. res \in Values /\ IsInt(res)
        BY <1>1, <2>1 DEF Typed, ResultTyped, ArithmeticInv, IntsExact
    <2>3. CASE op = "+"
        <3>1. PICK f : IsSums(f, args) /\ Congruent(res.n, f[Len(args)])
            BY <1>1, <2>1, <2>3 DEF ArithmeticInv, IntsExact
        <3>2. f[Len(args)] \in Int /\ exact = f[Len(args)]
            BY <1>1, <2>1, <2>3, <3>1 DEF IsSums
        <3> QED
            BY <1>5, <2>2, <3>1, <3>2
    <2>4. CASE op = "-"
        <3>1. PICK f : IsSums(f, args) /\ Congruent(res.n, args[1].n - (f[Len(args)] - args[1].n))
            BY <1>1, <2>1, <2>4 DEF ArithmeticInv, IntsExact
        <3>2. f[Len(args)] \in Int /\ exact = args[1].n - (f[Len(args)] - args[1].n)
            BY <1>1, <1>5, <2>1, <2>4, <3>1 DEF IsSums
        <3>3. exact \in Int
            BY <1>4, <2>4, <3>2
        <3> QED
            BY <1>5, <2>2, <3>1, <3>2, <3>3
    <2>5. CASE op = "*"
        <3>1. PICK f : IsProducts(f, args) /\ Congruent(res.n, f[Len(args)])
            BY <1>1, <2>1, <2>5 DEF ArithmeticInv, IntsExact
        <3>2. f[Len(args)] \in Int /\ exact = f[Len(args)]
            BY <1>1, <2>1, <2>5, <3>1 DEF IsProducts
        <3> QED
            BY <1>5, <2>2, <3>1, <3>2
    <2> QED
        BY <1>1, <2>3, <2>4, <2>5
<1>6. CASE op = "-" /\ Len(args) = 1 /\ IsNumber(args[1]) /\ out.v = Negated(args[1])
    <2>1. args[1] \in Values /\ IsInt(args[1])
        BY <1>1, <1>3, <1>6, AllIntsIs, ArgumentIs
    <2>2. PICK m \in Int : m = -args[1].n
        BY <1>4, <1>6
    <2>3. out.v = MkInt(Wrap(m)) /\ exact = m
        BY <1>1, <1>6, <2>1, <2>2 DEF Negated
    <2>4. PICK n \in IntMin..IntMax : n = Wrap(m) /\ Congruent(n, m)
        BY WrapIs
    <2> QED
        BY <2>3, <2>4, IntIs
<1> QED
    BY <1>1, <1>3, <1>5, <1>6, AnswerIs

\* Where the number is that of a float, that float is the result.
LEMMA RoundsExactly ==
    ASSUME NEW x, NEW f \in Floats, ~IsNaN(f), NEW den \in Nat \ {0}, RoundsTo(x, Units(f) * den, den)
    PROVE  x \in Floats /\ Units(x) = Units(f) /\ (IsFinite(f) => IsFinite(x))
<1>1. x \in Floats /\ ~IsNaN(x)
    BY DEF RoundsTo
<1>2. PICK u \in Int, w \in Int : u = Units(f) /\ w = Units(x)
    BY <1>1, FloatUnits
<1>3. PICK p \in Int : p = u * den
    OBVIOUS
<1>4. p <= u * den /\ u * den <= p
    BY <1>3
<1>5. w <= u /\ u <= w
    BY <1>2, <1>3, <1>4 DEF RoundsTo
<1>6. w = u
    BY <1>5
<1>7. ASSUME IsFinite(f) PROVE IsFinite(x)
    <2>1. /\ f.i \in 0..LastFinite + 1 /\ f.i \in 0..LastFinite /\ Magnitude[f.i] \in Nat
          /\ u = IF f.neg THEN -Magnitude[f.i] ELSE Magnitude[f.i]
        BY <1>2, <1>7, FloatUnits
    <2>2. /\ x.i \in 0..LastFinite + 1 /\ Magnitude[x.i] \in Nat
          /\ w = IF x.neg THEN -Magnitude[x.i] ELSE Magnitude[x.i]
        BY <1>1, <1>2, FloatUnits
    <2>3. Magnitude[x.i] <= Magnitude[f.i]
        BY <1>6, <2>1, <2>2
    <2>4. x.i <= f.i
        BY <2>1, <2>2, <2>3, MagnitudesIncrease
    <2>5. x.i \in 0..LastFinite
        BY <2>1, <2>2, <2>4, Format
    <2> QED
        BY <1>1, <2>5, FloatUnits
<1> QED
    BY <1>1, <1>2, <1>6, <1>7

\* The number that + and * start from changes no argument.
LEMMA FirstIs ==
    ASSUME NEW o \in Arithmetic, NEW a \in Values, IsFinite(a)
    PROVE  /\ First(o, a) \in Values /\ IsFinite(First(o, a)) /\ IsNumber(First(o, a))
           /\ IsInt(First(o, a)) <=> IsInt(a)
           /\ Units(ToFloat(First(o, a))) = Units(ToFloat(a))
<1>1. IsNumber(a) /\ ~IsNaN(a)
    BY FiniteIsNumber
<1>2. CASE o \notin {"+", "*"}
    BY <1>1, <1>2 DEF First
<1>3. CASE o \in {"+", "*"} /\ IsInt(a)
    <2>1. PICK n \in IntMin..IntMax : a = MkInt(n) /\ n \in Int
        BY <1>3, ValueIs, IntUnits
    <2>2. MkInt(0).n = 0 /\ MkInt(1).n = 1 /\ IsInt(MkInt(0)) /\ IsInt(MkInt(1)) /\ a.n = n /\ IsInt(a)
        BY <2>1, SmallInts, IntIs
    <2>3. 0 + n = n /\ 1 * n = n /\ Wrap(n) = n
        BY <2>1, WrapIs
    <2>4. First(o, a) = a
        BY <1>3, <2>1, <2>2, <2>3 DEF First, AddTwo, MulTwo
    <2> QED
        BY <1>1, <2>4
<1>4. CASE o \in {"+", "*"} /\ ~IsInt(a)
    <2>1. IsFloat(a) /\ a \in Floats /\ ToFloat(a) = a /\ Units(a) \in Int
        BY <1>1, <1>4, ValueIs, Converted DEF IsNumber
    <2>2. PICK u \in Int : u = Units(a)
        BY <2>1
    <2>3. PICK w \in Nat \ {0} : w = UnitsPerOne
        BY Format
    <2>4. ASSUME NEW x, NEW den \in Nat \ {0}, RoundsTo(x, u * den, den), x = First(o, a)
          PROVE  /\ First(o, a) \in Values /\ IsFinite(First(o, a)) /\ IsNumber(First(o, a))
                 /\ IsInt(First(o, a)) <=> IsInt(a)
                 /\ Units(ToFloat(First(o, a))) = Units(ToFloat(a))
        <3>1. x \in Floats /\ Units(x) = u /\ IsFinite(x)
            BY <1>1, <2>1, <2>2, <2>4, RoundsExactly
        <3>2. x \in Values /\ IsNumber(x) /\ ~IsInt(x) /\ IsFloat(x) /\ ToFloat(x) = x
            BY <3>1, FloatIs DEF ToFloat
        <3> QED
            BY <1>4, <2>1, <2>2, <2>4, <3>1, <3>2
    <2>5. CASE o = "+"
        <3>1. MkInt(0) \in Values /\ IsInt(MkInt(0)) /\ MkInt(0).n = 0 /\ IsNumber(MkInt(0))
            BY SmallInts, IntIs
        <3>2. PICK z : z = MkInt(0)
            OBVIOUS
        <3>3. Units(z) = 0
            BY <3>1, <3>2, IntUnits
        <3>4. PICK f \in Floats : ~IsNaN(f) /\ Units(f) = 0
            <4>1. 0 \in 0..LastFinite + 1 /\ FALSE \in BOOLEAN /\ Magnitude[0] = 0
                BY Format, MagnitudeGrows
            <4>2. PICK f : f = MkFloat(FALSE, 0)
                OBVIOUS
            <4>3. f \in Floats /\ ~IsNaN(f) /\ Units(f) = 0
                BY <4>1, <4>2, MkFloatIs
            <4> QED
                BY <4>3
        <3>5. Units(ToFloat(z)) = 0 /\ IsFinite(z)
            <4>1. RoundsTo(ToFloat(z), 0, 1)
                BY <3>1, <3>2, <3>3, Converted
            <4>2. Units(f) * 1 = 0 /\ 1 \in Nat \ {0}
                BY <3>4
            <4>3. Units(ToFloat(z)) = 0
                BY <3>4, <4>1, <4>2, RoundsExactly
            <4>4. ~IsFloat(z)
                BY <3>1, <3>2, ValueIs
            <4> QED
                BY <3>1, <3>2, <4>3, <4>4 DEF IsFinite, IsNaN, IsInf
        <3>6. RoundsTo(AddTwo(z, a), 0 + u, 1)
            BY <1>1, <1>4, <2>1, <2>2, <3>1, <3>2, <3>5, AddTwoIs DEF IsResult
        <3>7. 0 + u = u * 1
            OBVIOUS
        <3>8. First(o, a) = AddTwo(z, a)
            BY <2>5, <3>2 DEF First
        <3> QED
            BY <2>4, <3>6, <3>7, <3>8
    <2>6. CASE o = "*"
        <3>1. MkInt(1) \in Values /\ IsInt(MkInt(1)) /\ MkInt(1).n = 1 /\ IsNumber(MkInt(1))
            BY SmallInts, IntIs
        <3>2. PICK z : z = MkInt(1)
            OBVIOUS
        <3>3. Units(z) = w
            <4>1. 1 * w = w
                OBVIOUS
            <4> QED
                BY <2>3, <3>1, <3>2, <4>1, IntUnits
        <3>4. PICK f \in Floats : ~IsNaN(f) /\ Units(f) = w
            <4>1. PICK j \in 0..LastFinite : Magnitude[j] = w
                BY <2>3, FormatAssumption
            <4>2. j \in 0..LastFinite + 1 /\ FALSE \in BOOLEAN
                BY Format
            <4> QED
                BY <4>1, <4>2, MkFloatIs
        <3>5. Units(ToFloat(z)) = w /\ IsFinite(z)
            <4>1. RoundsTo(ToFloat(z), w, 1)
                BY <3>1, <3>2, <3>3, Converted
            <4>2. Units(f) * 1 = w /\ 1 \in Nat \ {0}
                BY <3>4
            <4>3. Units(ToFloat(z)) = w
                BY <3>4, <4>1, <4>2, RoundsExactly
            <4>4. ~IsFloat(z)
                BY <3>1, <3>2, ValueIs
            <4> QED
                BY <3>1, <3>2, <4>3, <4>4 DEF IsFinite, IsNaN, IsInf
        <3>6. RoundsTo(MulTwo(z, a), w * u, w)
            BY <1>1, <1>4, <2>1, <2>2, <2>3, <3>1, <3>2, <3>5, MulTwoIs DEF IsResult
        <3>7. w * u = u * w
            OBVIOUS
        <3>8. First(o, a) = MulTwo(z, a)
            BY <2>6, <3>2 DEF First
        <3> QED
            BY <2>4, <3>6, <3>7, <3>8
    <2> QED
        BY <1>4, <2>5, <2>6
<1> QED
    BY <1>2, <1>3, <1>4

LEMMA TwoAnswer ==
    ASSUME Typed, ArithmeticInv, Answered, op \in Arithmetic, Len(args) = 2
    PROVE  /\ args[1] \in Values /\ args[2] \in Values /\ out.v = res
           /\ out.v \in Second(op, First(op, args[1]), args[2])
           /\ op = "/" => /\ IsNumber(args[2]) /\ ~IsZero(args[2]) /\ First(op, args[1]) = args[1]
                          /\ ~(args[1] = MkInt(IntMin) /\ args[2] = MkInt(-1))
<1>1. i = 3 /\ out.v = res
    BY AnswerIs
<1>2. Called /\ 1 \in 1..Len(args) /\ 2 \in 1..Len(args)
    BY DEF Typed
<1>3. args[1] \in Values /\ args[2] \in Values
    BY <1>2, ArgumentIs
<1> QED
    BY <1>1, <1>3 DEF ArithmeticInv, TwoArguments, First

\* What NearestResult asks of two operands of which the exact result is
\* num / den units.
Numerator(o, x, y) ==
    CASE o = "+" -> x + y [] o = "-" -> x - y
      [] o = "*" -> x * y [] o = "/" -> x * UnitsPerOne * SignOf(y)
Denominator(o, x, y) == CASE o = "*" -> UnitsPerOne [] o = "/" -> Abs(y) [] OTHER -> 1

LEMMA Nearness ==
    ASSUME Typed, ArithmeticInv
    PROVE  NearestResult
<1>1. SUFFICES ASSUME Answered, op \in Arithmetic, Len(args) = 2, IsFinite(out.v), IsFloat(out.v),
                      IsFinite(args[1]), IsFinite(args[2]),
                      NEW x, x = Units(ToFloat(args[1])), NEW y, y = Units(ToFloat(args[2]))
               PROVE  RoundsTo(out.v, Numerator(op, x, y), Denominator(op, x, y))
    BY DEF NearestResult, RoundsTo, Numerator, Denominator
<1>2. /\ args[1] \in Values /\ args[2] \in Values
      /\ out.v \in Second(op, First(op, args[1]), args[2])
      /\ op = "/" => /\ IsNumber(args[2]) /\ ~IsZero(args[2]) /\ First(op, args[1]) = args[1]
                     /\ ~(args[1] = MkInt(IntMin) /\ args[2] = MkInt(-1))
    BY <1>1, TwoAnswer
<1>3. PICK a : a = First(op, args[1])
    OBVIOUS
<1>4. PICK b : b = args[2]
    OBVIOUS
<1>5. /\ a \in Values /\ IsFinite(a) /\ IsNumber(a) /\ Units(ToFloat(a)) = x
      /\ b \in Values /\ IsFinite(b) /\ IsNumber(b) /\ Units(ToFloat(b)) = y
    BY <1>1, <1>2, <1>3, <1>4, FirstIs, FiniteIsNumber
<1>6. ASSUME NEW exact, NEW num, NEW den, IsResult(out.v, a, b, exact, num, den)
      PROVE  RoundsTo(out.v, num, den)
    <2>1. out.v \in Values
        BY <1>6 DEF IsResult
    <2>2. ~IsInt(out.v)
        BY <1>1, <2>1, ValueIs
    <2> QED
        BY <1>5, <1>6, <2>2 DEF IsResult
<1>7. CASE op = "+"
    <2>1. out.v = AddTwo(a, b)
        BY <1>2, <1>3, <1>4, <1>7 DEF Second
    <2>2. RoundsTo(out.v, x + y, 1)
        BY <1>5, <1>6, <2>1, AddTwoIs
    <2> QED
        BY <1>7, <2>2 DEF Numerator, Denominator
<1>8. CASE op = "-"
    <2>1. out.v = SubTwo(a, b)
        BY <1>2, <1>3, <1>4, <1>8 DEF Second
    <2>2. RoundsTo(out.v, x - y, 1)
        BY <1>5, <1>6, <2>1, SubTwoIs
    <2> QED
        BY <1>8, <2>2 DEF Numerator, Denominator
<1>9. CASE op = "*"
    <2>1. out.v = MulTwo(a, b)
        BY <1>2, <1>3, <1>4, <1>9 DEF Second
    <2>2. RoundsTo(out.v, x * y, UnitsPerOne)
        BY <1>5, <1>6, <2>1, MulTwoIs
    <2> QED
        BY <1>9, <2>2 DEF Numerator, Denominator
<1>10. CASE op = "/"
    <2>1. out.v \in Divided(a, b) /\ ~IsZero(b) /\ ~(a = MkInt(IntMin) /\ b = MkInt(-1))
        BY <1>2, <1>3, <1>4, <1>10 DEF Second
    <2>2. a \in Values \cup {Wild}
        BY <1>5
    <2>3. out.v = FloatQuotient(ToFloat(a), ToFloat(b))
        BY <1>1, <1>5, <2>1, <2>2, DividedIs
    <2>4. ToFloat(a) \in Floats /\ ToFloat(b) \in Floats /\ IsFinite(ToFloat(a)) /\ IsFinite(ToFloat(b))
        BY <1>5, Converted
    <2>5. ToFloat(b).i # 0
        BY <1>1, <2>3, <2>4, QuotientIs
    <2>6. RoundsTo(out.v, x * UnitsPerOne * SignOf(y), Abs(y))
        BY <1>5, <2>3, <2>4, <2>5, QuotientIs
    <2> QED
        BY <1>10, <2>6 DEF Numerator, Denominator
<1> QED
    BY <1>1, <1>7, <1>8, <1>9, <1>10 DEF Arithmetic

LEMMA Quotients ==
    ASSUME Typed, ArithmeticInv
    PROVE  QuotientExact
<1>1. ASSUME Answered, op = "/", Len(args) = 2, AllInts
      PROVE  IF \E q \in IntMin..IntMax : q * args[2].n = args[1].n
             THEN IsInt(out.v) /\ out.v.n * args[2].n = args[1].n
             ELSE IsFloat(out.v)
    <2>1. PICK a \in Values, b \in Values :
              /\ a = args[1] /\ b = args[2] /\ out.v \in Divided(a, b) /\ IsNumber(b) /\ ~IsZero(b)
              /\ ~(a = MkInt(IntMin) /\ b = MkInt(-1))
        BY <1>1, TwoAnswer DEF Second, Arithmetic
    <2>2. IsInt(a) /\ IsInt(b)
        <3>1. Called /\ 1 \in 1..Len(args) /\ 2 \in 1..Len(args)
            BY <1>1 DEF Typed
        <3> QED
            BY <1>1, <2>1, <3>1, AllIntsIs
    <2>3. IsNumber(a) /\ a \in Values \cup {Wild}
        BY <2>2 DEF IsNumber
    <2>4. /\ (\E c \in Int : c * b.n = a.n) => IsInt(out.v) /\ out.v.n * b.n = a.n
          /\ ~(\E c \in Int : c * b.n = a.n) => IsFloat(out.v)
          /\ out.v \in Values
        BY <2>1, <2>2, <2>3, DividedIs
    <2>5. CASE \E c \in Int : c * b.n = a.n
        <3>1. IsInt(out.v) /\ out.v.n * b.n = a.n /\ out.v.n \in IntMin..IntMax
            BY <2>4, <2>5, IntUnits
        <3> QED
            BY <2>1, <3>1
    <2>6. CASE ~(\E c \in Int : c * b.n = a.n)
        <3>1. IsFloat(out.v)
            BY <2>4, <2>6
        <3>2. ~(\E q \in IntMin..IntMax : q * args[2].n = args[1].n)
            <4>1. \A q \in IntMin..IntMax : q \in Int
                OBVIOUS
            <4> QED
                BY <2>1, <2>6, <4>1
        <3> QED
            BY <3>1, <3>2
    <2> QED
        BY <2>5, <2>6
<1>2. TrapExcused
    BY DEF ArithmeticInv
<1> QED
    BY <1>1, <1>2 DEF QuotientExact, TrapExcused

LEMMA GivesNumbers ==
    ASSUME Typed, ArithmeticInv
    PROVE  ArithmeticGivesNumbers
<1>1. SUFFICES ASSUME Answered, op \in Arithmetic, ~(op = "/" /\ ~IsNumber(args[1]))
               PROVE  IsNumber(out.v)
    BY DEF ArithmeticGivesNumbers
<1>2. CASE op = "-" /\ Len(args) = 1 /\ IsNumber(args[1]) /\ out.v = Negated(args[1]) /\ args[1] \in Values
    BY <1>2, NegatedIs
<1> QED
    BY <1>1, <1>2, AnswerIs DEF Arithmetic

(* In every format, whatever the arguments: the result of +, - and * on    *)
(* integers is the exact one modulo 2^IntBits, a float result is a nearest *)
(* one, an integer quotient is exact, and / traps only on IntMin and -1.   *)
THEOREM ArithmeticIsExact == Spec => []ArithmeticExact
<1>1. ASSUME Typed, ArithmeticInv PROVE ArithmeticExact
    BY <1>1, ExactModulo, Nearness, Quotients, GivesNumbers DEF ArithmeticExact, Typed
<1> QED
    BY <1>1, TypedInvariant, ArithmeticInvariant, PTL

-----------------------------------------------------------------------------
(* Comparisons.                                                            *)

\* The arguments before the n-th are numbers and compare.
Walked(o, a, n) ==
    /\ \A k \in 1..n - 1 : IsNumber(a[k])
    /\ \A k \in 2..n - 1 : ~Fails(o, a[k - 1], a[k])

\* The comparison ends at the n-th argument, or behind the last one.
Ends(o, a, n, w) ==
    \/ n = Len(a) + 1 /\ w = Value(MkBool(o # "/="))
    \/ n \in 1..Len(a) /\ ~IsNumber(a[n]) /\ w = Expected("number", a[n])
    \/ n \in 2..Len(a) /\ IsNumber(a[n]) /\ Fails(o, a[n - 1], a[n]) /\ w = Value(MkBool(o = "/="))

IsOutcome(o, a, w) == \E n \in 1..Len(a) + 1 : Walked(o, a, n) /\ Ends(o, a, n, w)

ComparisonInv ==
    op \in NumberComparisons /\ args # <<>> =>
        /\ i # 1 /\ i <= Len(args) + 1
        /\ i # 0 => Walked(op, args, i) /\ res = args[i - 1]
        /\ out.k # "running" /\ ~(op = "/=" /\ Len(args) = 1) => IsOutcome(op, args, out)

StringsWalked(o, a, n) ==
    /\ \A k \in 1..n - 1 : IsString(a[k])
    /\ \A k \in 2..n - 1 : ~StringFails(o, a[k - 1].s, a[k].s)

StringsEnd(o, a, n, w) ==
    \/ n = Len(a) + 1 /\ w = Value(T)
    \/ n \in 2..Len(a) /\ IsString(a[n]) /\ StringFails(o, a[n - 1].s, a[n].s) /\ w = Value(Nil)

IsStringOutcome(o, a, w) == \E n \in 1..Len(a) + 1 : StringsWalked(o, a, n) /\ StringsEnd(o, a, n, w)

StringInv ==
    op \in StringComparisons =>
        /\ i # 1 /\ i <= Len(args) + 1
        /\ i # 0 => StringsWalked(op, args, i) /\ res = args[i - 1]
        /\ out.k = "value" => IsStringOutcome(op, args, out)

\* What is kept of the call before is how it ended on the same arguments.
BeforeInv ==
    before # NoCall =>
        /\ before.op \in {"<=", ">=", "/=", "STRING<=", "STRING>=", "STRING/="}
        /\ op = Companion(before.op) /\ before.out.k \in {"value", "error"}
        /\ before.op \in NumberComparisons /\ Len(args) >= 2 => IsOutcome(before.op, args, before.out)
        /\ before.op \in StringComparisons /\ before.out.k = "value" =>
               IsStringOutcome(before.op, args, before.out)

PredicateInv ==
    op = "ZEROP" /\ out.k = "value" => out = Value(MkBool(Holds("ZEROP", args[1])))

OrderInv == ComparisonInv /\ StringInv /\ BeforeInv /\ PredicateInv

LEMMA BeforeStays ==
    ASSUME Proceeds, BeforeInv
    PROVE  BeforeInv'
BY DEF Proceeds, BeforeInv

LEMMA ComparisonStays ==
    ASSUME Typed, ComparisonInv, Proceeds, op \in NumberComparisons, ComparisonStep
    PROVE  ComparisonInv'
<1>1. Called /\ Len(args) \in Nat /\ i \in Nat
    BY LenArgs DEF Typed, TypeOK
<1>2. SUFFICES ASSUME args # <<>>
               PROVE  /\ i' # 1 /\ i' <= Len(args) + 1
                      /\ i' # 0 => Walked(op, args, i') /\ res' = args[i' - 1]
                      /\ out'.k # "running" /\ ~(op = "/=" /\ Len(args) = 1) =>
                             IsOutcome(op, args, out')
    BY DEF ComparisonInv, Proceeds
<1>3. /\ i # 1 /\ i <= Len(args) + 1 /\ 1 <= Len(args)
      /\ i # 0 => Walked(op, args, i) /\ res = args[i - 1]
    <2>1. 1 <= Len(args)
        BY <1>1, <1>2 DEF Called
    <2> QED
        BY <1>2, <2>1 DEF ComparisonInv
<1>4. Running.k = "running"
    BY DEF Running
<1>5. CASE EnterCompare
    <2>1. \/ Stop(Expected("number", args[1])) /\ ~IsNumber(args[1])
          \/ Stop(Value(T)) /\ op = "/=" /\ Len(args) = 1 /\ i = 0
          \/ EnterWith(args[1], 2) /\ IsNumber(args[1])
        BY <1>2, <1>5 DEF EnterCompare, Entering
    <2>2. i = 0
        BY <1>5 DEF EnterCompare, Entering
    <2>3. CASE Stop(Expected("number", args[1])) /\ ~IsNumber(args[1])
        <3>1. Walked(op, args, 1)
            BY DEF Walked
        <3>2. Ends(op, args, 1, out') /\ 1 \in 1..Len(args) + 1
            BY <1>1, <1>3, <2>3 DEF Ends, Stop
        <3> QED
            BY <1>1, <2>2, <2>3, <3>1, <3>2 DEF IsOutcome, Stop
    <2>4. CASE Stop(Value(T)) /\ op = "/=" /\ Len(args) = 1
        BY <1>1, <2>2, <2>4 DEF Stop
    <2>5. CASE EnterWith(args[1], 2) /\ IsNumber(args[1])
        <3>1. i' = 2 /\ res' = args[1] /\ out' = Running
            BY <2>5 DEF EnterWith, Proceeds
        <3>2. Walked(op, args, 2)
            <4>1. \A k \in 1..2 - 1 : k = 1
                OBVIOUS
            <4> QED
                BY <2>5, <4>1 DEF Walked
        <3> QED
            BY <1>1, <1>3, <1>4, <3>1, <3>2, OutcomeTyped
    <2> QED
        BY <2>1, <2>3, <2>4, <2>5
<1>6. CASE CompareTurn
    <2>1. i \in 1..Len(args) /\ i \in 2..Len(args) /\ i \in 1..Len(args) + 1
        BY <1>1, <1>3, <1>6 DEF CompareTurn, Looping
    <2>2. Walked(op, args, i) /\ res = args[i - 1]
        BY <1>3, <2>1
    <2>3. \/ Stop(Expected("number", args[i])) /\ ~IsNumber(args[i])
          \/ Stop(Value(MkBool(op = "/="))) /\ IsNumber(args[i]) /\ Fails(op, args[i - 1], args[i])
          \/ Continue(args[i]) /\ IsNumber(args[i]) /\ ~Fails(op, args[i - 1], args[i])
        BY <1>6, <2>2 DEF CompareTurn
    <2>4. CASE Continue(args[i]) /\ IsNumber(args[i]) /\ ~Fails(op, args[i - 1], args[i])
        <3>1. i' = i + 1 /\ res' = args[i] /\ out' = Running /\ i' - 1 = i
            BY <1>1, <2>4 DEF Continue, Proceeds
        <3>2. Walked(op, args, i + 1)
            <4>1. /\ \A k \in 1..(i + 1) - 1 : k \in 1..i - 1 \/ k = i
                  /\ \A k \in 2..(i + 1) - 1 : k \in 2..i - 1 \/ k = i
                BY <2>1
            <4> QED
                BY <2>2, <2>4, <4>1 DEF Walked
        <3> QED
            BY <1>4, <2>1, <3>1, <3>2, OutcomeTyped
    <2>5. CASE ~(Continue(args[i]) /\ IsNumber(args[i]) /\ ~Fails(op, args[i - 1], args[i]))
        <3>1. Ends(op, args, i, out') /\ i' = i /\ res' = res
            BY <2>1, <2>3, <2>5 DEF Ends, Stop
        <3> QED
            BY <1>3, <2>1, <2>2, <3>1 DEF IsOutcome
    <2> QED
        BY <2>4, <2>5
<1>7. CASE CompareEnd
    <2>1. i = Len(args) + 1 /\ i # 0 /\ i \in 1..Len(args) + 1
        BY <1>1, <1>3, <1>7 DEF CompareEnd, Finished
    <2>2. i' = i /\ res' = res /\ Ends(op, args, i, out')
        BY <1>7, <2>1 DEF CompareEnd, Stop, Ends
    <2> QED
        BY <1>3, <2>1, <2>2 DEF IsOutcome
<1> QED
    BY <1>5, <1>6, <1>7 DEF ComparisonStep

LEMMA StringsStay ==
    ASSUME Typed, StringInv, Proceeds, op \in StringComparisons, StringStep
    PROVE  StringInv'
<1>1. Called /\ Len(args) \in Nat /\ i \in Nat /\ 1 <= Len(args)
    <2>1. MinArgs(op) = 1 /\ op # "none"
        BY DEF StringComparisons, MinArgs
    <2> QED
        BY <2>1, LenArgs DEF Typed, TypeOK, Called
<1>2. SUFFICES /\ i' # 1 /\ i' <= Len(args) + 1
               /\ i' # 0 => StringsWalked(op, args, i') /\ res' = args[i' - 1]
               /\ out'.k = "value" => IsStringOutcome(op, args, out')
    BY DEF StringInv, Proceeds
<1>3. /\ i # 1 /\ i <= Len(args) + 1
      /\ i # 0 => StringsWalked(op, args, i) /\ res = args[i - 1]
    BY DEF StringInv
<1>4. CASE EnterString
    <2>1. i = 0 /\ \/ Stop(Expected("string", args[1]))
                   \/ EnterWith(args[1], 2) /\ IsString(args[1])
        BY <1>4 DEF EnterString, Entering
    <2>2. CASE Stop(Expected("string", args[1]))
        <3>1. out' = Expected("string", args[1]) /\ i' = i
            BY <2>2 DEF Stop
        <3>2. out'.k # "value"
            BY <3>1 DEF Expected
        <3> QED
            BY <1>1, <2>1, <3>1, <3>2
    <2>3. CASE EnterWith(args[1], 2) /\ IsString(args[1])
        <3>1. i' = 2 /\ res' = args[1] /\ out' = Running
            BY <2>3 DEF EnterWith, Proceeds
        <3>2. StringsWalked(op, args, 2)
            <4>1. \A k \in 1..2 - 1 : k = 1
                OBVIOUS
            <4> QED
                BY <2>3, <4>1 DEF StringsWalked
        <3>3. out'.k # "value"
            BY <3>1 DEF Running
        <3> QED
            BY <1>1, <3>1, <3>2, <3>3
    <2> QED
        BY <2>1, <2>2, <2>3
<1>5. CASE StringTurn
    <2>0. Looping(StringComparisons)
        BY <1>5 DEF StringTurn
    <2>1. i \in 1..Len(args) /\ i \in 2..Len(args) /\ i \in 1..Len(args) + 1
        <3>1. i \in 1..Len(args)
            BY <2>0 DEF Looping
        <3> QED
            BY <1>1, <1>3, <3>1
    <2>2. StringsWalked(op, args, i) /\ res = args[i - 1]
        BY <1>3, <2>1
    <2>3. PICK o, e : o = Exception("type error!!") /\ e = Expected("string", args[i])
        OBVIOUS
    <2>4. o.k # "value" /\ e.k # "value"
        BY <2>3 DEF Exception, Expected
    <2>5. \/ Stop(o) \/ Stop(e)
          \/ Stop(Value(Nil)) /\ IsString(args[i]) /\ StringFails(op, args[i - 1].s, args[i].s)
          \/ Continue(args[i]) /\ IsString(args[i]) /\ ~StringFails(op, args[i - 1].s, args[i].s)
        BY <1>5, <2>2, <2>3 DEF StringTurn
    <2>6. CASE Stop(o) \/ Stop(e)
        BY <1>3, <2>4, <2>6 DEF Stop
    <2>7. CASE Stop(Value(Nil)) /\ IsString(args[i]) /\ StringFails(op, args[i - 1].s, args[i].s)
        <3>1. StringsEnd(op, args, i, out') /\ i' = i /\ res' = res
            BY <2>1, <2>7 DEF StringsEnd, Stop
        <3> QED
            BY <1>3, <2>1, <2>2, <3>1 DEF IsStringOutcome
    <2>8. CASE Continue(args[i]) /\ IsString(args[i]) /\ ~StringFails(op, args[i - 1].s, args[i].s)
        <3>1. i' = i + 1 /\ res' = args[i] /\ out' = Running /\ i' - 1 = i
            BY <1>1, <2>8 DEF Continue, Proceeds
        <3>2. StringsWalked(op, args, i + 1)
            <4>1. /\ \A k \in 1..(i + 1) - 1 : k \in 1..i - 1 \/ k = i
                  /\ \A k \in 2..(i + 1) - 1 : k \in 2..i - 1 \/ k = i
                BY <2>1
            <4> QED
                BY <2>2, <2>8, <4>1 DEF StringsWalked
        <3>3. out'.k # "value"
            BY <3>1 DEF Running
        <3> QED
            BY <2>1, <3>1, <3>2, <3>3
    <2> QED
        BY <2>5, <2>6, <2>7, <2>8
<1>6. CASE StringEnd
    <2>1. i = Len(args) + 1 /\ i # 0 /\ i \in 1..Len(args) + 1
        BY <1>1, <1>3, <1>6 DEF StringEnd, Finished
    <2>2. i' = i /\ res' = res /\ StringsEnd(op, args, i, out')
        BY <1>6, <2>1 DEF StringEnd, Stop, StringsEnd
    <2> QED
        BY <1>3, <2>1, <2>2 DEF IsStringOutcome
<1> QED
    BY <1>4, <1>5, <1>6 DEF StringStep

\* At every step of a comparison.
LEMMA OrderInvariant == Spec => []OrderInv
<1>1. ASSUME Init PROVE OrderInv
    <2>1. op = "none" /\ before = NoCall
        BY <1>1 DEF Init
    <2> QED
        BY <2>1 DEF OrderInv, ComparisonInv, StringInv, BeforeInv, PredicateInv,
               NumberComparisons, StringComparisons
<1>2. ASSUME Typed, Typed', OrderInv, [Next]_vars PROVE OrderInv'
    <2>1. CASE UNCHANGED vars
        BY <1>2, <2>1 DEF OrderInv, ComparisonInv, StringInv, BeforeInv, PredicateInv, vars
    <2>2. CASE Begins /\ ((\E o \in Operations : Call(o)) \/ Repeat \/ Return)
        <3>1. i' = 0 /\ out'.k = "running"
            BY <2>2 DEF Begins, Running
        <3>2. Len(args') \in Nat
            <4>1. Called'
                BY <1>2 DEF Typed
            <4> QED
                BY <4>1 DEF Called
        <3>3. ComparisonInv' /\ StringInv' /\ PredicateInv'
            BY <3>1, <3>2 DEF ComparisonInv, StringInv, PredicateInv
        <3>4. BeforeInv'
            <4>1. CASE before' = NoCall
                BY <4>1 DEF BeforeInv
            <4>2. CASE before' # NoCall
                <5>1. Repeat
                    BY <2>2, <4>2 DEF Call, Return
                <5>2. /\ before'.op = op /\ before'.out = out /\ args' = args /\ op' = Companion(op)
                      /\ Companion(op) # "none" /\ out.k \in {"value", "error"}
                    BY <5>1 DEF Repeat
                <5>3. op \in {"<=", ">=", "/=", "STRING<=", "STRING>=", "STRING/="}
                    BY <5>2 DEF Companion
                <5>4. Len(args) >= 2 => args # <<>> /\ Len(args) # 1
                    BY LenArgs, <1>2 DEF Typed
                <5>5. op \in NumberComparisons /\ Len(args) >= 2 => IsOutcome(op, args, out)
                    BY <1>2, <5>2, <5>4 DEF OrderInv, ComparisonInv
                <5>6. op \in StringComparisons /\ out.k = "value" => IsStringOutcome(op, args, out)
                    BY <1>2 DEF OrderInv, StringInv
                <5> QED
                    BY <5>2, <5>3, <5>5, <5>6 DEF BeforeInv
            <4> QED
                BY <4>1, <4>2
        <3> QED
            BY <3>3, <3>4 DEF OrderInv
    <2>3. CASE Proceeds /\ (\/ op \in Arithmetic /\ ArithmeticStep
                            \/ op \in Functions /\ FunctionStep)
        <3>1. op' = op /\ op \notin NumberComparisons /\ op \notin StringComparisons /\ op # "ZEROP"
            BY <2>3 DEF NumberComparisons, StringComparisons, Functions, Arithmetic, Proceeds
        <3>2. BeforeInv'
            BY <1>2, <2>3, BeforeStays DEF OrderInv
        <3> QED
            BY <3>1, <3>2 DEF OrderInv, ComparisonInv, StringInv, PredicateInv
    <2>4. CASE Proceeds /\ op \in NumberComparisons /\ ComparisonStep
        <3>1. op' = op /\ op \notin StringComparisons /\ op # "ZEROP"
            BY <2>4 DEF NumberComparisons, StringComparisons, Proceeds
        <3>2. BeforeInv' /\ ComparisonInv'
            BY <1>2, <2>4, BeforeStays, ComparisonStays DEF OrderInv
        <3> QED
            BY <3>1, <3>2 DEF OrderInv, StringInv, PredicateInv
    <2>5. CASE Proceeds /\ op \in StringComparisons /\ StringStep
        <3>1. op' = op /\ op \notin NumberComparisons /\ op # "ZEROP"
            BY <2>5 DEF NumberComparisons, StringComparisons, Proceeds
        <3>2. BeforeInv' /\ StringInv'
            BY <1>2, <2>5, BeforeStays, StringsStay DEF OrderInv
        <3> QED
            BY <3>1, <3>2 DEF OrderInv, ComparisonInv, PredicateInv
    <2>6. CASE Proceeds /\ op \in Predicates /\ Predicate
        <3>1. op' = op /\ op \notin NumberComparisons /\ op \notin StringComparisons
            BY <2>6 DEF NumberComparisons, StringComparisons, Predicates, Proceeds
        <3>2. BeforeInv'
            BY <1>2, <2>6, BeforeStays DEF OrderInv
        <3>3. out' = Value(MkBool(Holds(op, args[1]))) /\ args' = args
            BY <2>6 DEF Predicate, Stop
        <3> QED
            BY <3>1, <3>2, <3>3 DEF OrderInv, ComparisonInv, StringInv, PredicateInv
    <2>7. TypeOK
        BY <1>2 DEF Typed
    <2> QED
        BY <1>2, <2>1, <2>2, <2>3, <2>4, <2>5, <2>6, <2>7, Kinds
<1> QED
    BY <1>1, <1>2, TypedInvariant, PTL DEF Spec

-----------------------------------------------------------------------------
(* What the comparisons answer.                                            *)

\* How a comparison may have ended.
Passes(o, a) == Walked(o, a, Len(a) + 1)
Breaks(o, a) == \E n \in 2..Len(a) : Walked(o, a, n) /\ IsNumber(a[n]) /\ Fails(o, a[n - 1], a[n])
Mistyped(o, a) == \E n \in 1..Len(a) : Walked(o, a, n) /\ ~IsNumber(a[n])

LEMMA Answers ==
    /\ MkBool(TRUE) = T /\ MkBool(FALSE) = Nil /\ T # Nil
    /\ Value(T).k = "value" /\ Value(Nil).k = "value" /\ Value(T).v = T /\ Value(Nil).v = Nil
    /\ Value(T) # Value(Nil)
<1>1. MkBool(TRUE) = T /\ MkBool(FALSE) = Nil /\ T # Nil
    BY DEF MkBool, T, Nil
<1>2. PICK t, n : t = T /\ n = Nil
    OBVIOUS
<1>3. Value(t).k = "value" /\ Value(n).k = "value" /\ Value(t).v = t /\ Value(n).v = n
    BY DEF Value
<1> QED
    BY <1>1, <1>2, <1>3

LEMMA Endings ==
    ASSUME NEW o, NEW a, NEW w, IsOutcome(o, a, w)
    PROVE  /\ w.k \in {"value", "error"}
           /\ w.k = "error" => Mistyped(o, a)
           /\ w.k = "value" => w = Value(T) \/ w = Value(Nil)
           /\ w = Value(T) => IF o = "/=" THEN Breaks(o, a) ELSE Passes(o, a)
           /\ w = Value(Nil) => IF o = "/=" THEN Passes(o, a) ELSE Breaks(o, a)
<1>1. PICK n \in 1..Len(a) + 1 : Walked(o, a, n) /\ Ends(o, a, n, w)
    BY DEF IsOutcome
<1>2. PICK e : e = Expected("number", a[n])
    OBVIOUS
<1>3. e.k = "error"
    BY <1>2 DEF Expected
<1>4. MkBool(o = "/=") = (IF o = "/=" THEN T ELSE Nil) /\ MkBool(o # "/=") = IF o = "/=" THEN Nil ELSE T
    BY DEF MkBool
<1>5. CASE n \in 1..Len(a) /\ ~IsNumber(a[n]) /\ w = e
    <2>1. Mistyped(o, a)
        BY <1>1, <1>5 DEF Mistyped
    <2>2. w # Value(T) /\ w # Value(Nil)
        BY <1>3, <1>5, Answers
    <2> QED
        BY <1>3, <1>5, <2>1, <2>2
<1>6. CASE n = Len(a) + 1 /\ w = Value(MkBool(o # "/="))
    <2>1. Passes(o, a)
        BY <1>1, <1>6 DEF Passes
    <2>2. w = IF o = "/=" THEN Value(Nil) ELSE Value(T)
        BY <1>4, <1>6
    <2> QED
        BY <2>1, <2>2, Answers
<1>7. CASE n \in 2..Len(a) /\ IsNumber(a[n]) /\ Fails(o, a[n - 1], a[n]) /\ w = Value(MkBool(o = "/="))
    <2>1. Breaks(o, a)
        BY <1>1, <1>7 DEF Breaks
    <2>2. w = IF o = "/=" THEN Value(T) ELSE Value(Nil)
        BY <1>4, <1>7
    <2> QED
        BY <2>1, <2>2, Answers
<1> QED
    BY <1>1, <1>2, <1>5, <1>6, <1>7 DEF Ends

\* A comparison of given arguments ends in one way.
LEMMA OneEnding ==
    ASSUME NEW o, NEW a, Len(a) \in Nat
    PROVE  ~(Passes(o, a) /\ Breaks(o, a)) /\ ~(Passes(o, a) /\ Mistyped(o, a))
           /\ ~(Breaks(o, a) /\ Mistyped(o, a))
<1>1. ~(Passes(o, a) /\ Breaks(o, a))
    <2>1. SUFFICES ASSUME Passes(o, a), NEW n \in 2..Len(a), Fails(o, a[n - 1], a[n]) PROVE FALSE
        BY DEF Breaks
    <2>2. n \in 2..(Len(a) + 1) - 1
        OBVIOUS
    <2> QED
        BY <2>1, <2>2 DEF Passes, Walked
<1>2. ~(Passes(o, a) /\ Mistyped(o, a))
    <2>1. SUFFICES ASSUME Passes(o, a), NEW n \in 1..Len(a), ~IsNumber(a[n]) PROVE FALSE
        BY DEF Mistyped
    <2>2. n \in 1..(Len(a) + 1) - 1
        OBVIOUS
    <2> QED
        BY <2>1, <2>2 DEF Passes, Walked
<1>3. ~(Breaks(o, a) /\ Mistyped(o, a))
    <2>1. SUFFICES ASSUME NEW n \in 2..Len(a), Walked(o, a, n), IsNumber(a[n]), Fails(o, a[n - 1], a[n]),
                          NEW m \in 1..Len(a), Walked(o, a, m), ~IsNumber(a[m])
                   PROVE  FALSE
        BY DEF Breaks, Mistyped
    <2>2. n # m
        BY <2>1
    <2>3. CASE m < n
        <3>1. m \in 1..n - 1
            BY <2>3
        <3> QED
            BY <2>1, <3>1 DEF Walked
    <2>4. CASE n < m
        <3>1. n \in 2..m - 1
            BY <2>4
        <3> QED
            BY <2>1, <3>1 DEF Walked
    <2> QED
        BY <2>2, <2>3, <2>4
<1> QED
    BY <1>1, <1>2, <1>3

\* neq walks as opeq does.
LEMMA SameWalk ==
    ASSUME NEW a
    PROVE  (Passes("/=", a) <=> Passes("=", a)) /\ (Breaks("/=", a) <=> Breaks("=", a))
           /\ (Mistyped("/=", a) <=> Mistyped("=", a))
<1>1. \A x, y : Fails("/=", x, y) <=> Fails("=", x, y)
    BY DEF Fails
<1>2. \A n : Walked("/=", a, n) <=> Walked("=", a, n)
    BY <1>1 DEF Walked
<1> QED
    BY <1>1, <1>2 DEF Passes, Breaks, Mistyped

\* A number larger than its neighbour is larger than the ones before, too.
LEMMA Chain ==
    ASSUME NEW n \in Nat, NEW f \in [1..n -> Int], \A k \in 2..n : f[k - 1] < f[k]
    PROVE  \A j, k \in 1..n : j < k => f[j] < f[k]
<1> DEFINE Good == {k \in Nat : k <= n => \A j \in 1..k - 1 : f[j] < f[k]}
<1>1. 0 \in Good
    OBVIOUS
<1>2. ASSUME NEW k \in Nat, k \in Good PROVE k + 1 \in Good
    <2>1. SUFFICES ASSUME k + 1 <= n, NEW j \in 1..(k + 1) - 1 PROVE f[j] < f[k + 1]
        OBVIOUS
    <2>2. k + 1 \in 2..n /\ k \in 1..n /\ k + 1 \in 1..n /\ j \in 1..n /\ (k + 1) - 1 = k
        BY <2>1
    <2>3. f[k] < f[k + 1] /\ f[k] \in Int /\ f[k + 1] \in Int /\ f[j] \in Int
        <3>1. f[(k + 1) - 1] < f[k + 1]
            BY <2>2
        <3> QED
            BY <2>2, <3>1
    <2>4. j = k \/ f[j] < f[k]
        <3>1. j = k \/ j \in 1..k - 1
            BY <2>1
        <3> QED
            BY <1>2, <2>2, <3>1
    <2> QED
        BY <2>3, <2>4
<1>3. Nat \subseteq Good
    <2> HIDE DEF Good
    <2> QED
        BY <1>1, <1>2, Induction
<1>4. SUFFICES ASSUME NEW j \in 1..n, NEW k \in 1..n, j < k PROVE f[j] < f[k]
    OBVIOUS
<1>5. k \in Good /\ j \in 1..k - 1 /\ k <= n
    BY <1>3, <1>4
<1> QED
    BY <1>5

\* What a table's operator says of two numbers.
LEMMA FailsIs ==
    ASSUME NEW a \in Values, NEW b \in Values, IsNumber(a), IsNumber(b), ~IsNaN(a), ~IsNaN(b)
    PROVE  /\ ~Fails("<", a, b) => Units(a) < Units(b)
           /\ ~Fails(">", a, b) => Units(a) > Units(b)
           /\ Fails("<=", a, b) => Units(a) > Units(b)
           /\ Fails(">=", a, b) => Units(a) < Units(b)
           /\ ~(~Fails("<=", a, b) /\ ~Fails(">", a, b)) /\ ~(~Fails(">=", a, b) /\ ~Fails("<", a, b))
<1>1. ~Unordered(a, b)
    BY DEF Unordered
<1>2. /\ Fails("<", a, b) <=> Left(a, b) >= Right(a, b)
      /\ Fails(">", a, b) <=> Left(a, b) <= Right(a, b)
      /\ Fails("<=", a, b) <=> Left(a, b) > Right(a, b)
      /\ Fails(">=", a, b) <=> Left(a, b) < Right(a, b)
    BY <1>1 DEF Fails, LtFails, GtFails, LteFails, GteFails
<1> QED
    BY <1>2, OrderKept

\* The answer to a comparison.
LEMMA OutcomeIs ==
    ASSUME Typed, OrderInv, Answered, op \in NumberComparisons, args # <<>>,
           ~(op = "/=" /\ Len(args) = 1)
    PROVE  IsOutcome(op, args, out) /\ (out = Value(T) \/ out = Value(Nil))
           /\ (out.v = T <=> out = Value(T)) /\ (out.v = Nil <=> out = Value(Nil))
<1>1. IsOutcome(op, args, out)
    BY DEF OrderInv, ComparisonInv, Answered
<1>2. out = Value(T) \/ out = Value(Nil)
    BY <1>1, Endings DEF Answered
<1> QED
    BY <1>1, <1>2, Answers

LEMMA NeverInvented ==
    ASSUME Typed, OrderInv
    PROVE  OrderNeverInvented
<1>1. SUFFICES ASSUME Answered, NoNaN, args # <<>>, op \in {"<", ">", "<=", ">="},
                      NEW x, x = [k \in DOMAIN args |-> Units(args[k])]
               PROVE  /\ op = "<" /\ out.v = T =>
                            \A j, k \in DOMAIN args : j < k => x[j] < x[k]
                      /\ op = ">" /\ out.v = T =>
                            \A j, k \in DOMAIN args : j < k => x[j] > x[k]
                      /\ op = "<=" /\ out.v = Nil =>
                            \E k \in 1..Len(args) - 1 : x[k] > x[k + 1]
                      /\ op = ">=" /\ out.v = Nil =>
                            \E k \in 1..Len(args) - 1 : x[k] < x[k + 1]
    BY DEF OrderNeverInvented
<1>2. Called /\ Len(args) \in Nat /\ DOMAIN args = 1..Len(args)
    BY LenArgs DEF Typed
<1>3. \A k \in 1..Len(args) : args[k] \in Values /\ IsNumber(args[k]) /\ ~IsNaN(args[k])
    BY <1>1, <1>2, ArgumentIs DEF NoNaN
<1>4. x \in [1..Len(args) -> Int]
    BY <1>1, <1>2, <1>3, Converted
<1>5. /\ IsOutcome(op, args, out)
      /\ (out.v = T <=> out = Value(T)) /\ (out.v = Nil <=> out = Value(Nil))
    BY <1>1, OutcomeIs DEF NumberComparisons
<1>6. (out.v = T => Passes(op, args)) /\ (out.v = Nil => Breaks(op, args))
    BY <1>1, <1>5, Endings
<1>7. ASSUME NEW k \in 2..Len(args)
      PROVE  /\ k - 1 \in 1..Len(args) /\ k \in 1..Len(args)
             /\ op = "<" /\ ~Fails(op, args[k - 1], args[k]) => x[k - 1] < x[k]
             /\ op = ">" /\ ~Fails(op, args[k - 1], args[k]) => x[k - 1] > x[k]
             /\ op = "<=" /\ Fails(op, args[k - 1], args[k]) => x[k - 1] > x[k]
             /\ op = ">=" /\ Fails(op, args[k - 1], args[k]) => x[k - 1] < x[k]
    <2>1. k - 1 \in 1..Len(args) /\ k \in 1..Len(args)
        OBVIOUS
    <2>2. x[k - 1] = Units(args[k - 1]) /\ x[k] = Units(args[k])
        BY <1>1, <1>2, <2>1
    <2> QED
        BY <1>3, <2>1, <2>2, FailsIs
<1>8. Passes(op, args) => \A k \in 2..Len(args) : ~Fails(op, args[k - 1], args[k])
    <2>1. \A k \in 2..Len(args) : k \in 2..(Len(args) + 1) - 1
        BY <1>2
    <2> QED
        BY <2>1 DEF Passes, Walked
<1>9. ASSUME op = "<", out.v = T
      PROVE  \A j, k \in DOMAIN args : j < k => x[j] < x[k]
    <2>1. \A k \in 2..Len(args) : x[k - 1] < x[k]
        BY <1>6, <1>7, <1>8, <1>9
    <2> QED
        BY <1>2, <1>4, <2>1, Chain
<1>10. ASSUME op = ">", out.v = T
       PROVE  \A j, k \in DOMAIN args : j < k => x[j] > x[k]
    <2>1. PICK y : y = [k \in 1..Len(args) |-> -x[k]]
        OBVIOUS
    <2>2. y \in [1..Len(args) -> Int] /\ \A k \in 1..Len(args) : y[k] = -x[k] /\ x[k] \in Int
        BY <1>4, <2>1
    <2>3. \A k \in 2..Len(args) : y[k - 1] < y[k]
        <3>1. TAKE k \in 2..Len(args)
        <3>2. x[k - 1] > x[k] /\ k - 1 \in 1..Len(args) /\ k \in 1..Len(args)
            BY <1>6, <1>7, <1>8, <1>10
        <3> QED
            BY <2>2, <3>2
    <2>4. \A j, k \in 1..Len(args) : j < k => y[j] < y[k]
        BY <1>2, <2>2, <2>3, Chain
    <2> QED
        BY <1>2, <2>2, <2>4
<1>11. ASSUME op \in {"<=", ">="}, out.v = Nil
       PROVE  \E k \in 1..Len(args) - 1 : IF op = "<=" THEN x[k] > x[k + 1] ELSE x[k] < x[k + 1]
    <2>1. PICK n \in 2..Len(args) : Fails(op, args[n - 1], args[n])
        BY <1>6, <1>11 DEF Breaks
    <2>2. n - 1 \in 1..Len(args) - 1 /\ (n - 1) + 1 = n
        BY <1>2
    <2>3. IF op = "<=" THEN x[n - 1] > x[n] ELSE x[n - 1] < x[n]
        BY <1>7, <1>11, <2>1
    <2> QED
        BY <2>2, <2>3
<1>12. op = "<=" => op # ">="
    OBVIOUS
<1> QED
    BY <1>9, <1>10, <1>11, <1>12

\* The answer to the call before.
LEMMA BeforeIs ==
    ASSUME Typed, OrderInv, before # NoCall, before.op \in NumberComparisons, Len(args) >= 2
    PROVE  /\ IsOutcome(before.op, args, before.out) /\ before.out.k \in {"value", "error"}
           /\ before.out.k = "value" => before.out = Value(T) \/ before.out = Value(Nil)
<1>1. IsOutcome(before.op, args, before.out) /\ before.out.k \in {"value", "error"}
    BY DEF OrderInv, BeforeInv
<1> QED
    BY <1>1, Endings

LEMMA NotEqual ==
    ASSUME Typed, OrderInv, out # Running, before # NoCall, before.op = "/=", Len(args) >= 2
    PROVE  out.k = before.out.k /\ (Answered /\ before.out.k = "value" => out # before.out)
<1>1. Called /\ Len(args) \in Nat /\ args # <<>> /\ op = "="
    <2>1. Called /\ Len(args) \in Nat /\ args # <<>>
        BY LenArgs DEF Typed
    <2> QED
        BY <2>1 DEF OrderInv, BeforeInv, Companion
<1>2. out.k # "running"
    BY DEF Typed, OutTyped
<1>3. IsOutcome("=", args, out)
    BY <1>1, <1>2 DEF OrderInv, ComparisonInv, NumberComparisons
<1>4. IsOutcome("/=", args, before.out)
    BY BeforeIs DEF NumberComparisons
<1>5. /\ out.k \in {"value", "error"}
      /\ out.k = "error" => Mistyped("=", args)
      /\ out.k = "value" => out = Value(T) \/ out = Value(Nil)
      /\ out = Value(T) => Passes("=", args)
      /\ out = Value(Nil) => Breaks("=", args)
    BY <1>3, Endings
<1>6. /\ before.out.k \in {"value", "error"}
      /\ before.out.k = "error" => Mistyped("=", args)
      /\ before.out.k = "value" => before.out = Value(T) \/ before.out = Value(Nil)
      /\ before.out = Value(T) => Breaks("=", args)
      /\ before.out = Value(Nil) => Passes("=", args)
    BY <1>4, SameWalk, Endings
<1>7. ~(Passes("=", args) /\ Breaks("=", args)) /\ ~(Passes("=", args) /\ Mistyped("=", args))
      /\ ~(Breaks("=", args) /\ Mistyped("=", args))
    BY <1>1, OneEnding
<1> QED
    BY <1>5, <1>6, <1>7, Answers DEF Answered

\* Of two arguments.
LEMMA TwoEndings ==
    ASSUME Called, Len(args) = 2, NEW o
    PROVE  /\ Passes(o, args) => /\ IsNumber(args[1]) /\ IsNumber(args[2]) /\ ~Fails(o, args[1], args[2])
           /\ Breaks(o, args) => /\ IsNumber(args[1]) /\ IsNumber(args[2]) /\ Fails(o, args[1], args[2])
<1>1. Passes(o, args) => IsNumber(args[1]) /\ IsNumber(args[2]) /\ ~Fails(o, args[1], args[2])
    <2>1. 1 \in 1..3 - 1 /\ 2 \in 1..3 - 1 /\ 2 \in 2..3 - 1 /\ 2 - 1 = 1 /\ Len(args) + 1 = 3
        OBVIOUS
    <2> QED
        BY <2>1 DEF Passes, Walked
<1>2. Breaks(o, args) => IsNumber(args[1]) /\ IsNumber(args[2]) /\ Fails(o, args[1], args[2])
    <2>1. SUFFICES ASSUME NEW n \in 2..Len(args), Walked(o, args, n), IsNumber(args[n]),
                          Fails(o, args[n - 1], args[n])
                   PROVE  IsNumber(args[1]) /\ IsNumber(args[2]) /\ Fails(o, args[1], args[2])
        BY DEF Breaks
    <2>2. n = 2 /\ n - 1 = 1 /\ 1 \in 1..n - 1
        OBVIOUS
    <2> QED
        BY <2>1, <2>2 DEF Walked
<1> QED
    BY <1>1, <1>2

LEMMA OppositeNumbers ==
    ASSUME Typed, OrderInv, Answered, before # NoCall, before.op \in {"<=", ">="}, Len(args) = 2,
           before.out.k = "value"
    PROVE  out = before.out <=> (out.v = T /\ \E k \in 1..2 : IsNaN(args[k]))
<1>1. Called /\ args # <<>> /\ args[1] \in Values /\ args[2] \in Values
    <2>1. Called
        BY DEF Typed
    <2>2. args # <<>>
        <3>1. SUFFICES ASSUME args = <<>> PROVE Len(args) = 0
            OBVIOUS
        <3> QED
            BY <3>1
    <2>3. 1 \in 1..Len(args) /\ 2 \in 1..Len(args)
        OBVIOUS
    <2> QED
        BY <2>1, <2>2, <2>3, ArgumentIs
<1>2. (before.op = "<=" /\ op = ">") \/ (before.op = ">=" /\ op = "<")
    BY DEF OrderInv, BeforeInv, Companion
<1>3. op \in NumberComparisons /\ before.op \in NumberComparisons /\ op # "/=" /\ before.op # "/="
    BY <1>2 DEF NumberComparisons
<1>4. PICK a, b, o, p : a = args[1] /\ b = args[2] /\ o = op /\ p = before.op
    OBVIOUS
<1>5. /\ out = Value(T) \/ out = Value(Nil)
      /\ out.v = T <=> out = Value(T)
      /\ out = Value(T) => IsNumber(a) /\ IsNumber(b) /\ ~Fails(o, a, b)
      /\ out = Value(Nil) => IsNumber(a) /\ IsNumber(b) /\ Fails(o, a, b)
    <2>1. IsOutcome(op, args, out) /\ (out = Value(T) \/ out = Value(Nil)) /\ (out.v = T <=> out = Value(T))
        BY <1>1, <1>3, OutcomeIs
    <2>2. (out = Value(T) => Passes(op, args)) /\ (out = Value(Nil) => Breaks(op, args))
        BY <1>3, <2>1, Endings
    <2> QED
        BY <1>1, <1>4, <2>1, <2>2, TwoEndings
<1>6. /\ before.out = Value(T) \/ before.out = Value(Nil)
      /\ before.out = Value(T) => ~Fails(p, a, b)
      /\ before.out = Value(Nil) => Fails(p, a, b)
    <2>1. IsOutcome(before.op, args, before.out) /\ (before.out = Value(T) \/ before.out = Value(Nil))
        BY <1>3, BeforeIs
    <2>2. /\ before.out = Value(T) => Passes(before.op, args)
          /\ before.out = Value(Nil) => Breaks(before.op, args)
        BY <1>3, <2>1, Endings
    <2> QED
        BY <1>1, <1>4, <2>1, <2>2, TwoEndings
<1>7. IsNumber(a) /\ IsNumber(b)
    BY <1>5
<1>8. (\E k \in 1..2 : IsNaN(args[k])) <=> IsNaN(a) \/ IsNaN(b)
    <2>1. 1..2 = {1, 2}
        OBVIOUS
    <2> QED
        BY <1>4, <2>1
<1>9. CASE IsNaN(a) \/ IsNaN(b)
    <2>1. ~Fails(o, a, b) /\ ~Fails(p, a, b)
        BY <1>2, <1>4, <1>9 DEF Fails, LtFails, GtFails, LteFails, GteFails, Unordered
    <2> QED
        BY <1>5, <1>6, <1>8, <1>9, <2>1, Answers
<1>10. CASE ~IsNaN(a) /\ ~IsNaN(b)
    <2>1. ~(~Fails(o, a, b) /\ ~Fails(p, a, b))
        BY <1>1, <1>2, <1>4, <1>7, <1>10, FailsIs
    <2>2. ~(Fails(o, a, b) /\ Fails(p, a, b))
        <3>1. Left(a, b) \in Int /\ Right(a, b) \in Int
            BY <1>1, <1>4, <1>7, <1>10, OrderKept
        <3>2. /\ Fails("<", a, b) => Left(a, b) >= Right(a, b)
              /\ Fails(">", a, b) => Left(a, b) <= Right(a, b)
              /\ Fails("<=", a, b) => Left(a, b) > Right(a, b)
              /\ Fails(">=", a, b) => Left(a, b) < Right(a, b)
            BY DEF Fails, LtFails, GtFails, LteFails, GteFails
        <3>3. ~(Fails("<=", a, b) /\ Fails(">", a, b)) /\ ~(Fails(">=", a, b) /\ Fails("<", a, b))
            BY <3>1, <3>2
        <3> QED
            BY <1>2, <1>4, <3>3
    <2> QED
        BY <1>5, <1>6, <1>8, <1>10, <2>1, <2>2, Answers
<1> QED
    BY <1>9, <1>10

LEMMA StringTables ==
    \A x, y \in Int :
        /\ StringFails("STRING<", x, y) <=> x >= y
        /\ StringFails("STRING<=", x, y) <=> x > y
        /\ StringFails("STRING>", x, y) <=> x <= y
        /\ StringFails("STRING>=", x, y) <=> x < y
        /\ StringFails("STRING=", x, y) <=> x # y
        /\ StringFails("STRING/=", x, y) <=> x = y
BY DEF StringFails

\* How a comparison of two or more strings ends.
LEMMA StringEndings ==
    ASSUME NEW o, NEW w, Called, Len(args) >= 2, IsStringOutcome(o, args, w)
    PROVE  /\ w = Value(T) \/ w = Value(Nil)
           /\ w = Value(T) => /\ args[1].s \in Int /\ args[2].s \in Int
                              /\ ~StringFails(o, args[1].s, args[2].s)
           /\ w = Value(Nil) /\ Len(args) = 2 => /\ args[1].s \in Int /\ args[2].s \in Int
                                                 /\ StringFails(o, args[1].s, args[2].s)
<1>1. PICK n \in 1..Len(args) + 1 : StringsWalked(o, args, n) /\ StringsEnd(o, args, n, w)
    BY DEF IsStringOutcome
<1>2. Len(args) \in Nat
    BY LenArgs
<1>3. ASSUME NEW k \in 1..Len(args), IsString(args[k]) PROVE args[k].s \in Int
    <2>1. args[k] \in Values \cup {Wild}
        BY ArgumentIs
    <2> QED
        BY <1>3, <2>1, ValueIs
<1>4. CASE n = Len(args) + 1 /\ w = Value(T)
    <2>1. 1 \in 1..n - 1 /\ 2 \in 1..n - 1 /\ 2 \in 2..n - 1 /\ 2 - 1 = 1 /\ 1 \in 1..Len(args)
          /\ 2 \in 1..Len(args)
        BY <1>2, <1>4
    <2>2. IsString(args[1]) /\ IsString(args[2]) /\ ~StringFails(o, args[1].s, args[2].s)
        BY <1>1, <2>1 DEF StringsWalked
    <2> QED
        BY <1>3, <1>4, <2>1, <2>2, Answers
<1>5. CASE /\ n \in 2..Len(args) /\ IsString(args[n]) /\ StringFails(o, args[n - 1].s, args[n].s)
           /\ w = Value(Nil)
    <2>1. CASE Len(args) = 2
        <3>1. n = 2 /\ n - 1 = 1 /\ 1 \in 1..n - 1 /\ 1 \in 1..Len(args) /\ 2 \in 1..Len(args)
            BY <1>5, <2>1
        <3>2. IsString(args[1]) /\ IsString(args[2]) /\ StringFails(o, args[1].s, args[2].s)
            BY <1>1, <1>5, <3>1 DEF StringsWalked
        <3> QED
            BY <1>3, <1>5, <3>1, <3>2, Answers
    <2> QED
        BY <1>5, <2>1, Answers
<1> QED
    BY <1>1, <1>4, <1>5 DEF StringsEnd

LEMMA OppositeStrings ==
    ASSUME Typed, OrderInv, Answered, before # NoCall, Len(args) >= 2, before.out.k = "value",
           before.op \in {"STRING<=", "STRING>=", "STRING/="}, out = before.out
    PROVE  Len(args) > 2 /\ (before.op = "STRING/=" => out.v = Nil)
<1>1. Called /\ Len(args) \in Nat
    BY LenArgs DEF Typed
<1>2. PICK o, p : o = op /\ p = before.op
    OBVIOUS
<1>3. \/ p = "STRING<=" /\ o = "STRING>"
      \/ p = "STRING>=" /\ o = "STRING<"
      \/ p = "STRING/=" /\ o = "STRING="
    BY <1>2 DEF OrderInv, BeforeInv, Companion
<1>4. IsStringOutcome(o, args, out)
    BY <1>2, <1>3 DEF OrderInv, StringInv, StringComparisons, Answered
<1>5. IsStringOutcome(p, args, out)
    BY <1>2, <1>3 DEF OrderInv, BeforeInv, StringComparisons
<1>6. CASE out = Value(T)
    <2>1. PICK x \in Int, y \in Int : x = args[1].s /\ y = args[2].s /\ ~StringFails(o, x, y)
        BY <1>1, <1>4, <1>6, StringEndings
    <2>2. ~StringFails(p, x, y)
        BY <1>1, <1>5, <1>6, <2>1, StringEndings
    <2> QED
        BY <1>3, <2>1, <2>2, StringTables
<1>7. CASE out = Value(Nil)
    <2>1. CASE Len(args) = 2
        <3>1. PICK x \in Int, y \in Int : x = args[1].s /\ y = args[2].s /\ StringFails(o, x, y)
            BY <1>1, <1>4, <1>7, <2>1, StringEndings
        <3>2. StringFails(p, x, y)
            BY <1>1, <1>5, <1>7, <2>1, <3>1, StringEndings
        <3> QED
            BY <1>3, <3>1, <3>2, StringTables
    <2>2. CASE Len(args) # 2
        <3>1. Len(args) > 2
            BY <1>1, <2>2
        <3> QED
            BY <1>7, <3>1, Answers
    <2> QED
        BY <2>1, <2>2
<1>8. out = Value(T) \/ out = Value(Nil)
    BY <1>1, <1>4, StringEndings
<1> QED
    BY <1>6, <1>7, <1>8

LEMMA Opposites ==
    ASSUME Typed, OrderInv
    PROVE  OppositesDisagree
<1>1. SUFFICES ASSUME out # Running, before # NoCall, Len(args) >= 2
               PROVE  /\ before.op = "/=" =>
                            /\ out.k = before.out.k
                            /\ Answered /\ before.out.k = "value" => out # before.out
                      /\ Answered /\ before.out.k = "value" /\ before.op = "STRING/=" /\ out = before.out =>
                            out.v = Nil /\ Len(args) > 2
                      /\ Answered /\ before.out.k = "value" /\ before.op \in {"<=", ">="} /\ Len(args) = 2 =>
                            (out = before.out <=> (out.v = T /\ \E k \in 1..2 : IsNaN(args[k])))
                      /\ Answered /\ before.out.k = "value" /\ before.op \in {"STRING<=", "STRING>="}
                             /\ Len(args) = 2 => out # before.out
    BY DEF OppositesDisagree
<1>2. before.op = "/=" => /\ out.k = before.out.k
                          /\ Answered /\ before.out.k = "value" => out # before.out
    BY <1>1, NotEqual
<1>3. ASSUME Answered, before.out.k = "value", before.op \in {"<=", ">="}, Len(args) = 2
      PROVE  out = before.out <=> (out.v = T /\ \E k \in 1..2 : IsNaN(args[k]))
    BY <1>1, <1>3, OppositeNumbers
<1>4. ASSUME Answered, before.out.k = "value", before.op \in {"STRING<=", "STRING>=", "STRING/="},
             out = before.out
      PROVE  /\ Len(args) # 2 /\ Len(args) > 2
             /\ before.op = "STRING/=" => out.v = Nil
    <2>1. Len(args) > 2
        BY <1>1, <1>4, OppositeStrings
    <2>2. before.op = "STRING/=" => out.v = Nil
        BY <1>1, <1>4, OppositeStrings
    <2>3. Len(args) \in Nat
        BY LenArgs DEF Typed
    <2>4. Len(args) # 2
        <3>1. PICK n \in Nat : n = Len(args)
            BY <2>3
        <3>2. n > 2
            BY <2>1, <3>1
        <3>3. n # 2
            BY <3>2
        <3> QED
            BY <3>1, <3>3
    <2> QED
        BY <2>1, <2>2, <2>4
<1> QED
    BY <1>2, <1>3, <1>4

LEMMA ZeroIs ==
    MkInt(0) \in Values /\ IsInt(MkInt(0)) /\ MkInt(0).n = 0 /\ ~IsNaN(MkInt(0))
        /\ Units(MkInt(0)) = 0 /\ Units(ToFloat(MkInt(0))) = 0
<1>1. MkInt(0) \in Values /\ IsInt(MkInt(0)) /\ MkInt(0).n = 0 /\ IsNumber(MkInt(0))
    BY SmallInts, IntIs
<1>2. PICK z : z = MkInt(0)
    OBVIOUS
<1>3. Units(z) = 0 /\ ~IsFloat(z)
    BY <1>1, <1>2, IntUnits, ValueIs
<1>4. PICK f \in Floats : ~IsNaN(f) /\ Units(f) = 0
    <2>1. 0 \in 0..LastFinite + 1 /\ FALSE \in BOOLEAN /\ Magnitude[0] = 0
        BY Format, MagnitudeGrows
    <2>2. PICK f : f = MkFloat(FALSE, 0)
        OBVIOUS
    <2>3. f \in Floats /\ ~IsNaN(f) /\ Units(f) = 0
        BY <2>1, <2>2, MkFloatIs
    <2> QED
        BY <2>3
<1>5. RoundsTo(ToFloat(z), 0, 1)
    BY <1>1, <1>2, <1>3, Converted
<1>6. Units(f) * 1 = 0 /\ 1 \in Nat \ {0}
    BY <1>4
<1>7. Units(ToFloat(z)) = 0
    BY <1>4, <1>5, <1>6, RoundsExactly
<1> QED
    BY <1>1, <1>2, <1>3, <1>7 DEF IsNaN

LEMMA Zerop ==
    ASSUME Typed, OrderInv
    PROVE  ZeropIsEqualZero
<1>1. SUFFICES ASSUME Answered, op = "ZEROP", NEW v, v = args[1], IsNumber(v)
               PROVE  out.v = T <=> ~Fails("=", v, MkInt(0)) /\ v # MkFloat(TRUE, 0)
    BY DEF ZeropIsEqualZero
<1>2. v \in Values
    <2>1. TakesOne(op) /\ op # "none"
        BY <1>1 DEF TakesOne, Predicates
    <2>2. Called /\ Len(args) = 1
        BY <2>1 DEF Typed, Called
    <2>3. 1 \in 1..Len(args)
        BY <2>2
    <2> QED
        BY <1>1, <2>2, <2>3, ArgumentIs
<1>3. PICK z : z = MkInt(0)
    OBVIOUS
<1>4. z \in Values /\ IsInt(z) /\ z.n = 0 /\ ~IsNaN(z) /\ Units(z) = 0 /\ Units(ToFloat(z)) = 0
    BY <1>3, ZeroIs
<1>5. out.v = T <=> v = z \/ v = MkFloat(FALSE, 0)
    <2>1. out = Value(MkBool(Holds("ZEROP", v)))
        BY <1>1 DEF OrderInv, PredicateInv, Answered
    <2>2. Holds("ZEROP", v) <=> v = z \/ v = MkFloat(FALSE, 0)
        BY <1>3 DEF Holds
    <2>3. out = IF v = z \/ v = MkFloat(FALSE, 0) THEN Value(T) ELSE Value(Nil)
        BY <2>1, <2>2 DEF MkBool
    <2> QED
        BY <2>3, Answers
<1>6. Fails("=", v, z) <=> IsNaN(v) \/ Left(v, z) # Right(v, z)
    BY <1>4 DEF Fails, EqFails, Unordered
<1>7. CASE IsInt(v)
    <2>1. Left(v, z) = Units(v) /\ Right(v, z) = 0
        BY <1>4, <1>7 DEF Left, Right
    <2>2. (v.n = 0 <=> Units(v) = 0) /\ v = MkInt(v.n) /\ ~IsFloat(v)
        BY <1>2, <1>7, IntUnits, ValueIs
    <2>3. v = z <=> v.n = 0
        BY <1>3, <1>4, <2>2
    <2>4. ~IsNaN(v)
        BY <2>2 DEF IsNaN
    <2>5. v # MkFloat(TRUE, 0) /\ v # MkFloat(FALSE, 0)
        BY <2>2 DEF IsFloat, MkFloat
    <2> QED
        BY <1>3, <1>5, <1>6, <2>1, <2>2, <2>3, <2>4, <2>5
<1>8. CASE IsFloat(v)
    <2>1. v \in Floats /\ ~IsInt(v) /\ v = MkFloat(v.neg, v.i) /\ v.neg \in BOOLEAN /\ ToFloat(v) = v
        BY <1>1, <1>2, <1>8, ValueIs, Converted
    <2>2. Left(v, z) = Units(v) /\ Right(v, z) = 0
        BY <1>4, <2>1 DEF Left, Right
    <2>3. MkFloat(TRUE, 0).i = 0 /\ MkFloat(FALSE, 0).i = 0
          /\ MkFloat(TRUE, 0) # MkFloat(FALSE, 0)
        BY DEF MkFloat
    <2>4. v.i = 0 <=> v = MkFloat(TRUE, 0) \/ v = MkFloat(FALSE, 0)
        BY <2>1, <2>3
    <2>5. v # z
        BY <1>4, <2>1
    <2>6. CASE IsNaN(v)
        <3>1. v.i # 0
            BY <2>6, Format DEF IsNaN
        <3> QED
            BY <1>5, <1>6, <2>4, <2>5, <2>6, <1>3, <3>1
    <2>7. CASE ~IsNaN(v)
        <3>1. Units(v) = 0 <=> v.i = 0
            BY <2>1, <2>7, FloatUnits
        <3> QED
            BY <1>3, <1>5, <1>6, <2>2, <2>3, <2>4, <2>5, <2>7, <3>1
    <2> QED
        BY <2>6, <2>7
<1> QED
    BY <1>1, <1>7, <1>8 DEF IsNumber

(* In every format, whatever the arguments: < and > never answer true of   *)
(* numbers out of order, nor <= and >= nil of numbers in order, NaN        *)
(* excepted; a comparison and its opposite disagree where they should      *)
(* (the tables of lt_op to eq_op, neq and the string operators); and ZEROP *)
(* tells what (= x 0) tells, but for negative zero.                        *)
THEOREM ComparisonsAgreeAlways == Spec => []ComparisonsAgree
<1>1. ASSUME Typed, OrderInv PROVE ComparisonsAgree
    BY <1>1, NeverInvented, Opposites, Zerop DEF ComparisonsAgree
<1> QED
    BY <1>1, TypedInvariant, OrderInvariant, PTL

-----------------------------------------------------------------------------
(* The functions of one argument.                                          *)

RandomFloat(rand, x) ==
    FloatQuotient(ToFloat(MkInt(rand)), FloatQuotient(ToFloat(MkInt(RandMax)), x))

\* What a function has answered.
FunctionInv ==
    op \in Functions /\ out.k = "value" =>
        /\ op = "FLOOR" =>
               IsNumber(args[1]) /\ \E n \in FloorInts(ToFloat(args[1])) : out.v = MkInt(n)
        /\ op = "SQRT" => IsNumber(args[1]) /\ out.v = SquareRoot(args[1])
        /\ op = "RANDOM" => \E rand \in 0..RandMax :
               IF IsInt(args[1]) THEN args[1].n # 0 /\ out.v = MkInt(Remainder(rand, args[1].n))
               ELSE IsFloat(args[1]) /\ out.v = RandomFloat(rand, args[1])

LEMMA FunctionStays ==
    ASSUME Proceeds, op \in Functions, FunctionStep
    PROVE  FunctionInv'
<1>1. op' = op /\ args' = args
    BY DEF Proceeds
<1>2. PICK e : e = Expected("number", args[1])
    OBVIOUS
<1>3. e.k # "value" /\ Trap.k # "value"
    BY <1>2 DEF Expected, Trap
<1>4. \A v : Value(v).v = v
    BY DEF Value
<1>5. CASE Sqrt
    <2>1. op = "SQRT" /\ out' = IF IsNumber(args[1]) THEN Value(SquareRoot(args[1])) ELSE e
        BY <1>2, <1>5 DEF Sqrt, Entering, Stop
    <2> QED
        BY <1>1, <1>3, <1>4, <2>1 DEF FunctionInv
<1>6. CASE Floor
    <2>1. /\ op = "FLOOR"
          /\ \/ out' = e
             \/ IsNumber(args[1]) /\ \E n \in FloorInts(ToFloat(args[1])) : out' = Value(MkInt(n))
        BY <1>2, <1>6 DEF Floor, Entering, Stop
    <2> QED
        BY <1>1, <1>3, <1>4, <2>1 DEF FunctionInv
<1>7. CASE Random
    <2>1. op = "RANDOM"
        BY <1>7 DEF Random, Entering
    <2>2. PICK rand \in 0..RandMax :
              out' = CASE args[1] = MkInt(0) -> Trap
                       [] IsInt(args[1]) /\ args[1].n # 0 -> Value(MkInt(Remainder(rand, args[1].n)))
                       [] IsFloat(args[1]) -> Value(RandomFloat(rand, args[1]))
                       [] OTHER -> e
        BY <1>2, <1>7 DEF Random, Stop, RandomFloat
    <2>3. IsInt(args[1]) => ~IsFloat(args[1])
        BY DEF IsInt, IsFloat
    <2>4. args[1] = MkInt(0) => IsInt(args[1]) /\ args[1].n = 0
        BY DEF MkInt, IsInt
    <2>5. \/ out' = Trap \/ out' = e
          \/ /\ IsInt(args[1]) /\ args[1].n # 0
             /\ out' = Value(MkInt(Remainder(rand, args[1].n)))
          \/ IsFloat(args[1]) /\ out' = Value(RandomFloat(rand, args[1]))
        BY <2>2, <2>3, <2>4
    <2> QED
        BY <1>1, <1>3, <1>4, <2>1, <2>3, <2>5 DEF FunctionInv
<1>8. CASE Circular
    <2>1. op \in {"SIN", "COS", "TAN"}
        BY <1>8 DEF Circular, Entering
    <2> QED
        BY <1>1, <2>1 DEF FunctionInv
<1> QED
    BY <1>5, <1>6, <1>7, <1>8 DEF FunctionStep

\* At every step of a call of sqrt, floor or random.
LEMMA FunctionInvariant == Spec => []FunctionInv
<1>1. ASSUME Init PROVE FunctionInv
    BY <1>1 DEF Init, FunctionInv, Functions
<1>2. ASSUME Typed, FunctionInv, [Next]_vars PROVE FunctionInv'
    <2>1. CASE UNCHANGED vars
        BY <1>2, <2>1 DEF FunctionInv, vars
    <2>2. CASE Begins
        BY <2>2 DEF Begins, Running, FunctionInv
    <2>3. CASE Proceeds /\ op \in Functions /\ FunctionStep
        BY <2>3, FunctionStays
    <2>4. CASE Proceeds /\ op \notin Functions
        BY <2>4 DEF Proceeds, FunctionInv
    <2>5. /\ op \in Arithmetic => op \notin Functions
          /\ op \in NumberComparisons => op \notin Functions
          /\ op \in StringComparisons => op \notin Functions
          /\ op \in Predicates => op \notin Functions
        BY DEF Arithmetic, NumberComparisons, StringComparisons, Predicates, Functions
    <2>6. TypeOK
        BY <1>2 DEF Typed
    <2> QED
        BY <1>2, <2>1, <2>2, <2>3, <2>4, <2>5, <2>6, Kinds
<1> QED
    BY <1>1, <1>2, TypedInvariant, PTL DEF Spec

\* The argument of a function.
LEMMA OneArgument ==
    ASSUME Typed, op \in Functions
    PROVE  args[1] \in Values
<1>1. TakesOne(op) /\ op # "none"
    BY DEF TakesOne, Functions
<1>2. Called /\ Len(args) = 1
    BY <1>1 DEF Typed, Called
<1>3. 1 \in 1..Len(args)
    BY <1>2
<1> QED
    BY <1>2, <1>3, ArgumentIs

LEMMA FloorIs ==
    ASSUME Typed, FunctionInv
    PROVE  FloorBelow
<1>1. SUFFICES ASSUME Answered, op = "FLOOR", NEW v, v = args[1]
               PROVE  /\ IsInt(out.v) /\ out.v.n \in IntMin..IntMax
                      /\ /\ IsFinite(v)
                         /\ IsInt(v) => Units(ToFloat(v)) = Units(v)
                         /\ Units(v) \div UnitsPerOne \in IntMin..IntMax
                         => out.v.n = Units(v) \div UnitsPerOne
    BY DEF FloorBelow
<1>2. v \in Values /\ IsNumber(v)
    BY <1>1, OneArgument DEF FunctionInv, Functions, Answered
<1>3. PICK f : f = ToFloat(v)
    OBVIOUS
<1>4. PICK n \in FloorInts(f) : out.v = MkInt(n)
    BY <1>1, <1>3 DEF FunctionInv, Functions, Answered
<1>5. /\ f \in Floats /\ (IsFinite(f) <=> IsFinite(v))
      /\ IsFloat(v) => f = v
    BY <1>2, <1>3, Converted
<1>6. PICK d : d = Units(f) \div UnitsPerOne
    OBVIOUS
<1>7. FloorInts(f) = IF IsFinite(f) /\ d \in IntMin..IntMax THEN {d}
                     ELSE IF IsFinite(f) THEN {Wrap(d), IntMin, 0} ELSE {IntMin, 0}
    BY <1>6 DEF FloorInts
<1>8. n \in IntMin..IntMax
    <2>1. IsFinite(f) => d \in Int
        <3>1. IsFinite(f) => Units(f) \in Int
            BY <1>5, FiniteFloat
        <3> QED
            BY <1>6, <3>1, Format
    <2>2. IsFinite(f) => Wrap(d) \in IntMin..IntMax
        BY <2>1, WrapIs
    <2> QED
        BY <1>4, <1>7, <2>2, SmallInts
<1>9. IsInt(out.v) /\ out.v.n = n
    BY <1>4 DEF IsInt, MkInt
<1>10. ASSUME IsFinite(v), IsInt(v) => Units(ToFloat(v)) = Units(v),
              Units(v) \div UnitsPerOne \in IntMin..IntMax
       PROVE  n = Units(v) \div UnitsPerOne
    <2>1. Units(f) = Units(v)
        BY <1>2, <1>3, <1>5, <1>10 DEF IsNumber
    <2> QED
        BY <1>4, <1>5, <1>6, <1>7, <1>10, <2>1
<1> QED
    BY <1>8, <1>9, <1>10

\* The square of a magnitude has that magnitude for its nearest root.
LEMMA RootIs ==
    ASSUME NEW y \in Nat, NEW sign, sign = [h \in Nat |-> SignOf(4 * y - h * h)]
    PROVE  /\ NearestBy(sign) \in 0..LastFinite + 1
           /\ \A r \in 0..LastFinite : Magnitude[r] * Magnitude[r] = y => NearestBy(sign) = r
<1>1. LastFinite \in Nat /\ \A j \in 0..LastFinite + 1 : Magnitude[j] \in Nat
    BY Format, MagnitudeGrows
<1>2. PICK m : m = [j \in 0..LastFinite + 1 |-> Magnitude[j] * Magnitude[j]]
    OBVIOUS
<1>3. m \in [0..LastFinite + 1 -> Nat]
    <2>1. ASSUME NEW j \in 0..LastFinite + 1 PROVE Magnitude[j] * Magnitude[j] \in Nat
        <3>1. PICK a \in Nat : a = Magnitude[j]
            BY <1>1
        <3> QED
            BY <3>1
    <2> QED
        BY <1>2, <2>1
<1>4. \A h \in Nat : sign[h] = SignOf(4 * y - h * h)
    OBVIOUS
<1>5. ASSUME NEW j \in 0..LastFinite + 1
      PROVE  /\ sign[2 * Magnitude[j]] >= 0 <=> m[j] <= y
             /\ sign[2 * Magnitude[j]] < 0 <=> y < m[j]
    <2>1. PICK a \in Nat : a = Magnitude[j]
        BY <1>1
    <2>2. (2 * a) * (2 * a) = 4 * (a * a) /\ a * a \in Nat /\ 2 * a \in Nat
        OBVIOUS
    <2>3. m[j] = a * a
        BY <1>2, <2>1
    <2>4. sign[2 * a] = SignOf(4 * y - 4 * m[j])
        BY <1>4, <2>2, <2>3
    <2>5. m[j] \in Nat
        BY <1>3
    <2> QED
        BY <2>1, <2>4, <2>5 DEF SignOf
<1> DEFINE IsK(j) == sign[2 * Magnitude[j]] >= 0
                     /\ (j = LastFinite + 1 \/ sign[2 * Magnitude[j + 1]] < 0)
<1>6. ASSUME NEW j \in 0..LastFinite + 1 PROVE IsK(j) <=> Below(j, m, y)
    <2>1. j # LastFinite + 1 => j + 1 \in 0..LastFinite + 1
        BY <1>1
    <2> QED
        BY <1>5, <2>1 DEF Below
<1>7. m[0] <= y
    <2>1. 0 \in 0..LastFinite + 1 /\ Magnitude[0] = 0
        BY <1>1, MagnitudeGrows
    <2>2. m[0] = 0 * 0
        BY <1>2, <2>1
    <2> QED
        BY <2>2
<1>8. \E k \in 0..LastFinite + 1 : Below(k, m, y)
    BY <1>3, <1>7, LastBelow
<1>9. PICK k : k = CHOOSE j \in 0..LastFinite + 1 : IsK(j)
    OBVIOUS
<1>10. k \in 0..LastFinite + 1 /\ IsK(k)
    <2> HIDE DEF IsK
    <2> QED
        BY <1>6, <1>8, <1>9
<1>11. Below(k, m, y)
    BY <1>6, <1>10
<1>12. PICK half : half = sign[Magnitude[k] + Magnitude[k + 1]]
    OBVIOUS
<1>13. NearestBy(sign) = IF k <= LastFinite /\ (half > 0 \/ (half = 0 /\ k % 2 = 1)) THEN k + 1 ELSE k
    BY <1>9, <1>12 DEF NearestBy
<1>14. NearestBy(sign) \in 0..LastFinite + 1
    BY <1>1, <1>10, <1>13
<1>15. ASSUME NEW r \in 0..LastFinite, Magnitude[r] * Magnitude[r] = y PROVE NearestBy(sign) = r
    <2>1. r \in 0..LastFinite + 1 /\ r + 1 \in 0..LastFinite + 1 /\ r \in Int /\ k \in Int
        BY <1>1, <1>10
    <2>2. y = m[r]
        BY <1>2, <1>15, <2>1
    <2>3. ASSUME NEW i1 \in 0..LastFinite + 1, NEW i2 \in 0..LastFinite + 1, i1 < i2 PROVE m[i1] < m[i2]
        <3>1. PICK a \in Nat, b \in Nat : a = Magnitude[i1] /\ b = Magnitude[i2] /\ a < b
            BY <2>3, MagnitudesIncrease
        <3>2. a * a < b * b
            <4>1. b - a \in Nat \ {0} /\ b + a \in Nat \ {0}
                BY <3>1
            <4>2. (b - a) * (b + a) \in Nat /\ (b - a) * (b + a) >= 1
                BY <4>1
            <4>3. (b - a) * (b + a) = b * b - a * a /\ a * a \in Int /\ b * b \in Int
                OBVIOUS
            <4> QED
                BY <4>2, <4>3
        <3> QED
            BY <1>2, <3>1, <3>2
    <2>4. \A j \in 0..LastFinite + 1 : m[j] \in Nat
        BY <1>3
    <2>5. k <= r
        <3>1. m[k] <= m[r]
            BY <1>11, <2>2 DEF Below
        <3>2. r < k => m[r] < m[k]
            BY <1>10, <2>1, <2>3
        <3> QED
            BY <1>10, <2>1, <2>4, <3>1, <3>2
    <2>6. r <= k
        <3>1. k # LastFinite + 1 /\ k + 1 \in 0..LastFinite + 1
            BY <1>1, <1>10, <2>1, <2>5
        <3>2. m[r] < m[k + 1]
            BY <1>11, <2>2, <3>1 DEF Below
        <3>3. k + 1 < r => m[k + 1] < m[r]
            BY <2>1, <2>3, <3>1
        <3>4. k + 1 # r
            BY <2>1, <2>4, <3>2
        <3> QED
            BY <2>1, <2>4, <3>1, <3>2, <3>3, <3>4
    <2>7. k = r
        BY <2>1, <2>5, <2>6
    <2>8. PICK a \in Nat, b \in Nat : a = Magnitude[r] /\ b = Magnitude[r + 1] /\ a < b
        BY <1>15, <2>1, MagnitudeGrows
    <2>9. half = -1
        <3>1. a + b \in Nat /\ half = SignOf(4 * (a * a) - (a + b) * (a + b))
            BY <1>4, <1>12, <1>15, <2>7, <2>8
        <3>2. (a + b) * (a + b) > 4 * (a * a)
            <4>1. PICK d \in Nat \ {0} : b = a + d
                <5>1. b - a \in Nat \ {0} /\ b = a + (b - a)
                    BY <2>8
                <5> QED
                    BY <5>1
            <4>2. (a + b) * (a + b) = 4 * (a * a) + 4 * (a * d) + d * d
                BY <4>1
            <4>3. a * d \in Nat /\ d * d \in Nat /\ d * d >= 1 /\ a * a \in Nat
                BY <4>1
            <4> QED
                BY <4>2, <4>3
        <3>3. PICK p \in Int, q \in Int : p = 4 * (a * a) /\ q = (a + b) * (a + b)
            OBVIOUS
        <3> QED
            BY <3>1, <3>2, <3>3 DEF SignOf
    <2> QED
        BY <1>13, <2>7, <2>9
<1> QED
    BY <1>14, <1>15

LEMMA SquareRootIs ==
    ASSUME Typed, FunctionInv
    PROVE  SquareRootExact
<1>1. SUFFICES ASSUME Answered, op = "SQRT", NEW v, v = args[1], ~IsNaN(v)
               PROVE  /\ IsNaN(out.v) <=> Units(v) < 0
                      /\ Units(v) > 0 => ~out.v.neg
                      /\ Units(v) > 0 /\ IsFinite(v) =>
                            \A r \in 0..LastFinite :
                                Magnitude[r] * Magnitude[r] = Units(v) * UnitsPerOne =>
                                    out.v = MkFloat(FALSE, r)
    BY DEF SquareRootExact
<1>2. v \in Values /\ IsNumber(v) /\ out.v = SquareRoot(v)
    BY <1>1, OneArgument DEF FunctionInv, Functions, Answered
<1>3. PICK x \in Int, w \in Nat \ {0} : x = Units(v) /\ w = UnitsPerOne
    BY <1>1, <1>2, Converted, Format
<1>4. PICK sign : sign = [h \in Nat |-> SignOf(4 * Units(v) * UnitsPerOne - h * h)]
    OBVIOUS
<1>5. SquareRoot(v) = IF IsFloat(v) /\ (v.i = 0 \/ (IsInf(v) /\ ~v.neg)) THEN v
                      ELSE IF x < 0 THEN NaN ELSE MkFloat(FALSE, NearestBy(sign))
    BY <1>1, <1>3, <1>4 DEF SquareRoot
<1>6. CASE IsFloat(v) /\ v.i = 0
    <2>1. v \in Floats /\ x = 0
        BY <1>1, <1>2, <1>3, <1>6, ValueIs, FloatUnits
    <2>2. out.v = v
        BY <1>2, <1>5, <1>6
    <2> QED
        BY <1>1, <1>3, <2>1, <2>2
<1>7. CASE IsFloat(v) /\ IsInf(v) /\ ~v.neg
    <2>1. v \in Floats /\ v.i \in 0..LastFinite + 1 /\ x = Magnitude[v.i] /\ x >= 0
        BY <1>1, <1>2, <1>3, <1>7, ValueIs, FloatUnits
    <2>2. out.v = v /\ ~IsFinite(v)
        BY <1>2, <1>5, <1>7 DEF IsFinite
    <2> QED
        <3>1. ~(x < 0)
            BY <2>1
        <3>2. IsNaN(out.v) <=> Units(v) < 0
            BY <1>1, <1>3, <2>2, <3>1
        <3> QED
            BY <1>7, <2>2, <3>2
<1>8. CASE ~(IsFloat(v) /\ (v.i = 0 \/ (IsInf(v) /\ ~v.neg))) /\ x < 0
    <2>1. out.v = NaN
        BY <1>2, <1>5, <1>8
    <2>2. ~(x > 0)
        BY <1>8
    <2> QED
        BY <1>3, <1>8, <2>1, <2>2, NaNIs
<1>9. CASE ~(IsFloat(v) /\ (v.i = 0 \/ (IsInf(v) /\ ~v.neg))) /\ ~(x < 0)
    <2>1. PICK y \in Nat : y = x * w
        <3>1. x \in Nat
            BY <1>9
        <3> QED
            BY <3>1
    <2>2. sign = [h \in Nat |-> SignOf(4 * y - h * h)]
        <3>1. 4 * x * w = 4 * y
            BY <2>1
        <3> QED
            BY <1>3, <1>4, <3>1
    <2>3. PICK n : n = NearestBy(sign)
        OBVIOUS
    <2>4. n \in 0..LastFinite + 1 /\ \A r \in 0..LastFinite : Magnitude[r] * Magnitude[r] = y => n = r
        BY <2>2, <2>3, RootIs
    <2>5. out.v = MkFloat(FALSE, n)
        BY <1>2, <1>5, <1>9, <2>3
    <2>6. ~IsNaN(out.v) /\ ~out.v.neg
        BY <2>4, <2>5, MkFloatIs
    <2> QED
        BY <1>3, <1>9, <2>1, <2>4, <2>5, <2>6
<1> QED
    BY <1>6, <1>7, <1>8, <1>9

\* The quotient of num and a magnitude, when that is no subnormal number, may
\* be too small, but not by more than the magnitude's distance to the next.
LEMMA QuotientBound ==
    ASSUME NEW num \in Nat, NEW i1 \in 1..LastFinite, num >= Hidden * Magnitude[i1],
           NEW q, q = NearestBy(Signs(num, Magnitude[i1])), q <= LastFinite
    PROVE  q \in 1..LastFinite /\ num <= Magnitude[i1 + 1] * Magnitude[q]
<1>1. PICK h \in Nat \ {0} : h = Hidden
    BY Format
<1>2. LastFinite \in Nat /\ i1 \in 0..LastFinite /\ i1 \in 0..LastFinite + 1 /\ 0 \in 0..LastFinite + 1
    BY Format
<1>3. h \in 0..LastFinite + 1 /\ Magnitude[h] = h
    <2>1. LastFinite % h = h - 1
        BY <1>1, FormatAssumption
    <2>2. LastFinite \in Int /\ LastFinite \in 0..LastFinite + 1
        BY <1>2
    <2>3. PICK d \in Nat, r \in 0..h - 1 : LastFinite = h * d + r
        BY <1>1, <2>2, Exponent
    <2>4. LastFinite % h = r
        <3>1. \A a \in Int, s \in 0..h - 1 :
                  LastFinite = h * a + s => LastFinite \div h = a /\ LastFinite % h = s
            BY <2>2, Division, Zenon
        <3>2. d \in Int
            OBVIOUS
        <3> QED
            BY <2>3, <3>1, <3>2, Zenon
    <2>5. h * d \in Nat
        BY <2>3
    <2>6. h \in 0..LastFinite + 1
        BY <1>2, <2>1, <2>3, <2>4, <2>5
    <2>7. h = h * 1 + 0 /\ 0 \in 0..h - 1 /\ 1 \in Nat /\ 1 - 1 = 0
        OBVIOUS
    <2>8. Magnitude[h] = (h + 0) * PowerOf2[0]
        BY <1>1, <2>6, <2>7, MagnitudeIs
    <2> QED
        BY <2>6, <2>8, PowersOf2
<1>4. PICK x \in Nat, e \in Nat \ {0} :
          Magnitude[i1] = x /\ Magnitude[i1 + 1] = x + e /\ x <= (2 * h - 1) * e
    BY <1>1, <1>2, Gap
<1>5. x # 0
    <2>1. Magnitude[0] = 0 /\ Magnitude[0] < Magnitude[i1]
        BY <1>2, MagnitudeGrows, MagnitudesIncrease
    <2> QED
        BY <1>4, <2>1
<1>6. x \in Nat \ {0}
    BY <1>4, <1>5
<1>7. PICK m \in [0..LastFinite + 1 -> Nat] :
          /\ \A j \in 0..LastFinite + 1 : m[j] = Magnitude[j] * x
          /\ \A j, k \in 0..LastFinite + 1 : (j <= k <=> m[j] <= m[k]) /\ (j < k => m[j] < m[k])
    BY <1>6, Multiples
<1>8. PICK k \in 0..LastFinite + 1 :
          Below(k, m, num) /\ q = IF RoundsUp(k, m, num) THEN k + 1 ELSE k
    BY <1>4, <1>6, <1>7, NearestIs
<1>9. h <= k
    <2>1. m[h] = h * x /\ m[h] <= num
        BY <1>1, <1>3, <1>4, <1>7
    <2>2. SUFFICES ASSUME k < h PROVE FALSE
        BY <1>2, <1>8
    <2>3. k # LastFinite + 1 /\ k + 1 \in 0..LastFinite + 1 /\ k + 1 <= h
        BY <1>2, <1>3, <1>8, <2>2
    <2>4. num < m[k + 1] /\ m[k + 1] <= m[h] /\ m[k + 1] \in Nat /\ m[h] \in Nat
        BY <1>3, <1>7, <1>8, <2>3 DEF Below
    <2> QED
        BY <2>1, <2>4
<1>10. k \in 0..LastFinite /\ k + 1 \in 0..LastFinite + 1 /\ k \in 1..LastFinite
    BY <1>2, <1>8, <1>9
<1>11. PICK n \in Nat, d \in Nat \ {0} : Magnitude[k] = n /\ Magnitude[k + 1] = n + d /\ h * d <= n
    BY <1>1, <1>9, <1>10, Gap
<1>12. m[k] = n * x /\ m[k + 1] = (n + d) * x
    BY <1>7, <1>10, <1>11
<1>13. PICK nx \in Nat, dx \in Nat, ne \in Nat, de \in Nat, hde \in Nat :
           nx = n * x /\ dx = d * x /\ ne = n * e /\ de = d * e /\ hde = (h * d) * e
    OBVIOUS
<1>14. (n + d) * x = nx + dx /\ (x + e) * n = nx + ne
    BY <1>13
<1>15. CASE RoundsUp(k, m, num)
    <2>1. q = k + 1 /\ q \in 1..LastFinite
        BY <1>2, <1>8, <1>10, <1>15
    <2>2. num < (n + d) * x
        BY <1>2, <1>8, <1>10, <1>12 DEF Below
    <2>3. (x + e) * (n + d) = (n + d) * x + (n + d) * e /\ (n + d) * e \in Nat /\ (n + d) * x \in Nat
        OBVIOUS
    <2>4. Magnitude[i1 + 1] * Magnitude[q] = (x + e) * (n + d)
        BY <1>4, <1>11, <2>1
    <2> QED
        BY <2>1, <2>2, <2>3, <2>4
<1>16. CASE ~RoundsUp(k, m, num)
    <2>1. q = k
        BY <1>8, <1>16
    <2>2. 2 * num <= nx + (nx + dx)
        <3>1. ~(2 * num > m[k] + m[k + 1])
            BY <1>10, <1>16 DEF RoundsUp
        <3> QED
            BY <1>12, <1>13, <1>14, <3>1
    <2>3. dx <= 2 * ne
        <3>1. dx <= ((2 * h - 1) * e) * d
            <4>1. ((2 * h - 1) * e - x) * d \in Nat
                <5>1. (2 * h - 1) * e - x \in Nat
                    BY <1>4
                <5> QED
                    BY <5>1
            <4>2. ((2 * h - 1) * e - x) * d = ((2 * h - 1) * e) * d - dx
                BY <1>13
            <4>3. ((2 * h - 1) * e) * d \in Int
                OBVIOUS
            <4> QED
                BY <1>13, <4>1, <4>2, <4>3
        <3>2. ((2 * h - 1) * e) * d = 2 * hde - de
            BY <1>13
        <3>3. hde <= ne
            <4>1. (n - h * d) * e \in Nat
                <5>1. n - h * d \in Nat
                    BY <1>11
                <5> QED
                    BY <5>1
            <4>2. (n - h * d) * e = ne - hde
                BY <1>13
            <4> QED
                BY <1>13, <4>1, <4>2
        <3> QED
            BY <1>13, <3>1, <3>2, <3>3
    <2>4. num <= nx + ne
        BY <1>13, <2>2, <2>3
    <2>5. Magnitude[i1 + 1] * Magnitude[q] = (x + e) * n
        BY <1>4, <1>11, <2>1
    <2> QED
        BY <1>10, <1>14, <2>1, <2>4, <2>5
<1> QED
    BY <1>15, <1>16

\* Rounding keeps the order of the integers.
LEMMA RandomConverted ==
    ASSUME NEW rand \in 0..RandMax
    PROVE  \E z \in Floats, y \in Floats :
              /\ z = ToFloat(MkInt(rand)) /\ y = ToFloat(MkInt(RandMax))
              /\ IsFinite(z) /\ IsFinite(y) /\ z.neg = FALSE /\ y.neg = FALSE /\ y.i # 0
              /\ Units(z) \in Nat /\ Units(y) \in Nat /\ Units(z) <= Units(y)
<1>1. PICK w \in Nat \ {0} : w = UnitsPerOne
    BY Format
<1>2. RandMax \in IntMin..IntMax /\ rand \in IntMin..IntMax /\ RandMax \in Nat /\ rand \in Nat
      /\ 1 <= RandMax /\ rand <= RandMax
    <2>1. IntMin \in Int /\ IntMax \in Int /\ 1 <= IntMax /\ IntMin <= 0
        BY SmallInts, Format
    <2> QED
        BY <2>1 DEF RandMax
<1>3. PICK a, b : a = MkInt(rand) /\ b = MkInt(RandMax)
    OBVIOUS
<1>4. a \in Values /\ b \in Values /\ IsInt(a) /\ IsInt(b) /\ a.n = rand /\ b.n = RandMax
      /\ IsNumber(a) /\ IsNumber(b)
    BY <1>2, <1>3, IntIs
<1>5. PICK z, y : z = ToFloat(a) /\ y = ToFloat(b)
    OBVIOUS
<1>6. PICK u \in Nat, v \in Nat : u = rand * w /\ v = RandMax * w
    BY <1>2
<1>7. Units(a) = u /\ Units(b) = v /\ IsFinite(a) /\ IsFinite(b)
    <2>1. Units(a) = u /\ Units(b) = v
        BY <1>1, <1>4, <1>6, IntUnits
    <2>2. ~IsFloat(a) /\ ~IsFloat(b)
        BY <1>4, ValueIs
    <2> QED
        BY <1>4, <2>1, <2>2 DEF IsFinite, IsNaN, IsInf
<1>8. /\ z \in Floats /\ IsFinite(z) /\ RoundsTo(z, u, 1) /\ (z.neg <=> rand < 0)
      /\ y \in Floats /\ IsFinite(y) /\ RoundsTo(y, v, 1) /\ (y.neg <=> RandMax < 0)
    BY <1>4, <1>5, <1>7, Converted
<1>9. z.neg = FALSE /\ y.neg = FALSE
    <2>1. z.neg \in BOOLEAN /\ y.neg \in BOOLEAN
        BY <1>8, FloatIs
    <2>2. ~(rand < 0) /\ ~(RandMax < 0)
        BY <1>2
    <2> QED
        BY <1>8, <2>1, <2>2
<1>10. PICK f \in Int, r \in Int : f = Units(z) /\ r = Units(y) /\ f >= 0 /\ r >= 0
    BY <1>8, <1>9, FiniteFloat
<1>11. f * 1 = f /\ r * 1 = r
    OBVIOUS
<1>12. /\ u <= r => f <= r
       /\ f <= v => f <= r
       /\ Abs(f - u) <= Abs(r - u) /\ Abs(r - v) <= Abs(f - v)
    BY <1>8, <1>10, <1>11, FiniteIsNumber DEF RoundsTo
<1>13. u <= v /\ (u = v => rand = RandMax)
    <2>1. (RandMax - rand) * w \in Nat /\ (RandMax - rand # 0 => (RandMax - rand) * w >= 1)
        BY <1>2
    <2>2. (RandMax - rand) * w = v - u
        BY <1>2, <1>6
    <2> QED
        BY <1>2, <1>6, <2>1, <2>2
<1>14. rand = RandMax => f = r
    BY <1>3, <1>5, <1>10
<1>15. f <= r
    <2>1. SUFFICES ASSUME r < f PROVE FALSE
        BY <1>10
    <2>2. r < u /\ v < f
        BY <1>6, <1>10, <1>12, <2>1
    <2>3. u = v
        BY <1>6, <1>10, <1>12, <1>13, <2>1, <2>2 DEF Abs
    <2> QED
        BY <1>10, <1>13, <1>14, <2>1, <2>3
<1>16. y.i # 0
    <2>1. PICK j \in 0..LastFinite : Magnitude[j] = w
        BY <1>1, FormatAssumption
    <2>2. PICK g : g = MkFloat(FALSE, j)
        OBVIOUS
    <2>3. j \in 0..LastFinite + 1 /\ FALSE \in BOOLEAN
        BY Format
    <2>4. g \in Floats /\ ~IsNaN(g) /\ Units(g) = w
        BY <2>1, <2>2, <2>3, MkFloatIs
    <2>5. Units(g) * 1 <= v
        <3>1. (RandMax - 1) * w \in Nat /\ (RandMax - 1) * w = v - w
            BY <1>2, <1>6
        <3> QED
            BY <1>6, <2>4, <3>1
    <2>6. w <= r
        BY <1>8, <1>10, <2>4, <2>5 DEF RoundsTo
    <2>7. r # 0
        BY <2>6
    <2> QED
        BY <1>8, <1>10, <2>7, FiniteFloat
<1> QED
    BY <1>3, <1>5, <1>8, <1>9, <1>10, <1>15, <1>16

LEMMA RandomFloatIs ==
    ASSUME NEW rand \in 0..RandMax, NEW x \in Floats, IsFinite(x)
    PROVE  LET f == RandomFloat(rand, x)
           IN  ~IsNaN(f) /\ f.i <= x.i + 1 /\ f.neg = x.neg
<1>1. PICK z \in Floats, y \in Floats :
          /\ z = ToFloat(MkInt(rand)) /\ y = ToFloat(MkInt(RandMax))
          /\ IsFinite(z) /\ IsFinite(y) /\ z.neg = FALSE /\ y.neg = FALSE /\ y.i # 0
          /\ Units(z) \in Nat /\ Units(y) \in Nat /\ Units(z) <= Units(y)
    BY RandomConverted
<1>2. PICK w \in Nat \ {0}, h \in Nat \ {0}, a \in Nat, b \in Nat :
          w = UnitsPerOne /\ h = Hidden /\ a = Units(z) /\ b = Units(y)
    BY <1>1, Format
<1>3. PICK aw \in Nat, bw \in Nat : aw = a * w /\ bw = b * w
    OBVIOUS
<1>4. aw <= bw
    <2>1. (b - a) * w \in Nat
        BY <1>1, <1>2
    <2>2. (b - a) * w = bw - aw
        BY <1>3
    <2> QED
        BY <2>1, <2>2
<1>5. LastFinite \in Nat /\ x.neg \in BOOLEAN /\ ~IsNaN(x) /\ ~IsInf(x) /\ x.i \in 0..LastFinite
    BY Format, FiniteFloat, FloatUnits
<1>6. PICK q, f : q = FloatQuotient(y, x) /\ f = FloatQuotient(z, q)
    OBVIOUS
<1>7. ~IsNaN(y) /\ ~IsInf(y) /\ ~IsNaN(z) /\ ~IsInf(z)
    BY <1>1, FiniteFloat
<1>8. (FALSE # x.neg) = x.neg
    BY <1>5
<1>9. PICK j \in 0..LastFinite + 1 :
          /\ q = MkFloat(x.neg, j) /\ j # 0
          /\ j <= LastFinite => x.i \in 1..LastFinite /\ bw <= Magnitude[x.i + 1] * Magnitude[j]
    <2>1. CASE x.i = 0
        <3>1. q = MkFloat(x.neg, LastFinite + 1)
            BY <1>1, <1>5, <1>6, <1>7, <1>8, <2>1 DEF FloatQuotient
        <3>2. LastFinite + 1 \in 0..LastFinite + 1 /\ LastFinite + 1 # 0 /\ ~(LastFinite + 1 <= LastFinite)
            BY <1>5
        <3> QED
            BY <3>1, <3>2
    <2>2. CASE x.i # 0
        <3>1. q = Rounded(x.neg, Units(y) * UnitsPerOne, Abs(Units(x)))
            BY <1>1, <1>5, <1>6, <1>7, <1>8, <2>2 DEF FloatQuotient
        <3>2. PICK m \in Nat : m = Magnitude[x.i] /\ Abs(Units(x)) = m
            <4>1. Magnitude[x.i] \in Nat /\ Units(x) = IF x.neg THEN -Magnitude[x.i] ELSE Magnitude[x.i]
                BY <1>5, FloatUnits
            <4> QED
                BY <4>1 DEF Abs
        <3>3. Abs(bw) = bw
            BY DEF Abs
        <3>4. PICK j : j = NearestBy(Signs(bw, m))
            OBVIOUS
        <3>5. q = MkFloat(x.neg, j)
            BY <1>2, <1>3, <3>1, <3>2, <3>3, <3>4 DEF Rounded, Signs
        <3>6. x.i \in 1..LastFinite /\ x.i \in 0..LastFinite + 1 /\ LastFinite \in 0..LastFinite + 1
              /\ 0 \in 0..LastFinite + 1
            BY <1>5, <2>2
        <3>7. m \in Nat \ {0} /\ m <= Magnitude[LastFinite] /\ Magnitude[LastFinite] \in Nat
            <4>1. Magnitude[0] = 0 /\ Magnitude[0] < Magnitude[x.i] /\ Magnitude[x.i] <= Magnitude[LastFinite]
                  /\ Magnitude[LastFinite] \in Nat
                BY <3>6, MagnitudesIncrease, MagnitudeGrows
            <4> QED
                BY <3>2, <4>1
        <3>8. j \in 0..LastFinite + 1
            BY <3>4, <3>7, Nearest DEF IsNearest
        <3>9. bw >= h * m
            <4>1. PICK g \in Nat : g = Magnitude[LastFinite]
                BY <3>7
            <4>2. bw >= h * g
                BY <1>1, <1>2, <1>3, <4>1, RandomAssumption
            <4>3. h * (g - m) \in Nat /\ h * (g - m) = h * g - h * m /\ h * g \in Nat /\ h * m \in Nat
                <5>1. g - m \in Nat
                    BY <3>7, <4>1
                <5> QED
                    BY <5>1
            <4> QED
                BY <4>2, <4>3
        <3>10. PICK k \in 1..LastFinite : k = x.i
            BY <3>6
        <3>11. j <= LastFinite => j \in 1..LastFinite /\ bw <= Magnitude[k + 1] * Magnitude[j]
            BY <1>2, <3>2, <3>4, <3>9, <3>10, QuotientBound
        <3>12. j # 0
            BY <1>5, <3>11
        <3> QED
            BY <3>5, <3>6, <3>8, <3>10, <3>11, <3>12
    <2> QED
        BY <2>1, <2>2
<1>10. q \in Floats /\ ~IsNaN(q) /\ q.neg = x.neg /\ q.i = j
       /\ Units(q) = IF x.neg THEN -Magnitude[j] ELSE Magnitude[j]
    BY <1>5, <1>9, MkFloatIs
<1>11. \E r \in 0..LastFinite + 1 : f = MkFloat(x.neg, r) /\ r <= x.i + 1
    <2>1. CASE j = LastFinite + 1
        <3>1. IsInf(q)
            BY <1>10, <2>1, FloatIs DEF IsInf
        <3>2. f = MkFloat(x.neg, 0)
            BY <1>1, <1>6, <1>7, <1>8, <1>9, <1>10, <3>1 DEF FloatQuotient
        <3>3. 0 \in 0..LastFinite + 1 /\ 0 <= x.i + 1
            BY <1>5
        <3> QED
            BY <3>2, <3>3
    <2>2. CASE j # LastFinite + 1
        <3>1. j <= LastFinite
            BY <1>5, <1>9, <2>2
        <3>2. ~IsInf(q)
            BY <1>10, <2>2 DEF IsInf
        <3>3. f = Rounded(x.neg, Units(z) * UnitsPerOne, Abs(Units(q)))
            BY <1>1, <1>6, <1>7, <1>8, <1>9, <1>10, <3>2 DEF FloatQuotient
        <3>4. PICK n \in Nat \ {0} : n = Magnitude[j]
            <4>1. 0 \in 0..LastFinite + 1 /\ 0 < j
                BY <1>5, <1>9
            <4>2. Magnitude[0] = 0 /\ Magnitude[0] < Magnitude[j] /\ Magnitude[j] \in Nat
                BY <1>9, <4>1, MagnitudesIncrease, MagnitudeGrows
            <4> QED
                BY <4>2
        <3>5. Abs(Units(q)) = n /\ Abs(aw) = aw
            BY <1>10, <3>4 DEF Abs
        <3>6. PICK r : r = NearestBy(Signs(aw, n))
            OBVIOUS
        <3>7. f = MkFloat(x.neg, r)
            BY <1>2, <1>3, <3>3, <3>5, <3>6 DEF Rounded, Signs
        <3>8. IsNearest(r, aw, n)
            BY <3>6, Nearest
        <3>9. x.i + 1 \in 0..LastFinite + 1
            BY <1>5
        <3>10. PICK p \in Nat : p = Magnitude[x.i + 1]
            BY <3>9, MagnitudeGrows
        <3>11. aw <= p * n
            <4>1. bw <= p * n /\ p * n \in Nat
                BY <1>9, <3>1, <3>4, <3>10
            <4> QED
                BY <1>4, <4>1
        <3>12. r <= x.i + 1 /\ r \in 0..LastFinite + 1
            BY <3>8, <3>9, <3>10, <3>11 DEF IsNearest
        <3> QED
            BY <3>7, <3>12
    <2> QED
        BY <2>1, <2>2
<1>12. ~IsNaN(f) /\ f.i <= x.i + 1 /\ f.neg = x.neg
    BY <1>5, <1>11, MkFloatIs
<1> QED
    BY <1>1, <1>6, <1>12 DEF RandomFloat

LEMMA RandomIs ==
    ASSUME Typed, FunctionInv
    PROVE  RandomWithinBound
<1>1. SUFFICES ASSUME Answered, op = "RANDOM", NEW v, v = args[1]
               PROVE  IF IsInt(v) THEN out.v.n \in 0..Abs(v.n) - 1
                      ELSE IsFinite(v) => /\ ~IsNaN(out.v)
                                          /\ out.v.i <= v.i + 1
                                          /\ out.v.neg = v.neg
    BY DEF RandomWithinBound
<1>2. v \in Values
    BY <1>1, OneArgument DEF Functions
<1>3. PICK rand \in 0..RandMax :
          IF IsInt(v) THEN v.n # 0 /\ out.v = MkInt(Remainder(rand, v.n))
          ELSE IsFloat(v) /\ out.v = RandomFloat(rand, v)
    BY <1>1 DEF FunctionInv, Functions, Answered
<1>4. CASE IsInt(v)
    <2>1. v.n \in Int /\ v.n # 0
        BY <1>2, <1>3, <1>4, IntUnits
    <2>2. PICK d \in Nat \ {0} : d = Abs(v.n)
        BY <2>1 DEF Abs
    <2>3. rand \in Int
        BY Format DEF RandMax
    <2>4. rand % d \in 0..d - 1
        BY <2>3, Division
    <2>5. out.v.n = rand % d
        BY <1>3, <1>4, <2>2 DEF Remainder, MkInt
    <2> QED
        BY <1>4, <2>2, <2>4, <2>5
<1>5. CASE ~IsInt(v)
    <2>1. v \in Floats /\ out.v = RandomFloat(rand, v)
        BY <1>2, <1>3, <1>5, ValueIs
    <2> QED
        BY <1>5, <2>1, RandomFloatIs
<1> QED
    BY <1>4, <1>5

(* In every format whose random quotients are no subnormal numbers, as     *)
(* those of x86, and whatever the argument: FLOOR is the greatest integer  *)
(* not above it, SQRT inverts multiplication, and RANDOM stays within its  *)
(* bound but for the rounding of its two divisions (mtddata.c, line 719).  *)
THEOREM FunctionsAreExact == Spec => []FunctionsExact
<1>1. ASSUME Typed, FunctionInv PROVE FunctionsExact
    BY <1>1, FloorIs, SquareRootIs, RandomIs DEF FunctionsExact
<1> QED
    BY <1>1, TypedInvariant, FunctionInvariant, PTL

=============================================================================
