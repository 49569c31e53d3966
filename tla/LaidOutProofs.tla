---------------------------- MODULE LaidOutProofs ----------------------------
(* What is proved of what a chart lays out by rounding, extending and morphing *)
(* (LaidOutTrue), for every value of the constants: the ticks of TimeAxis, the *)
(* shape of SeriesShape, and the labels of LiveChart.  ChartProofs draws the   *)
(* conclusion for the console.                                                 *)
EXTENDS TimeAxis, SeriesShape, LiveChart, FiniteSetTheorems, SequenceTheorems, WellFoundedInduction, TLAPS

-----------------------------------------------------------------------------
(* Numbers and sequences.                                                      *)

LEMMA LeastNat ==
  ASSUME NEW T, T \subseteq Nat, T # {}
  PROVE  \E x \in T : \A y \in T : x <= y
<1> DEFINE R == OpToRel(<, Nat)
<1>1. IsWellFoundedOn(R, Nat)
  BY NatLessThanWellFounded
<1>2. PICK x \in T : \A y \in T : <<y, x>> \notin R
  <2> HIDE DEF R
  <2> QED BY <1>1, WFMin
<1>3. ASSUME NEW y \in T, y < x PROVE FALSE
  <2>1. <<y, x>> \in R
    BY <1>3 DEF OpToRel
  <2> QED BY <1>2, <2>1
<1> HIDE DEF R
<1> QED BY <1>3

\* What holds of 0, and of the next number with each, holds of all.
LEMMA NatInduct ==
  ASSUME NEW T, 0 \in T, \A n \in Nat : n \in T => n + 1 \in T
  PROVE  Nat \subseteq T
<1> SUFFICES ASSUME Nat \ T # {}
             PROVE  FALSE
  OBVIOUS
<1>1. PICK x \in Nat \ T : \A y \in Nat \ T : x <= y
  BY LeastNat
<1>2. x - 1 \in Nat /\ x - 1 \in T
  BY <1>1
<1> QED BY <1>2

LEMMA FcnSeq ==
  ASSUME NEW S, NEW n \in Nat, NEW f \in [1..n -> S]
  PROVE  f \in Seq(S) /\ Len(f) = n
<1>1. f \in Seq(S)
  BY SeqDef
<1>2. DOMAIN f = 1..n
  OBVIOUS
<1> QED BY <1>1, <1>2, LenProperties

LEMMA GreatestOf ==
  ASSUME NEW n \in Nat, n >= 1, NEW f, \A j \in 1..n : f[j] \in Int
  PROVE  \E i \in 1..n : \A j \in 1..n : f[j] <= f[i]
<1> DEFINE T == {m \in Nat : \E i \in 1..n : \A j \in 1..n : j <= m + 1 => f[j] <= f[i]}
<1>1. 0 \in T
  <2>1. 1 \in 1..n /\ \A j \in 1..n : j <= 0 + 1 => f[j] <= f[1]
    OBVIOUS
  <2> QED BY <2>1
<1>2. ASSUME NEW m \in Nat, m \in T
      PROVE  m + 1 \in T
  <2>1. PICK i \in 1..n : \A j \in 1..n : j <= m + 1 => f[j] <= f[i]
    BY <1>2
  <2>2. CASE m + 2 \in 1..n /\ f[m + 2] > f[i]
    <3>1. \A j \in 1..n : j <= m + 2 => f[j] <= f[m + 2]
      BY <2>1, <2>2
    <3>2. \E k \in 1..n : \A j \in 1..n : j <= m + 1 + 1 => f[j] <= f[k]
      BY <2>2, <3>1
    <3> QED BY <3>2
  <2>3. CASE ~(m + 2 \in 1..n /\ f[m + 2] > f[i])
    <3>1. \A j \in 1..n : j <= m + 1 + 1 => f[j] <= f[i]
      BY <2>1, <2>3
    <3>2. \E k \in 1..n : \A j \in 1..n : j <= m + 1 + 1 => f[j] <= f[k]
      BY <3>1
    <3> QED BY <3>2
  <2> QED BY <2>2, <2>3
<1>3. n \in T
  <2> HIDE DEF T
  <2> QED BY <1>1, <1>2, NatInduct
<1> QED BY <1>3

LEMMA LeastOf ==
  ASSUME NEW n \in Nat, n >= 1, NEW f, \A j \in 1..n : f[j] \in Int
  PROVE  \E i \in 1..n : \A j \in 1..n : f[i] <= f[j]
<1> DEFINE g == [j \in 1..n |-> -f[j]]
<1>1. \A j \in 1..n : g[j] = -f[j] /\ g[j] \in Int
  OBVIOUS
<1> HIDE DEF g
<1>2. PICK i \in 1..n : \A j \in 1..n : g[j] <= g[i]
  BY <1>1, GreatestOf
<1>3. \A j \in 1..n : f[i] <= f[j]
  BY <1>1, <1>2
<1> QED BY <1>3

LEMMA GreatestIn ==
  ASSUME NEW n \in Int, NEW T, T \subseteq Int, T # {}, \A y \in T : y <= n
  PROVE  \E x \in T : \A y \in T : y <= x
<1> DEFINE S == {m \in Nat : n - m \in T}
<1>1. S # {}
  <2>1. PICK y \in T : TRUE
    OBVIOUS
  <2>2. n - y \in Nat /\ n - (n - y) = y
    OBVIOUS
  <2> QED BY <2>1, <2>2
<1>2. PICK m \in S : \A k \in S : m <= k
  BY <1>1, LeastNat
<1>3. ASSUME NEW y \in T PROVE y <= n - m
  <2>1. n - y \in S
    OBVIOUS
  <2>2. m <= n - y
    BY <1>2, <2>1
  <2> QED BY <2>2
<1>4. n - m \in T
  OBVIOUS
<1> QED BY <1>3, <1>4

LEMMA MaxIs ==
  ASSUME NEW S, S \subseteq Int, NEW x \in S, \A y \in S : y <= x
  PROVE  Max(S) = x
<1>1. \A y \in S : x >= y
  OBVIOUS
<1>2. Max(S) \in S /\ Max(S) >= x
  BY <1>1 DEF Max
<1>3. Max(S) \in Int /\ x \in Int /\ Max(S) <= x
  BY <1>2
<1> QED BY <1>2, <1>3

LEMMA MinIs ==
  ASSUME NEW S, S \subseteq Int, NEW x \in S, \A y \in S : x <= y
  PROVE  Min(S) = x
<1>1. Min(S) \in S /\ Min(S) <= x
  BY DEF Min
<1>2. Min(S) \in Int /\ x \in Int /\ x <= Min(S)
  BY <1>1
<1> QED BY <1>1, <1>2

LEMMA MaxOfTwo ==
  ASSUME NEW a \in Int, NEW b \in Int
  PROVE  Max({a, b}) = IF a < b THEN b ELSE a
<1>1. CASE a < b
  <2>1. {a, b} \subseteq Int /\ b \in {a, b} /\ \A y \in {a, b} : y <= b
    BY <1>1
  <2> QED BY <1>1, <2>1, MaxIs
<1>2. CASE ~(a < b)
  <2>1. {a, b} \subseteq Int /\ a \in {a, b} /\ \A y \in {a, b} : y <= a
    BY <1>2
  <2> QED BY <1>2, <2>1, MaxIs
<1> QED BY <1>1, <1>2

LEMMA MinOfTwo ==
  ASSUME NEW a \in Int, NEW b \in Int
  PROVE  Min({a, b}) = IF a < b THEN a ELSE b
<1>1. CASE a < b
  <2>1. {a, b} \subseteq Int /\ a \in {a, b} /\ \A y \in {a, b} : a <= y
    BY <1>1
  <2> QED BY <1>1, <2>1, MinIs
<1>2. CASE ~(a < b)
  <2>1. {a, b} \subseteq Int /\ b \in {a, b} /\ \A y \in {a, b} : b <= y
    BY <1>2
  <2> QED BY <1>2, <2>1, MinIs
<1> QED BY <1>1, <1>2

LEMMA ProductsInOrder ==
  ASSUME NEW a \in Int, NEW b \in Int, NEW c \in Nat, a <= b
  PROVE  a * c <= b * c /\ c * a <= c * b
<1>1. (b - a) * c >= 0
  <2> DEFINE d == b - a
  <2>1. d \in Nat
    OBVIOUS
  <2> HIDE DEF d
  <2>2. d * c >= 0
    BY <2>1
  <2> QED BY <2>2 DEF d
<1> QED BY <1>1

LEMMA Quotient ==
  ASSUME NEW a \in Int, NEW b \in Nat \ {0}
  PROVE  a \div b \in Int /\ b * (a \div b) <= a /\ a < b * (a \div b) + b
  OBVIOUS

LEMMA QuotientIs ==
  ASSUME NEW a \in Int, NEW b \in Nat \ {0}, NEW q \in Int, b * q <= a, a < b * q + b
  PROVE  a \div b = q
<1> DEFINE p == a \div b
<1>1. p \in Int /\ b * p <= a /\ a < b * p + b
  BY Quotient
<1> HIDE DEF p
<1>2. CASE p >= q + 1
  <2>1. b * (q + 1) <= b * p /\ b * (q + 1) = b * q + b
    BY <1>1, <1>2, ProductsInOrder
  <2> DEFINE x == b * p  y == b * q
  <2>2. x \in Int /\ y \in Int /\ y + b <= x /\ x <= a /\ a < y + b
    BY <1>1, <2>1
  <2> HIDE DEF x, y
  <2> QED BY <2>2
<1>3. CASE q >= p + 1
  <2>1. b * (p + 1) <= b * q /\ b * (p + 1) = b * p + b
    BY <1>1, <1>3, ProductsInOrder
  <2> DEFINE x == b * p  y == b * q
  <2>2. x \in Int /\ y \in Int /\ x + b <= y /\ y <= a /\ a < x + b
    BY <1>1, <2>1
  <2> HIDE DEF x, y
  <2> QED BY <2>2
<1> QED BY <1>1, <1>2, <1>3 DEF p


-----------------------------------------------------------------------------
(* Euclid's algorithm is defined, as every step leaves a smaller second number, *)
(* and divides both numbers.                                                   *)

Euclid(f, k) ==
    /\ f \in [0..k -> [Nat -> Nat]]
    /\ \A b \in 0..k, a \in Nat : f[b][a] = IF b = 0 THEN a ELSE f[a % b][b]

LEMMA Remainder ==
  ASSUME NEW a \in Nat, NEW b \in Nat, b # 0
  PROVE  a % b \in 0..(b - 1)
OBVIOUS

LEMMA EuclidTo ==
  ASSUME NEW k \in Nat
  PROVE  \E f : Euclid(f, k)
<1> DEFINE T == {n \in Nat : \E f : Euclid(f, n)}
<1>1. 0 \in T
  <2> DEFINE f == [b \in 0..0 |-> [a \in Nat |-> a]]
  <2>1. f \in [0..0 -> [Nat -> Nat]]
    OBVIOUS
  <2>2. \A b \in 0..0, a \in Nat : f[b][a] = a /\ b = 0
    OBVIOUS
  <2> HIDE DEF f
  <2>3. Euclid(f, 0)
    BY <2>1, <2>2 DEF Euclid
  <2> QED BY <2>3
<1>2. ASSUME NEW n \in Nat, n \in T
      PROVE  n + 1 \in T
  <2>1. PICK f : Euclid(f, n)
    BY <1>2
  <2> DEFINE last == [a \in Nat |-> f[a % (n + 1)][n + 1]]
             g == [b \in 0..(n + 1) |-> IF b <= n THEN f[b] ELSE last]
  <2>2. \A a \in Nat, b \in 1..(n + 1) : a % b \in 0..n /\ b \in Nat
    BY Remainder
  <2>3. \A b \in 0..n : f[b] \in [Nat -> Nat]
    BY <2>1 DEF Euclid
  <2>4. last \in [Nat -> Nat] /\ \A a \in Nat : last[a] = f[a % (n + 1)][n + 1]
    <3> SUFFICES ASSUME NEW a \in Nat
                 PROVE  f[a % (n + 1)][n + 1] \in Nat
      OBVIOUS
    <3>1. a % (n + 1) \in 0..n /\ n + 1 \in Nat
      BY <2>2
    <3> QED BY <2>3, <3>1
  <2> HIDE DEF last
  <2>5. /\ g \in [0..(n + 1) -> [Nat -> Nat]]
        /\ \A b \in 0..n : g[b] = f[b]
        /\ g[n + 1] = last
    <3>1. \A b \in 0..(n + 1) : b \in 0..n \/ (b = n + 1 /\ ~(b <= n))
      OBVIOUS
    <3>2. \A b \in 0..(n + 1) : (IF b <= n THEN f[b] ELSE last) \in [Nat -> Nat]
      BY <2>3, <2>4, <3>1
    <3>3. g \in [0..(n + 1) -> [Nat -> Nat]]
      BY <3>2
    <3>4. ASSUME NEW b \in 0..n PROVE g[b] = f[b]
      <4>1. b \in 0..(n + 1) /\ b <= n
        OBVIOUS
      <4> QED BY <4>1
    <3>5. g[n + 1] = last
      <4>1. n + 1 \in 0..(n + 1) /\ ~(n + 1 <= n)
        OBVIOUS
      <4> QED BY <4>1
    <3> HIDE DEF g
    <3> QED BY <3>3, <3>4, <3>5
  <2> HIDE DEF g
  <2>6. ASSUME NEW b \in 0..(n + 1), NEW a \in Nat
        PROVE  g[b][a] = IF b = 0 THEN a ELSE g[a % b][b]
    <3>1. CASE b = 0
      <4>1. b \in 0..n /\ f[b][a] = a
        <5>1. b \in 0..n
          BY <3>1
        <5> QED BY <2>1, <3>1, <5>1 DEF Euclid
      <4> QED BY <2>5, <3>1, <4>1
    <3>2. CASE b # 0
      <4>1. a % b \in 0..n /\ b \in Nat
        BY <2>2, <3>2
      <4>2. g[a % b] = f[a % b]
        BY <2>5, <4>1
      <4>3. CASE b <= n
        <5>1. b \in 0..n
          BY <4>3
        <5>2. g[b] = f[b]
          BY <2>5, <5>1
        <5> QED BY <2>1, <3>2, <4>2, <5>1, <5>2 DEF Euclid
      <4>4. CASE b = n + 1
        BY <2>4, <2>5, <3>2, <4>2, <4>4
      <4> QED BY <4>3, <4>4
    <3> QED BY <3>1, <3>2
  <2>7. Euclid(g, n + 1)
    BY <2>5, <2>6 DEF Euclid
  <2> QED BY <2>7
<1> HIDE DEF T
<1>3. Nat \subseteq T
  BY <1>1, <1>2, NatInduct
<1> QED BY <1>3 DEF T

LEMMA EuclidAgrees ==
  ASSUME NEW k \in Nat, NEW m \in Nat, NEW f, NEW g, Euclid(f, k), Euclid(g, m),
         NEW a \in Nat, NEW b \in 0..k, b <= m
  PROVE  f[b][a] = g[b][a]
<1> DEFINE T == {n \in Nat : \A y \in 0..n, x \in Nat : y <= k /\ y <= m => f[y][x] = g[y][x]}
<1>1. 0 \in T
  <2> SUFFICES ASSUME NEW y \in 0..0, NEW x \in Nat
               PROVE  f[y][x] = g[y][x]
    OBVIOUS
  <2>1. y = 0 /\ y \in 0..k /\ y \in 0..m
    OBVIOUS
  <2> QED BY <2>1 DEF Euclid
<1>2. ASSUME NEW n \in Nat, n \in T
      PROVE  n + 1 \in T
  <2> SUFFICES ASSUME NEW y \in 0..(n + 1), NEW x \in Nat, y <= k, y <= m
               PROVE  f[y][x] = g[y][x]
    OBVIOUS
  <2>1. y \in 0..k /\ y \in 0..m /\ y \in Nat
    OBVIOUS
  <2>2. CASE y = 0
    BY <2>1, <2>2 DEF Euclid
  <2>3. CASE y # 0
    <3>1. x % y \in 0..(y - 1)
      BY <2>1, <2>3, Remainder
    <3>2. x % y \in 0..n /\ x % y <= k /\ x % y <= m
      BY <3>1
    <3>3. f[x % y][y] = g[x % y][y]
      BY <1>2, <2>1, <3>2
    <3> QED BY <2>1, <2>3, <3>3 DEF Euclid
  <2> QED BY <2>2, <2>3
<1> HIDE DEF T
<1>3. b \in T
  BY <1>1, <1>2, NatInduct
<1>4. b \in 0..b
  OBVIOUS
<1> QED BY <1>3, <1>4 DEF T

LEMMA GcdIs ==
  ASSUME NEW b \in Nat, NEW a \in Nat
  PROVE  /\ Gcd[b][a] \in Nat
         /\ Gcd[b][a] = IF b = 0 THEN a ELSE Gcd[a % b][b]
<1> DEFINE of(y) == CHOOSE f : Euclid(f, y)
           F == [y \in Nat |-> of(y)[y]]
<1>1. ASSUME NEW y \in Nat
      PROVE  Euclid(of(y), y)
  BY EuclidTo
<1> HIDE DEF of
<1>2. ASSUME NEW y \in Nat
      PROVE  F[y] = of(y)[y] /\ F[y] \in [Nat -> Nat]
  <2>1. y \in 0..y
    OBVIOUS
  <2> QED BY <1>1, <2>1 DEF Euclid
<1>3. F \in [Nat -> [Nat -> Nat]]
  BY <1>2
<1> HIDE DEF F
<1>4. ASSUME NEW y \in Nat, NEW x \in Nat
      PROVE  F[y][x] = IF y = 0 THEN x ELSE F[x % y][y]
  <2>1. y \in 0..y
    OBVIOUS
  <2>2. CASE y = 0
    <3>1. of(0)[0][x] = x /\ F[0] = of(0)[0]
      <4>1. 0 \in 0..0 /\ 0 \in Nat
        OBVIOUS
      <4>2. Euclid(of(0), 0)
        BY <1>1, <4>1
      <4> QED BY <1>2, <4>1, <4>2 DEF Euclid
    <3> QED BY <2>2, <3>1
  <2>3. CASE y # 0
    <3>1. x % y \in 0..(y - 1)
      BY <2>3, Remainder
    <3>2. x % y \in Nat /\ x % y \in 0..y /\ x % y \in 0..(x % y) /\ x % y <= y
      BY <3>1
    <3>3. of(x % y)[x % y][y] = of(y)[x % y][y]
      BY <1>1, <3>2, EuclidAgrees
    <3>4. of(y)[y][x] = of(y)[x % y][y]
      BY <1>1, <2>1, <2>3 DEF Euclid
    <3> QED BY <1>2, <2>3, <3>2, <3>3, <3>4
  <2> QED BY <2>2, <2>3
<1>5. F = [y \in Nat |-> [x \in Nat |-> IF y = 0 THEN x ELSE F[x % y][y]]]
  <2>1. ASSUME NEW y \in Nat
        PROVE  F[y] = [x \in Nat |-> IF y = 0 THEN x ELSE F[x % y][y]]
    BY <1>3, <1>4
  <2> QED BY <1>3, <2>1
<1>6. Gcd = [y \in Nat |-> [x \in Nat |-> IF y = 0 THEN x ELSE Gcd[x % y][y]]]
  <2> DEFINE next(g) == [y \in Nat |-> [x \in Nat |-> IF y = 0 THEN x ELSE g[x % y][y]]]
  <2>1. F = next(F)
    BY <1>5
  <2>2. Gcd = CHOOSE g : g = next(g)
    BY DEF Gcd
  <2> HIDE DEF next
  <2>3. Gcd = next(Gcd)
    BY <2>1, <2>2
  <2> QED BY <2>3 DEF next
<1> DEFINE T == {n \in Nat : \A y \in 0..n, x \in Nat : Gcd[y][x] = F[y][x]}
<1>7. ASSUME NEW y \in Nat, NEW x \in Nat
      PROVE  Gcd[y][x] = IF y = 0 THEN x ELSE Gcd[x % y][y]
  <2> DEFINE inner(z) == [w \in Nat |-> IF z = 0 THEN w ELSE Gcd[w % z][z]]
  <2>1. Gcd[y] = inner(y)
    BY <1>6
  <2> QED BY <2>1
<1>8. 0 \in T
  <2>1. \A y \in 0..0 : y = 0 /\ y \in Nat
    OBVIOUS
  <2> QED BY <1>4, <1>7, <2>1
<1>9. ASSUME NEW n \in Nat, n \in T
      PROVE  n + 1 \in T
  <2> SUFFICES ASSUME NEW y \in 0..(n + 1), NEW x \in Nat
               PROVE  Gcd[y][x] = F[y][x]
    OBVIOUS
  <2>1. y \in Nat
    OBVIOUS
  <2>2. CASE y = 0
    BY <1>4, <1>7, <2>1, <2>2
  <2>3. CASE y # 0
    <3>1. x % y \in 0..(y - 1)
      BY <2>1, <2>3, Remainder
    <3>2. x % y \in 0..n
      BY <3>1
    <3>3. Gcd[x % y][y] = F[x % y][y]
      BY <1>9, <2>1, <3>2
    <3> QED BY <1>4, <1>7, <2>1, <2>3, <3>3
  <2> QED BY <2>2, <2>3
<1> HIDE DEF T
<1>10. b \in T
  BY <1>8, <1>9, NatInduct
<1>11. Gcd[b][a] = F[b][a]
  <2>1. b \in 0..b
    OBVIOUS
  <2> QED BY <1>10, <2>1 DEF T
<1> QED BY <1>3, <1>7, <1>11

\* What it returns divides both, and reduces a fraction without changing its value.
LEMMA GcdDivides ==
  ASSUME NEW b \in Nat, NEW a \in Nat, a + b > 0
  PROVE  /\ Gcd[b][a] \in Nat \ {0}
         /\ \E q \in Nat : a = q * Gcd[b][a]
         /\ \E q \in Nat : b = q * Gcd[b][a]
<1> DEFINE T == {n \in Nat : \A y \in 0..n, x \in Nat : x + y > 0 =>
                    /\ Gcd[y][x] \in Nat \ {0}
                    /\ \E q \in Nat : x = q * Gcd[y][x]
                    /\ \E q \in Nat : y = q * Gcd[y][x]}
<1>1. 0 \in T
  <2> SUFFICES ASSUME NEW y \in 0..0, NEW x \in Nat, x + y > 0
               PROVE  /\ Gcd[y][x] \in Nat \ {0}
                      /\ \E q \in Nat : x = q * Gcd[y][x]
                      /\ \E q \in Nat : y = q * Gcd[y][x]
    OBVIOUS
  <2>1. y = 0 /\ y \in Nat
    OBVIOUS
  <2>2. Gcd[y][x] = x
    BY <2>1, GcdIs
  <2>3. x = 1 * x /\ y = 0 * x /\ x \in Nat \ {0}
    BY <2>1
  <2> QED BY <2>2, <2>3
<1>2. ASSUME NEW n \in Nat, n \in T
      PROVE  n + 1 \in T
  <2> SUFFICES ASSUME NEW y \in 0..(n + 1), NEW x \in Nat, x + y > 0
               PROVE  /\ Gcd[y][x] \in Nat \ {0}
                      /\ \E q \in Nat : x = q * Gcd[y][x]
                      /\ \E q \in Nat : y = q * Gcd[y][x]
    OBVIOUS
  <2>1. y \in Nat
    OBVIOUS
  <2>2. CASE y = 0
    <3>1. Gcd[y][x] = x
      BY <2>1, <2>2, GcdIs
    <3>2. x = 1 * x /\ y = 0 * x /\ x \in Nat \ {0}
      BY <2>2
    <3> QED BY <3>1, <3>2
  <2>3. CASE y # 0
    <3>1. x % y \in 0..(y - 1)
      BY <2>1, <2>3, Remainder
    <3>2. x % y \in 0..n /\ y + (x % y) > 0
      BY <2>3, <3>1
    <3>3. Gcd[y][x] = Gcd[x % y][y]
      BY <2>1, <2>3, GcdIs
    <3> DEFINE g == Gcd[x % y][y]
    <3>4. /\ g \in Nat \ {0}
          /\ \E q \in Nat : y = q * g
          /\ \E q \in Nat : x % y = q * g
      BY <1>2, <2>1, <3>2
    <3> HIDE DEF g
    <3>5. PICK q \in Nat, r \in Nat : y = q * g /\ x % y = r * g
      BY <3>4
    <3>6. x \div y \in Nat /\ x = y * (x \div y) + (x % y)
      BY <2>1, <2>3
    <3>7. x = (q * (x \div y) + r) * g
      <4> DEFINE d == x \div y
      <4>0. d \in Nat /\ x = y * d + (x % y)
        BY <3>6
      <4>1. d \in Nat /\ x = (q * g) * d + r * g
        <5> HIDE DEF d
        <5> QED BY <3>5, <4>0
      <4> HIDE DEF d
      <4>2. (q * g) * d + r * g = (q * d + r) * g
        BY <3>4, <4>1
      <4> QED BY <4>1, <4>2 DEF d
    <3>8. q * (x \div y) + r \in Nat
      <4>1. ASSUME NEW d \in Nat PROVE q * d + r \in Nat
        <5>1. q * d \in Nat
          OBVIOUS
        <5> QED BY <5>1
      <4> QED BY <3>6, <4>1
    <3>9. \E k \in Nat : x = k * g
      BY <3>7, <3>8
    <3> QED BY <3>3, <3>4, <3>9 DEF g
  <2> QED BY <2>2, <2>3
<1> HIDE DEF T
<1>3. b \in T
  BY <1>1, <1>2, NatInduct
<1>4. b \in 0..b
  OBVIOUS
<1> QED BY <1>3, <1>4 DEF T
-----------------------------------------------------------------------------
(* Fractions.  Each is k over m for many k and m; two are compared, added and   *)
(* multiplied by what they are over a common denominator.                      *)

Fractions == [n : Int, d : Nat \ {0}]
Over(a, k, m) == a.n * m = k * a.d

LEMMA CancelLeq ==
  ASSUME NEW a \in Int, NEW b \in Int, NEW c \in Nat \ {0}, a * c <= b * c
  PROVE  a <= b
<1> SUFFICES ASSUME b + 1 <= a PROVE FALSE
  OBVIOUS
<1>1. (b + 1) * c <= a * c
  BY ProductsInOrder
<1>2. (b + 1) * c = b * c + c
  OBVIOUS
<1> DEFINE x == a * c  y == b * c
<1>3. x \in Int /\ y \in Int /\ y + c <= x /\ x <= y
  BY <1>1, <1>2
<1> HIDE DEF x, y
<1> QED BY <1>3

LEMMA Cancel ==
  ASSUME NEW a \in Int, NEW b \in Int, NEW c \in Nat \ {0}, a * c = b * c
  PROVE  a = b
<1>1. a * c <= b * c /\ b * c <= a * c
  OBVIOUS
<1>2. a <= b /\ b <= a
  BY <1>1, CancelLeq
<1> QED BY <1>2

LEMMA ExactQuotient ==
  ASSUME NEW q \in Int, NEW g \in Nat \ {0}
  PROVE  (q * g) \div g = q
<1> DEFINE a == q * g
<1>1. a \in Int /\ g * q <= a /\ a < g * q + g
  OBVIOUS
<1> HIDE DEF a
<1>2. a \div g = q
  BY <1>1, QuotientIs
<1> QED BY <1>2 DEF a

LEMMA FracIs ==
  ASSUME NEW n \in Int, NEW d \in Int \ {0}
  PROVE  Frac(n, d) \in Fractions /\ Over(Frac(n, d), n, d)
<1> DEFINE size == Magnitude(n)  of == Magnitude(d)
           g == Gcd[of][size]
           num == IF d < 0 THEN -n ELSE n
<1>1. size \in Nat /\ of \in Nat \ {0} /\ size + of > 0 /\ of \in Nat
  BY DEF Magnitude
<1>2. /\ g \in Nat \ {0}
      /\ \E q \in Nat : size = q * g
      /\ \E q \in Nat : of = q * g
  <2> HIDE DEF size, of
  <2> QED BY <1>1, GcdDivides
<1>3. Frac(n, d) = [n |-> num \div g, d |-> of \div g]
  BY DEF Frac
<1> HIDE DEF g
<1>4. PICK r \in Nat, q \in Nat : size = r * g /\ of = q * g
  BY <1>2
<1>5. num = size \/ num = -size
  BY DEF Magnitude
<1>6. PICK s \in Int : num = s * g
  <2> HIDE DEF num, size
  <2>1. (-r) * g = -(r * g) /\ -r \in Int
    BY <1>2, <1>4
  <2> QED BY <1>4, <1>5, <2>1
<1>7. num \div g = s /\ of \div g = q
  BY <1>2, <1>4, <1>6, ExactQuotient
<1>8. q # 0
  <2> SUFFICES ASSUME q = 0 PROVE FALSE
    OBVIOUS
  <2>1. 0 * g = 0
    BY <1>2
  <2> HIDE DEF of
  <2> QED BY <1>1, <1>4, <2>1
<1>9. s * of = num * q
  <2>1. s * (q * g) = (s * g) * q
    BY <1>2, <1>4, <1>6
  <2> HIDE DEF of, num
  <2> QED BY <1>4, <1>6, <2>1
<1>10. s * d = n * q
  <2>1. CASE d < 0
    <3>1. of = -d /\ num = -n
      BY <2>1 DEF Magnitude
    <3>2. s * (-d) = (-n) * q
      BY <1>9, <3>1
    <3> QED BY <1>4, <1>6, <3>2
  <2>2. CASE ~(d < 0)
    <3>1. of = d /\ num = n
      BY <2>2 DEF Magnitude
    <3> QED BY <1>9, <3>1
  <2> QED BY <2>1, <2>2
<1>11. Frac(n, d) = [n |-> s, d |-> q]
  BY <1>3, <1>7
<1> QED BY <1>4, <1>6, <1>8, <1>10, <1>11 DEF Fractions, Over

LEMMA WholeIs ==
  ASSUME NEW k \in Int
  PROVE  Whole(k) \in Fractions /\ \A m \in Int : Over(Whole(k), k * m, m)
<1>1. 1 \in Nat \ {0}
  OBVIOUS
<1> QED BY <1>1 DEF Whole, Fractions, Over

\* Over a common denominator.
LEMMA LeqOver ==
  ASSUME NEW a \in Fractions, NEW b \in Fractions, NEW i \in Int, NEW j \in Int, NEW m \in Nat \ {0},
         Over(a, i, m), Over(b, j, m)
  PROVE  Leq(a, b) <=> i <= j
<1> DEFINE p == a.d  q == b.d  x == a.n * q  y == b.n * p
<1>1. a.n \in Int /\ b.n \in Int /\ p \in Nat \ {0} /\ q \in Nat \ {0}
  BY DEF Fractions
<1>2. a.n * m = i * p /\ b.n * m = j * q
  BY DEF Over
<1>3. x \in Int /\ y \in Int /\ p * q \in Nat \ {0}
  BY <1>1
<1>4. x * m = i * (p * q)
  <2>1. x * m = (a.n * m) * q
    BY <1>1
  <2>2. (i * p) * q = i * (p * q)
    BY <1>1
  <2> QED BY <1>2, <2>1, <2>2
<1>5. y * m = j * (p * q)
  <2>1. y * m = (b.n * m) * p
    BY <1>1
  <2>2. (j * q) * p = j * (p * q)
    BY <1>1
  <2> QED BY <1>2, <2>1, <2>2
<1>6. Leq(a, b) <=> x <= y
  BY DEF Leq
<1> HIDE DEF x, y
<1>7. ASSUME i <= j PROVE x <= y
  <2> DEFINE c == p * q
  <2>1. i * c <= j * c
    <3> HIDE DEF c
    <3> QED BY <1>3, <1>7, ProductsInOrder DEF c
  <2>2. x * m <= y * m
    BY <1>4, <1>5, <2>1
  <2> QED BY <1>3, <2>2, CancelLeq
<1>8. ASSUME x <= y PROVE i <= j
  <2> DEFINE c == p * q
  <2>1. x * m <= y * m
    BY <1>3, <1>8, ProductsInOrder
  <2>2. i * c <= j * c
    BY <1>4, <1>5, <2>1
  <2>3. c \in Nat \ {0}
    BY <1>3
  <2> HIDE DEF c
  <2> QED BY <2>2, <2>3, CancelLeq
<1> QED BY <1>6, <1>7, <1>8

LEMMA OverMore ==
  ASSUME NEW a \in Fractions, NEW k \in Int, NEW m \in Int, NEW c \in Int, Over(a, k, m)
  PROVE  Over(a, k * c, m * c)
<1>1. a.n \in Int /\ a.d \in Int /\ a.n * m = k * a.d
  BY DEF Fractions, Over
<1>2. a.n * (m * c) = (a.n * m) * c /\ (k * a.d) * c = (k * c) * a.d
  BY <1>1
<1> QED BY <1>1, <1>2 DEF Over

LEMMA OverLess ==
  ASSUME NEW a \in Fractions, NEW k \in Int, NEW m \in Int, NEW c \in Nat \ {0}, Over(a, k * c, m * c)
  PROVE  Over(a, k, m)
<1>1. a.n \in Int /\ a.d \in Int /\ a.n * (m * c) = (k * c) * a.d
  BY DEF Fractions, Over
<1>2. a.n * (m * c) = (a.n * m) * c /\ (k * c) * a.d = (k * a.d) * c
  BY <1>1
<1>3. a.n * m \in Int /\ k * a.d \in Int
  BY <1>1
<1> DEFINE x == a.n * m  y == k * a.d
<1>4. x * c = y * c /\ x \in Int /\ y \in Int
  BY <1>1, <1>2, <1>3
<1> HIDE DEF x, y
<1>5. x = y
  BY <1>4, Cancel
<1> QED BY <1>5 DEF x, y, Over

LEMMA OwnOver ==
  ASSUME NEW a \in Fractions
  PROVE  Over(a, a.n, a.d) /\ a.n \in Int /\ a.d \in Nat \ {0}
BY DEF Over, Fractions
LEMMA OverAlso ==
  ASSUME NEW a \in Fractions, NEW k \in Int, NEW m \in Nat \ {0}, NEW i \in Int, NEW j \in Int,
         Over(a, k, m), k * j = i * m
  PROVE  Over(a, i, j)
<1>1. m \in Int /\ j \in Int
  OBVIOUS
<1>3. Over(a, k * j, m * j)
  BY <1>1, OverMore
<1>2. Over(a, i * m, j * m)
  <2>1. m * j = j * m
    OBVIOUS
  <2> QED BY <1>3, <2>1
<1> QED BY <1>2, OverLess

LEMMA PlusOver ==
  ASSUME NEW a \in Fractions, NEW b \in Fractions, NEW i \in Int, NEW j \in Int, NEW m \in Nat \ {0},
         Over(a, i, m), Over(b, j, m)
  PROVE  Plus(a, b) \in Fractions /\ Over(Plus(a, b), i + j, m)
<1> DEFINE p == a.d  q == b.d  x == a.n  y == b.n
           N == x * q + y * p  D == p * q
<1>1. x \in Int /\ y \in Int /\ p \in Nat \ {0} /\ q \in Nat \ {0}
  BY DEF Fractions
<1>2. x * m = i * p /\ y * m = j * q
  BY DEF Over
<1>3. Plus(a, b) = Frac(N, D)
  BY DEF Plus
<1> HIDE DEF p, q, x, y
<1>4. N \in Int /\ D \in Nat \ {0} /\ D \in Int \ {0}
  BY <1>1
<1>5. N * m = (i + j) * D
  <2>1. N * m = (x * m) * q + (y * m) * p
    BY <1>1
  <2>2. (i * p) * q + (j * q) * p = (i + j) * D
    BY <1>1
  <2> QED BY <1>2, <2>1, <2>2
<1> HIDE DEF N, D
<1>6. Frac(N, D) \in Fractions /\ Over(Frac(N, D), N, D)
  BY <1>4, FracIs
<1>7. i + j \in Int /\ m \in Int
  OBVIOUS
<1>8. Over(Frac(N, D), i + j, m)
  BY <1>4, <1>5, <1>6, <1>7, OverAlso
<1> QED BY <1>3, <1>6, <1>8

LEMMA TimesOver ==
  ASSUME NEW a \in Fractions, NEW b \in Fractions, NEW i \in Int, NEW j \in Int,
         NEW m \in Nat \ {0}, NEW r \in Nat \ {0}, Over(a, i, m), Over(b, j, r)
  PROVE  Times(a, b) \in Fractions /\ Over(Times(a, b), i * j, m * r)
<1> DEFINE p == a.d  q == b.d  x == a.n  y == b.n
           N == x * y  D == p * q
<1>1. x \in Int /\ y \in Int /\ p \in Nat \ {0} /\ q \in Nat \ {0}
  BY DEF Fractions
<1>2. x * m = i * p /\ y * r = j * q
  BY DEF Over
<1>3. Times(a, b) = Frac(N, D)
  BY DEF Times
<1> HIDE DEF p, q, x, y
<1>4. N \in Int /\ D \in Nat \ {0} /\ D \in Int \ {0}
  BY <1>1
<1>5. N * (m * r) = (i * j) * D
  <2>1. N * (m * r) = (x * m) * (y * r)
    BY <1>1
  <2>2. (i * p) * (j * q) = (i * j) * D
    BY <1>1
  <2> QED BY <1>2, <2>1, <2>2
<1> HIDE DEF N, D
<1>6. Frac(N, D) \in Fractions /\ Over(Frac(N, D), N, D)
  BY <1>4, FracIs
<1>7. i * j \in Int /\ m * r \in Int
  OBVIOUS
<1>8. Over(Frac(N, D), i * j, m * r)
  BY <1>4, <1>5, <1>6, <1>7, OverAlso
<1> QED BY <1>3, <1>6, <1>8

\* Any two, and three, have a common denominator.
LEMMA CommonDenominator ==
  ASSUME NEW a \in Fractions, NEW b \in Fractions
  PROVE  \E m \in Nat \ {0}, i \in Int, j \in Int : Over(a, i, m) /\ Over(b, j, m)
<1>1. Over(a, a.n, a.d) /\ a.n \in Int /\ a.d \in Nat \ {0} /\ Over(b, b.n, b.d) /\ b.n \in Int /\ b.d \in Nat \ {0}
  BY OwnOver
<1> DEFINE i == a.n  p == a.d  j == b.n  q == b.d
<1> HIDE DEF i, p, j, q
<1>4. i \in Int /\ p \in Int /\ j \in Int /\ q \in Int /\ Over(a, i, p) /\ Over(b, j, q)
  BY <1>1 DEF i, p, j, q
<1>5. Over(a, i * q, p * q)
  BY <1>4, OverMore
<1>6. Over(b, j * p, q * p)
  BY <1>4, OverMore
<1>2. Over(a, a.n * b.d, a.d * b.d) /\ Over(b, b.n * a.d, b.d * a.d)
  BY <1>5, <1>6 DEF i, p, j, q
<1>3. a.d * b.d \in Nat \ {0} /\ a.d * b.d = b.d * a.d /\ a.n * b.d \in Int /\ b.n * a.d \in Int
  BY <1>1
<1> QED BY <1>2, <1>3

LEMMA CommonOfThree ==
  ASSUME NEW a \in Fractions, NEW b \in Fractions, NEW c \in Fractions
  PROVE  \E m \in Nat \ {0}, i \in Int, j \in Int, k \in Int : Over(a, i, m) /\ Over(b, j, m) /\ Over(c, k, m)
<1>1. PICK m \in Nat \ {0}, i \in Int, j \in Int : Over(a, i, m) /\ Over(b, j, m)
  BY CommonDenominator
<1>2. Over(c, c.n, c.d) /\ c.n \in Int /\ c.d \in Nat \ {0}
  BY OwnOver
<1> DEFINE u == c.n  q == c.d
<1> HIDE DEF u, q
<1>5. m \in Int /\ q \in Int /\ u \in Int /\ Over(c, u, q)
  BY <1>2 DEF u, q
<1>6. Over(a, i * q, m * q)
  BY <1>1, <1>5, OverMore
<1>7. Over(b, j * q, m * q)
  BY <1>1, <1>5, OverMore
<1>8. Over(c, u * m, q * m)
  BY <1>5, OverMore
<1>3. Over(a, i * c.d, m * c.d) /\ Over(b, j * c.d, m * c.d) /\ Over(c, c.n * m, c.d * m)
  BY <1>6, <1>7, <1>8 DEF u, q
<1>4. m * c.d \in Nat \ {0} /\ c.d * m = m * c.d /\ i * c.d \in Int /\ j * c.d \in Int /\ c.n * m \in Int
  BY <1>1, <1>2
<1> QED BY <1>3, <1>4

LEMMA LeqOrder ==
  ASSUME NEW a \in Fractions, NEW b \in Fractions, NEW c \in Fractions
  PROVE  /\ Leq(a, a)
         /\ Leq(a, b) \/ Leq(b, a)
         /\ Leq(a, b) /\ Leq(b, c) => Leq(a, c)
<1>1. PICK m \in Nat \ {0}, i \in Int, j \in Int, k \in Int : Over(a, i, m) /\ Over(b, j, m) /\ Over(c, k, m)
  BY CommonOfThree
<1>2. Leq(a, a) /\ (Leq(a, b) <=> i <= j) /\ (Leq(b, a) <=> j <= i) /\ (Leq(b, c) <=> j <= k) /\ (Leq(a, c) <=> i <= k)
  BY <1>1, LeqOver
<1> QED BY <1>2

\* The greatest and the smallest of finitely many.
LEMMA GreatestOfFractions ==
  ASSUME NEW n \in Nat, n >= 1, NEW f, \A j \in 1..n : f[j] \in Fractions
  PROVE  \E i \in 1..n : \A j \in 1..n : Leq(f[j], f[i])
<1> DEFINE T == {m \in Nat : \E i \in 1..n : \A j \in 1..n : j <= m + 1 => Leq(f[j], f[i])}
<1>1. 0 \in T
  <2>1. 1 \in 1..n /\ \A j \in 1..n : j <= 0 + 1 => j = 1
    OBVIOUS
  <2>2. Leq(f[1], f[1])
    BY <2>1, LeqOrder
  <2> QED BY <2>1, <2>2
<1>2. ASSUME NEW m \in Nat, m \in T
      PROVE  m + 1 \in T
  <2>1. PICK i \in 1..n : \A j \in 1..n : j <= m + 1 => Leq(f[j], f[i])
    BY <1>2
  <2>2. \A j \in 1..n : j <= m + 1 + 1 => j <= m + 1 \/ j = m + 2
    OBVIOUS
  <2>3. CASE m + 2 \in 1..n /\ ~Leq(f[m + 2], f[i])
    <3>1. Leq(f[i], f[m + 2]) /\ Leq(f[m + 2], f[m + 2])
      BY <2>3, LeqOrder
    <3>2. ASSUME NEW j \in 1..n, j <= m + 1 + 1
          PROVE  Leq(f[j], f[m + 2])
      <4>1. CASE j <= m + 1
        <5>1. Leq(f[j], f[i])
          BY <2>1, <4>1
        <5>2. f[j] \in Fractions /\ f[i] \in Fractions /\ f[m + 2] \in Fractions
          BY <2>3
        <5> QED BY <3>1, <5>1, <5>2, LeqOrder
      <4>2. CASE j = m + 2
        BY <3>1, <4>2
      <4> QED BY <2>2, <3>2, <4>1, <4>2
    <3>3. \E k \in 1..n : \A j \in 1..n : j <= m + 1 + 1 => Leq(f[j], f[k])
      BY <2>3, <3>2
    <3> QED BY <3>3
  <2>4. CASE ~(m + 2 \in 1..n /\ ~Leq(f[m + 2], f[i]))
    <3>1. \A j \in 1..n : j <= m + 1 + 1 => Leq(f[j], f[i])
      BY <2>1, <2>2, <2>4
    <3> QED BY <3>1
  <2> QED BY <2>3, <2>4
<1> HIDE DEF T
<1>3. n \in T
  BY <1>1, <1>2, NatInduct
<1>4. PICK i \in 1..n : \A j \in 1..n : j <= n + 1 => Leq(f[j], f[i])
  BY <1>3 DEF T
<1> QED BY <1>4

Opposite(a) == [n |-> -a.n, d |-> a.d]

LEMMA SmallestOfFractions ==
  ASSUME NEW n \in Nat, n >= 1, NEW f, \A j \in 1..n : f[j] \in Fractions
  PROVE  \E i \in 1..n : \A j \in 1..n : Leq(f[i], f[j])
<1> DEFINE g == [j \in 1..n |-> Opposite(f[j])]
<1>1. \A j \in 1..n : g[j] = Opposite(f[j]) /\ g[j] \in Fractions
  BY DEF Opposite, Fractions
<1> HIDE DEF g
<1>2. PICK i \in 1..n : \A j \in 1..n : Leq(g[j], g[i])
  BY <1>1, GreatestOfFractions
<1>3. ASSUME NEW j \in 1..n PROVE Leq(f[i], f[j])
  <2> DEFINE x == f[i].n * f[j].d  y == f[j].n * f[i].d
  <2>1. f[i] \in Fractions /\ f[j] \in Fractions
    OBVIOUS
  <2>2. f[i].n \in Int /\ f[i].d \in Int /\ f[j].n \in Int /\ f[j].d \in Int
    BY <2>1 DEF Fractions
  <2>3. (-f[j].n) * f[i].d <= (-f[i].n) * f[j].d
    <3>1. Leq(g[j], g[i])
      BY <1>2
    <3>2. Leq(Opposite(f[j]), Opposite(f[i]))
      BY <1>1, <3>1
    <3> QED BY <3>2 DEF Leq, Opposite
  <2>4. x \in Int /\ y \in Int /\ (-f[j].n) * f[i].d = -y /\ (-f[i].n) * f[j].d = -x
    BY <2>2
  <2>5. x <= y
    <3> HIDE DEF x, y
    <3> QED BY <2>3, <2>4
  <2> QED BY <2>5 DEF Leq
<1> QED BY <1>3

LEMMA GreatestAmong ==
  ASSUME NEW S, NEW x \in S, \A y \in S : Leq(y, x)
  PROVE  Greatest(S) \in S /\ \A y \in S : Leq(y, Greatest(S))
BY DEF Greatest

LEMMA SmallestAmong ==
  ASSUME NEW S, NEW x \in S, \A y \in S : Leq(x, y)
  PROVE  Smallest(S) \in S /\ \A y \in S : Leq(Smallest(S), y)
BY DEF Smallest

LEMMA GreatestOfTwo ==
  ASSUME NEW a \in Fractions, NEW b \in Fractions
  PROVE  /\ Greatest({a, b}) \in {a, b} /\ Leq(a, Greatest({a, b})) /\ Leq(b, Greatest({a, b}))
         /\ Smallest({a, b}) \in {a, b} /\ Leq(Smallest({a, b}), a) /\ Leq(Smallest({a, b}), b)
<1>1. Leq(a, a) /\ Leq(b, b) /\ (Leq(a, b) \/ Leq(b, a))
  BY LeqOrder
<1>2. (\E x \in {a, b} : \A y \in {a, b} : Leq(y, x)) /\ (\E x \in {a, b} : \A y \in {a, b} : Leq(x, y))
  BY <1>1
<1>3. Greatest({a, b}) \in {a, b} /\ \A y \in {a, b} : Leq(y, Greatest({a, b}))
  BY <1>2, GreatestAmong
<1>4. Smallest({a, b}) \in {a, b} /\ \A y \in {a, b} : Leq(Smallest({a, b}), y)
  BY <1>2, SmallestAmong
<1> QED BY <1>3, <1>4

-----------------------------------------------------------------------------
(* A fold from the left is computed step by step.  `apply` holds the operation  *)
(* as a function, for each place of the sequence.                               *)

LEMMA TopOfSubset ==
  ASSUME NEW n \in Nat, NEW x, x \subseteq 1..(n + 1), n + 1 \in x
  PROVE  Max(x) = n + 1
<1>1. x \subseteq Int /\ \A y \in x : y <= n + 1
  OBVIOUS
<1> QED BY <1>1, MaxIs

FoldedTo(h, n, apply, V, base) ==
    /\ h \in [SUBSET (1..n) -> V]
    /\ \A x \in SUBSET (1..n) : h[x] = IF x = {} THEN base ELSE apply[Max(x)][h[x \ {Max(x)}]]

LEMMA Folded ==
  ASSUME NEW n \in Nat, NEW V, NEW base \in V, NEW apply, \A i \in 1..n : \A u \in V : apply[i][u] \in V
  PROVE  \E h : FoldedTo(h, n, apply, V, base)
<1> DEFINE T == {m \in Nat : m <= n => \E h : FoldedTo(h, m, apply, V, base)}
<1>1. 0 \in T
  <2> DEFINE h == [x \in SUBSET (1..0) |-> base]
  <2>1. \A x \in SUBSET (1..0) : x = {}
    OBVIOUS
  <2>2. h \in [SUBSET (1..0) -> V] /\ \A x \in SUBSET (1..0) : h[x] = base
    OBVIOUS
  <2> HIDE DEF h
  <2>3. FoldedTo(h, 0, apply, V, base)
    BY <2>1, <2>2 DEF FoldedTo
  <2> QED BY <2>3
<1>2. ASSUME NEW m \in Nat, m \in T
      PROVE  m + 1 \in T
  <2> SUFFICES ASSUME m + 1 <= n
               PROVE  \E h : FoldedTo(h, m + 1, apply, V, base)
    OBVIOUS
  <2>1. PICK f : FoldedTo(f, m, apply, V, base)
    BY <1>2
  <2> DEFINE k == m + 1
             g == [x \in SUBSET (1..k) |-> IF k \in x THEN apply[k][f[x \ {k}]] ELSE f[x]]
  <2>2. f \in [SUBSET (1..m) -> V]
    BY <2>1 DEF FoldedTo
  <2>3. ASSUME NEW x \in SUBSET (1..k) PROVE x \ {k} \in SUBSET (1..m)
    <3>1. \A y \in 1..(m + 1) : y = m + 1 \/ y \in 1..m
      OBVIOUS
    <3> QED BY <3>1
  <2>4. ASSUME NEW x \in SUBSET (1..k), k \notin x PROVE x \in SUBSET (1..m) /\ x \ {k} = x
    BY <2>3, <2>4
  <2>5. k \in 1..n
    OBVIOUS
  <2>6. ASSUME NEW x \in SUBSET (1..k)
        PROVE  (IF k \in x THEN apply[k][f[x \ {k}]] ELSE f[x]) \in V
    <3>1. CASE k \in x
      <4>1. f[x \ {k}] \in V
        BY <2>2, <2>3
      <4>2. apply[k][f[x \ {k}]] \in V
        BY <2>5, <4>1
      <4> QED BY <3>1, <4>2
    <3>2. CASE k \notin x
      <4>1. f[x] \in V
        BY <2>2, <2>4, <3>2
      <4> QED BY <3>2, <4>1
    <3> QED BY <3>1, <3>2
  <2>7. g \in [SUBSET (1..k) -> V]
    BY <2>6
  <2>8. \A x \in SUBSET (1..k) : g[x] = IF k \in x THEN apply[k][f[x \ {k}]] ELSE f[x]
    OBVIOUS
  <2> HIDE DEF g
  <2>9. \A x \in SUBSET (1..m) : x \in SUBSET (1..k) /\ k \notin x
    OBVIOUS
  <2>10. \A x \in SUBSET (1..m) : g[x] = f[x]
    BY <2>8, <2>9
  <2>11. ASSUME NEW x \in SUBSET (1..k)
         PROVE  g[x] = IF x = {} THEN base ELSE apply[Max(x)][g[x \ {Max(x)}]]
    <3>1. CASE k \in x
      <4>1. Max(x) = k
        BY <3>1, TopOfSubset
      <4>2. g[x \ {k}] = f[x \ {k}]
        BY <2>3, <2>10
      <4>3. x # {} /\ g[x] = apply[k][f[x \ {k}]]
        BY <2>8, <3>1
      <4> HIDE DEF k
      <4> QED BY <4>1, <4>2, <4>3
    <3>2. CASE k \notin x
      <4>1. x \in SUBSET (1..m) /\ g[x] = f[x]
        BY <2>4, <2>10, <3>2
      <4>2. f[x] = IF x = {} THEN base ELSE apply[Max(x)][f[x \ {Max(x)}]]
        BY <2>1, <4>1 DEF FoldedTo
      <4>3. g[x \ {Max(x)}] = f[x \ {Max(x)}]
        <5>1. x \ {Max(x)} \in SUBSET (1..m)
          BY <4>1
        <5> QED BY <2>10, <5>1
      <4> QED BY <4>1, <4>2, <4>3
    <3> QED BY <3>1, <3>2
  <2>12. FoldedTo(g, m + 1, apply, V, base)
    BY <2>7, <2>11 DEF FoldedTo
  <2> QED BY <2>12
<1> HIDE DEF T
<1>3. n \in T
  BY <1>1, <1>2, NatInduct
<1> QED BY <1>3 DEF T

\* Sums.
LEMMA SumSteps ==
  ASSUME NEW n \in Nat, NEW s \in [1..n -> Int]
  PROVE  \E g \in [0..n -> Int] :
           /\ g[0] = 0 /\ g[n] = FoldLeft(+, 0, s)
           /\ \A i \in 1..n : g[i] = g[i - 1] + s[i]
<1> DEFINE F(f) == [x \in SUBSET DOMAIN s |-> IF x = {} THEN 0 ELSE f[x \ {Max(x)}] + s[Max(x)]]
           f == CHOOSE u : u = F(u)
           apply == [i \in 1..n |-> [u \in Int |-> u + s[i]]]
           g == [i \in 0..n |-> f[1..i]]
<1>1. FoldLeft(+, 0, s) = f[DOMAIN s]
  BY DEF FoldLeft, MapThenFoldSet
<1>2. DOMAIN s = 1..n
  OBVIOUS
<1>3. \A i \in 1..n : \A u \in Int : apply[i][u] = u + s[i] /\ apply[i][u] \in Int
  OBVIOUS
<1> HIDE DEF apply
<1>4. PICK h : FoldedTo(h, n, apply, Int, 0)
  <2>1. 0 \in Int /\ \A i \in 1..n : \A u \in Int : apply[i][u] \in Int
    BY <1>3
  <2> QED BY <2>1, Folded
<1>5. h = F(h)
  <2>1. ASSUME NEW x \in SUBSET (1..n)
        PROVE  h[x] = IF x = {} THEN 0 ELSE h[x \ {Max(x)}] + s[Max(x)]
    <3>1. CASE x = {}
      BY <1>4, <3>1 DEF FoldedTo
    <3>2. CASE x # {}
      <4>1. Max(x) \in 1..n
        <5>1. PICK y \in x : \A z \in x : z <= y
          <6>1. x \subseteq Int /\ n \in Int /\ \A z \in x : z <= n
            OBVIOUS
          <6> QED BY <3>2, <6>1, GreatestIn
        <5>2. x \subseteq Int
          OBVIOUS
        <5>3. Max(x) = y
          BY <5>1, <5>2, MaxIs
        <5> QED BY <5>3
      <4>2. x \ {Max(x)} \in SUBSET (1..n)
        OBVIOUS
      <4>3. h[x \ {Max(x)}] \in Int
        BY <1>4, <4>2 DEF FoldedTo
      <4>4. h[x] = apply[Max(x)][h[x \ {Max(x)}]]
        BY <1>4, <3>2 DEF FoldedTo
      <4> QED BY <1>3, <3>2, <4>1, <4>3, <4>4
    <3> QED BY <3>1, <3>2
  <2>2. h \in [SUBSET (1..n) -> Int]
    BY <1>4 DEF FoldedTo
  <2>3. h = [x \in SUBSET (1..n) |-> IF x = {} THEN 0 ELSE h[x \ {Max(x)}] + s[Max(x)]]
    BY <2>1, <2>2
  <2> QED BY <1>2, <2>3
<1> HIDE DEF F
<1>6. f = F(f)
  BY <1>5
<1> HIDE DEF f
<1>7. \A x \in SUBSET (1..n) : f[x] = IF x = {} THEN 0 ELSE f[x \ {Max(x)}] + s[Max(x)]
  BY <1>2, <1>6 DEF F
<1>8. \A i \in 0..n : g[i] = f[1..i]
  OBVIOUS
<1> HIDE DEF g
<1>9. g[0] = 0 /\ 0 \in 0..n
  <2>1. 1..0 = {} /\ 1..0 \in SUBSET (1..n) /\ 0 \in 0..n
    OBVIOUS
  <2> QED BY <1>7, <1>8, <2>1
<1>10. ASSUME NEW i \in 1..n PROVE g[i] = g[i - 1] + s[i]
  <2>1. 1..i \in SUBSET (1..n) /\ 1..i # {} /\ i - 1 \in 0..n /\ i \in 0..n /\ i - 1 \in Nat
    <3>1. i \in 1..i
      OBVIOUS
    <3>2. 1..i \subseteq 1..n
      OBVIOUS
    <3>3. i - 1 \in 0..n /\ i \in 0..n /\ i - 1 \in Nat
      OBVIOUS
    <3> QED BY <3>1, <3>2, <3>3
  <2>2. Max(1..i) = i
    <3>1. 1..i \subseteq Int /\ i \in 1..i /\ \A y \in 1..i : y <= i
      OBVIOUS
    <3> QED BY <3>1, MaxIs
  <2>3. (1..i) \ {i} = 1..(i - 1)
    OBVIOUS
  <2>4. f[1..i] = f[1..(i - 1)] + s[i]
    BY <1>7, <2>1, <2>2, <2>3
  <2> QED BY <1>8, <2>1, <2>4
<1>11. \A i \in 0..n : g[i] \in Int
  <2> DEFINE T == {i \in Nat : i <= n => g[i] \in Int}
  <2>1. 0 \in T
    BY <1>9
  <2>2. ASSUME NEW i \in Nat, i \in T PROVE i + 1 \in T
    <3> SUFFICES ASSUME i + 1 <= n PROVE g[i + 1] \in Int
      OBVIOUS
    <3>1. i + 1 \in 1..n /\ (i + 1) - 1 = i
      OBVIOUS
    <3>2. g[i + 1] = g[i] + s[i + 1] /\ g[i] \in Int /\ s[i + 1] \in Int
      BY <1>10, <2>2, <3>1
    <3> QED BY <3>2
  <2> HIDE DEF T
  <2>3. Nat \subseteq T
    BY <2>1, <2>2, NatInduct
  <2> QED BY <2>3 DEF T
<1>12. g \in [0..n -> Int]
  <2>1. g = [i \in 0..n |-> f[1..i]]
    BY DEF g
  <2> QED BY <1>11, <2>1
<1>13. g[n] = FoldLeft(+, 0, s)
  <2>1. n \in 0..n
    OBVIOUS
  <2> QED BY <1>1, <1>2, <1>8, <2>1
<1> QED BY <1>9, <1>10, <1>12, <1>13

LEMMA SumIs ==
  ASSUME NEW n \in Nat, NEW s \in [1..n -> Int]
  PROVE  FoldLeft(+, 0, s) \in Int
<1>1. PICK g \in [0..n -> Int] : g[n] = FoldLeft(+, 0, s)
  BY SumSteps
<1>2. n \in 0..n
  OBVIOUS
<1> QED BY <1>1, <1>2

-----------------------------------------------------------------------------
(* A finite set in an order, each element at the place of its rank: what        *)
(* InOrder and Kept are made of.                                               *)

Below(R, S, a) == {b \in S : <<b, a>> \in R}
Ranked(S, R) == [k \in 1..Cardinality(S) |-> CHOOSE a \in S : Cardinality(Below(R, S, a)) = k - 1]

StrictlyOrders(R, S) ==
    /\ \A a \in S : <<a, a>> \notin R
    /\ \A a \in S, b \in S : a # b => <<a, b>> \in R \/ <<b, a>> \in R
    /\ \A a \in S, b \in S, c \in S : <<a, b>> \in R /\ <<b, c>> \in R => <<a, c>> \in R

LEMMA RankOf ==
  ASSUME NEW S, IsFiniteSet(S), NEW R, StrictlyOrders(R, S), NEW a \in S
  PROVE  /\ Cardinality(S) \in Nat
         /\ Cardinality(Below(R, S, a)) \in 0..(Cardinality(S) - 1)
         /\ \A b \in S : <<a, b>> \in R => Cardinality(Below(R, S, a)) < Cardinality(Below(R, S, b))
<1>1. Cardinality(S) \in Nat
  BY FS_CardinalityType
<1>2. ASSUME NEW b \in S
      PROVE  /\ Below(R, S, b) \subseteq S /\ b \notin Below(R, S, b)
             /\ IsFiniteSet(Below(R, S, b)) /\ Cardinality(Below(R, S, b)) \in Nat
  <2>1. Below(R, S, b) \subseteq S /\ b \notin Below(R, S, b)
    BY DEF Below, StrictlyOrders
  <2>2. IsFiniteSet(Below(R, S, b))
    BY <2>1, FS_Subset
  <2> QED BY <2>1, <2>2, FS_CardinalityType
<1>3. Cardinality(Below(R, S, a)) < Cardinality(S)
  <2>1. Below(R, S, a) # S
    BY <1>2
  <2>2. Cardinality(Below(R, S, a)) <= Cardinality(S) /\ Cardinality(S) # Cardinality(Below(R, S, a))
    BY <1>2, <2>1, FS_Subset
  <2> QED BY <1>1, <1>2, <2>2
<1>4. ASSUME NEW b \in S, <<a, b>> \in R
      PROVE  Cardinality(Below(R, S, a)) < Cardinality(Below(R, S, b))
  <2>1. Below(R, S, a) \subseteq Below(R, S, b)
    BY <1>4 DEF Below, StrictlyOrders
  <2>2. a \in Below(R, S, b) /\ a \notin Below(R, S, a)
    <3>1. a \in Below(R, S, b)
      BY <1>4 DEF Below
    <3> QED BY <1>2, <3>1
  <2>3. IsFiniteSet(Below(R, S, b))
    BY <1>2
  <2>4. Cardinality(Below(R, S, a)) <= Cardinality(Below(R, S, b))
        /\ Cardinality(Below(R, S, b)) # Cardinality(Below(R, S, a))
    BY <2>1, <2>2, <2>3, FS_Subset
  <2> QED BY <1>2, <2>4
<1>5. Cardinality(Below(R, S, a)) \in 0..(Cardinality(S) - 1)
  <2>1. Cardinality(Below(R, S, a)) \in Nat
    BY <1>2
  <2> QED BY <1>1, <1>3, <2>1
<1> QED BY <1>1, <1>4, <1>5

LEMMA RanksDiffer ==
  ASSUME NEW S, IsFiniteSet(S), NEW R, StrictlyOrders(R, S), NEW a \in S, NEW b \in S,
         Cardinality(Below(R, S, a)) = Cardinality(Below(R, S, b))
  PROVE  a = b
<1> SUFFICES ASSUME a # b PROVE FALSE
  OBVIOUS
<1>1. <<a, b>> \in R \/ <<b, a>> \in R
  BY DEF StrictlyOrders
<1>2. /\ Cardinality(Below(R, S, a)) \in 0..(Cardinality(S) - 1)
      /\ <<a, b>> \in R => Cardinality(Below(R, S, a)) < Cardinality(Below(R, S, b))
  BY RankOf
<1>3. <<b, a>> \in R => Cardinality(Below(R, S, b)) < Cardinality(Below(R, S, a))
  BY RankOf
<1>4. Cardinality(Below(R, S, a)) \in Int
  BY <1>2
<1> QED BY <1>1, <1>2, <1>3, <1>4

LEMMA RankedIs ==
  ASSUME NEW S, IsFiniteSet(S), NEW R, StrictlyOrders(R, S)
  PROVE  /\ Cardinality(S) \in Nat
         /\ Ranked(S, R) \in [1..Cardinality(S) -> S]
         /\ \A i \in 1..Cardinality(S), j \in 1..Cardinality(S) :
              i < j => <<Ranked(S, R)[i], Ranked(S, R)[j]>> \in R
         /\ \A a \in S : \E i \in 1..Cardinality(S) : Ranked(S, R)[i] = a
         /\ \A i \in 1..Cardinality(S) : Cardinality(Below(R, S, Ranked(S, R)[i])) = i - 1
<1> DEFINE n == Cardinality(S)
           rank(a) == Cardinality(Below(R, S, a))
           f == [a \in S |-> rank(a) + 1]
           q == Ranked(S, R)
<1>1. n \in Nat
  BY FS_CardinalityType
<1>2. \A a \in S : rank(a) \in 0..(n - 1)
  BY RankOf
<1>3. \A a \in S, b \in S : <<a, b>> \in R => rank(a) < rank(b)
  BY RankOf
<1>4. \A a \in S, b \in S : rank(a) = rank(b) => a = b
  BY RanksDiffer
<1> HIDE DEF rank, n
<1>5. f \in [S -> 1..n] /\ \A a \in S : f[a] = rank(a) + 1
  <2>1. \A a \in S : rank(a) + 1 \in 1..n
    BY <1>1, <1>2
  <2> QED BY <2>1
<1> HIDE DEF f
<1>6. f \in Injection(S, 1..n)
  <2>1. \A a \in S, b \in S : f[a] = f[b] => a = b
    <3>1. \A a \in S : rank(a) \in Int
      BY <1>1, <1>2
    <3>2. \A a \in S, b \in S : f[a] = f[b] => rank(a) = rank(b)
      BY <1>5, <3>1
    <3> QED BY <1>4, <3>2
  <2> QED BY <1>5, <2>1 DEF Injection, IsInjective
<1>7. f \in Surjection(S, 1..n)
  <2>1. IsFiniteSet(1..n) /\ Cardinality(1..n) = n
    BY <1>1, FS_Interval
  <2> QED BY <1>6, <2>1, FS_Injection DEF n
<1>8. ASSUME NEW k \in 1..n
      PROVE  \E a \in S : rank(a) = k - 1
  <2>1. PICK a \in S : f[a] = k
    BY <1>7 DEF Surjection
  <2>2. rank(a) + 1 = k /\ rank(a) \in Int
    BY <1>1, <1>2, <1>5, <2>1
  <2> QED BY <2>2
<1>9. q = [k \in 1..n |-> CHOOSE a \in S : rank(a) = k - 1]
  BY DEF Ranked, rank, n
<1> HIDE DEF q
<1>10. ASSUME NEW k \in 1..n
       PROVE  q[k] \in S /\ rank(q[k]) = k - 1
  <2>1. q[k] = CHOOSE a \in S : rank(a) = k - 1
    BY <1>9
  <2> QED BY <1>8, <2>1
<1>11. q \in [1..n -> S]
  BY <1>9, <1>10
<1>12. ASSUME NEW i \in 1..n, NEW j \in 1..n, i < j
       PROVE  <<q[i], q[j]>> \in R
  <2>1. rank(q[i]) = i - 1 /\ rank(q[j]) = j - 1 /\ q[i] \in S /\ q[j] \in S
    BY <1>10
  <2>2. rank(q[i]) < rank(q[j]) /\ ~(rank(q[j]) < rank(q[i])) /\ rank(q[i]) # rank(q[j])
    BY <1>12, <2>1
  <2>3. q[i] # q[j] /\ <<q[j], q[i]>> \notin R
    BY <1>3, <2>1, <2>2
  <2> QED BY <2>1, <2>3 DEF StrictlyOrders
<1>13. ASSUME NEW a \in S
       PROVE  \E i \in 1..n : q[i] = a
  <2>1. rank(a) + 1 \in 1..n /\ (rank(a) + 1) - 1 = rank(a)
    BY <1>1, <1>2
  <2>2. rank(q[rank(a) + 1]) = rank(a) /\ q[rank(a) + 1] \in S
    BY <1>10, <2>1
  <2>3. q[rank(a) + 1] = a
    BY <1>4, <2>2
  <2> QED BY <2>1, <2>3
<1> QED BY <1>1, <1>10, <1>11, <1>12, <1>13 DEF q, n, rank

\* What is kept of a sequence is its elements at those indices, in their order.
Keeps(s, S, q) ==
    /\ Cardinality(S) \in Nat
    /\ q \in [1..Cardinality(S) -> S]
    /\ \A i \in 1..Cardinality(S), j \in 1..Cardinality(S) : i < j => q[i] < q[j]
    /\ \A x \in S : \E i \in 1..Cardinality(S) : q[i] = x
    /\ Kept(s, S) = [i \in 1..Cardinality(S) |-> s[q[i]]]

LEMMA KeptIs ==
  ASSUME NEW s, NEW n \in Nat, NEW S \in SUBSET (1..n)
  PROVE  \E q : Keeps(s, S, q)
<1> DEFINE R == {<<b, a>> : b \in S, a \in S} \cap {p \in S \X S : p[1] < p[2]}
           c == Cardinality(S)
           A == {q \in [1..c -> S] : \A i \in DOMAIN q, j \in DOMAIN q : i < j => q[i] < q[j]}
           order == CHOOSE q \in [1..c -> S] : \A i \in DOMAIN q, j \in DOMAIN q : i < j => q[i] < q[j]
<1>1. IsFiniteSet(S)
  <2>1. IsFiniteSet(1..n)
    BY FS_Interval
  <2> QED BY <2>1, FS_Subset
<1>2. \A a \in S, b \in S : <<b, a>> \in R <=> b < a
  OBVIOUS
<1>3. \A a \in S : a \in Int
  OBVIOUS
<1> HIDE DEF R
<1>4. StrictlyOrders(R, S)
  BY <1>2, <1>3 DEF StrictlyOrders
<1> DEFINE r == Ranked(S, R)
<1>5. c \in Nat
  BY <1>1, FS_CardinalityType
<1>6. r \in [1..c -> S] /\ \A i \in 1..c, j \in 1..c : i < j => <<r[i], r[j]>> \in R
  BY <1>1, <1>4, RankedIs
<1> HIDE DEF r, c
<1>7. r \in A
  <2>1. \A i \in 1..c, j \in 1..c : i < j => r[i] < r[j]
    BY <1>2, <1>6
  <2> QED BY <1>6, <2>1
<1>8. order \in A
  <2>1. \E q \in [1..c -> S] : \A i \in DOMAIN q, j \in DOMAIN q : i < j => q[i] < q[j]
    BY <1>7
  <2> QED BY <2>1
<1>9. Kept(s, S) = [i \in 1..c |-> s[order[i]]]
  BY DEF Kept, c
<1>10. order \in [1..c -> S] /\ \A i \in 1..c, j \in 1..c : i < j => order[i] < order[j]
  BY <1>8
<1> HIDE DEF order, A
<1>11. \A x \in S : \E i \in 1..c : order[i] = x
  <2>1. order \in Injection(1..c, S)
    <3>1. \A i \in 1..c, j \in 1..c : i # j => i < j \/ j < i
      OBVIOUS
    <3>2. \A i \in 1..c : order[i] \in Int
      BY <1>3, <1>10
    <3>3. \A i \in 1..c, j \in 1..c : order[i] = order[j] => i = j
      BY <1>10, <3>1, <3>2
    <3> QED BY <1>10, <3>3 DEF Injection, IsInjective
  <2>2. Cardinality(1..c) = Cardinality(S)
    BY <1>5, FS_Interval DEF c
  <2>3. order \in Surjection(1..c, S)
    BY <1>1, <2>1, <2>2, FS_Injection
  <2> QED BY <2>3 DEF Surjection
<1>12. Keeps(s, S, order)
  BY <1>5, <1>9, <1>10, <1>11 DEF Keeps, c
<1> QED BY <1>12

-----------------------------------------------------------------------------
(* The rows of a time series: a row that has another after it is one that the   *)
(* line on screen had.                                                         *)

SeriesRows == [t : Int, y : Levels \cup {NoValue}]

ShapeInv ==
    /\ past \in Seq(SeriesRows) /\ settled \in Seq(SeriesRows)
    /\ lineAxis \in Axes /\ proj \in Projections
    /\ \A i \in 1..(Len(past) - 1) : past[i].t \in TimesIn(settled)

LEMMA ShapeInitInv == ShapeInit => ShapeInv
<1> SUFFICES ASSUME ShapeInit PROVE ShapeInv
  OBVIOUS
<1>1. past = <<>> /\ settled = <<>> /\ lineAxis \in Axes /\ proj \in Projections
  BY DEF ShapeInit
<1>2. past \in Seq(SeriesRows) /\ settled \in Seq(SeriesRows) /\ Len(past) = 0
  BY <1>1, EmptySeq
<1> QED BY <1>1, <1>2 DEF ShapeInv

LEMMA RowAt ==
  ASSUME NEW s \in Seq(SeriesRows), NEW i \in 1..Len(s)
  PROVE  /\ s[i] \in SeriesRows /\ s[i].t \in Int /\ s[i].y \in Levels \cup {NoValue}
         /\ s[i].y # NoValue => s[i].y \in Int
         /\ s[i] \in ToSet(s) /\ s[i].t \in TimesIn(s)
<1>1. s[i] \in SeriesRows
  BY ElementOfSeq
<1>2. s[i].t \in Int /\ s[i].y \in Levels \cup {NoValue}
  BY <1>1 DEF SeriesRows
<1>3. DOMAIN s = 1..Len(s)
  BY LenProperties
<1>4. s[i] \in ToSet(s)
  BY <1>3 DEF ToSet
<1> QED BY <1>1, <1>2, <1>4, ShapeAssumption DEF TimesIn

LEMMA SeriesGrows ==
  ASSUME NEW rr \in Seq(SeriesRows), NEW gap \in Steps, NEW y \in Levels \cup {NoValue}
  PROVE  /\ Extended(rr, gap, y) \in Seq(SeriesRows)
         /\ Len(Extended(rr, gap, y)) = Len(rr) + 1
         /\ \A i \in 1..Len(rr) : Extended(rr, gap, y)[i] = rr[i]
<1> DEFINE t == IF rr = <<>> THEN 0 ELSE Last(rr).t + gap
           row == [t |-> t, y |-> y]
<1>1. t \in Int
  <2>1. CASE rr = <<>>
    BY <2>1
  <2>2. CASE rr # <<>>
    <3>1. Len(rr) \in 1..Len(rr)
      BY <2>2, LenProperties, EmptySeq
    <3>2. Last(rr).t \in Int
      BY <3>1, RowAt DEF Last
    <3>3. gap \in Int
      BY ShapeAssumption
    <3> QED BY <2>2, <3>2, <3>3
  <2> QED BY <2>1, <2>2
<1> HIDE DEF t
<1>2. row \in SeriesRows
  BY <1>1 DEF SeriesRows
<1>3. Extended(rr, gap, y) = Append(rr, row)
  BY DEF Extended, t
<1> HIDE DEF row
<1> QED BY <1>2, <1>3, AppendProperties

LEMMA ShapeStep == ShapeInv /\ [ShapeNext]_shapeVars => ShapeInv'
<1> SUFFICES ASSUME ShapeInv, [ShapeNext]_shapeVars
             PROVE  ShapeInv'
  OBVIOUS
<1>1. past \in Seq(SeriesRows) /\ lineAxis \in Axes /\ proj \in Projections
  BY DEF ShapeInv
<1>2. ASSUME NEW gap \in Steps, NEW y \in Levels \cup {NoValue}, Receive(gap, y)
      PROVE  ShapeInv'
  <2>1. past' = Extended(past, gap, y) /\ settled' = past /\ lineAxis' = lineAxis /\ proj' = proj
    BY <1>2 DEF Receive
  <2>2. past' \in Seq(SeriesRows) /\ Len(past') = Len(past) + 1 /\ \A i \in 1..Len(past) : past'[i] = past[i]
    BY <1>1, <2>1, SeriesGrows
  <2>3. ASSUME NEW i \in 1..(Len(past') - 1)
        PROVE  past'[i].t \in TimesIn(settled')
    <3>1. i \in 1..Len(past)
      BY <1>1, <2>2, LenProperties
    <3>2. past[i].t \in TimesIn(past)
      BY <1>1, <3>1, RowAt
    <3> QED BY <2>1, <2>2, <3>1, <3>2 DEF TimesIn
  <2> QED BY <1>1, <2>1, <2>2, <2>3 DEF ShapeInv
<1>3. ASSUME NEW gap \in Steps, NEW y \in Levels \cup {NoValue}, Advance(gap, y)
      PROVE  ShapeInv'
  <2> DEFINE rest == Tail(past)
  <2>1. past' = Extended(rest, gap, y) /\ settled' = past /\ lineAxis' = lineAxis /\ proj' = proj
    BY <1>3 DEF Advance
  <2>2. past # <<>>
    <3>1. settled \in Seq(SeriesRows)
      BY DEF ShapeInv
    <3>2. Len(past) = MaxHistory /\ Len(settled) < MaxHistory /\ Len(settled) \in Nat
      BY <1>3, <3>1, LenProperties DEF Advance
    <3>3. Len(past) # 0
      BY <1>1, <3>2, LenProperties
    <3> QED BY <3>3, EmptySeq
  <2>3. rest \in Seq(SeriesRows) /\ Len(rest) = Len(past) - 1 /\ \A i \in 1..Len(rest) : rest[i] = past[i + 1]
    BY <1>1, <2>2, HeadTailProperties
  <2> HIDE DEF rest
  <2>4. past' \in Seq(SeriesRows) /\ Len(past') = Len(rest) + 1 /\ \A i \in 1..Len(rest) : past'[i] = rest[i]
    BY <2>1, <2>3, SeriesGrows
  <2>5. ASSUME NEW i \in 1..(Len(past') - 1)
        PROVE  past'[i].t \in TimesIn(settled')
    <3>0. Len(past) \in Nat /\ Len(rest) \in Nat
      BY <1>1, <2>3, LenProperties
    <3>1. i \in 1..Len(rest) /\ i + 1 \in 1..Len(past)
      BY <2>3, <2>4, <3>0
    <3>2. past[i + 1].t \in TimesIn(past)
      BY <1>1, <3>1, RowAt
    <3>3. past'[i] = past[i + 1]
      BY <2>3, <2>4, <3>1
    <3> QED BY <2>1, <3>2, <3>3 DEF TimesIn
  <2> QED BY <1>1, <2>1, <2>4, <2>5 DEF ShapeInv
<1>4. CASE UNCHANGED shapeVars
  BY <1>4 DEF shapeVars, ShapeInv, TimesIn
<1> QED BY <1>2, <1>3, <1>4 DEF ShapeNext

-----------------------------------------------------------------------------
(* The projection.                                                             *)

LEMMA SumAndProduct ==
  ASSUME NEW a \in Fractions, NEW b \in Fractions
  PROVE  Plus(a, b) \in Fractions /\ Times(a, b) \in Fractions
<1>1. PICK m \in Nat \ {0}, i \in Int, j \in Int : Over(a, i, m) /\ Over(b, j, m)
  BY CommonDenominator
<1>2. Plus(a, b) \in Fractions
  BY <1>1, PlusOver
<1>3. Times(a, b) \in Fractions
  BY <1>1, TimesOver
<1> QED BY <1>2, <1>3

LEMMA GcdZero ==
  ASSUME NEW d \in Nat
  PROVE  d # 0 => Gcd[d][0] = d /\ Gcd[1][d] = 1
<1> SUFFICES ASSUME d # 0 PROVE Gcd[d][0] = d /\ Gcd[1][d] = 1
  OBVIOUS
<1>1. ASSUME NEW k \in Nat PROVE Gcd[0][k] = k
  <2>1. 0 \in Nat
    OBVIOUS
  <2> QED BY <2>1, GcdIs
<1>2. 0 \in Nat /\ 1 \in Nat /\ 0 % d = 0 /\ d % 1 = 0
  OBVIOUS
<1>3. Gcd[d][0] = Gcd[0 % d][d]
  BY <1>2, GcdIs
<1>4. Gcd[1][d] = Gcd[d % 1][1]
  <2>1. 1 \in Nat /\ 1 # 0
    OBVIOUS
  <2> QED BY <2>1, GcdIs
<1> QED BY <1>1, <1>2, <1>3, <1>4

LEMMA FracOfNone ==
  ASSUME NEW d \in Nat \ {0}
  PROVE  Frac(0, d) = Whole(0)
<1>1. Magnitude(0) = 0 /\ Magnitude(d) = d
  BY DEF Magnitude
<1>2. Gcd[d][0] = d
  BY GcdZero
<1>3. 0 \div d = 0 /\ d \div d = 1 /\ ~(d < 0)
  <2>1. (1 * d) \div d = 1 /\ (0 * d) \div d = 0
    <3>1. 1 \in Int /\ 0 \in Int
      OBVIOUS
    <3> QED BY <3>1, ExactQuotient
  <2>2. 1 * d = d /\ 0 * d = 0
    OBVIOUS
  <2> QED BY <2>1, <2>2
<1> QED BY <1>1, <1>2, <1>3 DEF Frac, Whole

LEMMA FracOfWhole ==
  ASSUME NEW k \in Int
  PROVE  Frac(k, 1) = Whole(k)
<1>1. Magnitude(1) = 1 /\ Magnitude(k) \in Nat
  BY DEF Magnitude
<1>2. Gcd[1][Magnitude(k)] = 1
  <2>1. CASE Magnitude(k) = 0
    <3>1. 1 \in Nat /\ 1 # 0
      OBVIOUS
    <3> QED BY <2>1, <3>1, GcdZero
  <2>2. CASE Magnitude(k) # 0
    BY <1>1, <2>2, GcdZero
  <2> QED BY <2>1, <2>2
<1>3. k \div 1 = k /\ 1 \div 1 = 1
  OBVIOUS
<1> QED BY <1>1, <1>2, <1>3 DEF Frac, Whole

LEMMA NothingMore ==
  ASSUME NEW a \in Fractions, NEW k \in Int
  PROVE  Times(a, Whole(0)) = Whole(0) /\ Plus(Whole(k), Whole(0)) = Whole(k)
<1>1. a.n \in Int /\ a.d \in Nat \ {0}
  BY DEF Fractions
<1>2. a.n * 0 = 0 /\ a.d * 1 = a.d /\ k * 1 + 0 * 1 = k /\ 1 * 1 = 1
  BY <1>1
<1>3. Times(a, Whole(0)) = Frac(a.n * 0, a.d * 1) /\ Plus(Whole(k), Whole(0)) = Frac(k * 1 + 0 * 1, 1 * 1)
  BY DEF Times, Plus, Whole
<1>4. Frac(0, a.d) = Whole(0)
  BY <1>1, FracOfNone
<1>5. Frac(k, 1) = Whole(k)
  BY FracOfWhole
<1> QED BY <1>2, <1>3, <1>4, <1>5

LEMMA StartsAt ==
  ASSUME NEW rr \in Seq(SeriesRows), rr # <<>>, proj \in Projections
  PROVE  StartIndex(rr) \in 0..(Len(rr) - 1)
<1>1. Len(rr) \in Nat /\ Len(rr) # 0
  BY LenProperties, EmptySeq
<1>2. proj.startIndex \in {0, 2}
  BY DEF Projections
<1> DEFINE n == Len(rr)  k == proj.startIndex
<1>3. n \in Int /\ n >= 1 /\ k \in {0, 2}
  BY <1>1, <1>2
<1>4. StartIndex(rr) = IF k = 0 THEN n - 1 ELSE Min({k, n}) - 1
  BY DEF StartIndex
<1> HIDE DEF n, k
<1>5. k \in Int
  BY <1>3
<1>6. Min({k, n}) = IF k < n THEN k ELSE n
  BY <1>3, <1>5, MinOfTwo
<1>7. StartIndex(rr) \in 0..(n - 1)
  BY <1>3, <1>4, <1>6
<1> QED BY <1>7 DEF n

\* The distance of two points of the projection, which is positive.
LEMMA IntervalIs ==
  ASSUME NEW rr \in Seq(SeriesRows), NEW start \in 0..(Len(rr) - 1)
  PROVE  /\ IntervalMs(rr, start) \in Fractions
         /\ \E k \in Nat \ {0}, m \in Nat \ {0} : Over(IntervalMs(rr, start), k, m)
<1> DEFINE n == Len(rr)
           adjacent == rr[start + 1].t - rr[start].t
           span == Last(rr).t - rr[1].t
           I == IntervalMs(rr, start)
<1>1. n \in Nat /\ start \in Nat /\ n >= 1
  BY LenProperties
<1>2. 1 \in 1..n /\ n \in 1..n /\ start + 1 \in 1..n
  BY <1>1
<1>3. span \in Int
  <2>1. rr[1].t \in Int /\ rr[n].t \in Int
    BY <1>2, RowAt
  <2> QED BY <2>1 DEF Last
<1>4. start >= 1 => adjacent \in Int
  <2> SUFFICES ASSUME start >= 1 PROVE adjacent \in Int
    OBVIOUS
  <2>1. start \in 1..n
    BY <1>1, <1>2
  <2>2. rr[start].t \in Int /\ rr[start + 1].t \in Int
    BY <1>2, <2>1, RowAt
  <2> QED BY <2>2
<1>5. I = IF start >= 1 /\ adjacent > 0 THEN Whole(adjacent)
          ELSE IF n >= 2 /\ span > 0 THEN Frac(span, n - 1) ELSE Whole(DayMs)
  BY DEF IntervalMs
<1> HIDE DEF adjacent, span, n, I
<1>6. ASSUME NEW k \in Nat \ {0}, I = Whole(k)
      PROVE  I \in Fractions /\ \E j \in Nat \ {0}, m \in Nat \ {0} : Over(I, j, m)
  <2>1. 1 \in Nat \ {0} /\ 1 \in Int /\ k * 1 = k /\ k \in Int
    OBVIOUS
  <2>2. Whole(k) \in Fractions /\ Over(Whole(k), k * 1, 1)
    BY <2>1, WholeIs
  <2> QED BY <1>6, <2>1, <2>2
<1>7. CASE start >= 1 /\ adjacent > 0
  <2>1. adjacent \in Nat \ {0} /\ I = Whole(adjacent)
    BY <1>4, <1>5, <1>7
  <2> QED BY <1>6, <2>1 DEF I
<1>8. CASE ~(start >= 1 /\ adjacent > 0) /\ n >= 2 /\ span > 0
  <2>1. span \in Nat \ {0} /\ n - 1 \in Nat \ {0} /\ n - 1 \in Int \ {0} /\ span \in Int
    BY <1>1, <1>3, <1>8
  <2>2. I = Frac(span, n - 1)
    BY <1>5, <1>8
  <2>3. Frac(span, n - 1) \in Fractions /\ Over(Frac(span, n - 1), span, n - 1)
    BY <2>1, FracIs
  <2> QED BY <2>1, <2>2, <2>3 DEF I
<1>9. CASE ~(start >= 1 /\ adjacent > 0) /\ ~(n >= 2 /\ span > 0)
  <2>1. DayMs \in Nat \ {0} /\ I = Whole(DayMs)
    BY <1>5, <1>9, ShapeAssumption
  <2> QED BY <1>6, <2>1 DEF I
<1> QED BY <1>7, <1>8, <1>9

\* The points that a slope is of.
NumberedRows == [t : Int, y : Int]

LEMMA HistoryIs ==
  ASSUME NEW rr \in Seq(SeriesRows), NEW start \in 0..(Len(rr) - 1)
  PROVE  HistoryPoints(rr, start) \in Seq(NumberedRows)
<1> DEFINE n == start + 1  S == {i \in 1..n : rr[i].y # NoValue}  c == Cardinality(S)
<1>1. n \in Nat /\ \A i \in 1..n : i \in 1..Len(rr)
  BY LenProperties
<1>2. HistoryPoints(rr, start) = Kept(rr, S)
  BY DEF HistoryPoints
<1>3. S \in SUBSET (1..n)
  OBVIOUS
<1>4. ASSUME NEW i \in S PROVE rr[i] \in NumberedRows
  <2>1. i \in 1..Len(rr) /\ rr[i].y # NoValue
    BY <1>1
  <2>2. rr[i] \in SeriesRows /\ rr[i].t \in Int /\ rr[i].y \in Int
    BY <2>1, RowAt
  <2> QED BY <2>2 DEF SeriesRows, NumberedRows
<1> HIDE DEF S, n
<1>5. PICK q : Keeps(rr, S, q)
  BY <1>1, <1>3, KeptIs
<1>6. c \in Nat /\ q \in [1..c -> S] /\ Kept(rr, S) = [i \in 1..c |-> rr[q[i]]]
  BY <1>5 DEF Keeps
<1> HIDE DEF c
<1>7. Kept(rr, S) \in [1..c -> NumberedRows]
  BY <1>4, <1>6
<1> QED BY <1>2, <1>6, <1>7, FcnSeq

LEMMA RegressionIs ==
  ASSUME NEW points_ \in Seq(NumberedRows)
  PROVE  RegressionSlope(points_) \in Fractions
<1> DEFINE n == Len(points_)
           ts == [k \in 1..n |-> points_[k].t]
           ys == [k \in 1..n |-> points_[k].y]
           tts == [k \in 1..n |-> points_[k].t * points_[k].t]
           tys == [k \in 1..n |-> points_[k].t * points_[k].y]
           T == FoldLeft(+, 0, ts)
           Y == FoldLeft(+, 0, ys)
           TT == FoldLeft(+, 0, tts)
           TY == FoldLeft(+, 0, tys)
           denom == n * TT - T * T
           num == n * TY - T * Y
<1>1. n \in Nat /\ \A k \in 1..n : points_[k] \in NumberedRows
  BY LenProperties, ElementOfSeq
<1>2. \A k \in 1..n : points_[k].t \in Int /\ points_[k].y \in Int
  BY <1>1 DEF NumberedRows
<1>3. ts \in [1..n -> Int] /\ ys \in [1..n -> Int]
  BY <1>2
<1>4. tts \in [1..n -> Int] /\ tys \in [1..n -> Int]
  <2>1. \A k \in 1..n : points_[k].t * points_[k].t \in Int /\ points_[k].t * points_[k].y \in Int
    BY <1>2
  <2> QED BY <2>1
<1>5. RegressionSlope(points_) = IF n < 2 \/ denom = 0 THEN Whole(0) ELSE Frac(num, denom)
  BY DEF RegressionSlope
<1> HIDE DEF n, ts, ys, tts, tys
<1>6. T \in Int /\ Y \in Int
  BY <1>1, <1>3, SumIs
<1>7. TT \in Int /\ TY \in Int
  BY <1>1, <1>4, SumIs
<1> HIDE DEF T, Y, TT, TY
<1>8. denom \in Int /\ num \in Int
  BY <1>1, <1>6, <1>7
<1> HIDE DEF denom, num
<1>9. 0 \in Int
  OBVIOUS
<1>10. Whole(0) \in Fractions
  BY <1>9, WholeIs
<1>11. denom # 0 => Frac(num, denom) \in Fractions
  BY <1>8, FracIs
<1> QED BY <1>5, <1>10, <1>11

LEMMA SegmentIs ==
  ASSUME NEW points_ \in Seq(NumberedRows), Len(points_) >= 2
  PROVE  SegmentSlope(points_) \in Fractions
<1> DEFINE n == Len(points_)
           dt == points_[n].t - points_[n - 1].t
           dy == points_[n].y - points_[n - 1].y
<1>1. n \in Nat /\ n \in 1..n /\ n - 1 \in 1..n
  BY LenProperties
<1>2. points_[n] \in NumberedRows /\ points_[n - 1] \in NumberedRows
  BY <1>1, ElementOfSeq
<1>3. dt \in Int /\ dy \in Int
  BY <1>2 DEF NumberedRows
<1>4. SegmentSlope(points_) = IF dt = 0 THEN Whole(0) ELSE Frac(dy, dt)
  BY DEF SegmentSlope, Last
<1> HIDE DEF dt, dy
<1>5. 0 \in Int
  OBVIOUS
<1>6. Whole(0) \in Fractions
  BY <1>5, WholeIs
<1>7. dt # 0 => Frac(dy, dt) \in Fractions
  BY <1>3, FracIs
<1> QED BY <1>4, <1>6, <1>7

\* Where it is after i intervals.
Ahead(a, interval_, i) == Plus(Whole(a), Times(interval_, Whole(i)))

LEMMA AheadIs ==
  ASSUME NEW a \in Int, NEW u \in Fractions, NEW k \in Nat \ {0}, NEW m \in Nat \ {0}, Over(u, k, m), NEW i \in Nat
  PROVE  Ahead(a, u, i) \in Fractions /\ Over(Ahead(a, u, i), a * m + k * i, m)
<1>1. Whole(a) \in Fractions /\ Over(Whole(a), a * m, m)
  <2>1. m \in Int
    OBVIOUS
  <2> QED BY <2>1, WholeIs
<1>2. Whole(i) \in Fractions /\ Over(Whole(i), i, 1)
  <2>1. i \in Int /\ 1 \in Int /\ i * 1 = i
    OBVIOUS
  <2>2. Over(Whole(i), i * 1, 1)
    BY <2>1, WholeIs
  <2> QED BY <2>1, <2>2, WholeIs
<1> DEFINE p == Times(u, Whole(i))
<1>3. p \in Fractions /\ Over(p, k * i, m)
  <2>1. 1 \in Nat \ {0} /\ m * 1 = m /\ k \in Int /\ i \in Int
    OBVIOUS
  <2>2. Times(u, Whole(i)) \in Fractions /\ Over(Times(u, Whole(i)), k * i, m * 1)
    BY <1>2, <2>1, TimesOver
  <2> QED BY <2>1, <2>2
<1> HIDE DEF p
<1> DEFINE x == a * m  y == k * i
<1>4. x \in Int /\ y \in Int
  OBVIOUS
<1>5. Over(Whole(a), x, m) /\ Over(p, y, m)
  BY <1>1, <1>3
<1> HIDE DEF x, y
<1>6. Plus(Whole(a), p) \in Fractions /\ Over(Plus(Whole(a), p), x + y, m)
  BY <1>1, <1>3, <1>4, <1>5, PlusOver
<1> QED BY <1>6 DEF Ahead, p, x, y

LEMMA AheadInTime ==
  ASSUME NEW a \in Int, NEW u \in Fractions, NEW k \in Nat \ {0}, NEW m \in Nat \ {0}, Over(u, k, m)
  PROVE  /\ \A i \in Nat : Ahead(a, u, i) \in Fractions /\ Leq(Whole(a), Ahead(a, u, i))
         /\ \A i \in Nat, j \in Nat : i < j => ~Leq(Ahead(a, u, j), Ahead(a, u, i))
<1>1. \A i \in Nat : Ahead(a, u, i) \in Fractions /\ Over(Ahead(a, u, i), a * m + k * i, m)
  BY AheadIs
<1>2. ASSUME NEW i \in Nat
      PROVE  Leq(Whole(a), Ahead(a, u, i))
  <2> DEFINE x == a * m  y == k * i
  <2>1. Whole(a) \in Fractions /\ Over(Whole(a), x, m)
    <3>1. m \in Int
      OBVIOUS
    <3>2. Whole(a) \in Fractions /\ Over(Whole(a), a * m, m)
      BY <3>1, WholeIs
    <3> QED BY <3>2
  <2>2. Ahead(a, u, i) \in Fractions /\ Over(Ahead(a, u, i), x + y, m)
    BY <1>1
  <2>3. x \in Int /\ y \in Int /\ y >= 0 /\ x + y \in Int
    OBVIOUS
  <2> HIDE DEF x, y
  <2>4. Leq(Whole(a), Ahead(a, u, i)) <=> x <= x + y
    BY <2>1, <2>2, <2>3, LeqOver
  <2> QED BY <2>3, <2>4
<1>3. ASSUME NEW i \in Nat, NEW j \in Nat, i < j
      PROVE  ~Leq(Ahead(a, u, j), Ahead(a, u, i))
  <2> DEFINE x == a * m  y == k * i  z == k * j
  <2>1. Ahead(a, u, i) \in Fractions /\ Over(Ahead(a, u, i), x + y, m)
    BY <1>1
  <2>2. Ahead(a, u, j) \in Fractions /\ Over(Ahead(a, u, j), x + z, m)
    BY <1>1
  <2>3. x \in Int /\ y \in Int /\ z \in Int
    OBVIOUS
  <2>4. y < z
    <3>1. k * (i + 1) <= k * j
      <4>1. i + 1 \in Int /\ j \in Int /\ k \in Nat /\ i + 1 <= j
        BY <1>3
      <4> QED BY <4>1, ProductsInOrder
    <3>2. k * (i + 1) = y + k
      OBVIOUS
    <3>3. y + k <= z
      BY <3>1, <3>2
    <3> HIDE DEF y, z
    <3> QED BY <2>3, <3>3
  <2> HIDE DEF x, y, z
  <2>5. x + y \in Int /\ x + z \in Int
    BY <2>3
  <2>6. Leq(Ahead(a, u, j), Ahead(a, u, i)) <=> x + z <= x + y
    BY <2>1, <2>2, <2>5, LeqOver
  <2> QED BY <2>3, <2>4, <2>6
<1> QED BY <1>1, <1>2, <1>3

PathPoints == [t : Fractions, y : Fractions]

\* A projection leaves the row it is anchored at and goes forward in time.
Leaves(polyline, row) ==
    /\ polyline \in Seq(PathPoints) /\ Len(polyline) >= 2
    /\ polyline[1].t = Whole(row.t) /\ polyline[1].y = Whole(row.y)
    /\ \A k \in 1..Len(polyline) : Leq(Whole(row.t), polyline[k].t)
    /\ \A k \in 1..(Len(polyline) - 1) : ~Leq(polyline[k + 1].t, polyline[k].t)

LEMMA AutoLeaves ==
  ASSUME NEW row \in NumberedRows, NEW slope \in Fractions, NEW u \in Fractions,
         NEW k \in Nat \ {0}, NEW m \in Nat \ {0}, Over(u, k, m), NEW n \in Nat, n >= 2,
         NEW h \in [1..n -> Nat], h[1] = 0, \A i \in 1..(n - 1) : h[i] < h[i + 1],
         NEW polyline, polyline = [i \in 1..n |-> [t |-> Ahead(row.t, u, h[i]),
                                           y |-> Plus(Whole(row.y), Times(slope, Times(u, Whole(h[i]))))]]
  PROVE  Leaves(polyline, row)
<1>1. row.t \in Int /\ row.y \in Int
  BY DEF NumberedRows
<1>2. /\ \A i \in Nat : Ahead(row.t, u, i) \in Fractions /\ Leq(Whole(row.t), Ahead(row.t, u, i))
      /\ \A i \in Nat, j \in Nat : i < j => ~Leq(Ahead(row.t, u, j), Ahead(row.t, u, i))
  BY <1>1, AheadInTime
<1>3. \A i \in Nat : Plus(Whole(row.y), Times(slope, Times(u, Whole(i)))) \in Fractions
  <2> TAKE i \in Nat
  <2>1. i \in Int
    OBVIOUS
  <2>2. Whole(i) \in Fractions /\ Whole(row.y) \in Fractions
    BY <1>1, <2>1, WholeIs
  <2>3. Times(u, Whole(i)) \in Fractions
    BY <2>2, SumAndProduct
  <2>4. Times(slope, Times(u, Whole(i))) \in Fractions
    BY <2>3, SumAndProduct
  <2> QED BY <2>2, <2>4, SumAndProduct
<1> DEFINE point(i) == [t |-> Ahead(row.t, u, i), y |-> Plus(Whole(row.y), Times(slope, Times(u, Whole(i))))]
<1>4. \A i \in Nat : /\ point(i) \in PathPoints
                     /\ point(i).t = Ahead(row.t, u, i)
                     /\ point(i).y = Plus(Whole(row.y), Times(slope, Times(u, Whole(i))))
  BY <1>2, <1>3 DEF PathPoints
<1>5. polyline = [i \in 1..n |-> point(h[i])]
  OBVIOUS
<1> HIDE DEF point
<1>6. polyline \in [1..n -> PathPoints]
  BY <1>4, <1>5
<1>7. polyline \in Seq(PathPoints) /\ Len(polyline) = n
  BY <1>6, FcnSeq
<1>8. \A i \in 1..n : polyline[i] = point(h[i]) /\ h[i] \in Nat
  BY <1>5
<1>9. \A i \in 1..n : Leq(Whole(row.t), polyline[i].t)
  BY <1>2, <1>4, <1>8
<1>10. ASSUME NEW i \in 1..(n - 1) PROVE ~Leq(polyline[i + 1].t, polyline[i].t)
  <2>1. i \in 1..n /\ i + 1 \in 1..n /\ h[i] < h[i + 1]
    OBVIOUS
  <2>2. polyline[i].t = Ahead(row.t, u, h[i]) /\ polyline[i + 1].t = Ahead(row.t, u, h[i + 1])
    BY <1>4, <1>8, <2>1
  <2>3. h[i] \in Nat /\ h[i + 1] \in Nat
    BY <2>1
  <2> QED BY <1>2, <2>1, <2>2, <2>3
<1>11. polyline[1].t = Whole(row.t) /\ polyline[1].y = Whole(row.y)
  <2>1. 1 \in 1..n /\ 0 \in Nat /\ 0 \in Int
    OBVIOUS
  <2>2. polyline[1] = point(h[1])
    BY <1>8, <2>1
  <2>3. polyline[1].t = Ahead(row.t, u, h[1]) /\ polyline[1].y = Plus(Whole(row.y), Times(slope, Times(u, Whole(h[1]))))
    BY <1>4, <2>1, <2>2
  <2>4. Whole(0) \in Fractions /\ Times(u, Whole(0)) = Whole(0) /\ Times(slope, Whole(0)) = Whole(0)
    BY <2>1, WholeIs, NothingMore
  <2>5. Plus(Whole(row.t), Whole(0)) = Whole(row.t) /\ Plus(Whole(row.y), Whole(0)) = Whole(row.y)
    BY <1>1, NothingMore
  <2> QED BY <2>3, <2>4, <2>5 DEF Ahead
<1> QED BY <1>7, <1>9, <1>10, <1>11 DEF Leaves

LEMMA TargetLeaves ==
  ASSUME NEW row \in NumberedRows, NEW u \in Fractions,
         NEW k \in Nat \ {0}, NEW m \in Nat \ {0}, Over(u, k, m)
  PROVE  Leaves(TargetPath(row, u), row)
<1>1. row.t \in Int /\ row.y \in Int /\ EndValue \in Int /\ HorizonPoints \in Nat /\ HorizonPoints > 0
  BY ShapeAssumption DEF NumberedRows
<1>2. /\ \A i \in Nat : Ahead(row.t, u, i) \in Fractions /\ Leq(Whole(row.t), Ahead(row.t, u, i))
      /\ \A i \in Nat, j \in Nat : i < j => ~Leq(Ahead(row.t, u, j), Ahead(row.t, u, i))
  BY <1>1, AheadInTime
<1>3. Ahead(row.t, u, 0) = Whole(row.t)
  <2>1. Times(u, Whole(0)) = Whole(0) /\ Plus(Whole(row.t), Whole(0)) = Whole(row.t)
    BY <1>1, NothingMore
  <2> QED BY <2>1 DEF Ahead
<1>4. Whole(row.t) \in Fractions /\ Whole(row.y) \in Fractions /\ Whole(EndValue) \in Fractions
  BY <1>1, WholeIs
<1> DEFINE p == [t |-> Whole(row.t), y |-> Whole(row.y)]
           q == [t |-> Ahead(row.t, u, HorizonPoints), y |-> Whole(EndValue)]
           polyline == TargetPath(row, u)
<1>5. p \in PathPoints /\ q \in PathPoints
  BY <1>1, <1>2, <1>4 DEF PathPoints
<1>6. p.t = Whole(row.t) /\ p.y = Whole(row.y) /\ q.t = Ahead(row.t, u, HorizonPoints)
  OBVIOUS
<1>7. polyline = <<p, q>>
  BY DEF TargetPath, Ahead
<1> HIDE DEF p, q, polyline
<1>8. polyline \in Seq(PathPoints) /\ Len(polyline) = 2 /\ polyline[1] = p /\ polyline[2] = q
  BY <1>5, <1>7
<1>9. Leq(Whole(row.t), p.t) /\ Leq(Whole(row.t), q.t) /\ ~Leq(q.t, p.t)
  <2>1. 0 \in Nat
    OBVIOUS
  <2> QED BY <1>1, <1>2, <1>3, <1>6, <2>1
<1>10. \A i \in 1..2 : i = 1 \/ i = 2
  OBVIOUS
<1>11. \A i \in 1..(2 - 1) : i = 1 /\ i + 1 = 2
  OBVIOUS
<1> QED BY <1>6, <1>8, <1>9, <1>10, <1>11 DEF Leaves, polyline

LEMMA PathLeaves ==
  ASSUME NEW rr \in Seq(SeriesRows), proj \in Projections, ProjectionPath(rr) # <<>>
  PROVE  /\ rr # <<>> /\ StartIndex(rr) + 1 \in 1..Len(rr)
         /\ Leaves(ProjectionPath(rr), rr[StartIndex(rr) + 1])
<1> DEFINE start == StartIndex(rr)  row == rr[start + 1]  u == IntervalMs(rr, start)
           past_ == HistoryPoints(rr, start)
<1>1. rr # <<>> /\ row.y # NoValue
  BY DEF ProjectionPath
<1>2. start \in 0..(Len(rr) - 1) /\ Len(rr) \in Nat
  BY <1>1, StartsAt, LenProperties
<1>3. start + 1 \in 1..Len(rr)
  <2> HIDE DEF start
  <2> QED BY <1>2
<1>4. row \in NumberedRows
  <2>1. row \in SeriesRows /\ row.t \in Int /\ row.y \in Int
    BY <1>1, <1>3, RowAt
  <2> QED BY <2>1 DEF SeriesRows, NumberedRows
<1>5. u \in Fractions /\ past_ \in Seq(NumberedRows)
  BY <1>2, IntervalIs, HistoryIs
<1>6. PICK k \in Nat \ {0}, m \in Nat \ {0} : Over(u, k, m)
  BY <1>2, IntervalIs
<1>7. ProjectionPath(rr) = IF proj.mode = "target" THEN TargetPath(row, u) ELSE AutoFutureValues(row, past_, u)
  BY <1>1 DEF ProjectionPath
<1> HIDE DEF start, row, u, past_
<1>8. CASE proj.mode = "target"
  <2>1. Leaves(TargetPath(row, u), row)
    BY <1>4, <1>5, <1>6, TargetLeaves
  <2> QED BY <1>1, <1>3, <1>7, <1>8, <2>1 DEF start, row
<1>9. CASE proj.mode # "target"
  <2> DEFINE slope == IF proj.autoMethod = "lastSegment" /\ Len(past_) >= 2 THEN SegmentSlope(past_)
                      ELSE RegressionSlope(past_)
             polyline == AutoFutureValues(row, past_, u)
             point(i) == [t |-> Ahead(row.t, u, i),
                          y |-> Plus(Whole(row.y), Times(slope, Times(u, Whole(i))))]
  <2>1. slope \in Fractions
    BY <1>5, SegmentIs, RegressionIs
  <2>2. polyline = IF proj.pathDensity = "endpoints" THEN <<point(0), point(HorizonPoints)>>
               ELSE [i \in 1..(HorizonPoints + 1) |-> point(i - 1)]
    BY DEF AutoFutureValues, Ahead
  <2> HIDE DEF slope, polyline
  <2>3. HorizonPoints \in Nat /\ HorizonPoints > 0
    BY ShapeAssumption
  <2>4. CASE proj.pathDensity = "endpoints"
    <3> DEFINE h == [i \in 1..2 |-> IF i = 1 THEN 0 ELSE HorizonPoints]
    <3>1. h \in [1..2 -> Nat] /\ h[1] = 0 /\ h[2] = HorizonPoints /\ 2 \in Nat /\ 2 >= 2
      BY <2>3
    <3>2. polyline = [i \in 1..2 |-> point(h[i])]
      <4>1. polyline = <<point(0), point(HorizonPoints)>>
        BY <2>2, <2>4
      <4> HIDE DEF point, h
      <4>2. <<point(0), point(HorizonPoints)>> = [i \in 1..2 |-> point(h[i])]
        BY <3>1
      <4> QED BY <4>1, <4>2
    <3>3. \A i \in 1..(2 - 1) : h[i] < h[i + 1]
      <4>1. \A i \in 1..(2 - 1) : i = 1 /\ i + 1 = 2
        OBVIOUS
      <4> QED BY <2>3, <3>1, <4>1
    <3> HIDE DEF h
    <3>4. Leaves(polyline, row)
      BY <1>4, <1>5, <1>6, <2>1, <3>1, <3>2, <3>3, AutoLeaves
    <3> QED BY <1>1, <1>3, <1>7, <1>9, <3>4 DEF start, row, polyline
  <2>5. CASE proj.pathDensity # "endpoints"
    <3> DEFINE n == HorizonPoints + 1  h == [i \in 1..n |-> i - 1]
    <3>1. n \in Nat /\ n >= 2 /\ h \in [1..n -> Nat] /\ h[1] = 0
      BY <2>3
    <3>2. polyline = [i \in 1..n |-> point(h[i])]
      <4>1. polyline = [i \in 1..n |-> point(i - 1)]
        BY <2>2, <2>5
      <4>2. \A i \in 1..n : h[i] = i - 1
        OBVIOUS
      <4> HIDE DEF point, h, n
      <4> QED BY <4>1, <4>2
    <3>3. \A i \in 1..(n - 1) : h[i] < h[i + 1]
      BY <2>3
    <3> HIDE DEF h, n
    <3>4. Leaves(polyline, row)
      BY <1>4, <1>5, <1>6, <2>1, <3>1, <3>2, <3>3, AutoLeaves
    <3> QED BY <1>1, <1>3, <1>7, <1>9, <3>4 DEF start, row, polyline
  <2> QED BY <2>4, <2>5
<1> QED BY <1>8, <1>9

LEMMA GoesOn == ShapeInv => ProjectionGoesOn
<1> SUFFICES ASSUME ShapeInv, ProjectionPath(past) # <<>>
             PROVE  Leaves(ProjectionPath(past), past[StartIndex(past) + 1])
  BY DEF ProjectionGoesOn, Leaves
<1> QED BY PathLeaves DEF ShapeInv

-----------------------------------------------------------------------------
(* The domains show everything that is drawn.                                  *)

Minus(a, b) == Plus(a, Times(b, Whole(-1)))

LEMMA MinusOver ==
  ASSUME NEW a \in Fractions, NEW b \in Fractions, NEW i \in Int, NEW j \in Int, NEW m \in Nat \ {0},
         Over(a, i, m), Over(b, j, m)
  PROVE  Minus(a, b) \in Fractions /\ Over(Minus(a, b), i - j, m)
<1> DEFINE k == -1  b_ == Times(b, Whole(k))
<1>1. k \in Int /\ 1 \in Nat \ {0} /\ 1 \in Int /\ k * 1 = k
  OBVIOUS
<1>2. Whole(k) \in Fractions /\ Over(Whole(k), k * 1, 1)
  <2> HIDE DEF k
  <2> QED BY <1>1, WholeIs
<1>3. b_ \in Fractions /\ Over(b_, j * k, m * 1)
  <2>1. Over(Whole(k), k, 1)
    BY <1>1, <1>2
  <2> HIDE DEF k
  <2> QED BY <1>1, <1>2, <2>1, TimesOver
<1>4. j * k = -j /\ m * 1 = m /\ -j \in Int
  OBVIOUS
<1>5. Minus(a, b) = Plus(a, b_)
  BY DEF Minus
<1> HIDE DEF b_, k
<1> DEFINE o == -j
<1>6. Over(b_, o, m) /\ o \in Int /\ i + o = i - j
  BY <1>3, <1>4
<1> HIDE DEF o
<1>7. Plus(a, b_) \in Fractions /\ Over(Plus(a, b_), i + o, m)
  BY <1>3, <1>6, PlusOver
<1> QED BY <1>5, <1>6, <1>7

LEMMA SignOf ==
  ASSUME NEW a \in Fractions
  PROVE  (Leq(Whole(0), a) <=> a.n >= 0) /\ (Leq(a, Whole(0)) <=> a.n <= 0)
<1>1. a.n \in Int /\ a.d \in Int
  BY DEF Fractions
<1>2. 0 * a.d = 0 /\ a.n * 1 = a.n
  BY <1>1
<1> QED BY <1>1, <1>2 DEF Leq, Whole

Bounds == [min : Fractions, max : Fractions]
Covers(wide, narrow) == Leq(wide.min, narrow.min) /\ Leq(narrow.max, wide.max)

LEMMA ExtentsOfPath ==
  ASSUME NEW polyline \in Seq(PathPoints), Len(polyline) >= 1
  PROVE  /\ ValueExtents(polyline) \in Bounds /\ DateExtents(polyline) \in Bounds
         /\ Leq(ValueExtents(polyline).min, ValueExtents(polyline).max)
         /\ \A i \in 1..Len(polyline) :
              /\ Leq(ValueExtents(polyline).min, polyline[i].y) /\ Leq(polyline[i].y, ValueExtents(polyline).max)
              /\ Leq(polyline[i].t, DateExtents(polyline).max)
<1> DEFINE n == Len(polyline)
           ys == [i \in 1..n |-> polyline[i].y]
           ts == [i \in 1..n |-> polyline[i].t]
           Y == {p.y : p \in ToSet(polyline)}
           T == {p.t : p \in ToSet(polyline)}
<1>1. n \in Nat /\ n >= 1 /\ DOMAIN polyline = 1..n /\ \A i \in 1..n : polyline[i] \in PathPoints
  BY LenProperties, ElementOfSeq
<1>2. \A i \in 1..n : polyline[i].y \in Fractions /\ polyline[i].t \in Fractions
  BY <1>1 DEF PathPoints
<1>3. \A i \in 1..n : ys[i] = polyline[i].y /\ ts[i] = polyline[i].t /\ ys[i] \in Fractions /\ ts[i] \in Fractions
  BY <1>2
<1>4. Y = {polyline[i].y : i \in 1..n} /\ T = {polyline[i].t : i \in 1..n}
  BY <1>1 DEF ToSet
<1>5. /\ ValueExtents(polyline) = [min |-> Smallest(Y), max |-> Greatest(Y)]
      /\ DateExtents(polyline) = [min |-> Smallest(T), max |-> Greatest(T)]
  BY DEF ValueExtents, DateExtents
<1> HIDE DEF n, ys, ts, Y, T
<1>6. PICK i \in 1..n : \A j \in 1..n : Leq(ys[j], ys[i])
  BY <1>1, <1>3, GreatestOfFractions
<1>7. PICK k \in 1..n : \A j \in 1..n : Leq(ys[k], ys[j])
  BY <1>1, <1>3, SmallestOfFractions
<1>8. PICK l \in 1..n : \A j \in 1..n : Leq(ts[j], ts[l])
  BY <1>1, <1>3, GreatestOfFractions
<1>9. PICK m \in 1..n : \A j \in 1..n : Leq(ts[m], ts[j])
  BY <1>1, <1>3, SmallestOfFractions
<1>10. Greatest(Y) \in Y /\ \A y \in Y : Leq(y, Greatest(Y))
  <2>1. ys[i] \in Y /\ \A y \in Y : Leq(y, ys[i])
    BY <1>3, <1>4, <1>6
  <2> QED BY <2>1, GreatestAmong
<1>11. Smallest(Y) \in Y /\ \A y \in Y : Leq(Smallest(Y), y)
  <2>1. ys[k] \in Y /\ \A y \in Y : Leq(ys[k], y)
    BY <1>3, <1>4, <1>7
  <2> QED BY <2>1, SmallestAmong
<1>12. Greatest(T) \in T /\ \A t \in T : Leq(t, Greatest(T))
  <2>1. ts[l] \in T /\ \A t \in T : Leq(t, ts[l])
    BY <1>3, <1>4, <1>8
  <2> QED BY <2>1, GreatestAmong
<1>13. Smallest(T) \in T
  <2>1. ts[m] \in T /\ \A t \in T : Leq(ts[m], t)
    BY <1>3, <1>4, <1>9
  <2> QED BY <2>1, SmallestAmong
<1>14. Y \subseteq Fractions /\ T \subseteq Fractions
  BY <1>2, <1>4
<1>15. \A j \in 1..n : polyline[j].y \in Y /\ polyline[j].t \in T
  BY <1>4
<1>16. ValueExtents(polyline) \in Bounds /\ DateExtents(polyline) \in Bounds
  BY <1>5, <1>10, <1>11, <1>12, <1>13, <1>14 DEF Bounds
<1> QED BY <1>5, <1>10, <1>11, <1>12, <1>15, <1>16 DEF n

\* The dates.
LEMMA DatesIs ==
  ASSUME NEW rr \in Seq(SeriesRows), rr # <<>>, proj \in Projections
  PROVE  \E lo \in Int, hi \in Int :
           /\ XDomainOf(rr).from = Whole(lo) /\ XDomainOf(rr).to \in Fractions
           /\ lo <= hi /\ Leq(Whole(hi), XDomainOf(rr).to)
           /\ \A i \in 1..Len(rr) : lo <= rr[i].t /\ rr[i].t <= hi
           /\ \A i \in 1..Len(ProjectionPath(rr)) : Leq(ProjectionPath(rr)[i].t, XDomainOf(rr).to)
<1> DEFINE n == Len(rr)
           ts == [i \in 1..n |-> rr[i].t]
           T == {r.t : r \in ToSet(rr)}
           polyline == ProjectionPath(rr)
<1>1. n \in Nat /\ n >= 1 /\ DOMAIN rr = 1..n
  BY LenProperties, EmptySeq
<1>2. \A i \in 1..n : rr[i].t \in Int
  BY RowAt
<1>3. \A i \in 1..n : ts[i] = rr[i].t /\ ts[i] \in Int
  BY <1>2
<1>4. T = {rr[i].t : i \in 1..n}
  BY <1>1 DEF ToSet
<1>5. XDomainOf(rr) = [from |-> Whole(Min(T)), to |-> MergeProjectionXMax(Whole(Max(T)), polyline)]
  BY DEF XDomainOf
<1> HIDE DEF n, ts, T
<1>6. PICK a \in 1..n : \A j \in 1..n : ts[a] <= ts[j]
  BY <1>1, <1>3, LeastOf
<1>7. PICK b \in 1..n : \A j \in 1..n : ts[j] <= ts[b]
  BY <1>1, <1>3, GreatestOf
<1> DEFINE lo == rr[a].t  hi == rr[b].t
<1>8. lo \in Int /\ hi \in Int /\ lo <= hi /\ \A i \in 1..n : lo <= rr[i].t /\ rr[i].t <= hi
  BY <1>2, <1>3, <1>6, <1>7
<1>9. Min(T) = lo /\ Max(T) = hi
  <2>1. T \subseteq Int /\ lo \in T /\ hi \in T /\ \A y \in T : lo <= y /\ y <= hi
    BY <1>2, <1>4, <1>8
  <2> HIDE DEF lo, hi
  <2> QED BY <2>1, MinIs, MaxIs
<1> HIDE DEF lo, hi
<1>10. Whole(hi) \in Fractions
  BY <1>8, WholeIs
<1>11. CASE polyline = <<>>
  <2>1. XDomainOf(rr).to = Whole(hi)
    BY <1>5, <1>9, <1>11 DEF MergeProjectionXMax
  <2>2. Leq(Whole(hi), Whole(hi)) /\ Len(polyline) = 0
    BY <1>10, <1>11, LeqOrder
  <2>3. \A i \in 1..Len(polyline) : FALSE
    BY <2>2
  <2> QED BY <1>5, <1>8, <1>9, <1>10, <2>1, <2>2, <2>3 DEF n
<1>12. CASE polyline # <<>>
  <2> DEFINE d == DateExtents(polyline).max  to == Greatest({Whole(hi), d})
  <2>1. polyline \in Seq(PathPoints) /\ Len(polyline) >= 1
    BY <1>12, PathLeaves DEF Leaves
  <2>2. XDomainOf(rr).to = to
    BY <1>5, <1>9, <1>12 DEF MergeProjectionXMax
  <2>3. d \in Fractions /\ \A i \in 1..Len(polyline) : Leq(polyline[i].t, d)
    BY <2>1, ExtentsOfPath DEF Bounds
  <2> HIDE DEF d
  <2>4. to \in {Whole(hi), d} /\ Leq(Whole(hi), to) /\ Leq(d, to)
    BY <1>10, <2>3, GreatestOfTwo
  <2>5. to \in Fractions
    BY <1>10, <2>3, <2>4
  <2> HIDE DEF to
  <2>6. ASSUME NEW i \in 1..Len(polyline) PROVE Leq(polyline[i].t, to)
    <3>1. polyline[i] \in PathPoints
      BY <2>1, ElementOfSeq
    <3>2. polyline[i].t \in Fractions /\ Leq(polyline[i].t, d)
      BY <2>3, <3>1 DEF PathPoints
    <3> QED BY <2>3, <2>4, <2>5, <3>2, LeqOrder
  <2> QED BY <1>5, <1>8, <1>9, <2>2, <2>4, <2>5, <2>6 DEF n
<1> QED BY <1>11, <1>12

\* The values, in hundredths.
LEMMA ValuesIn ==
  ASSUME NEW rr \in Seq(SeriesRows)
  PROVE  \E lo \in Int, hi \in Int :
           /\ NumericExtents(rr).min = lo /\ NumericExtents(rr).max = hi /\ lo <= hi
           /\ \A i \in 1..Len(rr) : rr[i].y # NoValue => lo <= rr[i].y /\ rr[i].y <= hi
<1> DEFINE n == Len(rr)
           V == {r.y : r \in ToSet(rr)} \ {NoValue}
<1>1. n \in Nat /\ DOMAIN rr = 1..n
  BY LenProperties
<1>2. V = {rr[i].y : i \in 1..n} \ {NoValue}
  BY <1>1 DEF ToSet
<1>3. NumericExtents(rr) = IF V = {} THEN [min |-> 0, max |-> 100] ELSE [min |-> Min(V), max |-> Max(V)]
  BY DEF NumericExtents
<1>4. \A i \in 1..n : rr[i].y # NoValue => rr[i].y \in Int
  BY RowAt
<1> HIDE DEF n, V
<1>5. \A i \in 1..n : rr[i].y # NoValue => rr[i].y \in V
  BY <1>2
<1>6. CASE V = {}
  <2>1. NumericExtents(rr).min = 0 /\ NumericExtents(rr).max = 100 /\ 0 <= 100 /\ 0 \in Int /\ 100 \in Int
    BY <1>3, <1>6
  <2>2. \A i \in 1..n : rr[i].y = NoValue
    BY <1>5, <1>6
  <2> QED BY <2>1, <2>2 DEF n
<1>7. CASE V # {}
  <2>1. PICK k \in 1..n : rr[k].y # NoValue
    BY <1>2, <1>7
  <2> DEFINE some == rr[k].y
             vs == [i \in 1..n |-> IF rr[i].y = NoValue THEN some ELSE rr[i].y]
  <2>2. some \in Int /\ some \in V
    BY <1>4, <1>5, <2>1
  <2> HIDE DEF some
  <2>3. \A i \in 1..n : vs[i] = (IF rr[i].y = NoValue THEN some ELSE rr[i].y) /\ vs[i] \in Int /\ vs[i] \in V
    BY <1>4, <1>5, <2>2
  <2> HIDE DEF vs
  <2>4. n >= 1
    BY <1>1, <2>1
  <2>5. PICK a \in 1..n : \A j \in 1..n : vs[a] <= vs[j]
    BY <1>1, <2>3, <2>4, LeastOf
  <2>6. PICK b \in 1..n : \A j \in 1..n : vs[j] <= vs[b]
    BY <1>1, <2>3, <2>4, GreatestOf
  <2>7. \A y \in V : \E i \in 1..n : vs[i] = y
    BY <1>2, <2>3
  <2> DEFINE lo == vs[a]  hi == vs[b]
  <2>8. lo \in V /\ hi \in V /\ lo \in Int /\ hi \in Int /\ V \subseteq Int /\ \A y \in V : lo <= y /\ y <= hi
    BY <1>2, <1>4, <2>3, <2>5, <2>6, <2>7
  <2> HIDE DEF lo, hi
  <2>9. Min(V) = lo /\ Max(V) = hi
    BY <2>8, MinIs, MaxIs
  <2>10. NumericExtents(rr).min = lo /\ NumericExtents(rr).max = hi
    BY <1>3, <1>7, <2>9
  <2> QED BY <1>5, <2>8, <2>10 DEF n
<1> QED BY <1>6, <1>7

LEMMA ValuesInHundredths ==
  ASSUME NEW rr \in Seq(SeriesRows)
  PROVE  /\ TimeSeriesYDomain(rr).min \in Int /\ TimeSeriesYDomain(rr).max \in Int
         /\ TimeSeriesYDomain(rr).min <= TimeSeriesYDomain(rr).max
         /\ \A i \in 1..Len(rr) : rr[i].y # NoValue =>
              /\ TimeSeriesYDomain(rr).min <= 100 * rr[i].y
              /\ 100 * rr[i].y <= TimeSeriesYDomain(rr).max
<1>1. PICK lo \in Int, hi \in Int :
           /\ NumericExtents(rr).min = lo /\ NumericExtents(rr).max = hi /\ lo <= hi
           /\ \A i \in 1..Len(rr) : rr[i].y # NoValue => lo <= rr[i].y /\ rr[i].y <= hi
  BY ValuesIn
<1> DEFINE padding == IF hi = lo THEN 100 ELSE 5 * (hi - lo)
           top == IF hi <= 0 THEN 10000 ELSE 110 * hi
           D == TimeSeriesYDomain(rr)
<1>2. D = IF lo >= 0 THEN [min |-> 0, max |-> top] ELSE [min |-> 100 * lo - padding, max |-> 100 * hi + padding]
  BY <1>1 DEF TimeSeriesYDomain
<1>3. top \in Int /\ 0 <= top /\ (lo >= 0 => 100 * hi <= top)
  BY <1>1
<1>4. padding \in Int /\ padding >= 0
  BY <1>1
<1> HIDE DEF top, padding, D
<1>5. D.min \in Int /\ D.max \in Int /\ D.min <= 100 * lo /\ 100 * hi <= D.max /\ D.min <= D.max
  <2>1. CASE lo >= 0
    <3>1. D.min = 0 /\ D.max = top
      BY <1>2, <2>1
    <3> QED BY <1>3, <2>1, <3>1
  <2>2. CASE ~(lo >= 0)
    <3>1. D.min = 100 * lo - padding /\ D.max = 100 * hi + padding
      BY <1>2, <2>2
    <3> QED BY <1>1, <1>4, <3>1
  <2> QED BY <2>1, <2>2
<1>6. ASSUME NEW i \in 1..Len(rr), rr[i].y # NoValue
      PROVE  D.min <= 100 * rr[i].y /\ 100 * rr[i].y <= D.max
  <2>1. rr[i].y \in Int
    BY <1>6, RowAt
  <2>2. lo <= rr[i].y /\ rr[i].y <= hi
    BY <1>1, <1>6
  <2> QED BY <1>5, <2>1, <2>2
<1> QED BY <1>5, <1>6 DEF D

LEMMA NiceOnceCovers ==
  ASSUME NEW dom, dom.min \in Int, dom.max \in Int
  PROVE  /\ NiceOnce(dom).min \in Int /\ NiceOnce(dom).max \in Int
         /\ NiceOnce(dom).min <= dom.min /\ dom.max <= NiceOnce(dom).max
<1> DEFINE span == dom.max - dom.min
           P == {p \in {1, 10, 100, 1000} : 10 * p <= Max({span, 10})}
           power == Max(P)
           error == (10 * span) \div power
           wide == error * error >= 10000 * 50
           mid == error * error >= 10000 * 10
           narrow == error * error >= 10000 * 2
           apply == power * (IF wide THEN 10 ELSE IF mid THEN 5 ELSE IF narrow THEN 2 ELSE 1)
           lo == dom.min \div apply
           hi == (-dom.max) \div apply
<1>1. NiceOnce(dom) = [min |-> lo * apply, max |-> -(hi * apply)]
  BY DEF NiceOnce
<1>2. power \in Nat \ {0}
  <2>1. Max({span, 10}) >= 10
    <3>1. span \in Int /\ 10 \in Int
      OBVIOUS
    <3> HIDE DEF span
    <3>2. Max({span, 10}) = IF span < 10 THEN 10 ELSE span
      BY <3>1, MaxOfTwo
    <3> QED BY <3>1, <3>2
  <2>2. 1 \in P
    <3>1. 10 * 1 <= Max({span, 10})
      <4>1. Max({span, 10}) \in Int
        <5>1. span \in Int /\ 10 \in Int
          OBVIOUS
        <5> HIDE DEF span
        <5>2. Max({span, 10}) = IF span < 10 THEN 10 ELSE span
          BY <5>1, MaxOfTwo
        <5> QED BY <5>1, <5>2
      <4> QED BY <2>1, <4>1
    <3> QED BY <3>1
  <2> DEFINE most == 1000
  <2>3. P \subseteq Int /\ most \in Int /\ \A p \in P : p \in Nat \ {0} /\ p <= most
    OBVIOUS
  <2> HIDE DEF P, most
  <2>4. PICK x \in P : \A y \in P : y <= x
    <3>1. P # {} /\ \A p \in P : p <= most
      BY <2>2, <2>3
    <3> QED BY <2>3, <3>1, GreatestIn
  <2>5. power = x
    BY <2>3, <2>4, MaxIs
  <2> QED BY <2>3, <2>5
<1> HIDE DEF wide, mid, narrow, power
<1>3. apply \in Nat \ {0}
  <2> DEFINE c == IF wide THEN 10 ELSE IF mid THEN 5 ELSE IF narrow THEN 2 ELSE 1
  <2>1. c \in {1, 2, 5, 10}
    OBVIOUS
  <2>2. apply = power * c
    OBVIOUS
  <2> HIDE DEF c, apply
  <2> QED BY <1>2, <2>1, <2>2
<1> HIDE DEF apply
<1>4. lo \in Int /\ apply * lo <= dom.min
  BY <1>3, Quotient
<1>5. hi \in Int /\ apply * hi <= -dom.max
  <2> DEFINE o == -dom.max
  <2>1. o \in Int
    OBVIOUS
  <2> HIDE DEF o
  <2>2. o \div apply \in Int /\ apply * (o \div apply) <= o
    BY <1>3, <2>1, Quotient
  <2> QED BY <2>2 DEF o
<1> HIDE DEF lo, hi
<1> DEFINE a == apply * lo  b == apply * hi
<1>6. a \in Int /\ b \in Int /\ lo * apply = a /\ hi * apply = b
  BY <1>3, <1>4, <1>5
<1>7. a <= dom.min /\ b <= -dom.max
  BY <1>4, <1>5
<1> HIDE DEF a, b
<1>8. NiceOnce(dom).min = a /\ NiceOnce(dom).max = -b
  BY <1>1, <1>6
<1> QED BY <1>6, <1>7, <1>8

LEMMA NiceCovers ==
  ASSUME NEW dom, dom.min \in Int, dom.max \in Int, dom.min <= dom.max
  PROVE  /\ NiceYDomain(dom) \in Bounds
         /\ Leq(NiceYDomain(dom).min, NiceYDomain(dom).max)
         /\ \A y \in Int : dom.min <= 100 * y /\ 100 * y <= dom.max =>
              Leq(NiceYDomain(dom).min, Whole(y)) /\ Leq(Whole(y), NiceYDomain(dom).max)
<1> DEFINE once == NiceOnce(dom)  nice == NiceOnce(once)
           lo == Frac(nice.min, 100)  hi == Frac(nice.max, 100)
<1>1. once.min \in Int /\ once.max \in Int /\ once.min <= dom.min /\ dom.max <= once.max
  BY NiceOnceCovers
<1> HIDE DEF once
<1>2. nice.min \in Int /\ nice.max \in Int /\ nice.min <= once.min /\ once.max <= nice.max
  BY <1>1, NiceOnceCovers
<1> HIDE DEF nice
<1>3. NiceYDomain(dom) = [min |-> lo, max |-> hi]
  BY DEF NiceYDomain, nice, once
<1>4. 100 \in Int \ {0} /\ 100 \in Nat \ {0} /\ 100 \in Int
  OBVIOUS
<1>5. lo \in Fractions /\ Over(lo, nice.min, 100)
  BY <1>2, <1>4, FracIs
<1>6. hi \in Fractions /\ Over(hi, nice.max, 100)
  BY <1>2, <1>4, FracIs
<1> HIDE DEF lo, hi
<1>7. nice.min <= dom.min /\ dom.max <= nice.max /\ nice.min <= nice.max
  BY <1>1, <1>2
<1>8. Leq(lo, hi)
  <2>1. Leq(lo, hi) <=> nice.min <= nice.max
    BY <1>2, <1>4, <1>5, <1>6, LeqOver
  <2> QED BY <1>7, <2>1
<1>9. ASSUME NEW y \in Int, dom.min <= 100 * y, 100 * y <= dom.max
      PROVE  Leq(lo, Whole(y)) /\ Leq(Whole(y), hi)
  <2> DEFINE z == y * 100
  <2>1. Whole(y) \in Fractions /\ Over(Whole(y), z, 100)
    BY <1>4, WholeIs
  <2>2. z \in Int /\ dom.min <= z /\ z <= dom.max
    BY <1>9
  <2> HIDE DEF z
  <2>3. Leq(lo, Whole(y)) <=> nice.min <= z
    BY <1>2, <1>4, <1>5, <2>1, <2>2, LeqOver
  <2>4. Leq(Whole(y), hi) <=> z <= nice.max
    BY <1>2, <1>4, <1>6, <2>1, <2>2, LeqOver
  <2> QED BY <1>2, <1>7, <2>2, <2>3, <2>4
<1>10. NiceYDomain(dom) \in Bounds
  BY <1>3, <1>5, <1>6 DEF Bounds
<1> QED BY <1>3, <1>8, <1>9, <1>10

\* A part of something positive is positive, and more than the whole is more.
LEMMA ScaledUp ==
  ASSUME NEW a \in Fractions, a.n >= 0, NEW k \in Nat, NEW r \in Nat \ {0}
  PROVE  LET b == Times(a, [n |-> k, d |-> r])
         IN  b \in Fractions /\ Leq(Whole(0), b) /\ (k >= r => Leq(a, b))
<1> DEFINE f == [n |-> k, d |-> r]  b == Times(a, f)  i == a.n  m == a.d
<1>1. a \in Fractions /\ i \in Nat /\ m \in Nat \ {0} /\ Over(a, i, m)
  BY OwnOver
<1>2. f \in Fractions /\ Over(f, k, r)
  <2>1. f.n = k /\ f.d = r /\ f \in Fractions
    BY DEF Fractions
  <2> HIDE DEF f
  <2> QED BY <2>1, OwnOver
<1> HIDE DEF f, i, m
<1>3. i \in Int /\ k \in Int
  BY <1>1
<1>4. b \in Fractions /\ Over(b, i * k, m * r)
  BY <1>1, <1>2, <1>3, TimesOver
<1> HIDE DEF b
<1> DEFINE x == i * k  y == m * r  z == i * r
<1>5. x \in Int /\ x >= 0 /\ y \in Nat \ {0} /\ z \in Int /\ y \in Int
  BY <1>1
<1>6. Over(a, z, y)
  <2>1. r \in Int /\ m \in Int
    BY <1>1
  <2> QED BY <1>1, <1>3, <2>1, OverMore
<1>7. k >= r => z <= x
  <2> SUFFICES ASSUME k >= r PROVE z <= x
    OBVIOUS
  <2>1. r <= k /\ r \in Int /\ k \in Int
    OBVIOUS
  <2> QED BY <1>1, <2>1, ProductsInOrder
<1>8. Over(b, x, y)
  BY <1>4
<1> HIDE DEF x, y, z
<1>9. Leq(a, b) <=> z <= x
  BY <1>1, <1>4, <1>5, <1>6, <1>8, LeqOver
<1>10. Leq(Whole(0), b)
  <2> DEFINE o == 0 * y
  <2>1. Whole(0) \in Fractions /\ Over(Whole(0), o, y) /\ o = 0
    <3>1. 0 \in Int
      OBVIOUS
    <3>2. Whole(0) \in Fractions /\ Over(Whole(0), 0 * y, y)
      BY <1>5, <3>1, WholeIs
    <3> QED BY <1>5, <3>2
  <2> HIDE DEF o
  <2>2. o \in Int
    BY <2>1
  <2>3. Leq(Whole(0), b) <=> o <= x
    BY <1>4, <1>5, <1>8, <2>1, <2>2, LeqOver
  <2> QED BY <1>5, <2>1, <2>3
<1> QED BY <1>4, <1>7, <1>9, <1>10 DEF b, f

LEMMA Padded ==
  ASSUME NEW a \in Fractions, NEW b \in Fractions, Leq(Whole(0), b)
  PROVE  /\ Minus(a, b) \in Fractions /\ Plus(a, b) \in Fractions
         /\ Leq(Minus(a, b), a) /\ Leq(a, Plus(a, b))
<1>1. PICK m \in Nat \ {0}, i \in Int, j \in Int : Over(a, i, m) /\ Over(b, j, m)
  BY CommonDenominator
<1>2. 0 <= j
  <2> DEFINE o == 0 * m
  <2>1. Whole(0) \in Fractions /\ Over(Whole(0), o, m)
    <3>1. 0 \in Int /\ m \in Int
      OBVIOUS
    <3>2. Whole(0) \in Fractions /\ Over(Whole(0), 0 * m, m)
      BY <3>1, WholeIs
    <3> QED BY <3>2
  <2>2. o = 0
    OBVIOUS
  <2> HIDE DEF o
  <2>3. o \in Int
    BY <2>2
  <2>4. Leq(Whole(0), b) <=> o <= j
    BY <1>1, <2>1, <2>3, LeqOver
  <2> QED BY <2>2, <2>4
<1>3. Minus(a, b) \in Fractions /\ Over(Minus(a, b), i - j, m)
  BY <1>1, MinusOver
<1>4. Plus(a, b) \in Fractions /\ Over(Plus(a, b), i + j, m)
  BY <1>1, PlusOver
<1>5. i - j \in Int /\ i + j \in Int
  OBVIOUS
<1>6. Leq(Minus(a, b), a) <=> i - j <= i
  BY <1>1, <1>3, <1>5, LeqOver
<1>7. Leq(a, Plus(a, b)) <=> i <= i + j
  BY <1>1, <1>4, <1>5, LeqOver
<1> QED BY <1>2, <1>3, <1>4, <1>6, <1>7

LEMMA DistanceOf ==
  ASSUME NEW a \in Fractions, NEW b \in Fractions, Leq(b, a)
  PROVE  Minus(a, b) \in Fractions /\ Minus(a, b).n >= 0
<1>1. PICK m \in Nat \ {0}, i \in Int, j \in Int : Over(a, i, m) /\ Over(b, j, m)
  BY CommonDenominator
<1>2. j <= i
  BY <1>1, LeqOver
<1>3. Minus(a, b) \in Fractions /\ Over(Minus(a, b), i - j, m)
  BY <1>1, MinusOver
<1> DEFINE c == Minus(a, b)  k == i - j
<1>4. k \in Nat
  BY <1>2
<1>5. c.n * m = k * c.d /\ c.n \in Int /\ c.d \in Nat \ {0}
  BY <1>3 DEF Over, Fractions
<1> HIDE DEF c, k
<1>6. c.n >= 0
  <2> SUFFICES ASSUME c.n + 1 <= 0 PROVE FALSE
    BY <1>5
  <2>1. (c.n + 1) * m <= 0 * m
    <3>1. c.n + 1 \in Int /\ 0 \in Int /\ m \in Nat
      BY <1>5
    <3> QED BY <3>1, ProductsInOrder
  <2>2. (c.n + 1) * m = c.n * m + m /\ 0 * m = 0
    BY <1>5
  <2>3. k * c.d >= 0
    BY <1>4, <1>5
  <2> DEFINE x == c.n * m
  <2>4. x \in Int /\ x + m <= 0 /\ x >= 0
    BY <1>5, <2>1, <2>2, <2>3
  <2> HIDE DEF x
  <2> QED BY <2>4
<1> QED BY <1>3, <1>6 DEF c

LEMMA MergeCovers ==
  ASSUME NEW dom \in Bounds, Leq(dom.min, dom.max), NEW polyline \in Seq(PathPoints)
  PROVE  LET M == MergeProjectionYDomain(dom, polyline)
         IN  /\ M \in Bounds /\ Covers(M, dom)
             /\ Len(polyline) >= 2 => \A i \in 1..Len(polyline) : Leq(M.min, polyline[i].y) /\ Leq(polyline[i].y, M.max)
<1> DEFINE V == ValueExtents(polyline)
           lo == Smallest({dom.min, V.min})
           hi == Greatest({dom.max, V.max})
           span == Minus(hi, lo)
           twentieth == Times(span, [n |-> 1, d |-> 20])
           padding == IF span.n = 0 THEN Whole(1) ELSE twentieth
           above == IF hi.n <= 0 THEN Whole(100) ELSE Times(hi, [n |-> 11, d |-> 10])
           M == MergeProjectionYDomain(dom, polyline)
<1>1. dom.min \in Fractions /\ dom.max \in Fractions
  BY DEF Bounds
<1>2. M = IF Len(polyline) < 2 THEN dom
          ELSE IF lo.n >= 0 /\ dom.min.n >= 0 THEN [min |-> Whole(0), max |-> above]
          ELSE [min |-> Minus(lo, padding), max |-> Plus(hi, padding)]
  BY DEF MergeProjectionYDomain, Minus
<1>3. CASE Len(polyline) < 2
  <2>1. M = dom /\ Leq(dom.min, dom.min) /\ Leq(dom.max, dom.max)
    BY <1>1, <1>2, <1>3, LeqOrder
  <2>2. ~(Len(polyline) >= 2)
    BY <1>3, LenProperties
  <2> QED BY <2>1, <2>2 DEF Covers
<1>4. CASE ~(Len(polyline) < 2)
  <2>0. Len(polyline) >= 1 /\ Len(polyline) \in Nat
    BY <1>4, LenProperties
  <2>1. /\ V.min \in Fractions /\ V.max \in Fractions
        /\ \A i \in 1..Len(polyline) : Leq(V.min, polyline[i].y) /\ Leq(polyline[i].y, V.max)
    BY <2>0, ExtentsOfPath DEF Bounds
  <2> HIDE DEF V
  <2>2. lo \in Fractions /\ Leq(lo, dom.min) /\ Leq(lo, V.min)
    <3>1. lo \in {dom.min, V.min} /\ Leq(lo, dom.min) /\ Leq(lo, V.min)
      BY <1>1, <2>1, GreatestOfTwo
    <3> QED BY <1>1, <2>1, <3>1
  <2>3. hi \in Fractions /\ Leq(dom.max, hi) /\ Leq(V.max, hi)
    <3>1. hi \in {dom.max, V.max} /\ Leq(dom.max, hi) /\ Leq(V.max, hi)
      BY <1>1, <2>1, GreatestOfTwo
    <3> QED BY <1>1, <2>1, <3>1
  <2> HIDE DEF lo, hi
  <2>4. Leq(lo, hi)
    <3>1. Leq(lo, dom.max)
      BY <1>1, <2>2, LeqOrder
    <3> QED BY <1>1, <2>2, <2>3, <3>1, LeqOrder
  <2>5. M.min \in Fractions /\ M.max \in Fractions /\ Leq(M.min, lo) /\ Leq(hi, M.max) /\ M \in Bounds
    <3>1. CASE lo.n >= 0 /\ dom.min.n >= 0
      <4>1. M = [min |-> Whole(0), max |-> above]
        BY <1>2, <1>4, <3>1
      <4>2. Whole(0) \in Fractions /\ Whole(100) \in Fractions
        <5>1. 0 \in Int /\ 100 \in Int
          OBVIOUS
        <5> QED BY <5>1, WholeIs
      <4>3. Leq(Whole(0), lo)
        BY <2>2, <3>1, SignOf
      <4>4. above \in Fractions /\ Leq(hi, above)
        <5>1. CASE hi.n <= 0
          <6>1. Leq(hi, Whole(0))
            BY <2>3, <5>1, SignOf
          <6>2. Leq(Whole(0), Whole(100))
            BY DEF Leq, Whole
          <6>3. Leq(hi, Whole(100))
            BY <2>3, <4>2, <6>1, <6>2, LeqOrder
          <6> QED BY <4>2, <5>1, <6>3
        <5>2. CASE ~(hi.n <= 0)
          <6>1. hi.n >= 0 /\ 11 \in Nat /\ 10 \in Nat \ {0} /\ 11 >= 10
            BY <2>3, <5>2 DEF Fractions
          <6>2. Times(hi, [n |-> 11, d |-> 10]) \in Fractions /\ Leq(hi, Times(hi, [n |-> 11, d |-> 10]))
            BY <2>3, <6>1, ScaledUp
          <6> QED BY <5>2, <6>2
        <5> QED BY <5>1, <5>2
      <4> HIDE DEF above, M
      <4>5. M \in Bounds /\ M.min = Whole(0) /\ M.max = above
        BY <4>1, <4>2, <4>4 DEF Bounds
      <4> QED BY <4>2, <4>3, <4>4, <4>5
    <3>2. CASE ~(lo.n >= 0 /\ dom.min.n >= 0)
      <4>1. M = [min |-> Minus(lo, padding), max |-> Plus(hi, padding)]
        BY <1>2, <1>4, <3>2
      <4>2. span \in Fractions /\ span.n >= 0
        BY <2>2, <2>3, <2>4, DistanceOf
      <4> HIDE DEF span
      <4>3. padding \in Fractions /\ Leq(Whole(0), padding)
        <5>1. CASE span.n = 0
          <6>1. Whole(1) \in Fractions
            <7>1. 1 \in Int
              OBVIOUS
            <7> QED BY <7>1, WholeIs
          <6>2. Leq(Whole(0), Whole(1))
            BY DEF Leq, Whole
          <6> QED BY <5>1, <6>1, <6>2
        <5>2. CASE span.n # 0
          <6>1. 1 \in Nat /\ 20 \in Nat \ {0}
            OBVIOUS
          <6>2. twentieth \in Fractions /\ Leq(Whole(0), twentieth)
            BY <4>2, <6>1, ScaledUp
          <6> QED BY <5>2, <6>2
        <5> QED BY <5>1, <5>2
      <4> HIDE DEF padding, M
      <4>4. /\ Minus(lo, padding) \in Fractions /\ Plus(hi, padding) \in Fractions
            /\ Leq(Minus(lo, padding), lo) /\ Leq(hi, Plus(hi, padding))
        BY <2>2, <2>3, <4>3, Padded
      <4>5. M \in Bounds /\ M.min = Minus(lo, padding) /\ M.max = Plus(hi, padding)
        BY <4>1, <4>4 DEF Bounds
      <4> QED BY <4>4, <4>5
    <3> QED BY <3>1, <3>2
  <2> HIDE DEF M
  <2>6. Covers(M, dom)
    <3>1. Leq(M.min, dom.min)
      BY <1>1, <2>2, <2>5, LeqOrder
    <3>2. Leq(dom.max, M.max)
      BY <1>1, <2>3, <2>5, LeqOrder
    <3> QED BY <3>1, <3>2 DEF Covers
  <2>7. ASSUME NEW i \in 1..Len(polyline)
        PROVE  Leq(M.min, polyline[i].y) /\ Leq(polyline[i].y, M.max)
    <3>1. polyline[i] \in PathPoints
      BY ElementOfSeq
    <3>2. polyline[i].y \in Fractions
      BY <3>1 DEF PathPoints
    <3>3. Leq(V.min, polyline[i].y) /\ Leq(polyline[i].y, V.max)
      BY <2>1
    <3>4. Leq(lo, polyline[i].y) /\ Leq(polyline[i].y, hi)
      <4>1. Leq(lo, polyline[i].y)
        BY <2>1, <2>2, <3>2, <3>3, LeqOrder
      <4>2. Leq(polyline[i].y, hi)
        BY <2>1, <2>3, <3>2, <3>3, LeqOrder
      <4> QED BY <4>1, <4>2
    <3>5. Leq(M.min, polyline[i].y)
      BY <2>2, <2>5, <3>2, <3>4, LeqOrder
    <3>6. Leq(polyline[i].y, M.max)
      BY <2>3, <2>5, <3>2, <3>4, LeqOrder
    <3> QED BY <3>5, <3>6
  <2> QED BY <2>5, <2>6, <2>7 DEF M
<1> QED BY <1>3, <1>4

LEMMA DomainShows ==
  ASSUME ShapeInv, NEW axis \in Axes, ScaleOf(axis) = axis
  PROVE  /\ YDomainFor(axis) \in Bounds
         /\ axis = lineAxis => \A i \in 1..Len(past) : past[i].y # NoValue =>
              Leq(YDomainFor(axis).min, Whole(past[i].y)) /\ Leq(Whole(past[i].y), YDomainFor(axis).max)
         /\ axis = proj.yAxisId => \A i \in 1..Len(ProjectionPath(past)) :
              /\ Leq(YDomainFor(axis).min, ProjectionPath(past)[i].y)
              /\ Leq(ProjectionPath(past)[i].y, YDomainFor(axis).max)
<1> DEFINE extent == IF axis = lineAxis THEN TimeSeriesYDomain(past) ELSE [min |-> 0, max |-> 10000]
           base == NiceYDomain(extent)
           polyline == ProjectionPath(past)
           D == YDomainFor(axis)
<1>1. past \in Seq(SeriesRows) /\ proj \in Projections
  BY DEF ShapeInv
<1>2. extent.min \in Int /\ extent.max \in Int /\ extent.min <= extent.max
  <2>1. CASE axis = lineAxis
    BY <1>1, <2>1, ValuesInHundredths
  <2>2. CASE axis # lineAxis
    <3>1. extent.min = 0 /\ extent.max = 10000
      BY <2>2
    <3> QED BY <3>1
  <2> QED BY <2>1, <2>2
<1>3. D = IF proj.yAxisId = axis THEN MergeProjectionYDomain(base, polyline) ELSE base
  BY DEF YDomainFor, BaseDomain
<1>4. ASSUME axis = lineAxis, NEW i \in 1..Len(past), past[i].y # NoValue
      PROVE  extent.min <= 100 * past[i].y /\ 100 * past[i].y <= extent.max /\ past[i].y \in Int
  <2>1. past[i].y \in Int
    BY <1>1, <1>4, RowAt
  <2>2. extent = TimeSeriesYDomain(past)
    BY <1>4
  <2>3. TimeSeriesYDomain(past).min <= 100 * past[i].y /\ 100 * past[i].y <= TimeSeriesYDomain(past).max
    BY <1>1, <1>4, ValuesInHundredths
  <2> QED BY <2>1, <2>2, <2>3
<1> HIDE DEF extent
<1>5. /\ base \in Bounds /\ Leq(base.min, base.max)
      /\ \A y \in Int : extent.min <= 100 * y /\ 100 * y <= extent.max => Leq(base.min, Whole(y)) /\ Leq(Whole(y), base.max)
  BY <1>2, NiceCovers
<1> HIDE DEF base
<1>6. polyline \in Seq(PathPoints) /\ (Len(polyline) >= 1 => Len(polyline) >= 2)
  <2>1. CASE polyline = <<>>
    <3>1. Len(polyline) = 0 /\ polyline \in Seq(PathPoints)
      BY <2>1, EmptySeq
    <3> QED BY <3>1
  <2>2. CASE polyline # <<>>
    BY <1>1, <2>2, PathLeaves DEF Leaves
  <2> QED BY <2>1, <2>2
<1>7. /\ MergeProjectionYDomain(base, polyline) \in Bounds /\ Covers(MergeProjectionYDomain(base, polyline), base)
      /\ Len(polyline) >= 2 => \A i \in 1..Len(polyline) :
           /\ Leq(MergeProjectionYDomain(base, polyline).min, polyline[i].y)
           /\ Leq(polyline[i].y, MergeProjectionYDomain(base, polyline).max)
  BY <1>5, <1>6, MergeCovers
<1>8. D \in Bounds /\ Covers(D, base)
  <2>1. base.min \in Fractions /\ base.max \in Fractions
    BY <1>5 DEF Bounds
  <2>2. Covers(base, base)
    BY <2>1, LeqOrder DEF Covers
  <2> QED BY <1>3, <1>5, <1>7, <2>2
<1>9. ASSUME axis = proj.yAxisId, NEW i \in 1..Len(polyline)
      PROVE  Leq(D.min, polyline[i].y) /\ Leq(polyline[i].y, D.max)
  <2>1. Len(polyline) >= 2
    BY <1>6, LenProperties
  <2> QED BY <1>3, <1>7, <1>9, <2>1
<1> HIDE DEF D, polyline
<1>10. ASSUME axis = lineAxis, NEW i \in 1..Len(past), past[i].y # NoValue
       PROVE  Leq(D.min, Whole(past[i].y)) /\ Leq(Whole(past[i].y), D.max)
  <2> DEFINE y == past[i].y
  <2>1. y \in Int /\ Leq(base.min, Whole(y)) /\ Leq(Whole(y), base.max)
    BY <1>4, <1>5, <1>10
  <2> HIDE DEF y
  <2>2. Whole(y) \in Fractions
    BY <2>1, WholeIs
  <2>3. base.min \in Fractions /\ base.max \in Fractions /\ D.min \in Fractions /\ D.max \in Fractions
    BY <1>5, <1>8 DEF Bounds
  <2>4. Leq(D.min, base.min) /\ Leq(base.max, D.max)
    BY <1>8 DEF Covers
  <2>5. Leq(D.min, Whole(y))
    BY <2>1, <2>2, <2>3, <2>4, LeqOrder
  <2>6. Leq(Whole(y), D.max)
    BY <2>1, <2>2, <2>3, <2>4, LeqOrder
  <2> QED BY <2>5, <2>6 DEF y
<1> QED BY <1>8, <1>9, <1>10 DEF D, polyline

LEMMA ShowsAll == ShapeInv => DrawnInView
<1> SUFFICES ASSUME ShapeInv, past # <<>>
             PROVE  DrawnInView
  BY DEF DrawnInView
<1> DEFINE polyline == ProjectionPath(past)
<1>1. past \in Seq(SeriesRows) /\ proj \in Projections /\ lineAxis \in Axes
  BY DEF ShapeInv
<1>2. proj.yAxisId \in Axes
  BY <1>1 DEF Projections, Axes
<1>3. ScaleOf(lineAxis) = lineAxis
  BY DEF ScaleOf
<1>4. ASSUME NEW r \in ToSet(past), r.y # NoValue
      PROVE  Leq(YDomainFor(lineAxis).min, Whole(r.y)) /\ Leq(Whole(r.y), YDomainFor(lineAxis).max)
  <2>1. PICK i \in 1..Len(past) : r = past[i]
    BY <1>1, LenProperties DEF ToSet
  <2> QED BY <1>1, <1>3, <1>4, <2>1, DomainShows
<1>5. ASSUME NEW p \in ToSet(polyline)
      PROVE  /\ Leq(XDomainOf(past).from, p.t) /\ Leq(p.t, XDomainOf(past).to)
             /\ ScaleOf(proj.yAxisId) = proj.yAxisId =>
                  Leq(YDomainFor(proj.yAxisId).min, p.y) /\ Leq(p.y, YDomainFor(proj.yAxisId).max)
  <2>1. polyline # <<>>
    <3> SUFFICES ASSUME polyline = <<>> PROVE FALSE
      OBVIOUS
    <3>1. DOMAIN <<>> = {}
      OBVIOUS
    <3>2. ToSet(polyline) = {polyline[i] : i \in DOMAIN polyline}
      BY DEF ToSet
    <3> QED BY <3>1, <3>2
  <2>2. StartIndex(past) + 1 \in 1..Len(past) /\ Leaves(polyline, past[StartIndex(past) + 1])
    BY <1>1, <2>1, PathLeaves
  <2> DEFINE row == past[StartIndex(past) + 1]
  <2>3. row.t \in Int
    BY <1>1, <2>2, RowAt
  <2>4. polyline \in Seq(PathPoints) /\ \A i \in 1..Len(polyline) : Leq(Whole(row.t), polyline[i].t)
    BY <2>2 DEF Leaves
  <2>5. PICK i \in 1..Len(polyline) : p = polyline[i]
    BY <2>4, LenProperties DEF ToSet
  <2>6. PICK lo \in Int, hi \in Int :
           /\ XDomainOf(past).from = Whole(lo) /\ XDomainOf(past).to \in Fractions
           /\ lo <= hi /\ Leq(Whole(hi), XDomainOf(past).to)
           /\ \A j \in 1..Len(past) : lo <= past[j].t /\ past[j].t <= hi
           /\ \A j \in 1..Len(polyline) : Leq(polyline[j].t, XDomainOf(past).to)
    BY <1>1, DatesIs
  <2>7. lo <= row.t
    BY <2>2, <2>6
  <2> HIDE DEF row, polyline
  <2>8. Leq(Whole(lo), Whole(row.t))
    <3>1. lo * 1 = lo /\ row.t * 1 = row.t
      BY <2>3
    <3> QED BY <2>7, <3>1 DEF Leq, Whole
  <2>9. polyline[i] \in PathPoints /\ Whole(lo) \in Fractions /\ Whole(row.t) \in Fractions
    BY <2>3, <2>4, ElementOfSeq, WholeIs
  <2>10. polyline[i].t \in Fractions
    BY <2>9 DEF PathPoints
  <2>11. Leq(Whole(lo), polyline[i].t)
    BY <2>4, <2>8, <2>9, <2>10, LeqOrder
  <2>12. ScaleOf(proj.yAxisId) = proj.yAxisId =>
                  Leq(YDomainFor(proj.yAxisId).min, polyline[i].y) /\ Leq(polyline[i].y, YDomainFor(proj.yAxisId).max)
    BY <1>2, DomainShows DEF polyline
  <2> QED BY <2>5, <2>6, <2>11, <2>12
<1> QED BY <1>4, <1>5 DEF DrawnInView

-----------------------------------------------------------------------------
(* From one line to the next.                                                  *)

LEMMA SharesInOrder ==
  ASSUME NEW a \in Fractions, NEW b \in Fractions, NEW span \in Fractions, span.n >= 0, Leq(a, b)
  PROVE  /\ ShareOf(a, span) \in Fractions /\ ShareOf(b, span) \in Fractions
         /\ Leq(ShareOf(a, span), ShareOf(b, span))
<1>1. CASE span.n = 0
  <2>1. ShareOf(a, span) = Whole(0) /\ ShareOf(b, span) = Whole(0)
    BY <1>1 DEF ShareOf
  <2>2. Whole(0) \in Fractions
    <3>1. 0 \in Int
      OBVIOUS
    <3> QED BY <3>1, WholeIs
  <2>3. Leq(Whole(0), Whole(0))
    BY <2>2, LeqOrder
  <2> QED BY <2>1, <2>2, <2>3
<1>2. CASE span.n # 0
  <2> DEFINE s == span.n  e == span.d  x == a.n  p == a.d  y == b.n  q == b.d
  <2>1. /\ s \in Nat \ {0} /\ e \in Nat \ {0} /\ x \in Int /\ y \in Int
        /\ p \in Nat \ {0} /\ q \in Nat \ {0}
    BY <1>2 DEF Fractions
  <2> DEFINE ps == p * s  qs == q * s  xe == x * e  ye == y * e
             A == Frac(xe, ps)  B == Frac(ye, qs)
  <2>2. ShareOf(a, span) = A /\ ShareOf(b, span) = B
    BY <1>2 DEF ShareOf
  <2>3. x * q <= y * p
    BY DEF Leq
  <2> HIDE DEF s, e, x, p, y, q
  <2>4. ps \in Nat \ {0} /\ qs \in Nat \ {0} /\ xe \in Int /\ ye \in Int
    BY <2>1
  <2>5. xe * q <= ye * p
    <3> DEFINE u == x * q  w == y * p
    <3>1. u \in Int /\ w \in Int /\ u <= w
      BY <2>1, <2>3
    <3>2. xe * q = u * e /\ ye * p = w * e
      BY <2>1
    <3> HIDE DEF u, w
    <3>3. u * e <= w * e
      BY <2>1, <3>1, ProductsInOrder
    <3> QED BY <3>2, <3>3
  <2>6. ps * q = qs * p /\ ps * q \in Nat \ {0} /\ xe * q \in Int /\ ye * p \in Int
    BY <2>1
  <2> HIDE DEF ps, qs, xe, ye
  <2>7. A \in Fractions /\ Over(A, xe, ps)
    BY <2>4, FracIs
  <2>8. B \in Fractions /\ Over(B, ye, qs)
    BY <2>4, FracIs
  <2> HIDE DEF A, B
  <2>9. Over(A, xe * q, ps * q)
    BY <2>1, <2>4, <2>7, OverMore
  <2>10. Over(B, ye * p, qs * p)
    BY <2>1, <2>4, <2>8, OverMore
  <2> DEFINE m == ps * q  i == xe * q  j == ye * p
  <2>11. m \in Nat \ {0} /\ i \in Int /\ j \in Int /\ i <= j /\ Over(A, i, m) /\ Over(B, j, m)
    BY <2>5, <2>6, <2>9, <2>10
  <2> HIDE DEF m, i, j
  <2>12. Leq(A, B)
    BY <2>7, <2>8, <2>11, LeqOver
  <2> QED BY <2>2, <2>7, <2>8, <2>12
<1> QED BY <1>1, <1>2

LEMMA MinusInOrder ==
  ASSUME NEW a \in Fractions, NEW b \in Fractions, NEW c \in Fractions, Leq(a, b)
  PROVE  /\ Minus(a, c) \in Fractions /\ Minus(b, c) \in Fractions
         /\ Leq(Minus(a, c), Minus(b, c))
<1>1. PICK m \in Nat \ {0}, i \in Int, j \in Int, k \in Int : Over(a, i, m) /\ Over(b, j, m) /\ Over(c, k, m)
  BY CommonOfThree
<1>2. Minus(a, c) \in Fractions /\ Over(Minus(a, c), i - k, m)
  BY <1>1, MinusOver
<1>3. Minus(b, c) \in Fractions /\ Over(Minus(b, c), j - k, m)
  BY <1>1, MinusOver
<1>4. i <= j
  BY <1>1, LeqOver
<1>5. i - k \in Int /\ j - k \in Int /\ i - k <= j - k
  BY <1>4
<1> QED BY <1>1, <1>2, <1>3, <1>5, LeqOver

LEMMA PlacesInOrder ==
  ASSUME NEW rr \in Seq(SeriesRows), rr # <<>>, proj \in Projections, NEW t \in Int, NEW u \in Int, t <= u
  PROVE  PathX(rr, t) \in Fractions /\ PathX(rr, u) \in Fractions /\ Leq(PathX(rr, t), PathX(rr, u))
<1> DEFINE dom == XDomainOf(rr)  a == Whole(t)  b == Whole(u)
           span == Minus(dom.to, dom.from)
<1>1. PICK lo \in Int, hi \in Int : /\ dom.from = Whole(lo) /\ dom.to \in Fractions
                                    /\ lo <= hi /\ Leq(Whole(hi), dom.to)
  BY DatesIs
<1>2. a \in Fractions /\ b \in Fractions /\ Whole(lo) \in Fractions /\ Whole(hi) \in Fractions
  BY WholeIs
<1>3. Leq(a, b) /\ Leq(Whole(lo), Whole(hi))
  <2>1. t * 1 = t /\ u * 1 = u /\ lo * 1 = lo /\ hi * 1 = hi
    OBVIOUS
  <2> QED BY <1>1, <2>1 DEF Leq, Whole
<1>4. /\ PathX(rr, t) = ShareOf(Minus(a, dom.from), span)
      /\ PathX(rr, u) = ShareOf(Minus(b, dom.from), span)
  BY DEF PathX, PlaceIn, Minus
<1> HIDE DEF a, b, dom
<1>5. Leq(dom.from, dom.to)
  BY <1>1, <1>2, <1>3, LeqOrder
<1>6. span \in Fractions /\ span.n >= 0
  BY <1>1, <1>2, <1>5, DistanceOf
<1> HIDE DEF span
<1>7. /\ Minus(a, dom.from) \in Fractions /\ Minus(b, dom.from) \in Fractions
      /\ Leq(Minus(a, dom.from), Minus(b, dom.from))
  BY <1>1, <1>2, <1>3, MinusInOrder
<1> QED BY <1>4, <1>6, <1>7, SharesInOrder

\* A quarter of the way: the mean of three parts of the one and one of the other.
LEMMA PartwayInOrder ==
  ASSUME NEW a \in Fractions, NEW b \in Fractions, NEW c \in Fractions, NEW d \in Fractions,
         Leq(a, b), Leq(c, d)
  PROVE  Leq(Partway(a, c, [n |-> 1, d |-> 4]), Partway(b, d, [n |-> 1, d |-> 4]))
<1> DEFINE quarter == [n |-> 1, d |-> 4]
<1>1. PICK m1 \in Nat \ {0}, i \in Int, j \in Int, k1 \in Int : Over(a, i, m1) /\ Over(b, j, m1) /\ Over(c, k1, m1)
  BY CommonOfThree
<1>2. d.n \in Int /\ d.d \in Nat \ {0} /\ Over(d, d.n, d.d)
  BY OwnOver
<1> DEFINE dn == d.n  dd == d.d  m == m1 * dd
           w == i * dd  x == j * dd  y == k1 * dd  z == dn * m1
<1>3. dn \in Int /\ dd \in Nat \ {0} /\ dd \in Int /\ m1 \in Int /\ Over(d, dn, dd)
  BY <1>2
<1> HIDE DEF dn, dd
<1>4. Over(a, w, m) /\ Over(b, x, m) /\ Over(c, y, m)
  <2>1. Over(a, w, m)
    BY <1>1, <1>3, OverMore
  <2>2. Over(b, x, m)
    BY <1>1, <1>3, OverMore
  <2>3. Over(c, y, m)
    BY <1>1, <1>3, OverMore
  <2> QED BY <2>1, <2>2, <2>3
<1>5. Over(d, z, m)
  <2>1. Over(d, dn * m1, dd * m1)
    BY <1>3, OverMore
  <2>2. dd * m1 = m1 * dd
    BY <1>3
  <2> QED BY <2>1, <2>2
<1>6. m \in Nat \ {0} /\ w \in Int /\ x \in Int /\ y \in Int /\ z \in Int
  BY <1>3
<1> HIDE DEF m, w, x, y, z
<1>7. w <= x /\ y <= z
  <2>1. w <= x
    BY <1>4, <1>6, LeqOver
  <2>2. y <= z
    BY <1>4, <1>5, <1>6, LeqOver
  <2> QED BY <2>1, <2>2
<1>8. quarter \in Fractions /\ Over(quarter, 1, 4)
  <2>1. quarter.n = 1 /\ quarter.d = 4 /\ quarter \in Fractions
    BY DEF Fractions
  <2> HIDE DEF quarter
  <2> QED BY <2>1, OwnOver
<1> HIDE DEF quarter
<1>9. ASSUME NEW f \in Fractions, NEW g \in Fractions, NEW p \in Int, NEW q \in Int, Over(f, p, m), Over(g, q, m)
      PROVE  Partway(f, g, quarter) \in Fractions /\ Over(Partway(f, g, quarter), 3 * p + q, m * 4)
  <2> DEFINE e == q - p  part_ == Times(quarter, Minus(g, f))
  <2>1. Minus(g, f) \in Fractions /\ Over(Minus(g, f), e, m) /\ e \in Int
    BY <1>6, <1>9, MinusOver
  <2> HIDE DEF e
  <2>2. part_ \in Fractions /\ Over(part_, 1 * e, 4 * m)
    <3>1. 1 \in Int /\ 4 \in Nat \ {0}
      OBVIOUS
    <3> QED BY <1>6, <1>8, <2>1, <3>1, TimesOver
  <2> HIDE DEF part_
  <2> DEFINE m4 == m * 4  p4 == p * 4
  <2>3. Over(f, p4, m4)
    <3>1. m \in Int /\ 4 \in Int
      BY <1>6
    <3> QED BY <1>9, <3>1, OverMore
  <2>4. Over(part_, e, m4)
    <3>1. 1 * e = e /\ 4 * m = m4
      BY <1>6, <2>1
    <3> QED BY <2>2, <3>1
  <2>5. p4 \in Int /\ m4 \in Nat \ {0} /\ p4 + e = 3 * p + q
    BY <1>6 DEF e
  <2> HIDE DEF p4, m4
  <2>6. Plus(f, part_) \in Fractions /\ Over(Plus(f, part_), p4 + e, m4)
    BY <2>1, <2>2, <2>3, <2>4, <2>5, PlusOver
  <2>7. Partway(f, g, quarter) = Plus(f, part_)
    BY DEF Partway, Minus, part_
  <2> QED BY <2>5, <2>6, <2>7 DEF m4
<1> DEFINE P == Partway(a, c, quarter)  Q == Partway(b, d, quarter)
           M == m * 4  r == 3 * w + y  s == 3 * x + z
<1>10. P \in Fractions /\ Over(P, r, M)
  BY <1>4, <1>6, <1>9
<1>11. Q \in Fractions /\ Over(Q, s, M)
  BY <1>4, <1>5, <1>6, <1>9
<1>12. M \in Nat \ {0} /\ r \in Int /\ s \in Int /\ r <= s
  BY <1>6, <1>7
<1> HIDE DEF P, Q, M, r, s
<1>13. Leq(P, Q)
  BY <1>10, <1>11, <1>12, LeqOver
<1> QED BY <1>13 DEF P, Q, quarter

LEMMA MorphsInOrder == ShapeInv => MorphInOrder
<1> SUFFICES ASSUME ShapeInv, Ascending(past), Ascending(settled), NEW i \in 1..(Len(past) - 1)
             PROVE  Leq(MorphX(i, [n |-> 1, d |-> 4]), MorphX(i + 1, [n |-> 1, d |-> 4]))
  BY DEF MorphInOrder
<1> DEFINE t == past[i].t  u == past[i + 1].t
<1>1. past \in Seq(SeriesRows) /\ settled \in Seq(SeriesRows) /\ proj \in Projections /\ t \in TimesIn(settled)
  BY DEF ShapeInv
<1>2. i \in 1..Len(past) /\ i + 1 \in 1..Len(past) /\ (i + 1) - 1 = i
  BY <1>1, LenProperties
<1>3. t \in Int /\ u \in Int /\ t < u
  <2>1. t \in Int /\ u \in Int
    BY <1>1, <1>2, RowAt
  <2>2. t < u
    BY DEF Ascending
  <2> QED BY <2>1, <2>2
<1>4. past # <<>>
  <2> SUFFICES ASSUME past = <<>> PROVE FALSE
    OBVIOUS
  <2>1. Len(past) = 0
    OBVIOUS
  <2> QED BY <1>2, <2>1
<1>5. settled # <<>>
  <2> SUFFICES ASSUME settled = <<>> PROVE FALSE
    OBVIOUS
  <2>1. DOMAIN <<>> = {}
    OBVIOUS
  <2>2. TimesIn(settled) = {r.t : r \in {settled[j] : j \in DOMAIN settled}}
    BY DEF TimesIn, ToSet
  <2> QED BY <1>1, <2>1, <2>2
<1>6. AnchorX(i) = PathX(settled, t)
  BY <1>1, <1>2, <1>5 DEF AnchorX
<1>7. AnchorX(i + 1) = PathX(settled, IF u \in TimesIn(settled) THEN u ELSE t)
  BY <1>1, <1>2, <1>5 DEF AnchorX
<1> HIDE DEF t, u
<1>8. AnchorX(i) \in Fractions /\ AnchorX(i + 1) \in Fractions /\ Leq(AnchorX(i), AnchorX(i + 1))
  <2> DEFINE w == IF u \in TimesIn(settled) THEN u ELSE t
  <2>1. w \in Int /\ t <= w
    BY <1>3
  <2> HIDE DEF w
  <2>2. PathX(settled, t) \in Fractions /\ PathX(settled, w) \in Fractions /\ Leq(PathX(settled, t), PathX(settled, w))
    BY <1>1, <1>3, <1>5, <2>1, PlacesInOrder
  <2> QED BY <1>6, <1>7, <2>2 DEF w
<1>9. PathX(past, t) \in Fractions /\ PathX(past, u) \in Fractions /\ Leq(PathX(past, t), PathX(past, u))
  <2>1. t <= u
    BY <1>3
  <2> QED BY <1>1, <1>3, <1>4, <2>1, PlacesInOrder
<1>10. Leq(Partway(AnchorX(i), PathX(past, t), [n |-> 1, d |-> 4]), Partway(AnchorX(i + 1), PathX(past, u), [n |-> 1, d |-> 4]))
  BY <1>8, <1>9, PartwayInOrder
<1> QED BY <1>10 DEF MorphX, t, u

-----------------------------------------------------------------------------
(* A function defined by recursion from smaller numbers exists.                *)

Upto(f, k, apply, V) ==
    /\ f \in [0..k -> V]
    /\ \A n \in 0..k : f[n] = apply[n][[m \in 0..(n - 1) |-> f[m]]]

\* What each number is computed by from those below it, and what is so computed.
Stages(apply, V) == \A n \in Nat : apply[n] \in [[0..(n - 1) -> V] -> V]
Recursive(f, apply, V) ==
    f \in [Nat -> V] /\ \A n \in Nat : f[n] = apply[n][[m \in 0..(n - 1) |-> f[m]]]

LEMMA UptoExists ==
  ASSUME NEW V, NEW apply, Stages(apply, V), NEW k \in Nat
  PROVE  \E f : Upto(f, k, apply, V)
<1> USE DEF Stages
<1> DEFINE T == {n \in Nat : \E f : Upto(f, n, apply, V)}
<1>1. 0 \in T
  <2> DEFINE none == [m \in 0..(0 - 1) |-> V]
             f == [n \in 0..0 |-> apply[0][none]]
  <2>1. none \in [0..(0 - 1) -> V] /\ 0 \in Nat
    OBVIOUS
  <2>2. apply[0][none] \in V
    BY <2>1
  <2>3. f \in [0..0 -> V] /\ f[0] = apply[0][none]
    BY <2>2
  <2> HIDE DEF f
  <2>4. [m \in 0..(0 - 1) |-> f[m]] = none
    OBVIOUS
  <2> HIDE DEF none
  <2>5. \A n \in 0..0 : n = 0
    OBVIOUS
  <2>6. Upto(f, 0, apply, V)
    BY <2>3, <2>4, <2>5 DEF Upto
  <2> QED BY <2>6
<1>2. ASSUME NEW n \in Nat, n \in T
      PROVE  n + 1 \in T
  <2>1. PICK f : Upto(f, n, apply, V)
    BY <1>2
  <2> DEFINE prior == [m \in 0..((n + 1) - 1) |-> f[m]]
             last == apply[n + 1][prior]
             g == [m \in 0..(n + 1) |-> IF m <= n THEN f[m] ELSE last]
  <2>2. prior \in [0..((n + 1) - 1) -> V] /\ n + 1 \in Nat
    BY <2>1 DEF Upto
  <2> HIDE DEF prior
  <2>3. last \in V
    BY <2>2
  <2> HIDE DEF last
  <2>4. /\ g \in [0..(n + 1) -> V]
        /\ \A m \in 0..n : g[m] = f[m]
        /\ g[n + 1] = last
    <3>1. \A m \in 0..(n + 1) : m \in 0..n \/ (m = n + 1 /\ ~(m <= n))
      OBVIOUS
    <3>2. \A m \in 0..n : f[m] \in V
      BY <2>1 DEF Upto
    <3>3. \A m \in 0..(n + 1) : (IF m <= n THEN f[m] ELSE last) \in V
      BY <2>3, <3>1, <3>2
    <3>4. \A m \in 0..n : m \in 0..(n + 1) /\ m <= n
      OBVIOUS
    <3>5. n + 1 \in 0..(n + 1) /\ ~(n + 1 <= n)
      OBVIOUS
    <3> QED BY <3>3, <3>4, <3>5
  <2> HIDE DEF g
  <2>5. ASSUME NEW m \in 0..(n + 1)
        PROVE  g[m] = apply[m][[j \in 0..(m - 1) |-> g[j]]]
    <3>1. \A j \in 0..(m - 1) : j \in 0..n
      OBVIOUS
    <3>2. [j \in 0..(m - 1) |-> g[j]] = [j \in 0..(m - 1) |-> f[j]]
      BY <2>4, <3>1
    <3>3. CASE m \in 0..n
      BY <2>1, <2>4, <3>2, <3>3 DEF Upto
    <3>4. CASE m = n + 1
      BY <2>4, <3>2, <3>4 DEF last, prior
    <3> QED BY <3>3, <3>4
  <2>6. Upto(g, n + 1, apply, V)
    BY <2>4, <2>5 DEF Upto
  <2> QED BY <2>6
<1> HIDE DEF T
<1>3. Nat \subseteq T
  BY <1>1, <1>2, NatInduct
<1> QED BY <1>3 DEF T

LEMMA UptoAgrees ==
  ASSUME NEW V, NEW apply, NEW k \in Nat, NEW j \in Nat, NEW f, NEW g,
         Upto(f, k, apply, V), Upto(g, j, apply, V), NEW m \in 0..k, m <= j
  PROVE  f[m] = g[m]
<1> DEFINE T == {n \in Nat : \A i \in 0..n : i <= k /\ i <= j => f[i] = g[i]}
<1>1. ASSUME NEW n \in 0..k, n <= j, \A i \in 0..(n - 1) : f[i] = g[i]
      PROVE  f[n] = g[n]
  <2>1. n \in 0..j
    BY <1>1
  <2>2. [i \in 0..(n - 1) |-> f[i]] = [i \in 0..(n - 1) |-> g[i]]
    BY <1>1
  <2> QED BY <2>1, <2>2 DEF Upto
<1>2. 0 \in T
  <2>1. \A i \in 0..0 : i = 0 /\ i \in 0..k /\ 0 <= j /\ 0..(0 - 1) = {}
    OBVIOUS
  <2> QED BY <1>1, <2>1
<1>3. ASSUME NEW n \in Nat, n \in T
      PROVE  n + 1 \in T
  <2> SUFFICES ASSUME NEW i \in 0..(n + 1), i <= k, i <= j
               PROVE  f[i] = g[i]
    OBVIOUS
  <2>1. i \in 0..k /\ \A h \in 0..(i - 1) : h \in 0..n /\ h <= k /\ h <= j
    OBVIOUS
  <2>2. \A h \in 0..(i - 1) : f[h] = g[h]
    BY <1>3, <2>1
  <2> QED BY <1>1, <2>1, <2>2
<1> HIDE DEF T
<1>4. m \in T /\ m \in 0..m /\ m <= k
  BY <1>2, <1>3, NatInduct
<1> QED BY <1>4 DEF T

LEMMA Recursion ==
  ASSUME NEW V, NEW apply, Stages(apply, V)
  PROVE  \E f : Recursive(f, apply, V)
<1> DEFINE of(n) == CHOOSE f : Upto(f, n, apply, V)
           F == [n \in Nat |-> of(n)[n]]
<1>1. ASSUME NEW n \in Nat
      PROVE  Upto(of(n), n, apply, V)
  BY UptoExists
<1> HIDE DEF of
<1>2. ASSUME NEW n \in Nat
      PROVE  F[n] = of(n)[n] /\ F[n] \in V
  <2>1. n \in 0..n
    OBVIOUS
  <2> QED BY <1>1, <2>1 DEF Upto
<1>3. F \in [Nat -> V]
  BY <1>2
<1> HIDE DEF F
<1>4. ASSUME NEW n \in Nat
      PROVE  F[n] = apply[n][[m \in 0..(n - 1) |-> F[m]]]
  <2>1. ASSUME NEW m \in 0..(n - 1)
        PROVE  F[m] = of(n)[m]
    <3>1. m \in Nat /\ m \in 0..m /\ m <= n
      OBVIOUS
    <3>2. Upto(of(m), m, apply, V) /\ Upto(of(n), n, apply, V)
      BY <1>1, <3>1
    <3>3. of(m)[m] = of(n)[m]
      BY <3>1, <3>2, UptoAgrees
    <3> QED BY <1>2, <3>1, <3>3
  <2>2. [m \in 0..(n - 1) |-> F[m]] = [m \in 0..(n - 1) |-> of(n)[m]]
    BY <2>1
  <2>3. n \in 0..n
    OBVIOUS
  <2>4. of(n)[n] = apply[n][[m \in 0..(n - 1) |-> of(n)[m]]]
    <3>1. Upto(of(n), n, apply, V)
      BY <1>1
    <3> QED BY <2>3, <3>1 DEF Upto
  <2> QED BY <1>2, <2>2, <2>4
<1>5. Recursive(F, apply, V)
  BY <1>3, <1>4 DEF Recursive
<1> QED BY <1>5

-----------------------------------------------------------------------------
(* The labels of the value axis.                                               *)

LEMMA PowerIs ==
  ASSUME NEW r \in Nat
  PROVE  PowerFrom[r] \in Nat /\ PowerFrom[r] >= r
<1> DEFINE next(f) == [n \in Nat |-> IF n <= 1 THEN 1 ELSE 10 * f[(n + 9) \div 10]]
           apply == [n \in Nat |-> [g \in [0..(n - 1) -> Nat] |-> IF n <= 1 THEN 1 ELSE 10 * g[(n + 9) \div 10]]]
<1>1. ASSUME NEW n \in Nat, ~(n <= 1)
      PROVE  (n + 9) \div 10 \in 0..(n - 1) /\ 10 * ((n + 9) \div 10) >= n
  <2> DEFINE q == (n + 9) \div 10
  <2>1. q \in Int /\ 10 * q <= n + 9 /\ n + 9 < 10 * q + 10
    OBVIOUS
  <2> HIDE DEF q
  <2>2. q \in 0..(n - 1) /\ 10 * q >= n
    BY <1>1, <2>1
  <2> QED BY <2>2 DEF q
<1>2. ASSUME NEW n \in Nat
      PROVE  apply[n] \in [[0..(n - 1) -> Nat] -> Nat]
  <2>1. ASSUME NEW g \in [0..(n - 1) -> Nat]
        PROVE  (IF n <= 1 THEN 1 ELSE 10 * g[(n + 9) \div 10]) \in Nat
    <3>1. CASE n <= 1
      BY <3>1
    <3>2. CASE ~(n <= 1)
      <4>1. g[(n + 9) \div 10] \in Nat
        BY <1>1, <3>2
      <4> QED BY <3>2, <4>1
    <3> QED BY <3>1, <3>2
  <2> QED BY <2>1
<1>3. \A n \in Nat : \A g \in [0..(n - 1) -> Nat] :
        apply[n][g] = IF n <= 1 THEN 1 ELSE 10 * g[(n + 9) \div 10]
  OBVIOUS
<1> HIDE DEF apply
<1>4. PICK f : f \in [Nat -> Nat] /\ \A n \in Nat : f[n] = apply[n][[m \in 0..(n - 1) |-> f[m]]]
  <2>1. Stages(apply, Nat)
    BY <1>2 DEF Stages
  <2>2. \E f : Recursive(f, apply, Nat)
    BY <2>1, Recursion
  <2> QED BY <2>2 DEF Recursive
<1>5. ASSUME NEW n \in Nat
      PROVE  f[n] = IF n <= 1 THEN 1 ELSE 10 * f[(n + 9) \div 10]
  <2> DEFINE g == [m \in 0..(n - 1) |-> f[m]]
  <2>1. g \in [0..(n - 1) -> Nat] /\ \A m \in 0..(n - 1) : g[m] = f[m]
    BY <1>4
  <2>2. f[n] = apply[n][g]
    BY <1>4
  <2> HIDE DEF g
  <2>3. f[n] = IF n <= 1 THEN 1 ELSE 10 * g[(n + 9) \div 10]
    BY <1>3, <2>1, <2>2
  <2>4. ~(n <= 1) => g[(n + 9) \div 10] = f[(n + 9) \div 10]
    BY <1>1, <2>1
  <2> QED BY <2>3, <2>4
<1>6. f = next(f)
  <2> DEFINE to(n) == IF n <= 1 THEN 1 ELSE 10 * f[(n + 9) \div 10]
  <2>1. \A n \in Nat : f[n] = to(n)
    BY <1>5
  <2>2. next(f) = [n \in Nat |-> to(n)]
    OBVIOUS
  <2> HIDE DEF to, next
  <2> QED BY <1>4, <2>1, <2>2
<1>7. PowerFrom = CHOOSE g : g = next(g)
  BY DEF PowerFrom
<1> HIDE DEF next
<1>8. PowerFrom = next(PowerFrom)
  BY <1>6, <1>7
<1>9. \A n \in Nat : PowerFrom[n] = IF n <= 1 THEN 1 ELSE 10 * PowerFrom[(n + 9) \div 10]
  BY <1>8 DEF next
<1> DEFINE T == {n \in Nat : \A m \in 0..n : PowerFrom[m] \in Nat /\ PowerFrom[m] >= m}
<1>10. 0 \in T
  BY <1>9
<1>11. ASSUME NEW n \in Nat, n \in T
       PROVE  n + 1 \in T
  <2> SUFFICES ASSUME NEW m \in 0..(n + 1)
               PROVE  PowerFrom[m] \in Nat /\ PowerFrom[m] >= m
    OBVIOUS
  <2>1. CASE m <= 1
    BY <1>9, <2>1
  <2>2. CASE ~(m <= 1)
    <3> DEFINE h == (m + 9) \div 10
    <3>1. h \in 0..n /\ 10 * h >= m
      BY <1>1, <2>2
    <3>2. PowerFrom[m] = 10 * PowerFrom[h]
      BY <1>9, <2>2
    <3> HIDE DEF h
    <3>3. PowerFrom[h] \in Nat /\ PowerFrom[h] >= h
      BY <1>11, <3>1
    <3> QED BY <3>1, <3>2, <3>3
  <2> QED BY <2>1, <2>2
<1> HIDE DEF T
<1>12. r \in T /\ r \in 0..r
  BY <1>10, <1>11, NatInduct
<1> QED BY <1>12 DEF T

\* What is divided is divided as long as the labels stay apart, and by no more than 2.5.
LEMMA DividedIs ==
  ASSUME NEW from \in Nat, NEW range \in Nat, range >= 100, from >= range, NEW divs
  PROVE  /\ Divided(from, range, divs) \in Nat
         /\ MinGap * range <= Divided(from, range, divs) * Height
         /\ Divided(from, range, divs) * Height <= 3 * (MinGap * range)
<1> USE LiveChartAssumption
<1> DEFINE piece(n, i) == IF divs[(i % 3) + 1] = 2 THEN n \div 2 ELSE (2 * n) \div 5
           w == MinGap * range
           next(f) == [n \in Nat |-> [i \in Nat |->
                          IF piece(n, i) * Height >= MinGap * range THEN f[piece(n, i)][i + 1] ELSE n]]
           apply == [n \in Nat |-> [g \in [0..(n - 1) -> [Nat -> Nat]] |-> [i \in Nat |->
                          IF piece(n, i) * Height >= w THEN g[piece(n, i)][i + 1] ELSE n]]]
           best == CHOOSE f : f = next(f)
<1>1. Divided(from, range, divs) = best[from][0]
  BY DEF Divided
<1>2. Height \in Nat /\ MinGap \in Nat /\ MinGap <= Height /\ Height <= 25 * MinGap /\ Height >= 1 /\ MinGap >= 1
  OBVIOUS
<1>3. w \in Nat /\ w >= 1 /\ 4 * Height <= w /\ w <= range * Height
  <2>1. 100 * MinGap <= range * MinGap /\ MinGap * range <= Height * range
    BY <1>2, ProductsInOrder
  <2>2. range * MinGap = w /\ w \in Nat /\ Height * range = range * Height
    BY <1>2
  <2>3. range * Height \in Nat
    BY <1>2
  <2> QED BY <1>2, <2>1, <2>2, <2>3
<1>4. ASSUME NEW n \in Nat, NEW i \in Nat
      PROVE  /\ piece(n, i) \in Nat /\ piece(n, i) <= n
             /\ n > 0 => piece(n, i) < n
             /\ 2 * n <= 5 * piece(n, i) + 4
  OBVIOUS
<1>5. best = CHOOSE f : f = next(f)
  OBVIOUS
<1> HIDE DEF best
<1>6. \A f : next(f) = [n \in Nat |-> [i \in Nat |->
                          IF piece(n, i) * Height >= w THEN f[piece(n, i)][i + 1] ELSE n]]
  OBVIOUS
<1> HIDE DEF next, w
<1>7. \A n \in Nat : \A g \in [0..(n - 1) -> [Nat -> Nat]] :
        apply[n][g] = [i \in Nat |-> IF piece(n, i) * Height >= w THEN g[piece(n, i)][i + 1] ELSE n]
  OBVIOUS
<1>8. \A n \in Nat : apply[n] = [g \in [0..(n - 1) -> [Nat -> Nat]] |-> [i \in Nat |->
                          IF piece(n, i) * Height >= w THEN g[piece(n, i)][i + 1] ELSE n]]
  OBVIOUS
<1> HIDE DEF apply, piece
<1>9. ASSUME NEW n \in Nat, NEW i \in Nat, piece(n, i) * Height >= w
      PROVE  piece(n, i) \in 0..(n - 1)
  <2>1. piece(n, i) \in Nat /\ piece(n, i) <= n /\ (n > 0 => piece(n, i) < n)
    BY <1>4
  <2>2. n # 0
    <3> SUFFICES ASSUME n = 0 PROVE FALSE
      OBVIOUS
    <3>1. piece(n, i) = 0
      BY <2>1
    <3>2. 0 * Height >= w
      BY <1>9, <3>1
    <3>3. 0 * Height = 0
      BY <1>2
    <3> QED BY <1>3, <3>2, <3>3
  <2> QED BY <2>1, <2>2
<1>10. ASSUME NEW n \in Nat
       PROVE  apply[n] \in [[0..(n - 1) -> [Nat -> Nat]] -> [Nat -> Nat]]
  <2>1. ASSUME NEW g \in [0..(n - 1) -> [Nat -> Nat]], NEW i \in Nat
        PROVE  (IF piece(n, i) * Height >= w THEN g[piece(n, i)][i + 1] ELSE n) \in Nat
    <3>1. CASE piece(n, i) * Height >= w
      <4>1. piece(n, i) \in 0..(n - 1)
        BY <1>9, <3>1
      <4>2. g[piece(n, i)] \in [Nat -> Nat]
        BY <4>1
      <4>3. i + 1 \in Nat
        OBVIOUS
      <4>4. g[piece(n, i)][i + 1] \in Nat
        BY <4>2, <4>3
      <4> QED BY <3>1, <4>4
    <3>2. CASE ~(piece(n, i) * Height >= w)
      BY <3>2
    <3> QED BY <3>1, <3>2
  <2> DEFINE all == [0..(n - 1) -> [Nat -> Nat]]
             to(g) == [i \in Nat |-> IF piece(n, i) * Height >= w THEN g[piece(n, i)][i + 1] ELSE n]
  <2>2. \A g \in all : to(g) \in [Nat -> Nat]
    BY <2>1
  <2>3. apply[n] = [g \in all |-> to(g)]
    BY <1>8
  <2> HIDE DEF all, to
  <2>4. apply[n] \in [all -> [Nat -> Nat]]
    BY <2>2, <2>3
  <2> QED BY <2>4 DEF all
<1>11. PICK f : f \in [Nat -> [Nat -> Nat]] /\ \A n \in Nat : f[n] = apply[n][[m \in 0..(n - 1) |-> f[m]]]
  <2>1. Stages(apply, [Nat -> Nat])
    BY <1>10 DEF Stages
  <2>2. \E f : Recursive(f, apply, [Nat -> Nat])
    BY <2>1, Recursion
  <2> QED BY <2>2 DEF Recursive
<1>12. ASSUME NEW n \in Nat
       PROVE  f[n] = [i \in Nat |-> IF piece(n, i) * Height >= w THEN f[piece(n, i)][i + 1] ELSE n]
  <2> DEFINE g == [m \in 0..(n - 1) |-> f[m]]
  <2>1. g \in [0..(n - 1) -> [Nat -> Nat]] /\ \A m \in 0..(n - 1) : g[m] = f[m]
    <3>1. ASSUME NEW m \in 0..(n - 1)
          PROVE  f[m] \in [Nat -> Nat]
      <4>1. m \in Nat
        OBVIOUS
      <4>2. f \in [Nat -> [Nat -> Nat]]
        BY <1>11
      <4> QED BY <4>1, <4>2
    <3> QED BY <3>1
  <2>2. f[n] = apply[n][g]
    BY <1>11
  <2> HIDE DEF g
  <2>3. f[n] = [i \in Nat |-> IF piece(n, i) * Height >= w THEN g[piece(n, i)][i + 1] ELSE n]
    BY <1>7, <2>1, <2>2
  <2>4. \A i \in Nat : (IF piece(n, i) * Height >= w THEN g[piece(n, i)][i + 1] ELSE n)
                       = IF piece(n, i) * Height >= w THEN f[piece(n, i)][i + 1] ELSE n
    BY <1>9, <2>1
  <2> QED BY <2>3, <2>4
<1>13. f = next(f)
  <2> DEFINE to(n) == [i \in Nat |-> IF piece(n, i) * Height >= w THEN f[piece(n, i)][i + 1] ELSE n]
  <2>1. \A n \in Nat : f[n] = to(n)
    BY <1>12
  <2>2. next(f) = [n \in Nat |-> to(n)]
    BY <1>6
  <2> HIDE DEF to
  <2> QED BY <1>11, <2>1, <2>2
<1>14. best = next(best)
  BY <1>5, <1>13
<1>15. ASSUME NEW n \in Nat, NEW i \in Nat
       PROVE  best[n][i] = IF piece(n, i) * Height >= w THEN best[piece(n, i)][i + 1] ELSE n
  <2>1. best = [k \in Nat |-> [j \in Nat |->
                   IF piece(k, j) * Height >= w THEN best[piece(k, j)][j + 1] ELSE k]]
    BY <1>6, <1>14
  <2>2. best[n] = [j \in Nat |-> IF piece(n, j) * Height >= w THEN best[piece(n, j)][j + 1] ELSE n]
    BY <2>1
  <2> QED BY <2>2
<1> DEFINE Good(n, i) == /\ best[n][i] \in Nat /\ best[n][i] * Height <= 3 * w
                         /\ n * Height >= w => best[n][i] * Height >= w
           T == {k \in Nat : \A n \in 0..k, i \in Nat : Good(n, i)}
<1>16. ASSUME NEW n \in Nat, NEW i \in Nat, ~(piece(n, i) * Height >= w)
       PROVE  Good(n, i)
  <2> DEFINE h == piece(n, i)  x == h * Height  y == n * Height
  <2>1. best[n][i] = n /\ h \in Nat /\ 2 * n <= 5 * h + 4
    BY <1>4, <1>15, <1>16
  <2>2. (2 * n) * Height <= (5 * h + 4) * Height
    <3>1. 2 * n \in Int /\ 5 * h + 4 \in Int
      BY <2>1
    <3> HIDE DEF h
    <3> QED BY <1>2, <2>1, <3>1, ProductsInOrder
  <2>3. x \in Nat /\ y \in Nat /\ (2 * n) * Height = 2 * y /\ (5 * h + 4) * Height = 5 * x + 4 * Height
    <3>1. h \in Nat /\ n \in Nat /\ Height \in Nat
      BY <1>2, <2>1
    <3> HIDE DEF h
    <3>2. x \in Nat /\ y \in Nat
      BY <3>1
    <3>3. (2 * n) * Height = 2 * y
      BY <3>1
    <3>4. (5 * h + 4) * Height = 5 * x + 4 * Height
      BY <3>1
    <3> QED BY <3>2, <3>3, <3>4
  <2>4. x < w
    BY <1>3, <1>16, <2>3
  <2> HIDE DEF x
  <2>5. 2 * y <= 6 * w
    BY <1>2, <1>3, <2>2, <2>3, <2>4
  <2>6. y <= 3 * w
    BY <1>3, <2>3, <2>5
  <2> QED BY <2>1, <2>6
<1>17. ASSUME NEW n \in Nat, NEW i \in Nat, piece(n, i) * Height >= w, Good(piece(n, i), i + 1)
       PROVE  Good(n, i)
  BY <1>15, <1>17
<1> HIDE DEF Good
<1>18. ASSUME NEW n \in Nat, \A m \in 0..(n - 1), i \in Nat : Good(m, i)
       PROVE  \A i \in Nat : Good(n, i)
  <2> TAKE i \in Nat
  <2>1. CASE piece(n, i) * Height >= w
    <3>1. piece(n, i) \in 0..(n - 1) /\ piece(n, i) \in Nat
      BY <1>4, <1>9, <2>1
    <3>2. Good(piece(n, i), i + 1)
      BY <1>18, <3>1
    <3> QED BY <1>17, <2>1, <3>2
  <2> QED BY <1>16, <2>1
<1>19. 0 \in T
  <2>1. 0..(0 - 1) = {} /\ \A n \in 0..0 : n = 0
    OBVIOUS
  <2> QED BY <1>18, <2>1
<1>20. ASSUME NEW k \in Nat, k \in T
       PROVE  k + 1 \in T
  <2> SUFFICES ASSUME NEW n \in 0..(k + 1)
               PROVE  \A i \in Nat : Good(n, i)
    OBVIOUS
  <2>1. \A m \in 0..(n - 1) : m \in 0..k
    OBVIOUS
  <2>2. \A m \in 0..(n - 1), i \in Nat : Good(m, i)
    BY <1>20, <2>1
  <2>3. n \in Nat
    OBVIOUS
  <2> QED BY <1>18, <2>2, <2>3
<1> HIDE DEF T
<1>21. Nat \subseteq T
  BY <1>19, <1>20, NatInduct
<1>22. Good(from, 0)
  <2>1. from \in T /\ from \in 0..from /\ 0 \in Nat
    BY <1>21
  <2> QED BY <2>1 DEF T
<1>23. from * Height >= w
  <2>1. range * Height <= from * Height /\ range * Height \in Int /\ from * Height \in Int
    BY <1>2, ProductsInOrder
  <2> QED BY <1>3, <2>1
<1> QED BY <1>1, <1>22, <1>23 DEF Good, w
-----------------------------------------------------------------------------
(* The live line.                                                            *)

LivePoints == [time : Nat, value : Int]

LiveFrame == [now : Int, min : Int, max : Int, value : Int]

Holds(range, v) == range.min <= v /\ v <= range.max /\ range.min < range.max

InTime(times) == \A i \in DOMAIN times, j \in DOMAIN times : i < j => times[i].time < times[j].time

LiveTypeOK ==
    /\ liveClock \in Nat /\ lastCommit \in Nat /\ held \in BOOLEAN /\ cursor \in Int
    /\ feed \in [points : Seq(LivePoints), value : Int]
    /\ loop \in [range : [min : Int, max : Int], value : Int, paused : BOOLEAN]
    /\ anim \in LiveFrame /\ frame \in LiveFrame /\ tip.x \in Int
    /\ transition.frame \in BOOLEAN /\ (transition.frame => transition.drawn \in LiveFrame)
    /\ transition.tip \in BOOLEAN /\ (transition.tip => transition.shown.x \in Int)
    /\ DOMAIN transition = {"frame", "tip", "drawn", "shown"}

\* Each frame holds its value, on the way from a range that held it to one that holds
\* the next; and the points came one after the other.
LiveInv ==
    /\ LiveTypeOK
    /\ feed.points = <<>> => feed.value \in 0..100
    /\ InTime(feed.points)
    /\ Holds(loop.range, loop.value) /\ Holds(anim, anim.value) /\ Holds(frame, frame.value)
    /\ transition.frame => Holds(transition.drawn, transition.drawn.value)
    /\ KeyTellsTooltip

LEMMA RangeHolds ==
  ASSUME NEW s \in Seq(LivePoints), NEW v \in Int, s = <<>> => v \in 0..100
  PROVE  TargetRange(s, v) \in [min : Int, max : Int] /\ Holds(TargetRange(s, v), v)
<1> USE LiveChartAssumption
<1>1. CASE s = <<>>
  <2>1. TargetRange(s, v) = [min |-> 0, max |-> 100]
    BY <1>1 DEF TargetRange
  <2>2. 0 <= v /\ v <= 100
    BY <1>1
  <2> QED BY ONLY <2>1, <2>2 DEF Holds
<1>2. CASE s # <<>>
  <2> DEFINE n == Len(s)  f == [i \in 1..(n + 1) |-> IF i <= n THEN s[i].value ELSE v]
             S == {p.value : p \in ToSet(s)} \cup {v}
  <2>1. n \in Nat /\ DOMAIN s = 1..n /\ \A i \in 1..n : s[i].value \in Int
    <3>1. n \in Nat /\ DOMAIN s = 1..n /\ \A i \in 1..n : s[i] \in LivePoints
      BY LenProperties, ElementOfSeq
    <3> QED BY <3>1 DEF LivePoints
  <2>2. n + 1 >= 1 /\ n + 1 \in Nat /\ \A i \in 1..(n + 1) : f[i] \in Int
    BY <2>1
  <2>3. S \subseteq Int /\ v \in S
    BY <2>1 DEF ToSet
  <2>4. \A y \in S : \E i \in 1..(n + 1) : y = f[i]
    <3>1. v = f[n + 1] /\ n + 1 \in 1..(n + 1)
      BY <2>1
    <3>2. ASSUME NEW p \in ToSet(s) PROVE \E i \in 1..(n + 1) : p.value = f[i]
      <4>1. PICK i \in 1..n : p = s[i]
        BY <2>1 DEF ToSet
      <4>2. i \in 1..(n + 1) /\ f[i] = s[i].value
        BY <2>1, <4>1
      <4> QED BY <4>1, <4>2
    <3> QED BY <3>1, <3>2
  <2>5. \A i \in 1..(n + 1) : f[i] \in S
    BY <2>1 DEF ToSet
  <2>6. PICK i \in 1..(n + 1) : \A j \in 1..(n + 1) : f[j] <= f[i]
    <3> HIDE DEF f, n
    <3> QED BY <2>2, GreatestOf
  <2>7. PICK k \in 1..(n + 1) : \A j \in 1..(n + 1) : f[k] <= f[j]
    <3> HIDE DEF f, n
    <3> QED BY <2>2, LeastOf
  <2> HIDE DEF f, S, n
  <2>8. Max(S) = f[i] /\ Min(S) = f[k]
    <3>1. f[i] \in S /\ f[k] \in S
      BY <2>5
    <3>2. \A y \in S : y <= f[i] /\ f[k] <= y
      BY <2>4, <2>6, <2>7
    <3> QED BY <2>3, <3>1, <3>2, MaxIs, MinIs
  <2>9. Max(S) \in Int /\ Min(S) \in Int /\ Min(S) <= v /\ v <= Max(S)
    BY <2>2, <2>3, <2>4, <2>6, <2>7, <2>8
  <2> DEFINE spread == Max(S) - Min(S)
             pad == IF spread = 0 THEN FlatPadding ELSE (spread * PaddingPercent) \div 100
  <2>10. spread \in Nat
    BY <2>9
  <2>11. pad \in Nat /\ (spread = 0 => pad >= 1)
    <3>1. spread * PaddingPercent \in Nat
      <4> HIDE DEF spread
      <4> QED BY <2>10
    <3>2. (spread * PaddingPercent) \div 100 \in Nat
      <4> DEFINE z == spread * PaddingPercent
      <4> HIDE DEF z
      <4> QED BY <3>1 DEF z
    <3> QED BY <3>2
  <2>12. TargetRange(s, v) = [min |-> Min(S) - pad, max |-> Max(S) + pad]
    BY <1>2 DEF TargetRange, S
  <2> HIDE DEF pad
  <2>13. Holds([min |-> Min(S) - pad, max |-> Max(S) + pad], v)
    <3>1. ASSUME NEW lo \in Int, NEW hi \in Int, NEW d \in Nat, lo <= v, v <= hi, hi - lo = 0 => d >= 1
          PROVE  Holds([min |-> lo - d, max |-> hi + d], v)
      <4>1. lo - d <= v /\ v <= hi + d
        BY <3>1
      <4>2. lo - d < hi + d
        BY <3>1
      <4> QED BY <4>1, <4>2 DEF Holds
    <3>2. Max(S) - Min(S) = 0 => pad >= 1
      BY <2>11
    <3>3. pad \in Nat
      BY <2>11
    <3> HIDE DEF spread
    <3> QED BY <2>9, <3>1, <3>2, <3>3
  <2> DEFINE lo == Min(S) - pad  hi == Max(S) + pad
  <2>14. lo \in Int /\ hi \in Int
    <3>1. Min(S) \in Int /\ Max(S) \in Int /\ pad \in Nat
      BY <2>9, <2>11
    <3> QED BY <3>1
  <2>15. TargetRange(s, v) = [min |-> lo, max |-> hi] /\ Holds([min |-> lo, max |-> hi], v)
    BY <2>12, <2>13
  <2> HIDE DEF lo, hi
  <2>16. [min |-> lo, max |-> hi] \in [min : Int, max : Int]
    BY <2>14
  <2> QED BY <2>15, <2>16
<1> QED BY <1>1, <1>2

\* Halfway between two frames that hold their value lies one that does.
LEMMA LerpBetween ==
  ASSUME NEW a \in Int, NEW b \in Int, NEW c \in Int, NEW d \in Int
  PROVE  /\ Lerp(a, b) \in Int /\ (a <= b => Lerp(a, b) <= b /\ a <= Lerp(a, b)) /\ (b <= a => Lerp(a, b) <= a /\ b <= Lerp(a, b))
         /\ (a <= c /\ b <= d => Lerp(a, b) <= Lerp(c, d))
         /\ (a < c /\ b < d => Lerp(a, b) < Lerp(c, d))
  BY DEF Lerp

LEMMA FrameHolds ==
  ASSUME NEW f \in LiveFrame, NEW range \in [min : Int, max : Int], NEW v \in Int, NEW stopped \in BOOLEAN,
         liveClock' \in Nat, Holds(f, f.value), Holds(range, v)
  PROVE  LET next == NextAnimFrame(f, range, v, stopped) IN next \in LiveFrame /\ Holds(next, next.value)
<1> DEFINE lo == IF range.min < f.min THEN range.min ELSE Lerp(f.min, range.min)
           hi == IF range.max > f.max THEN range.max ELSE Lerp(f.max, range.max)
           mid == Lerp(f.value, v)
           now == IF stopped THEN f.now ELSE liveClock'
<1>1. /\ f.now \in Int /\ f.min \in Int /\ f.max \in Int /\ f.value \in Int /\ range.min \in Int /\ range.max \in Int
      /\ f.min <= f.value /\ f.value <= f.max /\ f.min < f.max
      /\ range.min <= v /\ v <= range.max /\ range.min < range.max
  BY DEF LiveFrame, Holds
<1>2. now \in Int /\ mid \in Int
  <2>1. now \in Int
    BY <1>1
  <2>2. mid \in Int
    BY <1>1, LerpBetween
  <2> QED BY <2>1, <2>2
<1>3. lo \in Int /\ hi \in Int
  BY <1>1, LerpBetween
<1>4. lo <= Lerp(f.min, range.min) /\ Lerp(f.max, range.max) <= hi
  <2>1. range.min < f.min => range.min <= Lerp(f.min, range.min)
    BY <1>1 DEF Lerp
  <2>2. range.max > f.max => Lerp(f.max, range.max) <= range.max
    BY <1>1 DEF Lerp
  <2>3. Lerp(f.min, range.min) \in Int /\ Lerp(f.max, range.max) \in Int
    BY <1>1, LerpBetween
  <2> QED BY <2>1, <2>2, <2>3
<1>5. /\ Lerp(f.min, range.min) <= mid /\ mid <= Lerp(f.max, range.max) /\ Lerp(f.min, range.min) < Lerp(f.max, range.max)
      /\ Lerp(f.min, range.min) \in Int /\ Lerp(f.max, range.max) \in Int
  BY <1>1, LerpBetween
<1>6. lo <= mid /\ mid <= hi /\ lo < hi
  <2> HIDE DEF lo, hi, mid
  <2> QED BY <1>2, <1>3, <1>4, <1>5
<1>7. NextAnimFrame(f, range, v, stopped) = [now |-> now, min |-> lo, max |-> hi, value |-> mid]
  BY DEF NextAnimFrame
<1> HIDE DEF lo, hi, mid, now
<1>8. [now |-> now, min |-> lo, max |-> hi, value |-> mid] \in LiveFrame
  BY <1>2, <1>3 DEF LiveFrame
<1> QED BY <1>6, <1>7, <1>8 DEF Holds

LEMMA LiveInitInv == LiveChartInit => LiveInv
<1> SUFFICES ASSUME LiveChartInit
             PROVE  LiveInv
  OBVIOUS
<1>1. PICK v \in LiveValues \cap 0..100 :
        /\ liveClock = 0 /\ feed = [points |-> <<>>, value |-> v] /\ held = FALSE
        /\ loop = [range |-> TargetRange(<<>>, v), value |-> v, paused |-> FALSE]
        /\ anim = [now |-> 0, min |-> 0, max |-> 100, value |-> v] /\ frame = anim
        /\ started = FALSE /\ lastCommit = 0 /\ transition = NothingDue
        /\ cursor = Nowhere /\ tip = NoTooltip /\ tipKey = LiveTooltipKey(NoTooltip)
        /\ interval = PickNiceInterval(100 * (frame.max - frame.min), 0)
  BY Zenon DEF LiveChartInit
<1>2. v \in Int /\ 0 <= v /\ v <= 100
  OBVIOUS
<1>3. TargetRange(<<>>, v) = [min |-> 0, max |-> 100]
  BY DEF TargetRange
<1>4. loop \in [range : [min : Int, max : Int], value : Int, paused : BOOLEAN] /\ Holds(loop.range, loop.value)
  BY <1>1, <1>2, <1>3 DEF Holds
<1>5. anim \in LiveFrame /\ Holds(anim, anim.value) /\ frame = anim
  BY <1>1, <1>2 DEF LiveFrame, Holds
<1>6. transition.frame = FALSE /\ transition.tip = FALSE /\ DOMAIN transition = {"frame", "tip", "drawn", "shown"}
  BY <1>1 DEF NothingDue
<1>7. feed \in [points : Seq(LivePoints), value : Int] /\ feed.points = <<>> /\ feed.value = v
  <2>1. <<>> \in Seq(LivePoints)
    OBVIOUS
  <2> QED BY <1>1, <1>2, <2>1
<1>8. cursor \in Int /\ tip.x \in Int
  BY <1>1 DEF Nowhere, NoTooltip
<1>9. KeyTellsTooltip
  BY <1>1, <1>6 DEF KeyTellsTooltip
<1>10. InTime(feed.points)
  BY <1>7 DEF InTime
<1>11. LiveTypeOK
  BY <1>1, <1>4, <1>5, <1>6, <1>7, <1>8 DEF LiveTypeOK
<1> QED BY <1>2, <1>4, <1>5, <1>6, <1>7, <1>9, <1>10, <1>11 DEF LiveInv

LEMMA LiveStep == LiveInv /\ [LiveChartNext]_liveVars => LiveInv'
<1> SUFFICES ASSUME LiveInv, [LiveChartNext]_liveVars
             PROVE  LiveInv'
  OBVIOUS
<1> USE LiveChartAssumption DEF LiveInv, LiveTypeOK
<1>1. ASSUME NEW v \in LiveValues, PointArrives(v)
      PROVE  LiveInv'
  <2> DEFINE p == [time |-> liveClock, value |-> v]
  <2>1. /\ feed' = [points |-> Append(feed.points, p), value |-> v]
        /\ feed.points # <<>> => Last(feed.points).time < liveClock
        /\ UNCHANGED <<liveClock, held, loop, anim, frame, lastCommit, transition, cursor, tip, tipKey>>
    BY <1>1 DEF PointArrives
  <2>2. v \in Int /\ p \in LivePoints /\ feed.points \in Seq(LivePoints)
    BY DEF LivePoints
  <2>3. feed' \in [points : Seq(LivePoints), value : Int] /\ feed'.points = Append(feed.points, p)
    <3>1. Append(feed.points, p) \in Seq(LivePoints)
      BY <2>2, AppendProperties
    <3> QED BY <2>1, <2>2, <3>1
  <2>4. feed'.points # <<>>
    <3> HIDE DEF p, LiveInv, LiveTypeOK
    <3>1. Len(Append(feed.points, p)) = Len(feed.points) + 1 /\ Len(feed.points) \in Nat
      BY <2>2, AppendProperties, LenProperties
    <3>2. feed'.points = Append(feed.points, p)
      BY <2>3
    <3>3. Len(feed'.points) # 0
      BY <3>1, <3>2
    <3> QED BY <3>3, EmptySeq
  <2>5. InTime(feed'.points)
    <3> DEFINE s == feed.points  n == Len(s)
    <3>1. n \in Nat /\ DOMAIN s = 1..n /\ \A i \in 1..n : s[i] \in LivePoints
      BY <2>2, LenProperties, ElementOfSeq
    <3>2. /\ DOMAIN feed'.points = 1..(n + 1) /\ feed'.points[n + 1] = p
          /\ \A i \in 1..n : feed'.points[i] = s[i]
      BY <2>2, <2>3, AppendProperties, LenProperties
    <3>3. \A i \in 1..n, j \in 1..n : i < j => s[i].time < s[j].time
      BY <3>1 DEF InTime
    <3>4. s # <<>> => s[n].time < liveClock
      BY <2>1 DEF Last
    <3>7. \A i \in 1..n : s[i].time \in Nat
      BY <3>1 DEF LivePoints
    <3> HIDE DEF s, n
    <3>8. ASSUME NEW i \in 1..n PROVE s[i].time < liveClock
      <4>1. n \in 1..n /\ n # 0
        BY <3>1
      <4>2. s # <<>>
        BY <3>1, <4>1
      <4>3. s[n].time < liveClock
        BY <3>4, <4>2
      <4>4. CASE i = n
        BY <4>3, <4>4
      <4>5. CASE i # n
        <5>1. i < n
          BY <3>1, <4>5
        <5>2. s[i].time < s[n].time
          BY <3>3, <4>1, <5>1
        <5>3. s[i].time \in Nat /\ s[n].time \in Nat
          BY <3>7, <4>1
        <5> HIDE DEF LiveInv, LiveTypeOK
        <5>4. liveClock \in Nat
          BY DEF LiveInv, LiveTypeOK
        <5> QED BY <4>3, <5>2, <5>3, <5>4
      <4> QED BY <4>4, <4>5
    <3>9. p.time = liveClock
      OBVIOUS
    <3> HIDE DEF p, LiveInv, LiveTypeOK
    <3>5. ASSUME NEW i \in 1..(n + 1), NEW j \in 1..(n + 1), i < j
          PROVE  feed'.points[i].time < feed'.points[j].time
      <4>1. i \in 1..n
        BY <3>1, <3>5
      <4>2. CASE j = n + 1
        BY <3>2, <3>8, <3>9, <4>1, <4>2
      <4>3. CASE j \in 1..n
        BY <3>2, <3>3, <3>5, <4>1, <4>3
      <4> QED BY <3>1, <4>2, <4>3
    <3> QED BY <3>2, <3>5 DEF InTime
  <2>6. KeyTellsTooltip'
    BY <2>1 DEF KeyTellsTooltip, LiveTooltipKey
  <2> HIDE DEF p
  <2> QED BY <2>1, <2>3, <2>4, <2>5, <2>6
<1>2. CASE SetPaused
  <2>1. /\ held' \in BOOLEAN
        /\ UNCHANGED <<liveClock, feed, loop, anim, frame, lastCommit, transition, cursor, tip, tipKey>>
    BY <1>2 DEF SetPaused
  <2> QED BY <2>1 DEF KeyTellsTooltip, LiveTooltipKey
<1>3. CASE RestartLoop
  <2>1. /\ loop' = [range |-> TargetRange(feed.points, feed.value), value |-> feed.value, paused |-> held]
        /\ UNCHANGED <<liveClock, feed, held, anim, frame, lastCommit, transition, cursor, tip, tipKey>>
    BY <1>3 DEF RestartLoop
  <2>2. TargetRange(feed.points, feed.value) \in [min : Int, max : Int] /\ Holds(TargetRange(feed.points, feed.value), feed.value)
    BY RangeHolds
  <2>3. loop' \in [range : [min : Int, max : Int], value : Int, paused : BOOLEAN] /\ Holds(loop'.range, loop'.value)
    BY <2>1, <2>2
  <2>4. KeyTellsTooltip'
    BY <2>1 DEF KeyTellsTooltip, LiveTooltipKey
  <2>5. UNCHANGED <<liveClock, feed, held, anim, frame, lastCommit, transition, cursor, tip, tipKey>>
    BY <2>1
  <2>6. LiveTypeOK'
    BY <2>3, <2>5
  <2> HIDE DEF LiveTypeOK
  <2> QED BY <2>3, <2>4, <2>5, <2>6
<1>4. CASE AnimationTick
  <2> DEFINE next == ResolveLiveTooltip(cursor, anim', feed.points)
             commitFrame == FrameDue(liveClock')
             commitTip == TipDue(LiveTooltipKey(next))
  <2>1. /\ liveClock' = liveClock + 1 /\ anim' = NextAnimFrame(anim, loop.range, loop.value, loop.paused)
        /\ lastCommit' = (IF commitFrame THEN liveClock' ELSE lastCommit) /\ tipKey' = LiveTooltipKey(next)
        /\ transition' = [frame |-> transition.frame \/ commitFrame,
                          tip |-> transition.tip \/ commitTip,
                          drawn |-> IF commitFrame THEN anim' ELSE transition.drawn,
                          shown |-> IF commitTip THEN next ELSE transition.shown]
        /\ UNCHANGED <<feed, held, loop, frame, cursor, tip>>
    BY <1>4 DEF AnimationTick
  <2>2. liveClock' \in Nat /\ commitFrame \in BOOLEAN /\ commitTip \in BOOLEAN
    BY <2>1 DEF FrameDue, TipDue
  <2>3. anim' \in LiveFrame /\ Holds(anim, anim.value)' 
    <3>1. /\ anim \in LiveFrame /\ Holds(anim, anim.value) /\ loop.range \in [min : Int, max : Int] /\ loop.value \in Int
          /\ loop.paused \in BOOLEAN /\ Holds(loop.range, loop.value)
      OBVIOUS
    <3>2. LET f == NextAnimFrame(anim, loop.range, loop.value, loop.paused) IN f \in LiveFrame /\ Holds(f, f.value)
      <4> HIDE DEF LiveInv, LiveTypeOK
      <4> QED BY <2>2, <3>1, FrameHolds
    <3> QED BY <2>1, <3>2 DEF Holds
  <2>4. next.x \in Int
    BY DEF ResolveLiveTooltip, NoTooltip, Nowhere
  <2> HIDE DEF next, commitFrame, commitTip
  <2>5. /\ transition'.frame = (transition.frame \/ commitFrame) /\ transition'.tip = (transition.tip \/ commitTip)
        /\ transition'.drawn = (IF commitFrame THEN anim' ELSE transition.drawn)
        /\ transition'.shown = (IF commitTip THEN next ELSE transition.shown)
        /\ DOMAIN transition' = {"frame", "tip", "drawn", "shown"}
    BY <2>1
  <2>6. lastCommit' \in Nat
    BY <2>1, <2>2
  <2>7. transition'.frame => transition'.drawn \in LiveFrame /\ Holds(transition'.drawn, transition'.drawn.value)
    BY <2>2, <2>3, <2>5 DEF Holds
  <2>8. /\ transition'.frame \in BOOLEAN /\ transition'.tip \in BOOLEAN
        /\ (transition'.tip => transition'.shown.x \in Int)
    BY <2>2, <2>4, <2>5
  <2>9. KeyTellsTooltip'
    <3>1. CASE commitTip
      BY <2>1, <2>5, <3>1 DEF KeyTellsTooltip
    <3>2. CASE ~commitTip
      <4>1. tipKey' = tipKey
        BY <2>1, <3>2 DEF commitTip, TipDue
      <4> QED BY <2>1, <2>5, <3>2, <4>1 DEF KeyTellsTooltip, LiveTooltipKey
    <3> QED BY <2>2, <3>1, <3>2
  <2>10. UNCHANGED <<feed, held, loop, frame, cursor, tip>>
    BY <2>1
  <2>11. LiveTypeOK'
    BY <2>2, <2>3, <2>5, <2>6, <2>7, <2>8, <2>10
  <2> QED BY <2>3, <2>7, <2>9, <2>10, <2>11
<1>5. CASE CommitTransition
  <2>1. /\ transition' = NothingDue
        /\ frame' = IF transition.frame THEN transition.drawn ELSE frame
        /\ tip' = IF transition.tip THEN transition.shown ELSE tip
        /\ UNCHANGED <<liveClock, feed, held, loop, anim, lastCommit, cursor, tipKey>>
    BY <1>5 DEF CommitTransition
  <2>2. transition'.frame = FALSE /\ transition'.tip = FALSE /\ DOMAIN transition' = {"frame", "tip", "drawn", "shown"}
    BY <2>1 DEF NothingDue
  <2>3. frame' \in LiveFrame /\ Holds(frame, frame.value)'
    BY <2>1 DEF Holds
  <2>4. tip'.x \in Int
    BY <2>1
  <2>5. KeyTellsTooltip'
    BY <2>1, <2>2 DEF KeyTellsTooltip
  <2>6. LiveTypeOK'
    BY <2>1, <2>2, <2>3, <2>4
  <2> QED BY <2>1, <2>2, <2>3, <2>5, <2>6
<1>6. ASSUME NEW x \in Cursors, MoveTo(x)
      PROVE  LiveInv'
  <2>1. cursor' \in Int
    BY <1>6 DEF MoveTo, Nowhere
  <2>2. UNCHANGED <<liveClock, feed, held, loop, anim, frame, lastCommit, transition, tip, tipKey>>
    BY <1>6 DEF MoveTo
  <2> QED BY <2>1, <2>2 DEF KeyTellsTooltip, LiveTooltipKey
<1>7. CASE LeaveChart
  <2>1. /\ cursor' = Nowhere /\ tip' = NoTooltip /\ tipKey' = LiveTooltipKey(NoTooltip)
        /\ transition' = [transition EXCEPT !.tip = FALSE, !.shown = NoTooltip]
        /\ UNCHANGED <<liveClock, feed, held, loop, anim, frame, lastCommit>>
    BY <1>7 DEF LeaveChart
  <2>2. /\ transition'.tip = FALSE /\ transition'.frame = transition.frame /\ transition'.drawn = transition.drawn
        /\ DOMAIN transition' = {"frame", "tip", "drawn", "shown"}
    BY <2>1
  <2>3. cursor' \in Int /\ tip'.x \in Int
    BY <2>1 DEF Nowhere, NoTooltip
  <2>4. KeyTellsTooltip'
    BY <2>1, <2>2 DEF KeyTellsTooltip
  <2>5. LiveTypeOK'
    BY <2>1, <2>2, <2>3
  <2>6. transition'.frame => Holds(transition'.drawn, transition'.drawn.value)
    BY <2>2
  <2> QED BY <2>1, <2>4, <2>5, <2>6
<1>8. CASE UNCHANGED liveVars
  BY <1>8 DEF liveVars, KeyTellsTooltip, LiveTooltipKey
<1> QED
  BY <1>1, <1>2, <1>3, <1>4, <1>5, <1>6, <1>7, <1>8 DEF LiveChartNext


\* The labels are not far apart and not close, by an interval that is kept or picked.
AxisLabelled == interval \in Nat /\ LabelsApart

LEMMA PickedIs ==
  ASSUME NEW range \in Nat, range >= 100, NEW prev \in Nat
  PROVE  /\ PickNiceInterval(range, prev) \in Nat
         /\ 2 * PickNiceInterval(range, prev) * Height >= MinGap * range
         /\ PickNiceInterval(range, prev) * Height <= 3 * MinGap * range
<1> USE LiveChartAssumption
<1> DEFINE fits(d) == 2 * d * Height >= MinGap * range /\ d * Height <= 3 * MinGap * range
           sets == {<<2, 5, 2>>, <<2, 2, 5>>, <<5, 2, 2>>}
           all == {Divided(PowerFrom[range], range, divs) : divs \in sets}
<1>1. CASE prev > 0 /\ 2 * prev * Height >= MinGap * range /\ prev * Height <= 3 * MinGap * range
  BY <1>1 DEF PickNiceInterval
<1>2. CASE ~(prev > 0 /\ 2 * prev * Height >= MinGap * range /\ prev * Height <= 3 * MinGap * range)
  <2>1. PickNiceInterval(range, prev) = Min(all)
    BY <1>2 DEF PickNiceInterval
  <2>2. ASSUME NEW divs \in sets
        PROVE  Divided(PowerFrom[range], range, divs) \in Nat /\ fits(Divided(PowerFrom[range], range, divs))
    <3> DEFINE d == Divided(PowerFrom[range], range, divs)
    <3>1. PowerFrom[range] \in Nat /\ PowerFrom[range] >= range
      BY PowerIs
    <3>2. d \in Nat /\ MinGap * range <= d * Height /\ d * Height <= 3 * (MinGap * range)
      BY <3>1, DividedIs
    <3> HIDE DEF d
    <3>3. Height \in Nat /\ MinGap \in Nat /\ d * Height \in Nat /\ MinGap * range \in Nat
      BY <3>2
    <3>4. 2 * d * Height = 2 * (d * Height) /\ 3 * MinGap * range = 3 * (MinGap * range)
      BY <3>2, <3>3
    <3>5. fits(d)
      BY <3>2, <3>3, <3>4
    <3> QED BY <3>2, <3>5 DEF d
  <2>3. \A d \in all : d \in Nat /\ fits(d)
    BY <2>2
  <2> HIDE DEF fits
  <2>4. Min(all) \in all
    <3>1. PICK a \in all, b \in all, c \in all : all = {a, b, c}
      OBVIOUS
    <3>2. a \in Int /\ b \in Int /\ c \in Int
      BY <2>3, <3>1
    <3> HIDE DEF all
    <3>3. \E x \in {a, b, c} : \A y \in {a, b, c} : x <= y
      BY <3>2
    <3>4. PICK x \in all : \A y \in all : x <= y
      BY <3>1, <3>3
    <3>5. all \subseteq Int
      BY <2>3
    <3>6. Min(all) = x
      BY <3>4, <3>5, MinIs
    <3> QED BY <3>6
  <2> HIDE DEF all
  <2>5. Min(all) \in Nat /\ fits(Min(all))
    BY <2>3, <2>4
  <2> QED BY <2>1, <2>5 DEF fits
<1> QED BY <1>1, <1>2

\* The range is whole: at least a hundred hundredths.
LEMMA RangeWide ==
  ASSUME NEW f \in LiveFrame, Holds(f, f.value)
  PROVE  100 * (f.max - f.min) \in Nat /\ 100 * (f.max - f.min) >= 100
<1>1. f.max \in Int /\ f.min \in Int /\ f.value \in Int
  BY DEF LiveFrame
<1>2. f.min < f.max
  BY DEF Holds
<1> QED BY <1>1, <1>2

LEMMA AxisLabelledInit == LiveChartInit => AxisLabelled
<1> SUFFICES ASSUME LiveChartInit PROVE AxisLabelled
  OBVIOUS
<1>1. frame.min = 0 /\ frame.max = 100 /\ interval = PickNiceInterval(100 * (frame.max - frame.min), 0)
  BY DEF LiveChartInit
<1> DEFINE range == 100 * (frame.max - frame.min)
<1>2. range \in Nat /\ range >= 100
  <2> DEFINE w == 100 - 0
  <2>1. w \in Nat /\ w >= 1
    OBVIOUS
  <2>2. range = 100 * w
    BY <1>1
  <2> HIDE DEF w, range
  <2> QED BY <2>1, <2>2
<1>3. interval = PickNiceInterval(range, 0)
  BY <1>1
<1>4. LabelsApart <=> (2 * interval * Height >= MinGap * range /\ interval * Height <= 3 * MinGap * range)
  BY DEF LabelsApart
<1> HIDE DEF range
<1>5. 0 \in Nat
  OBVIOUS
<1>6. /\ PickNiceInterval(range, 0) \in Nat
      /\ 2 * PickNiceInterval(range, 0) * Height >= MinGap * range
      /\ PickNiceInterval(range, 0) * Height <= 3 * MinGap * range
  BY <1>2, <1>5, PickedIs
<1> QED BY <1>3, <1>4, <1>6 DEF AxisLabelled

LEMMA AxisLabelledStep ==
  LiveInv /\ LiveInv' /\ AxisLabelled /\ [LiveChartNext]_liveVars => AxisLabelled'
<1> SUFFICES ASSUME LiveInv, LiveInv', AxisLabelled, [LiveChartNext]_liveVars
             PROVE  AxisLabelled'
  OBVIOUS
<1>1. CASE UNCHANGED <<frame, interval>>
  BY <1>1 DEF AxisLabelled, LabelsApart
<1>2. CASE CommitTransition
  <2> DEFINE range == 100 * (frame'.max - frame'.min)
             d == PickNiceInterval(range, interval)
  <2>1. interval' = d
    BY <1>2 DEF CommitTransition
  <2>2. frame' \in LiveFrame /\ Holds(frame', frame'.value)
    BY DEF LiveInv, LiveTypeOK
  <2>3. range \in Nat /\ range >= 100
    BY <2>2, RangeWide
  <2>4. interval \in Nat
    BY DEF AxisLabelled
  <2>5. LabelsApart' <=> (2 * interval' * Height >= MinGap * range /\ interval' * Height <= 3 * MinGap * range)
    BY DEF LabelsApart
  <2> HIDE DEF range
  <2>6. d \in Nat /\ 2 * d * Height >= MinGap * range /\ d * Height <= 3 * MinGap * range
    BY <2>3, <2>4, PickedIs
  <2> HIDE DEF d
  <2> QED BY <2>1, <2>5, <2>6 DEF AxisLabelled
<1>3. CASE UNCHANGED liveVars
  BY <1>1, <1>3 DEF liveVars
<1>4. ASSUME NEW v \in LiveValues, PointArrives(v) PROVE AxisLabelled'
  BY <1>1, <1>4 DEF PointArrives
<1>5. CASE SetPaused
  BY <1>1, <1>5 DEF SetPaused
<1>6. CASE RestartLoop
  BY <1>1, <1>6 DEF RestartLoop
<1>7. CASE AnimationTick
  BY <1>1, <1>7 DEF AnimationTick
<1>8. ASSUME NEW x \in Cursors, MoveTo(x) PROVE AxisLabelled'
  BY <1>1, <1>8 DEF MoveTo
<1>9. CASE LeaveChart
  BY <1>1, <1>9 DEF LeaveChart
<1> QED BY <1>2, <1>3, <1>4, <1>5, <1>6, <1>7, <1>8, <1>9 DEF LiveChartNext

-----------------------------------------------------------------------------
(* The dates of the time axis.                                                 *)

\* A label that repeats the hovered date is hidden.
LEMMA HoveredOnce == DateOnce
<1> SUFFICES ASSUME hovered # 0, NEW k \in ToSet(LabelsToShow), ~LabelHidden(k)
             PROVE  k.label # AxisLabel(Visible[hovered])
  BY DEF DateOnce
<1>1. Tick(Visible[hovered]).label = AxisLabel(Visible[hovered])
  BY DEF Tick
<1> QED BY <1>1 DEF LabelHidden

-----------------------------------------------------------------------------
(* The line that is thinned out: each bucket gives a row of its own.           *)

\* The places of a fold, one after the other.
Computes(f, n, apply, V, base) ==
    f[{}] = base /\ \A i \in 1..n : f[1..(i - 1)] \in V => f[1..i] = apply[i][f[1..(i - 1)]]
Places(g, f, n, apply, V, base) ==
    /\ g \in [0..n -> V] /\ g[0] = base /\ g[n] = f[1..n]
    /\ \A i \in 1..n : g[i] = apply[i][g[i - 1]]

LEMMA FoldPlaces ==
  ASSUME NEW n \in Nat, NEW V, NEW base \in V, NEW apply, \A i \in 1..n : \A u \in V : apply[i][u] \in V,
         NEW f, Computes(f, n, apply, V, base)
  PROVE  \E g : Places(g, f, n, apply, V, base)
<1> USE DEF Computes
<1> DEFINE g == [i \in 0..n |-> f[1..i]]
           T == {i \in Nat : i <= n => f[1..i] \in V}
<1>1. 0 \in T
  <2>1. 1..0 = {}
    OBVIOUS
  <2> QED BY <2>1
<1>2. ASSUME NEW i \in Nat, i \in T
      PROVE  i + 1 \in T
  <2> SUFFICES ASSUME i + 1 <= n PROVE f[1..(i + 1)] \in V
    OBVIOUS
  <2>1. i + 1 \in 1..n /\ (i + 1) - 1 = i
    OBVIOUS
  <2>2. f[1..i] \in V
    BY <1>2
  <2>3. f[1..(i + 1)] = apply[i + 1][f[1..i]]
    BY <2>1, <2>2
  <2> QED BY <2>1, <2>2, <2>3
<1> HIDE DEF T
<1>3. Nat \subseteq T
  BY <1>1, <1>2, NatInduct
<1>4. \A i \in 0..n : f[1..i] \in V
  BY <1>3 DEF T
<1>5. \A i \in 0..n : g[i] = f[1..i]
  OBVIOUS
<1>6. g \in [0..n -> V]
  BY <1>4
<1> HIDE DEF g
<1>7. g[0] = base /\ g[n] = f[1..n]
  <2>1. 1..0 = {} /\ 0 \in 0..n /\ n \in 0..n
    OBVIOUS
  <2> QED BY <1>5, <2>1
<1>8. ASSUME NEW i \in 1..n PROVE g[i] = apply[i][g[i - 1]]
  <2>1. i \in 0..n /\ i - 1 \in 0..n
    OBVIOUS
  <2> QED BY <1>4, <1>5, <2>1
<1>9. Places(g, f, n, apply, V, base)
  BY <1>6, <1>7, <1>8 DEF Places
<1> QED BY <1>9

LEMMA TopIn ==
  ASSUME NEW n \in Nat, NEW x \in SUBSET (1..n), x # {}
  PROVE  Max(x) \in x
<1>1. x \subseteq Int /\ n \in Int /\ \A z \in x : z <= n
  OBVIOUS
<1>2. PICK y \in x : \A z \in x : z <= y
  BY <1>1, GreatestIn
<1>3. Max(x) = y
  BY <1>1, <1>2, MaxIs
<1> QED BY <1>3

LEMMA TopOfFirst ==
  ASSUME NEW n \in Nat, NEW i \in 1..n
  PROVE  /\ 1..i \in SUBSET (1..n) /\ 1..i # {} /\ Max(1..i) = i /\ (1..i) \ {i} = 1..(i - 1)
         /\ 1..(i - 1) \in SUBSET (1..n)
<1>1. i \in 1..i /\ 1..i \subseteq 1..n /\ 1..(i - 1) \subseteq 1..n
  OBVIOUS
<1>2. 1..i \subseteq Int /\ \A y \in 1..i : y <= i
  OBVIOUS
<1>3. Max(1..i) = i
  BY <1>1, <1>2, MaxIs
<1>4. (1..i) \ {i} = 1..(i - 1)
  OBVIOUS
<1> QED BY <1>1, <1>3, <1>4

\* Sums of what is equal, or at least so much.
LEMMA SumOfEqual ==
  ASSUME NEW n \in Nat, NEW c \in Int, NEW s \in [1..n -> Int], \A k \in 1..n : s[k] = c
  PROVE  FoldLeft(+, 0, s) = n * c
<1> DEFINE sum == FoldLeft(+, 0, s)
<1>0. \E g \in [0..n -> Int] : g[0] = 0 /\ g[n] = sum /\ \A i \in 1..n : g[i] = g[i - 1] + s[i]
  BY SumSteps
<1> HIDE DEF sum
<1>1. PICK g \in [0..n -> Int] : g[0] = 0 /\ g[n] = sum /\ \A i \in 1..n : g[i] = g[i - 1] + s[i]
  BY <1>0
<1> DEFINE T == {i \in Nat : i <= n => g[i] = i * c}
<1>2. 0 \in T
  BY <1>1
<1>3. ASSUME NEW i \in Nat, i \in T
      PROVE  i + 1 \in T
  <2> SUFFICES ASSUME i + 1 <= n PROVE g[i + 1] = (i + 1) * c
    OBVIOUS
  <2>1. i + 1 \in 1..n /\ (i + 1) - 1 = i /\ i \in 0..n
    OBVIOUS
  <2>2. g[i + 1] = g[i] + c /\ g[i] = i * c
    BY <1>1, <1>3, <2>1
  <2>3. (i + 1) * c = i * c + c
    OBVIOUS
  <2> QED BY <2>2, <2>3
<1> HIDE DEF T
<1>4. n \in T
  BY <1>2, <1>3, NatInduct
<1>5. g[n] = n * c
  BY <1>4 DEF T
<1> QED BY <1>1, <1>5 DEF sum

LEMMA SumAtLeast ==
  ASSUME NEW n \in Nat, NEW c \in Int, NEW s \in [1..n -> Int], \A k \in 1..n : s[k] >= c
  PROVE  FoldLeft(+, 0, s) >= n * c
<1> DEFINE sum == FoldLeft(+, 0, s)
<1>0. \E g \in [0..n -> Int] : g[0] = 0 /\ g[n] = sum /\ \A i \in 1..n : g[i] = g[i - 1] + s[i]
  BY SumSteps
<1> HIDE DEF sum
<1>1. PICK g \in [0..n -> Int] : g[0] = 0 /\ g[n] = sum /\ \A i \in 1..n : g[i] = g[i - 1] + s[i]
  BY <1>0
<1> DEFINE T == {i \in Nat : i <= n => g[i] >= i * c}
<1>2. 0 \in T
  BY <1>1
<1>3. ASSUME NEW i \in Nat, i \in T
      PROVE  i + 1 \in T
  <2> SUFFICES ASSUME i + 1 <= n PROVE g[i + 1] >= (i + 1) * c
    OBVIOUS
  <2>1. i + 1 \in 1..n /\ (i + 1) - 1 = i /\ i \in 0..n
    OBVIOUS
  <2>2. g[i + 1] = g[i] + s[i + 1] /\ g[i] >= i * c /\ s[i + 1] >= c /\ g[i] \in Int /\ s[i + 1] \in Int
    BY <1>1, <1>3, <2>1
  <2> DEFINE w == i * c
  <2>3. (i + 1) * c = w + c /\ w \in Int
    OBVIOUS
  <2> HIDE DEF w
  <2>4. g[i] >= w
    BY <2>2 DEF w
  <2> QED BY <2>2, <2>3, <2>4
<1> HIDE DEF T
<1>4. n \in T
  BY <1>2, <1>3, NatInduct
<1>5. g[n] >= n * c
  BY <1>4 DEF T
<1> QED BY <1>1, <1>5 DEF sum

\* The buckets follow one another up to the last row.
LEMMA BucketsFollow ==
  ASSUME NEW len \in Nat, RenderPoints < len, NEW i \in 0..(RenderPoints - 2)
  PROVE  /\ BucketStart(len, i) \in Nat /\ BucketStart(len, i) >= 1
         /\ BucketStart(len, i) < BucketStart(len, i + 1)
         /\ BucketStart(len, RenderPoints - 3) = len - 1
         /\ i <= RenderPoints - 3 => BucketStart(len, i) <= len - 1
<1> DEFINE m == RenderPoints - 2  w == len - 2
           a == (i + 1) * w  b == (i + 2) * w  p == a \div m  q == b \div m
<1>1. RenderPoints \in Nat /\ RenderPoints >= 3
  BY ShapeAssumption
<1>2. m \in Nat \ {0} /\ w \in Nat /\ m <= w /\ i \in Nat /\ i <= m
  BY <1>1
<1>3. /\ BucketStart(len, i) = p + 1
      /\ BucketStart(len, i + 1) = q + 1
      /\ BucketStart(len, RenderPoints - 3) = (m * w) \div m + 1
  <2>1. (i + 1) + 1 = i + 2 /\ (RenderPoints - 3) + 1 = m
    BY <1>1
  <2> QED BY <2>1 DEF BucketStart
<1>4. i <= RenderPoints - 3 => i + 1 <= m
  BY <1>1
<1>5. len - 1 = w + 1
  OBVIOUS
<1> HIDE DEF m, w
<1>6. a \in Nat /\ b \in Nat /\ b = a + w
  BY <1>2
<1>7. (m * w) \div m = w
  <2>1. m * w \in Int /\ m * w <= m * w /\ m * w < m * w + m /\ w \in Int
    BY <1>2
  <2> HIDE DEF a, b
  <2> QED BY <1>2, <2>1, QuotientIs
<1>8. i + 1 <= m => a <= m * w
  <2> SUFFICES ASSUME i + 1 <= m PROVE a <= m * w
    OBVIOUS
  <2>1. i + 1 \in Int /\ m \in Int /\ w \in Nat
    BY <1>2
  <2> QED BY <2>1, ProductsInOrder
<1> HIDE DEF a, b
<1>9. p \in Int /\ m * p <= a /\ a < m * p + m /\ q \in Int /\ m * q <= b /\ b < m * q + m
  BY <1>2, <1>6, Quotient
<1> HIDE DEF p, q
<1>10. p >= 0
  <2> SUFFICES ASSUME p <= -1 PROVE FALSE
    BY <1>9
  <2>1. m * p <= m * (-1) /\ m * (-1) = -m
    BY <1>2, <1>9, ProductsInOrder
  <2> DEFINE x == m * p
  <2>2. x \in Int /\ x <= -m /\ a < x + m
    BY <1>2, <1>9, <2>1
  <2> HIDE DEF x
  <2> QED BY <1>2, <1>6, <2>2
<1>11. p < q
  <2> SUFFICES ASSUME q <= p PROVE FALSE
    BY <1>9
  <2>1. m * q <= m * p
    BY <1>2, <1>9, ProductsInOrder
  <2> DEFINE x == m * p  y == m * q
  <2>2. x \in Int /\ y \in Int /\ y <= x /\ x <= a /\ b < y + m
    BY <1>2, <1>9, <2>1
  <2> HIDE DEF x, y
  <2> QED BY <1>2, <1>6, <2>2
<1>12. i + 1 <= m => p <= w
  <2> SUFFICES ASSUME i + 1 <= m, p >= w + 1 PROVE FALSE
    BY <1>2, <1>9
  <2>1. m * (w + 1) <= m * p /\ m * (w + 1) = m * w + m
    BY <1>2, <1>9, ProductsInOrder
  <2> DEFINE x == m * p  y == m * w
  <2>2. x \in Int /\ y \in Int /\ y + m <= x /\ x <= a /\ a <= y
    BY <1>2, <1>8, <1>9, <2>1
  <2> HIDE DEF x, y
  <2> QED BY <1>2, <1>6, <2>2
<1> QED BY <1>1, <1>2, <1>3, <1>4, <1>5, <1>7, <1>9, <1>10, <1>11, <1>12

LEMMA RowYIs ==
  ASSUME NEW rr \in Seq(SeriesRows), NEW j \in 0..(Len(rr) - 1)
  PROVE  RowY(rr, j) \in Int /\ (rr[j + 1].y # NoValue => RowY(rr, j) = rr[j + 1].y)
<1>1. Len(rr) \in Nat
  BY LenProperties
<1>2. j + 1 \in 1..Len(rr) /\ j \in Int
  BY <1>1
<1>3. rr[j + 1] \in SeriesRows
  BY <1>2, ElementOfSeq
<1>4. rr[j + 1].y \in Levels \cup {NoValue} /\ Levels \subseteq Int
  BY <1>3, ShapeAssumption DEF SeriesRows
<1> QED BY <1>2, <1>4 DEF RowY

\* The two sums of an area, and what it is of rows on a level.
LEMMA AreaIs ==
  ASSUME NEW rr \in Seq(SeriesRows), NEW a \in 0..(Len(rr) - 1), NEW j \in 0..(Len(rr) - 1),
         NEW from \in 0..Len(rr), NEW to \in from..Len(rr)
  PROVE  /\ Area(rr, a, j, from, to) \in Nat
         /\ a < from /\ from < to /\ (\A k \in from..(to - 1) : RowY(rr, k) = RowY(rr, a)) =>
              (Area(rr, a, j, from, to) > 0 <=> RowY(rr, j) # RowY(rr, a))
<1> DEFINE n == to - from
           sx == [k \in 1..n |-> from + k - 1]
           sy == [k \in 1..n |-> RowY(rr, from + k - 1)]
           sumX == FoldLeft(+, 0, sx)
           sumY == FoldLeft(+, 0, sy)
           y == RowY(rr, j)  c == RowY(rr, a)
           first == (a * n - sumX) * (y - c)
           second == (a - j) * (sumY - c * n)
           twice == first - second
<1>1. Len(rr) \in Nat /\ from \in Nat /\ to \in Nat /\ n \in Nat /\ a \in Nat /\ j \in Nat
  <2>1. Len(rr) \in Nat
    BY LenProperties
  <2> QED BY <2>1
<1>2. Area(rr, a, j, from, to) = IF twice < 0 THEN -twice ELSE twice
  BY DEF Area
<1>3. \A k \in 1..n : from + k - 1 \in from..(to - 1) /\ from + k - 1 \in 0..(Len(rr) - 1)
  BY <1>1
<1>4. sx \in [1..n -> Int] /\ \A k \in 1..n : sx[k] = from + k - 1 /\ sx[k] >= from
  BY <1>1, <1>3
<1>5. sy \in [1..n -> Int] /\ \A k \in 1..n : sy[k] = RowY(rr, from + k - 1)
  <2>1. \A k \in 1..n : RowY(rr, from + k - 1) \in Int
    BY <1>3, RowYIs
  <2> QED BY <2>1
<1>6. y \in Int /\ c \in Int
  BY RowYIs
<1>7. n = to - from
  OBVIOUS
<1> HIDE DEF n, sx, sy, y, c
<1>8. sumX \in Int /\ sumY \in Int
  BY <1>1, <1>4, <1>5, SumIs
<1>9. sumX >= n * from
  <2>1. from \in Int /\ \A k \in 1..n : sx[k] >= from
    BY <1>1, <1>4
  <2> QED BY <1>1, <1>4, <2>1, SumAtLeast
<1>10. (\A k \in 1..n : sy[k] = c) => sumY = n * c
  BY <1>1, <1>5, <1>6, SumOfEqual
<1> HIDE DEF sumX, sumY
<1>11. first \in Int /\ second \in Int
  <2>1. a * n \in Int /\ c * n \in Int
    BY <1>1, <1>6
  <2> DEFINE u == a * n - sumX  v == y - c  s == a - j  t == sumY - c * n
  <2>2. u \in Int /\ v \in Int /\ s \in Int /\ t \in Int
    BY <1>1, <1>6, <1>8, <2>1
  <2>3. first = u * v /\ second = s * t
    OBVIOUS
  <2> HIDE DEF u, v, s, t
  <2> QED BY <2>2, <2>3
<1>12. ASSUME a < from, from < to, \A k \in from..(to - 1) : RowY(rr, k) = c
       PROVE  second = 0 /\ (y = c => first = 0) /\ (y # c => first # 0)
  <2>1. sumY = n * c
    BY <1>3, <1>5, <1>10, <1>12
  <2>2. sumY - c * n = 0
    <3>1. n * c = c * n /\ n * c \in Int
      BY <1>1, <1>6
    <3> QED BY <2>1, <3>1
  <2>3. second = (a - j) * 0 /\ a - j \in Int
    BY <1>1, <2>2
  <2>4. second = 0
    <3> HIDE DEF second
    <3> QED BY <2>3
  <2> DEFINE u == a * n - sumX  v == y - c
  <2>5. u \in Int /\ u < 0
    <3>1. n * from = n * a + n * (from - a)
      BY <1>1
    <3>2. n * (from - a) >= 1
      <4>1. n >= 1 /\ from - a >= 1 /\ n \in Int /\ from - a \in Nat
        BY <1>1, <1>7, <1>12
      <4> DEFINE d == from - a
      <4>2. d \in Nat /\ d >= 1
        BY <4>1
      <4> HIDE DEF d
      <4>3. 1 * d <= n * d
        BY <4>1, <4>2, ProductsInOrder
      <4>4. n * d \in Int
        BY <4>1, <4>2
      <4>5. n * d >= 1
        BY <4>2, <4>3, <4>4
      <4> QED BY <4>5 DEF d
    <3>3. a * n = n * a /\ n * a \in Int /\ n * (from - a) \in Int
      BY <1>1
    <3> QED BY <1>8, <1>9, <3>1, <3>2, <3>3
  <2>6. v \in Int /\ (y = c <=> v = 0) /\ first = u * v
    BY <1>6
  <2> HIDE DEF u, v, first
  <2>7. v = 0 => first = 0
    BY <2>5, <2>6
  <2>8. v # 0 => first # 0
    BY <2>5, <2>6
  <2> QED BY <2>4, <2>6, <2>7, <2>8
<1> HIDE DEF first, second
<1>13. Area(rr, a, j, from, to) \in Nat
  BY <1>2, <1>11
<1>14. second = 0 => (Area(rr, a, j, from, to) > 0 <=> first # 0)
  BY <1>2, <1>11
<1> QED BY <1>12, <1>13, <1>14 DEF y, c

\* The row of a bucket is one of its rows; of the last bucket, which is empty, the last row.
LEMMA RowOfBucketIs ==
  ASSUME NEW rr \in Seq(SeriesRows), RenderPoints < Len(rr),
         NEW i \in 0..(RenderPoints - 3), NEW a \in 0..(Len(rr) - 1)
  PROVE  /\ i = RenderPoints - 3 => RowOfBucket(rr, i, a) = Len(rr) - 1
         /\ i < RenderPoints - 3 =>
              /\ RowOfBucket(rr, i, a) \in BucketStart(Len(rr), i)..(BucketStart(Len(rr), i + 1) - 1)
              /\ \A peak \in BucketStart(Len(rr), i)..(BucketStart(Len(rr), i + 1) - 1) :
                   /\ a < BucketStart(Len(rr), i)
                   /\ \A k \in (0..(Len(rr) - 1)) \ {peak} : RowY(rr, k) = RowY(rr, a)
                   /\ RowY(rr, peak) # RowY(rr, a)
                   => RowOfBucket(rr, i, a) = peak
<1> DEFINE len == Len(rr)
           start == BucketStart(len, i)
           next == BucketStart(len, i + 1)
           after == BucketStart(len, i + 2)
           bucket == start..(Min({next, len - 1}) - 1)
           nextEnd == Min({after, len})
           from == IF next < nextEnd THEN next ELSE len - 1
           to == IF next < nextEnd THEN nextEnd ELSE len
           elected == CHOOSE j \in bucket : \A k \in bucket :
                        \/ Area(rr, a, k, from, to) < Area(rr, a, j, from, to)
                        \/ Area(rr, a, k, from, to) = Area(rr, a, j, from, to) /\ j <= k
<1>1. len \in Nat /\ RenderPoints < len /\ RenderPoints \in Nat /\ RenderPoints >= 3 /\ i \in Nat
  BY LenProperties, ShapeAssumption
<1>2. RowOfBucket(rr, i, a) = IF bucket = {} THEN start ELSE elected
  BY DEF RowOfBucket
<1>3. /\ start \in Nat /\ start >= 1 /\ start < next /\ start <= len - 1
      /\ i = RenderPoints - 3 => start = len - 1
  <2>1. i \in 0..(RenderPoints - 2) /\ i <= RenderPoints - 3
    BY <1>1
  <2>2. BucketStart(len, RenderPoints - 3) = len - 1
    BY <1>1, <2>1, BucketsFollow
  <2> HIDE DEF len
  <2>3. start \in Nat /\ start >= 1 /\ start < next /\ start <= len - 1
    BY <1>1, <2>1, BucketsFollow
  <2> QED BY <2>2, <2>3
<1>4. /\ next \in Nat /\ next < after
      /\ i < RenderPoints - 3 => next <= len - 1
  <2>1. i + 1 \in 0..(RenderPoints - 2) /\ (i < RenderPoints - 3 => i + 1 <= RenderPoints - 3) /\ (i + 1) + 1 = i + 2
    BY <1>1
  <2> HIDE DEF len
  <2>2. /\ BucketStart(len, i + 1) \in Nat /\ BucketStart(len, i + 1) < BucketStart(len, (i + 1) + 1)
        /\ i + 1 <= RenderPoints - 3 => BucketStart(len, i + 1) <= len - 1
    BY <1>1, <2>1, BucketsFollow
  <2> QED BY <2>1, <2>2
<1>5. after \in Int
  <2>1. RenderPoints - 2 \in Nat \ {0} /\ len - 2 \in Int /\ (i + 2) + 1 \in Int
    BY <1>1
  <2>2. ((i + 2) + 1) * (len - 2) \in Int
    <3> DEFINE u == (i + 2) + 1  v == len - 2
    <3>1. u \in Int /\ v \in Int
      BY <2>1
    <3> HIDE DEF u, v
    <3>2. u * v \in Int
      BY <3>1
    <3> QED BY <3>2 DEF u, v
  <2> DEFINE z == ((i + 2) + 1) * (len - 2)
  <2>3. z \in Int
    BY <2>2
  <2>4. after = z \div (RenderPoints - 2) + 1
    BY DEF BucketStart
  <2> HIDE DEF z
  <2>5. z \div (RenderPoints - 2) \in Int
    BY <2>1, <2>3, Quotient
  <2> QED BY <2>4, <2>5
<1>6. Min({next, len - 1}) = IF next <= len - 1 THEN next ELSE len - 1
  <2> HIDE DEF next, len
  <2> QED BY <1>1, <1>4, MinOfTwo
<1>7. nextEnd = IF after <= len THEN after ELSE len
  <2> HIDE DEF after, len
  <2> QED BY <1>1, <1>5, MinOfTwo
<1>8. len = Len(rr)
  OBVIOUS
<1> HIDE DEF start, next, after, len, nextEnd, elected
<1>9. CASE i = RenderPoints - 3
  <2>1. bucket = {}
    BY <1>1, <1>3, <1>4, <1>6, <1>9
  <2> QED BY <1>2, <1>3, <1>8, <1>9, <2>1
<1>10. CASE i < RenderPoints - 3
  <2>1. bucket = start..(next - 1) /\ start \in bucket
    BY <1>1, <1>3, <1>4, <1>6, <1>10
  <2>2. from = next /\ to = nextEnd /\ next < nextEnd /\ nextEnd \in Int /\ nextEnd <= len
    BY <1>1, <1>4, <1>5, <1>7, <1>10
  <2>3. RowOfBucket(rr, i, a) = elected
    BY <1>2, <2>1
  <2> DEFINE area(k) == Area(rr, a, k, from, to)
  <2>4. elected = CHOOSE j \in bucket : \A k \in bucket : area(k) < area(j) \/ (area(k) = area(j) /\ j <= k)
    BY DEF elected
  <2>5. \A j \in bucket : j \in 0..(len - 1) /\ j \in Nat /\ start <= j /\ j < next
    <3> HIDE DEF bucket
    <3>1. \A j \in bucket : j \in start..(next - 1)
      BY <2>1
    <3> QED BY <1>1, <1>3, <1>4, <1>10, <3>1
  <2>6. from \in 0..len /\ to \in from..len
    BY <1>1, <1>4, <1>10, <2>2
  <2>7. ASSUME NEW j \in bucket
        PROVE  /\ area(j) \in Nat
               /\ a < from /\ (\A k \in from..(to - 1) : RowY(rr, k) = RowY(rr, a)) =>
                    (area(j) > 0 <=> RowY(rr, j) # RowY(rr, a))
    <3>1. j \in 0..(len - 1)
      BY <2>5
    <3>2. from < to
      BY <2>2
    <3> HIDE DEF from, to, bucket
    <3> QED BY <1>8, <2>6, <3>1, <3>2, AreaIs
  <2>8. from = next
    BY <2>2
  <2>9. \A k \in from..(to - 1) : k \in 0..(len - 1) /\ k >= next
    BY <1>1, <1>4, <2>2
  <2> HIDE DEF area, from, to, bucket
  <2>10. elected \in bucket /\ \A k \in bucket : area(k) < area(elected) \/ (area(k) = area(elected) /\ elected <= k)
    <3> DEFINE n == next - start
               f == [k \in 1..n |-> area(start + k - 1)]
    <3>1. n \in Nat /\ n >= 1
      BY <1>3, <1>4
    <3>2. \A k \in 1..n : start + k - 1 \in bucket
      BY <1>3, <1>4, <2>1
    <3>3. \A k \in 1..n : f[k] \in Int /\ f[k] = area(start + k - 1)
      BY <2>7, <3>2
    <3>4. \A j \in bucket : j - start + 1 \in 1..n /\ start + (j - start + 1) - 1 = j
      BY <1>3, <1>4, <2>1
    <3> HIDE DEF f, n
    <3>5. PICK m \in 1..n : \A k \in 1..n : f[k] <= f[m]
      BY <3>1, <3>3, GreatestOf
    <3> DEFINE top == f[m]
               S == {j \in Nat : j \in bucket /\ area(j) = top}
    <3>6. \A j \in bucket : area(j) <= top
      BY <3>3, <3>4, <3>5
    <3>7. S # {}
      <4>1. start + m - 1 \in bucket /\ start + m - 1 \in Nat
        BY <2>5, <3>2
      <4> QED BY <3>3, <4>1
    <3>8. PICK j \in S : \A k \in S : j <= k
      BY <3>7, LeastNat
    <3>9. ASSUME NEW k \in bucket PROVE area(k) < area(j) \/ (area(k) = area(j) /\ j <= k)
      <4>1. k \in Nat /\ area(k) <= top /\ area(k) \in Nat /\ area(j) = top /\ j \in bucket
        BY <2>5, <2>7, <3>6, <3>8
      <4>2. area(j) \in Nat
        BY <2>7, <4>1
      <4>3. CASE area(k) = top
        BY <3>8, <4>1, <4>3
      <4>4. CASE area(k) # top
        BY <4>1, <4>2, <4>4
      <4> QED BY <4>3, <4>4
    <3>10. j \in bucket
      BY <3>8
    <3> QED BY <2>4, <3>9, <3>10
  <2>11. ASSUME NEW peak \in bucket, a < start,
                \A k \in (0..(len - 1)) \ {peak} : RowY(rr, k) = RowY(rr, a),
                RowY(rr, peak) # RowY(rr, a)
         PROVE  elected = peak
    <3> SUFFICES ASSUME elected # peak PROVE FALSE
      OBVIOUS
    <3>1. a < from
      BY <1>1, <1>3, <1>4, <1>10, <2>8, <2>11
    <3>2. \A k \in from..(to - 1) : RowY(rr, k) = RowY(rr, a)
      <4> TAKE k \in from..(to - 1)
      <4>1. k \in 0..(len - 1) /\ k >= next /\ peak < next /\ peak \in Nat
        BY <2>5, <2>9, <2>11
      <4>2. k # peak
        BY <1>1, <1>4, <4>1
      <4> QED BY <2>11, <4>1, <4>2
    <3>3. area(peak) \in Nat /\ area(peak) > 0
      BY <2>7, <2>11, <3>1, <3>2
    <3>4. RowY(rr, elected) = RowY(rr, a)
      BY <2>5, <2>10, <2>11
    <3>5. area(elected) \in Nat /\ ~(area(elected) > 0)
      BY <2>7, <2>10, <3>1, <3>2, <3>4
    <3>6. area(peak) < area(elected) \/ area(peak) = area(elected)
      BY <2>10, <2>11
    <3> QED BY <3>3, <3>5, <3>6
  <2>12. elected \in start..(next - 1)
    BY <2>1, <2>10
  <2>13. \A peak \in start..(next - 1) : peak \in bucket
    BY <2>1
  <2> QED BY <1>8, <1>10, <2>3, <2>11, <2>12, <2>13 DEF start, next
<1>11. i = RenderPoints - 3 \/ i < RenderPoints - 3
  BY <1>1
<1> QED BY <1>9, <1>10, <1>11

\* The rows that are kept, bucket by bucket.
KeptSoFar(g, rr) ==
    LET len == Len(rr)  n == RenderPoints - 2
    IN /\ g \in [0..n -> Seq(0..(len - 1)) \ {<<>>}]
       /\ g[0] = <<0>>
       /\ \A i \in 1..n : g[i] = Append(g[i - 1], RowOfBucket(rr, i - 1, Last(g[i - 1])))
       /\ Decimated(rr) = Append(g[n], len - 1)

LEMMA LastIn ==
  ASSUME NEW V, NEW u \in Seq(V), u # <<>>
  PROVE  Last(u) \in V /\ Len(u) \in Nat \ {0} /\ Last(u) = u[Len(u)]
<1>1. Len(u) \in Nat /\ Len(u) # 0
  BY EmptySeq, LenProperties
<1>2. Len(u) \in 1..Len(u)
  BY <1>1
<1>3. u[Len(u)] \in V
  BY <1>2, ElementOfSeq
<1> QED BY <1>1, <1>3 DEF Last

LEMMA DecimatedSteps ==
  ASSUME NEW rr \in Seq(SeriesRows), RenderPoints < Len(rr)
  PROVE  \E g : KeptSoFar(g, rr)
<1> DEFINE len == Len(rr)
           n == RenderPoints - 2
           V == Seq(0..(len - 1)) \ {<<>>}
           s == [i \in 1..n |-> i - 1]
           F(f) == [x \in SUBSET DOMAIN s |-> IF x = {} THEN <<0>>
                        ELSE Append(f[x \ {Max(x)}], RowOfBucket(rr, s[Max(x)], Last(f[x \ {Max(x)}])))]
           f == CHOOSE u : u = F(u)
           apply == [i \in 1..n |-> [u \in V |-> Append(u, RowOfBucket(rr, i - 1, Last(u)))]]
           folded == FoldLeft(LAMBDA kept, i : Append(kept, RowOfBucket(rr, i, Last(kept))), <<0>>, s)
<1>1. len \in Nat /\ RenderPoints < len /\ RenderPoints \in Nat /\ RenderPoints >= 3 /\ n \in Nat
  BY LenProperties, ShapeAssumption
<1>2. folded = f[DOMAIN s]
  BY DEF FoldLeft, MapThenFoldSet
<1>3. Decimated(rr) = Append(folded, len - 1)
  <2>1. ~(RenderPoints >= Len(rr) \/ RenderPoints < 3)
    BY <1>1
  <2> QED BY <2>1, Zenon DEF Decimated
<1>4. DOMAIN s = 1..n /\ \A i \in 1..n : s[i] = i - 1
  OBVIOUS
<1>5. len = Len(rr) /\ n = RenderPoints - 2
  OBVIOUS
<1>6. f = CHOOSE u : u = F(u)
  OBVIOUS
<1>7. \A u : F(u) = [x \in SUBSET DOMAIN s |-> IF x = {} THEN <<0>>
                        ELSE Append(u[x \ {Max(x)}], RowOfBucket(rr, s[Max(x)], Last(u[x \ {Max(x)}])))]
  OBVIOUS
<1>8. \A i \in 1..n : \A u \in V : apply[i][u] = Append(u, RowOfBucket(rr, i - 1, Last(u)))
  OBVIOUS
<1> HIDE DEF folded, f, F, s, apply, n, len
<1>9. ASSUME NEW i \in 1..n, NEW u \in V
      PROVE  apply[i][u] \in V
  <2> DEFINE r == RowOfBucket(rr, i - 1, Last(u))
  <2>1. u \in Seq(0..(len - 1)) /\ u # <<>>
    OBVIOUS
  <2>2. Last(u) \in 0..(len - 1)
    BY <2>1, LastIn
  <2>3. i - 1 \in 0..(RenderPoints - 3) /\ (i - 1 = RenderPoints - 3 \/ i - 1 < RenderPoints - 3)
    BY <1>1, <1>5
  <2>4. r \in 0..(len - 1)
    <3>1. i - 1 = RenderPoints - 3 => r = len - 1
      BY <1>1, <1>5, <2>2, <2>3, RowOfBucketIs
    <3>2. i - 1 < RenderPoints - 3 => r \in BucketStart(len, i - 1)..(BucketStart(len, (i - 1) + 1) - 1)
      BY <1>1, <1>5, <2>2, <2>3, RowOfBucketIs
    <3>3. /\ i - 1 < RenderPoints - 3 => BucketStart(len, (i - 1) + 1) <= len - 1
          /\ BucketStart(len, i - 1) \in Nat /\ BucketStart(len, (i - 1) + 1) \in Nat
      <4>1. i - 1 \in 0..(RenderPoints - 2) /\ (i - 1) + 1 \in 0..(RenderPoints - 2)
            /\ (i - 1 < RenderPoints - 3 => (i - 1) + 1 <= RenderPoints - 3)
        BY <1>1, <2>3
      <4>2. BucketStart(len, i - 1) \in Nat
        BY <1>1, <4>1, BucketsFollow
      <4>3. BucketStart(len, (i - 1) + 1) \in Nat
            /\ ((i - 1) + 1 <= RenderPoints - 3 => BucketStart(len, (i - 1) + 1) <= len - 1)
        <5> DEFINE h == (i - 1) + 1
        <5>1. h \in 0..(RenderPoints - 2)
          BY <4>1
        <5> HIDE DEF h
        <5>2. BucketStart(len, h) \in Nat /\ (h <= RenderPoints - 3 => BucketStart(len, h) <= len - 1)
          BY <1>1, <5>1, BucketsFollow
        <5> QED BY <5>2 DEF h
      <4> QED BY <4>1, <4>2, <4>3
    <3> HIDE DEF r
    <3> QED BY <1>1, <2>3, <3>1, <3>2, <3>3
  <2> HIDE DEF r
  <2>5. Append(u, r) \in Seq(0..(len - 1)) /\ Len(Append(u, r)) = Len(u) + 1 /\ Len(u) \in Nat
    BY <2>1, <2>4, AppendProperties, LenProperties
  <2>6. Append(u, r) # <<>>
    <3>1. Len(<<>>) = 0
      BY EmptySeq
    <3> QED BY <2>5, <3>1
  <2> QED BY <1>8, <2>5, <2>6 DEF r
<1>10. <<0>> \in V
  <2>1. 0 \in 0..(len - 1)
    BY <1>1
  <2>2. <<0>> \in Seq(0..(len - 1)) /\ <<0>> # <<>>
    BY <2>1
  <2> QED BY <2>2
<1> HIDE DEF V
<1>11. PICK h : FoldedTo(h, n, apply, V, <<0>>)
  <2>1. \A i \in 1..n : \A u \in V : apply[i][u] \in V
    BY <1>9
  <2> QED BY <1>1, <1>10, <2>1, Folded
<1>12. h \in [SUBSET (1..n) -> V]
  BY <1>11 DEF FoldedTo
<1>13. h = F(h)
  <2> DEFINE to(x) == IF x = {} THEN <<0>>
                      ELSE Append(h[x \ {Max(x)}], RowOfBucket(rr, s[Max(x)], Last(h[x \ {Max(x)}])))
  <2>1. ASSUME NEW x \in SUBSET (1..n)
        PROVE  h[x] = to(x)
    <3>1. CASE x = {}
      BY <1>11, <3>1 DEF FoldedTo
    <3>2. CASE x # {}
      <4>1. Max(x) \in 1..n /\ s[Max(x)] = Max(x) - 1
        BY <1>1, <1>4, <3>2, TopIn
      <4>2. x \ {Max(x)} \in SUBSET (1..n)
        OBVIOUS
      <4>3. h[x \ {Max(x)}] \in V
        BY <1>12, <4>2
      <4>4. h[x] = apply[Max(x)][h[x \ {Max(x)}]]
        BY <1>11, <3>2 DEF FoldedTo
      <4> QED BY <1>8, <3>2, <4>1, <4>3, <4>4
    <3> QED BY <3>1, <3>2
  <2>2. F(h) = [x \in SUBSET (1..n) |-> to(x)]
    BY <1>4, <1>7
  <2> HIDE DEF to
  <2> QED BY <1>12, <2>1, <2>2
<1>14. f = F(f)
  BY <1>6, <1>13
<1>15. \A x \in SUBSET (1..n) : f[x] = IF x = {} THEN <<0>>
                        ELSE Append(f[x \ {Max(x)}], RowOfBucket(rr, s[Max(x)], Last(f[x \ {Max(x)}])))
  <2> DEFINE to(x) == IF x = {} THEN <<0>>
                      ELSE Append(f[x \ {Max(x)}], RowOfBucket(rr, s[Max(x)], Last(f[x \ {Max(x)}])))
  <2>1. f = [x \in SUBSET (1..n) |-> to(x)]
    BY <1>4, <1>7, <1>14
  <2> HIDE DEF to
  <2>2. \A x \in SUBSET (1..n) : f[x] = to(x)
    BY <2>1
  <2> QED BY <2>2 DEF to
<1>16. f[{}] = <<0>>
  <2>1. {} \in SUBSET (1..n)
    OBVIOUS
  <2> QED BY <1>15, <2>1
<1>17. ASSUME NEW i \in 1..n, f[1..(i - 1)] \in V
       PROVE  f[1..i] = apply[i][f[1..(i - 1)]]
  <2>1. 1..i \in SUBSET (1..n) /\ 1..i # {} /\ Max(1..i) = i /\ (1..i) \ {i} = 1..(i - 1)
    BY <1>1, TopOfFirst
  <2>2. f[1..i] = Append(f[1..(i - 1)], RowOfBucket(rr, s[i], Last(f[1..(i - 1)])))
    BY <1>15, <2>1
  <2>3. s[i] = i - 1
    BY <1>4
  <2> QED BY <1>8, <1>17, <2>2, <2>3
<1>18. PICK g :
         /\ g \in [0..n -> V] /\ g[0] = <<0>> /\ g[n] = f[1..n]
         /\ \A i \in 1..n : g[i] = apply[i][g[i - 1]]
  <2>1. \A i \in 1..n : \A u \in V : apply[i][u] \in V
    BY <1>9
  <2>2. Computes(f, n, apply, V, <<0>>)
    BY <1>16, <1>17 DEF Computes
  <2>3. n \in Nat /\ <<0>> \in V
    BY <1>1, <1>10
  <2>4. \E g : Places(g, f, n, apply, V, <<0>>)
    BY <2>1, <2>2, <2>3, FoldPlaces
  <2> QED BY <2>4 DEF Places
<1>19. \A i \in 1..n : g[i] = Append(g[i - 1], RowOfBucket(rr, i - 1, Last(g[i - 1])))
  <2> TAKE i \in 1..n
  <2>1. i - 1 \in 0..n
    BY <1>1
  <2>2. g[i - 1] \in V
    BY <1>18, <2>1
  <2> QED BY <1>8, <1>18, <2>2
<1>20. Decimated(rr) = Append(g[n], len - 1)
  BY <1>2, <1>3, <1>4, <1>18
<1>21. KeptSoFar(g, rr)
  BY <1>5, <1>18, <1>19, <1>20 DEF KeptSoFar, V
<1> QED BY <1>21

\* They are in order, one of each bucket, and stay.
LEMMA SoFarIs ==
  ASSUME NEW rr \in Seq(SeriesRows), RenderPoints < Len(rr), NEW g, KeptSoFar(g, rr),
         NEW i \in 0..(RenderPoints - 2)
  PROVE  /\ g[i] \in Seq(0..(Len(rr) - 1)) /\ Len(g[i]) = i + 1 /\ g[i][1] = 0
         /\ \A k \in 1..i : g[i][k] <= g[i][k + 1]
         /\ i <= RenderPoints - 3 => Last(g[i]) < BucketStart(Len(rr), i)
<1> DEFINE len == Len(rr)
           n == RenderPoints - 2
           V == Seq(0..(len - 1)) \ {<<>>}
           P(j) == /\ Len(g[j]) = j + 1 /\ g[j][1] = 0
                   /\ \A k \in 1..j : g[j][k] <= g[j][k + 1]
                   /\ j <= RenderPoints - 3 => Last(g[j]) < BucketStart(len, j)
           T == {j \in Nat : j <= n => P(j)}
<1>1. len \in Nat /\ RenderPoints < len /\ RenderPoints \in Nat /\ RenderPoints >= 3 /\ n \in Nat /\ n = RenderPoints - 2
  BY LenProperties, ShapeAssumption
<1>2. /\ \A j \in 0..n : g[j] \in Seq(0..(len - 1)) /\ g[j] # <<>>
      /\ g[0] = <<0>>
      /\ \A j \in 1..n : g[j] = Append(g[j - 1], RowOfBucket(rr, j - 1, Last(g[j - 1])))
  BY DEF KeptSoFar
<1>3. len = Len(rr)
  OBVIOUS
<1> HIDE DEF len, n
<1>4. P(0)
  <2>1. Len(<<0>>) = 1 /\ <<0>>[1] = 0 /\ Last(<<0>>) = 0
    BY DEF Last
  <2>2. BucketStart(len, 0) >= 1 /\ BucketStart(len, 0) \in Nat
    <3>1. 0 \in 0..(RenderPoints - 2)
      BY <1>1
    <3> QED BY <1>1, <3>1, BucketsFollow
  <2>3. 1..0 = {}
    OBVIOUS
  <2> QED BY <1>2, <2>1, <2>2, <2>3
<1>5. ASSUME NEW j \in Nat, j + 1 <= n, P(j)
      PROVE  P(j + 1)
  <2> DEFINE u == g[j]
             a == Last(u)
             r == RowOfBucket(rr, j, a)
  <2>1. j \in 0..n /\ j + 1 \in 1..n /\ (j + 1) - 1 = j /\ j \in 0..(RenderPoints - 3) /\ j \in 0..(RenderPoints - 2)
        /\ j + 1 \in 0..(RenderPoints - 2) /\ j <= RenderPoints - 3
    BY <1>1, <1>5
  <2>2. u \in Seq(0..(len - 1)) /\ u # <<>>
    BY <1>2, <2>1
  <2>3. a \in 0..(len - 1) /\ a = u[j + 1] /\ Len(u) = j + 1
    <3>1. a \in 0..(len - 1) /\ a = u[Len(u)]
      BY <2>2, LastIn
    <3> QED BY <1>5, <3>1
  <2>4. g[j + 1] = Append(u, r)
    BY <1>2, <2>1
  <2>5. /\ BucketStart(len, j) \in Nat /\ BucketStart(len, j) < BucketStart(len, j + 1)
        /\ BucketStart(len, j + 1) \in Nat /\ BucketStart(len, RenderPoints - 3) = len - 1
    BY <1>1, <2>1, BucketsFollow
  <2>6. a < BucketStart(len, j)
    BY <1>5, <2>1
  <2>7. /\ j = RenderPoints - 3 => r = len - 1
        /\ j < RenderPoints - 3 => r \in BucketStart(len, j)..(BucketStart(len, j + 1) - 1)
    BY <1>1, <1>3, <2>1, <2>3, RowOfBucketIs
  <2>8. r \in Nat /\ a <= r /\ (j + 1 <= RenderPoints - 3 => r < BucketStart(len, j + 1))
    <3> HIDE DEF r, a
    <3>1. CASE j = RenderPoints - 3
      BY <1>1, <2>3, <2>7, <3>1
    <3>2. CASE j < RenderPoints - 3
      BY <1>1, <2>3, <2>5, <2>6, <2>7, <3>2
    <3> QED BY <1>1, <2>1, <3>1, <3>2
  <2> HIDE DEF r, a
  <2>9. r \in 0..(len - 1)
    <3>1. g[j + 1] \in Seq(0..(len - 1))
      BY <1>2, <2>1
    <3>2. Len(Append(u, r)) = Len(u) + 1 /\ Append(u, r)[Len(u) + 1] = r
      BY <2>2, AppendProperties
    <3>3. Len(u) + 1 \in 1..Len(g[j + 1])
      BY <2>3, <2>4, <3>2
    <3> QED BY <2>4, <3>1, <3>2, <3>3, ElementOfSeq
  <2> HIDE DEF u
  <2>10. /\ Len(Append(u, r)) = j + 2
         /\ \A k \in 1..(j + 1) : Append(u, r)[k] = u[k]
         /\ Append(u, r)[j + 2] = r /\ Append(u, r) \in Seq(0..(len - 1))
    <3>1. /\ Len(Append(u, r)) = Len(u) + 1 /\ Append(u, r) \in Seq(0..(len - 1))
          /\ \A k \in 1..Len(u) : Append(u, r)[k] = u[k]
          /\ Append(u, r)[Len(u) + 1] = r
      BY <2>2, <2>9, AppendProperties
    <3>2. (j + 1) + 1 = j + 2
      OBVIOUS
    <3> QED BY <2>3, <3>1, <3>2
  <2>11. Last(Append(u, r)) = r
    BY <2>10 DEF Last
  <2>12. \A k \in 1..(j + 1) : Append(u, r)[k] <= Append(u, r)[k + 1]
    <3> TAKE k \in 1..(j + 1)
    <3>1. CASE k = j + 1
      <4>1. k + 1 = j + 2
        BY <3>1
      <4> QED BY <2>3, <2>8, <2>10, <3>1, <4>1
    <3>2. CASE k # j + 1
      <4>1. k \in 1..j /\ k + 1 \in 1..(j + 1)
        BY <3>2
      <4>2. u[k] <= u[k + 1]
        BY <1>5, <4>1 DEF u
      <4> QED BY <2>10, <4>1, <4>2
    <3> QED BY <3>1, <3>2
  <2>13. Append(u, r)[1] = 0
    <3>1. 1 \in 1..(j + 1) /\ u[1] = 0
      BY <1>5 DEF u
    <3> QED BY <2>10, <3>1
  <2>14. (j + 1) + 1 = j + 2
    OBVIOUS
  <2> QED BY <2>4, <2>8, <2>10, <2>11, <2>12, <2>13, <2>14
<1> HIDE DEF P
<1>6. 0 \in T
  BY <1>4
<1>7. ASSUME NEW j \in Nat, j \in T
      PROVE  j + 1 \in T
  <2>1. j + 1 <= n => j <= n
    BY <1>1
  <2> QED BY <1>5, <1>7, <2>1
<1> HIDE DEF T
<1>8. Nat \subseteq T
  BY <1>6, <1>7, NatInduct
<1>9. i \in Nat /\ i <= n /\ i \in 0..n
  BY <1>1
<1>10. P(i)
  BY <1>8, <1>9 DEF T
<1> QED BY <1>2, <1>9, <1>10 DEF P, len

LEMMA StaysKept ==
  ASSUME NEW rr \in Seq(SeriesRows), RenderPoints < Len(rr), NEW g, KeptSoFar(g, rr),
         NEW k \in 0..(RenderPoints - 2)
  PROVE  g[RenderPoints - 2][k + 1] = g[k][k + 1]
<1> DEFINE n == RenderPoints - 2
           T == {j \in Nat : k <= j /\ j <= n => g[j][k + 1] = g[k][k + 1]}
<1>1. Len(rr) \in Nat /\ RenderPoints \in Nat /\ n \in Nat /\ k \in Nat /\ k <= n /\ n = RenderPoints - 2
  BY LenProperties, ShapeAssumption
<1>2. /\ \A j \in 0..n : g[j] \in Seq(0..(Len(rr) - 1))
      /\ \A j \in 1..n : g[j] = Append(g[j - 1], RowOfBucket(rr, j - 1, Last(g[j - 1])))
      /\ \A j \in 0..n : Len(g[j]) = j + 1
  <2>1. \A j \in 0..n : Len(g[j]) = j + 1 /\ g[j] \in Seq(0..(Len(rr) - 1))
    BY SoFarIs
  <2> QED BY <2>1 DEF KeptSoFar
<1> HIDE DEF n
<1>3. 0 \in T
  <2>1. k <= 0 => k = 0
    BY <1>1
  <2> QED BY <2>1
<1>4. ASSUME NEW j \in Nat, j \in T
      PROVE  j + 1 \in T
  <2> SUFFICES ASSUME k <= j + 1, j + 1 <= n PROVE g[j + 1][k + 1] = g[k][k + 1]
    OBVIOUS
  <2>1. CASE k = j + 1
    BY <2>1
  <2>2. CASE k # j + 1
    <3>1. k <= j /\ j <= n /\ j \in 0..n /\ j + 1 \in 1..n /\ (j + 1) - 1 = j /\ k + 1 \in 1..(j + 1) /\ j + 1 \in 0..n
      BY <1>1, <2>2
    <3>2. g[j][k + 1] = g[k][k + 1]
      BY <1>4, <3>1
    <3> DEFINE u == g[j]  r == RowOfBucket(rr, j, Last(u))
    <3>3. g[j + 1] = Append(u, r) /\ u \in Seq(0..(Len(rr) - 1)) /\ Len(u) = j + 1
      BY <1>2, <3>1
    <3>4. r \in 0..(Len(rr) - 1)
      <4>1. g[j + 1] \in Seq(0..(Len(rr) - 1))
        BY <1>2, <3>1
      <4> HIDE DEF u, r
      <4>2. Len(Append(u, r)) = Len(u) + 1 /\ Append(u, r)[Len(u) + 1] = r
        BY <3>3, AppendProperties
      <4>3. Len(u) + 1 \in 1..Len(g[j + 1])
        BY <3>3, <4>2
      <4> QED BY <3>3, <4>1, <4>2, <4>3, ElementOfSeq
    <3> HIDE DEF r
    <3>5. \A h \in 1..Len(u) : Append(u, r)[h] = u[h]
      BY <3>3, <3>4, AppendProperties
    <3> QED BY <3>1, <3>2, <3>3, <3>5
  <2> QED BY <2>1, <2>2
<1> HIDE DEF T
<1>5. n \in T
  BY <1>1, <1>3, <1>4, NatInduct
<1>6. g[n][k + 1] = g[k][k + 1]
  BY <1>1, <1>5 DEF T
<1> QED BY <1>6 DEF n

\* Each row of the buckets is of one of them.
LEMMA BucketOf ==
  ASSUME NEW len \in Nat, RenderPoints < len, NEW j \in BucketStart(len, 0)..(len - 2)
  PROVE  \E i \in 0..(RenderPoints - 4) : j \in BucketStart(len, i)..(BucketStart(len, i + 1) - 1)
<1> DEFINE S == {i \in 0..(RenderPoints - 3) : BucketStart(len, i) <= j}
<1>1. RenderPoints \in Nat /\ RenderPoints >= 3
  BY ShapeAssumption
<1>2. \A i \in 0..(RenderPoints - 2) : BucketStart(len, i) \in Nat
  BY BucketsFollow
<1>3. BucketStart(len, RenderPoints - 3) = len - 1
  <2>1. 0 \in 0..(RenderPoints - 2)
    BY <1>1
  <2> QED BY <2>1, BucketsFollow
<1>4. j \in Int /\ BucketStart(len, 0) <= j /\ j <= len - 2
  <2>1. 0 \in 0..(RenderPoints - 2)
    BY <1>1
  <2>2. BucketStart(len, 0) \in Nat
    BY <1>2, <2>1
  <2> QED BY <2>2
<1>5. 0 \in S /\ S \subseteq Int /\ \A i \in S : i <= RenderPoints - 3
  BY <1>1, <1>4
<1>6. PICK i \in S : \A h \in S : h <= i
  <2>1. S # {} /\ RenderPoints - 3 \in Int
    BY <1>1, <1>5
  <2> HIDE DEF S
  <2> QED BY <1>5, <2>1, GreatestIn
<1>7. i # RenderPoints - 3
  BY <1>3, <1>4, <1>6
<1>8. i \in 0..(RenderPoints - 4) /\ i + 1 \in 0..(RenderPoints - 3) /\ i + 1 \in 0..(RenderPoints - 2) /\ i \in Int
      /\ i \in 0..(RenderPoints - 2)
  BY <1>1, <1>6, <1>7
<1>9. ~(BucketStart(len, i + 1) <= j)
  <2> SUFFICES ASSUME BucketStart(len, i + 1) <= j PROVE FALSE
    OBVIOUS
  <2>1. i + 1 \in S
    BY <1>8
  <2>2. i + 1 <= i
    BY <1>6, <2>1
  <2> QED BY <1>8, <2>2
<1>10. BucketStart(len, i) <= j /\ BucketStart(len, i) \in Nat /\ BucketStart(len, i + 1) \in Nat
  BY <1>2, <1>6, <1>8
<1>11. j \in BucketStart(len, i)..(BucketStart(len, i + 1) - 1)
  BY <1>4, <1>9, <1>10
<1> QED BY <1>8, <1>11

LEMMA KeepsPeak == ShapeInv => PeakKept
<1> SUFFICES ASSUME ShapeInv, Len(past) > RenderPoints
             PROVE  LET kept == Decimated(past)
                        len == Len(past)
                    IN /\ Len(kept) = RenderPoints /\ kept[1] = 0 /\ Last(kept) = len - 1
                       /\ \A k \in 1..(Len(kept) - 1) : kept[k] <= kept[k + 1]
                       /\ \A peak \in BucketStart(len, 0)..(len - 2) :
                            (\A i, j \in (0..(len - 1)) \ {peak} : past[i + 1].y = past[j + 1].y /\ past[i + 1].y # NoValue)
                            /\ past[peak + 1].y \notin {NoValue, past[1].y}
                            => peak \in ToSet(kept)
  BY DEF PeakKept
<1> DEFINE len == Len(past)
           n == RenderPoints - 2
           kept == Decimated(past)
<1>1. past \in Seq(SeriesRows) /\ len \in Nat /\ RenderPoints \in Nat /\ RenderPoints >= 3 /\ RenderPoints < len
      /\ n \in Nat /\ n = RenderPoints - 2 /\ n \in 0..(RenderPoints - 2)
  BY LenProperties, ShapeAssumption DEF ShapeInv
<1>2. PICK g : KeptSoFar(g, past)
  BY <1>1, DecimatedSteps
<1>3. \A i \in 0..n :
        /\ g[i] \in Seq(0..(len - 1)) /\ Len(g[i]) = i + 1 /\ g[i][1] = 0
        /\ \A k \in 1..i : g[i][k] <= g[i][k + 1]
        /\ i <= RenderPoints - 3 => Last(g[i]) < BucketStart(len, i)
  BY <1>1, <1>2, SoFarIs
<1>4. /\ kept = Append(g[n], len - 1)
      /\ \A i \in 1..n : g[i] = Append(g[i - 1], RowOfBucket(past, i - 1, Last(g[i - 1])))
  BY <1>2 DEF KeptSoFar
<1>5. \A k \in 0..n : g[n][k + 1] = g[k][k + 1]
  BY <1>1, <1>2, StaysKept
<1>6. len = Len(past)
  OBVIOUS
<1> HIDE DEF len, n, kept
<1> DEFINE u == g[n]
<1>7. u \in Seq(0..(len - 1)) /\ Len(u) = n + 1 /\ u[1] = 0 /\ \A k \in 1..n : u[k] <= u[k + 1]
  <2>1. n \in 0..n
    BY <1>1
  <2> QED BY <1>3, <2>1
<1>8. /\ Len(kept) = n + 2 /\ kept[n + 2] = len - 1
      /\ \A k \in 1..(n + 1) : kept[k] = u[k]
  <2>1. len - 1 \in 0..(len - 1) /\ kept = Append(u, len - 1) /\ n \in Nat
    BY <1>1, <1>4
  <2> HIDE DEF u
  <2>2. /\ Len(kept) = Len(u) + 1 /\ kept[Len(u) + 1] = len - 1
        /\ \A k \in 1..Len(u) : kept[k] = u[k]
    BY <1>7, <2>1, AppendProperties
  <2>3. (n + 1) + 1 = n + 2
    BY <2>1
  <2> QED BY <1>7, <2>2, <2>3
<1>9. kept \in Seq(0..(len - 1))
  <2>1. len - 1 \in 0..(len - 1) /\ kept = Append(u, len - 1)
    BY <1>1, <1>4
  <2> HIDE DEF u
  <2> QED BY <1>7, <2>1, AppendProperties
<1>10. Len(kept) = RenderPoints /\ kept[1] = 0 /\ Last(kept) = len - 1
  <2>1. n + 2 = RenderPoints /\ 1 \in 1..(n + 1)
    BY <1>1
  <2> QED BY <1>7, <1>8, <2>1 DEF Last
<1>11. \A k \in 1..(Len(kept) - 1) : kept[k] <= kept[k + 1]
  <2> TAKE k \in 1..(Len(kept) - 1)
  <2>1. k \in 1..(n + 1) /\ k \in Nat
    BY <1>1, <1>8
  <2>2. u[k] \in 0..(len - 1)
    BY <1>7, <2>1, ElementOfSeq
  <2>3. CASE k = n + 1
    <3>1. k + 1 = n + 2
      BY <1>1, <2>3
    <3> QED BY <1>1, <1>8, <2>1, <2>2, <3>1
  <2>4. CASE k # n + 1
    <3>1. k \in 1..n /\ k + 1 \in 1..(n + 1)
      BY <1>1, <2>1, <2>4
    <3> QED BY <1>7, <1>8, <2>1, <3>1
  <2> QED BY <2>3, <2>4
<1>12. ASSUME NEW peak \in BucketStart(len, 0)..(len - 2),
              \A i, j \in (0..(len - 1)) \ {peak} : past[i + 1].y = past[j + 1].y /\ past[i + 1].y # NoValue,
              past[peak + 1].y \notin {NoValue, past[1].y}
       PROVE  peak \in ToSet(kept)
  <2>1. PICK b \in 0..(RenderPoints - 4) : peak \in BucketStart(len, b)..(BucketStart(len, b + 1) - 1)
    BY <1>1, BucketOf
  <2>2. b \in Nat /\ b < RenderPoints - 3 /\ b + 1 \in 1..n /\ b \in 0..n /\ b + 1 \in 0..n /\ (b + 1) - 1 = b
        /\ b \in 0..(RenderPoints - 3) /\ b <= RenderPoints - 3
    BY <1>1
  <2>3. BucketStart(len, 0) >= 1 /\ BucketStart(len, 0) \in Nat
    <3>1. 0 \in 0..(RenderPoints - 2)
      BY <1>1
    <3> QED BY <1>1, <3>1, BucketsFollow
  <2>4. peak \in 0..(len - 1) /\ peak >= 1 /\ 0 \in (0..(len - 1)) \ {peak}
    BY <1>1, <2>3
  <2> DEFINE a == Last(g[b])
  <2>5. a \in 0..(len - 1) /\ a < BucketStart(len, b)
    <3>1. g[b] \in Seq(0..(len - 1)) /\ Len(g[b]) = b + 1 /\ Last(g[b]) < BucketStart(len, b)
      BY <1>3, <2>2
    <3>2. g[b] # <<>>
      <4>1. Len(<<>>) = 0 /\ b + 1 # 0
        BY <2>2, EmptySeq
      <4> QED BY <3>1, <4>1
    <3> QED BY <3>1, <3>2, LastIn
  <2> HIDE DEF a
  <2>6. BucketStart(len, b) \in Nat
    <3>1. b \in 0..(RenderPoints - 2)
      BY <1>1
    <3> QED BY <1>1, <3>1, BucketsFollow
  <2>7. a \in (0..(len - 1)) \ {peak}
    BY <2>1, <2>5, <2>6
  <2>8. ASSUME NEW k \in (0..(len - 1)) \ {peak}
        PROVE  RowY(past, k) = past[1].y
    <3>1. past[k + 1].y = past[0 + 1].y /\ past[k + 1].y # NoValue
      BY <1>12, <2>4
    <3>2. 0 + 1 = 1
      OBVIOUS
    <3>3. k \in 0..(Len(past) - 1)
      BY <1>6
    <3>4. RowY(past, k) = past[k + 1].y
      BY <1>1, <3>1, <3>3, RowYIs
    <3> QED BY <3>1, <3>2, <3>4
  <2>9. RowY(past, peak) # past[1].y
    <3>1. peak \in 0..(Len(past) - 1) /\ past[peak + 1].y # NoValue /\ past[peak + 1].y # past[1].y
      BY <1>6, <1>12, <2>4
    <3>2. RowY(past, peak) = past[peak + 1].y
      BY <1>1, <3>1, RowYIs
    <3> QED BY <3>1, <3>2
  <2>10. (\A k \in (0..(len - 1)) \ {peak} : RowY(past, k) = RowY(past, a)) /\ RowY(past, peak) # RowY(past, a)
    BY <2>7, <2>8, <2>9
  <2>11. RowOfBucket(past, b, a) = peak
    BY <1>1, <1>6, <2>1, <2>2, <2>5, <2>10, RowOfBucketIs
  <2>12. g[b + 1] = Append(g[b], peak)
    BY <1>4, <2>2, <2>11 DEF a
  <2>13. g[b + 1][b + 2] = peak
    <3> DEFINE w == g[b]
    <3>1. w \in Seq(0..(len - 1)) /\ Len(w) = b + 1
      BY <1>3, <2>2
    <3> HIDE DEF w
    <3>2. Append(w, peak)[Len(w) + 1] = peak
      BY <2>4, <3>1, AppendProperties
    <3>3. (b + 1) + 1 = b + 2
      BY <2>2
    <3> QED BY <2>12, <3>1, <3>2, <3>3 DEF w
  <2>14. kept[b + 2] = peak /\ b + 2 \in 1..Len(kept)
    <3>1. (b + 1) + 1 = b + 2 /\ b + 2 \in 1..(n + 1) /\ b + 2 \in 1..(n + 2)
      BY <1>1, <2>2
    <3>2. u[b + 2] = g[b + 1][b + 2]
      BY <1>5, <2>2, <3>1
    <3> QED BY <1>8, <2>13, <3>1, <3>2
  <2>15. DOMAIN kept = 1..Len(kept)
    BY <1>9, LenProperties
  <2> QED BY <2>14, <2>15 DEF ToSet
<1> QED BY <1>6, <1>10, <1>11, <1>12 DEF kept

\* A finite set in an order: InOrder lists it, as Ranked does.
Lists(q, S, R) ==
    /\ Cardinality(S) \in Nat /\ q \in [1..Cardinality(S) -> S]
    /\ \A i \in 1..Cardinality(S), j \in 1..Cardinality(S) : i < j => <<q[i], q[j]>> \in R
    /\ \A a \in S : \E i \in 1..Cardinality(S) : q[i] = a

LEMMA ListedBy ==
  ASSUME NEW S, IsFiniteSet(S), NEW R, StrictlyOrders(R, S), NEW n, n = Cardinality(S), NEW q,
         \A k \in 1..n : (\E a \in S : Cardinality(Below(R, S, a)) = k - 1) =>
                          q[k] \in S /\ Cardinality(Below(R, S, q[k])) = k - 1,
         q = [k \in 1..n |-> q[k]]
  PROVE  Lists(q, S, R)
<1> DEFINE r == Ranked(S, R)
<1>1. /\ n \in Nat /\ r \in [1..n -> S]
      /\ \A i \in 1..n, j \in 1..n : i < j => <<r[i], r[j]>> \in R
      /\ \A a \in S : \E i \in 1..n : r[i] = a
      /\ \A i \in 1..n : Cardinality(Below(R, S, r[i])) = i - 1
  BY RankedIs
<1> HIDE DEF r
<1>2. ASSUME NEW k \in 1..n PROVE q[k] = r[k]
  <2>1. r[k] \in S /\ Cardinality(Below(R, S, r[k])) = k - 1
    BY <1>1
  <2>2. q[k] \in S /\ Cardinality(Below(R, S, q[k])) = k - 1
    BY <2>1
  <2> QED BY <2>1, <2>2, RanksDiffer
<1>3. q \in [1..n -> S]
  <2>1. \A k \in 1..n : q[k] \in S
    BY <1>1, <1>2
  <2> QED BY <2>1
<1> QED BY <1>1, <1>2, <1>3 DEF Lists

\* Numbers in their order.
NumberOrder(S) == {p \in S \X S : p[1] < p[2]}

LEMMA NumbersInOrder ==
  ASSUME NEW S, IsFiniteSet(S), S \subseteq Int
  PROVE  Lists(InOrder(S, <), S, NumberOrder(S))
<1> DEFINE R == NumberOrder(S)
           q == InOrder(S, <)
           n == Cardinality(S)
<1>1. \A a \in S, b \in S : <<b, a>> \in R <=> b < a
  BY DEF NumberOrder
<1>2. \A a \in S : a \in Int
  OBVIOUS
<1> HIDE DEF R
<1>3. StrictlyOrders(R, S)
  BY <1>1, <1>2 DEF StrictlyOrders
<1>4. \A a \in S : {b \in S : b < a} = Below(R, S, a)
  BY <1>1 DEF Below
<1>5. q = [k \in 1..n |-> CHOOSE a \in S : Cardinality({b \in S : b < a}) = k - 1]
  BY DEF InOrder
<1> HIDE DEF q
<1>6. ASSUME NEW k \in 1..n, \E a \in S : Cardinality(Below(R, S, a)) = k - 1
      PROVE  q[k] \in S /\ Cardinality(Below(R, S, q[k])) = k - 1
  <2>1. \E a \in S : Cardinality({b \in S : b < a}) = k - 1
    BY <1>4, <1>6
  <2>2. q[k] = CHOOSE a \in S : Cardinality({b \in S : b < a}) = k - 1
    BY <1>5
  <2>3. q[k] \in S /\ Cardinality({b \in S : b < q[k]}) = k - 1
    BY <2>1, <2>2
  <2> QED BY <1>4, <2>3
<1>7. q = [k \in 1..n |-> q[k]]
  <2> DEFINE placeAt(k) == CHOOSE a \in S : Cardinality({b \in S : b < a}) = k - 1
  <2>1. q = [k \in 1..n |-> placeAt(k)]
    BY <1>5
  <2> HIDE DEF placeAt
  <2>2. \A k \in 1..n : q[k] = placeAt(k)
    BY <2>1
  <2> QED BY <2>1, <2>2
<1>8. Lists(q, S, R)
  <2>1. n = Cardinality(S)
    OBVIOUS
  <2> HIDE DEF n
  <2> QED BY <1>3, <1>6, <1>7, <2>1, ListedBy
<1> QED BY <1>8 DEF q, R

\* Layouts in the order they are tried in: few before many, and where they differ first.
LayoutOrder(S) == {p \in S \X S : TriedBefore(p[1], p[2])}

LEMMA FirstDifference ==
  ASSUME NEW l, NEW m, l \subseteq Nat, m \subseteq Nat, l # m
  PROVE  /\ Min((l \ m) \cup (m \ l)) \in (l \ m) \cup (m \ l)
         /\ \A a \in (l \ m) \cup (m \ l) : Min((l \ m) \cup (m \ l)) <= a
<1> DEFINE D == (l \ m) \cup (m \ l)
<1>1. D # {} /\ D \subseteq Nat
  OBVIOUS
<1> HIDE DEF D
<1>2. PICK a \in D : \A b \in D : a <= b
  BY <1>1, LeastNat
<1>3. Min(D) = a
  <2>1. D \subseteq Int
    BY <1>1
  <2> QED BY <1>2, <2>1, MinIs
<1>4. Min(D) \in D /\ \A b \in D : Min(D) <= b
  BY <1>2, <1>3
<1> QED BY <1>4 DEF D

LEMMA DiffersFirst ==
  ASSUME NEW l, NEW m, l \subseteq Nat, m \subseteq Nat, NEW a \in l, a \notin m,
         \A c \in (l \ m) \cup (m \ l) : a <= c
  PROVE  Min((l \ m) \cup (m \ l)) \in l
<1> DEFINE D == (l \ m) \cup (m \ l)
<1>1. a \in D /\ D \subseteq Int
  OBVIOUS
<1> HIDE DEF D
<1>2. \A c \in D : a <= c
  BY DEF D
<1>3. Min(D) = a
  BY <1>1, <1>2, MinIs
<1> QED BY <1>3 DEF D

LEMMA LayoutsOrdered ==
  ASSUME NEW S, \A l \in S : l \subseteq Nat /\ Cardinality(l) \in Nat
  PROVE  StrictlyOrders(LayoutOrder(S), S)
<1> DEFINE R == LayoutOrder(S)
           D(l, m) == (l \ m) \cup (m \ l)
<1>1. ASSUME NEW l \in S, NEW m \in S
      PROVE  <<l, m>> \in R <=> \/ Cardinality(l) < Cardinality(m)
                                \/ /\ Cardinality(l) = Cardinality(m) /\ l # m
                                   /\ Min(D(l, m)) \in l
  BY DEF LayoutOrder, TriedBefore
<1>2. \A l \in S, m \in S : D(l, m) = D(m, l) /\ D(l, m) = (l \ m) \cup (m \ l)
  OBVIOUS
<1> HIDE DEF R, D
<1>3. \A l \in S : Cardinality(l) \in Int /\ l \subseteq Nat
  OBVIOUS
<1>4. \A l \in S : <<l, l>> \notin R
  BY <1>1, <1>3
<1>5. ASSUME NEW l \in S, NEW m \in S, l # m
      PROVE  <<l, m>> \in R \/ <<m, l>> \in R
  <2>1. Min(D(l, m)) \in l \/ Min(D(l, m)) \in m
    BY <1>2, <1>3, <1>5, FirstDifference
  <2>2. D(l, m) = D(m, l)
    BY <1>2
  <2> QED BY <1>1, <1>3, <1>5, <2>1, <2>2
<1>6. ASSUME NEW l \in S, NEW m \in S, NEW k \in S, <<l, m>> \in R, <<m, k>> \in R
      PROVE  <<l, k>> \in R
  <2>1. Cardinality(l) <= Cardinality(m) /\ Cardinality(m) <= Cardinality(k)
    BY <1>1, <1>3, <1>6
  <2>2. CASE Cardinality(l) < Cardinality(k)
    BY <1>1, <2>2
  <2>3. CASE ~(Cardinality(l) < Cardinality(k))
    <3>1. Cardinality(l) = Cardinality(m) /\ Cardinality(m) = Cardinality(k)
      BY <1>3, <2>1, <2>3
    <3>2. l # m /\ m # k /\ Min(D(l, m)) \in l /\ Min(D(m, k)) \in m
      BY <1>1, <1>3, <1>6, <3>1
    <3> DEFINE a == Min(D(l, m))  b == Min(D(m, k))
    <3>3. /\ a \in D(l, m) /\ \A c \in D(l, m) : a <= c
          /\ b \in D(m, k) /\ \A c \in D(m, k) : b <= c
      BY <1>2, <1>3, <3>2, FirstDifference
    <3>4. a \in l /\ b \in m
      BY <3>2
    <3> HIDE DEF a, b
    <3>5. a \notin m /\ b \notin k /\ a \in Nat /\ b \in Nat
      BY <1>2, <1>3, <3>3, <3>4
    <3>6. a # b
      BY <3>4, <3>5
    <3>7. \A c \in D(l, k) : c \in D(l, m) \/ c \in D(m, k)
      BY <1>2
    <3>8. \A c \in D(l, k) : c \in Nat
      BY <1>2, <1>3
    <3>9. \E c \in l : c \notin k /\ \A e \in D(l, k) : c <= e
      <4>1. CASE a < b
        <5>1. a \notin D(m, k)
          BY <3>3, <3>5, <4>1
        <5>2. a \notin k
          BY <1>2, <3>5, <5>1
        <5>3. \A e \in D(l, k) : a <= e
          BY <3>3, <3>5, <3>7, <3>8, <4>1
        <5> QED BY <3>4, <5>2, <5>3
      <4>2. CASE b < a
        <5>1. b \notin D(l, m)
          BY <3>3, <3>5, <4>2
        <5>2. b \in l
          BY <1>2, <3>4, <5>1
        <5>3. \A e \in D(l, k) : b <= e
          BY <3>3, <3>5, <3>7, <3>8, <4>2
        <5> QED BY <3>5, <5>2, <5>3
      <4> QED BY <3>5, <3>6, <4>1, <4>2
    <3>10. Min(D(l, k)) \in l /\ l # k
      <4>1. PICK c \in l : c \notin k /\ \A e \in D(l, k) : c <= e
        BY <3>9
      <4>2. \A e \in (l \ k) \cup (k \ l) : c <= e
        BY <1>2, <4>1
      <4>3. Min((l \ k) \cup (k \ l)) \in l
        BY <1>3, <4>1, <4>2, DiffersFirst
      <4> QED BY <1>2, <4>1, <4>3
    <3> QED BY <1>1, <3>1, <3>10
  <2> QED BY <2>2, <2>3
<1> QED BY <1>4, <1>5, <1>6 DEF StrictlyOrders, R

LEMMA LayoutsInOrder ==
  ASSUME NEW S, IsFiniteSet(S), \A l \in S : l \subseteq Nat /\ Cardinality(l) \in Nat
  PROVE  Lists(InOrder(S, TriedBefore), S, LayoutOrder(S))
<1> DEFINE R == LayoutOrder(S)
           q == InOrder(S, TriedBefore)
           n == Cardinality(S)
<1>1. \A a \in S, b \in S : <<b, a>> \in R <=> TriedBefore(b, a)
  BY DEF LayoutOrder
<1>2. StrictlyOrders(R, S)
  BY LayoutsOrdered
<1> HIDE DEF R
<1>4. \A a \in S : {b \in S : TriedBefore(b, a)} = Below(R, S, a)
  BY <1>1 DEF Below
<1>5. q = [k \in 1..n |-> CHOOSE a \in S : Cardinality({b \in S : TriedBefore(b, a)}) = k - 1]
  BY DEF InOrder
<1> HIDE DEF q
<1>6. ASSUME NEW k \in 1..n, \E a \in S : Cardinality(Below(R, S, a)) = k - 1
      PROVE  q[k] \in S /\ Cardinality(Below(R, S, q[k])) = k - 1
  <2>1. \E a \in S : Cardinality({b \in S : TriedBefore(b, a)}) = k - 1
    BY <1>4, <1>6
  <2>2. q[k] = CHOOSE a \in S : Cardinality({b \in S : TriedBefore(b, a)}) = k - 1
    BY <1>5
  <2>3. q[k] \in S /\ Cardinality({b \in S : TriedBefore(b, q[k])}) = k - 1
    BY <2>1, <2>2
  <2> QED BY <1>4, <2>3
<1>7. q = [k \in 1..n |-> q[k]]
  <2> DEFINE placeAt(k) == CHOOSE a \in S : Cardinality({b \in S : TriedBefore(b, a)}) = k - 1
  <2>1. q = [k \in 1..n |-> placeAt(k)]
    BY <1>5
  <2> HIDE DEF placeAt
  <2>2. \A k \in 1..n : q[k] = placeAt(k)
    BY <2>1
  <2> QED BY <2>1, <2>2
<1>8. Lists(q, S, R)
  <2>1. n = Cardinality(S)
    OBVIOUS
  <2> HIDE DEF n
  <2> QED BY <1>2, <1>6, <1>7, <2>1, ListedBy
<1> QED BY <1>8 DEF q, R

-----------------------------------------------------------------------------
(* The first tick of each label.                                               *)

Has(u, lbl) == \E j \in 1..Len(u) : u[j].label = lbl
NextSeen(u, k) == IF Has(u, k.label) THEN u ELSE Append(u, k)

FirstsSoFar(g, s, n, X) ==
    /\ g \in [0..n -> Seq(X)] /\ g[0] = <<>> /\ g[n] = FirstOfLabel(s)
    /\ \A i \in 1..n : g[i] = NextSeen(g[i - 1], s[i])

LEMMA FirstSteps ==
  ASSUME NEW n \in Nat, NEW X, NEW s \in [1..n -> X]
  PROVE  \E g : FirstsSoFar(g, s, n, X)
<1> DEFINE V == Seq(X)
           F(f) == [x \in SUBSET DOMAIN s |-> IF x = {} THEN <<>> ELSE NextSeen(f[x \ {Max(x)}], s[Max(x)])]
           f == CHOOSE u : u = F(u)
           apply == [i \in 1..n |-> [u \in V |-> NextSeen(u, s[i])]]
<1>1. FirstOfLabel(s) = f[DOMAIN s]
  BY DEF FirstOfLabel, FoldLeft, MapThenFoldSet, NextSeen, Has
<1>2. DOMAIN s = 1..n /\ \A i \in 1..n : s[i] \in X
  OBVIOUS
<1>3. f = CHOOSE u : u = F(u)
  OBVIOUS
<1>4. \A u : F(u) = [x \in SUBSET DOMAIN s |-> IF x = {} THEN <<>> ELSE NextSeen(u[x \ {Max(x)}], s[Max(x)])]
  OBVIOUS
<1>5. \A i \in 1..n : \A u \in V : apply[i][u] = NextSeen(u, s[i])
  OBVIOUS
<1> HIDE DEF f, F, apply
<1>6. <<>> \in V
  BY EmptySeq
<1>7. \A i \in 1..n : \A u \in V : apply[i][u] \in V
  <2> TAKE i \in 1..n
  <2> TAKE u \in V
  <2>1. Append(u, s[i]) \in V
    BY <1>2, AppendProperties
  <2> QED BY <1>5, <2>1 DEF NextSeen
<1> HIDE DEF V
<1>8. PICK h : FoldedTo(h, n, apply, V, <<>>)
  BY <1>6, <1>7, Folded
<1>9. h \in [SUBSET (1..n) -> V]
  BY <1>8 DEF FoldedTo
<1>10. h = F(h)
  <2> DEFINE to(x) == IF x = {} THEN <<>> ELSE NextSeen(h[x \ {Max(x)}], s[Max(x)])
  <2>1. ASSUME NEW x \in SUBSET (1..n)
        PROVE  h[x] = to(x)
    <3>1. CASE x = {}
      BY <1>8, <3>1 DEF FoldedTo
    <3>2. CASE x # {}
      <4>1. Max(x) \in 1..n
        BY <3>2, TopIn
      <4>2. x \ {Max(x)} \in SUBSET (1..n)
        OBVIOUS
      <4>3. h[x \ {Max(x)}] \in V
        BY <1>9, <4>2
      <4>4. h[x] = apply[Max(x)][h[x \ {Max(x)}]]
        BY <1>8, <3>2 DEF FoldedTo
      <4> QED BY <1>5, <3>2, <4>1, <4>3, <4>4
    <3> QED BY <3>1, <3>2
  <2>2. F(h) = [x \in SUBSET (1..n) |-> to(x)]
    BY <1>2, <1>4
  <2> HIDE DEF to
  <2> QED BY <1>9, <2>1, <2>2
<1>11. f = F(f)
  BY <1>3, <1>10
<1>12. \A x \in SUBSET (1..n) : f[x] = IF x = {} THEN <<>> ELSE NextSeen(f[x \ {Max(x)}], s[Max(x)])
  <2> DEFINE to(x) == IF x = {} THEN <<>> ELSE NextSeen(f[x \ {Max(x)}], s[Max(x)])
  <2>1. f = [x \in SUBSET (1..n) |-> to(x)]
    BY <1>2, <1>4, <1>11
  <2> HIDE DEF to
  <2>2. \A x \in SUBSET (1..n) : f[x] = to(x)
    BY <2>1
  <2> QED BY <2>2 DEF to
<1>13. f[{}] = <<>>
  <2>1. {} \in SUBSET (1..n)
    OBVIOUS
  <2> QED BY <1>12, <2>1
<1>14. ASSUME NEW i \in 1..n, f[1..(i - 1)] \in V
       PROVE  f[1..i] = apply[i][f[1..(i - 1)]]
  <2>1. 1..i \in SUBSET (1..n) /\ 1..i # {} /\ Max(1..i) = i /\ (1..i) \ {i} = 1..(i - 1)
    BY TopOfFirst
  <2>2. f[1..i] = NextSeen(f[1..(i - 1)], s[i])
    BY <1>12, <2>1
  <2> QED BY <1>5, <1>14, <2>2
<1>15. Computes(f, n, apply, V, <<>>)
  BY <1>13, <1>14 DEF Computes
<1>16. PICK g : Places(g, f, n, apply, V, <<>>)
  BY <1>6, <1>7, <1>15, FoldPlaces
<1>17. g \in [0..n -> V] /\ g[0] = <<>> /\ g[n] = f[1..n] /\ \A i \in 1..n : g[i] = apply[i][g[i - 1]]
  BY <1>16 DEF Places
<1>18. \A i \in 1..n : g[i] = NextSeen(g[i - 1], s[i])
  <2> TAKE i \in 1..n
  <2>1. i - 1 \in 0..n
    OBVIOUS
  <2>2. g[i - 1] \in V
    BY <1>17, <2>1
  <2> QED BY <1>5, <1>17, <2>2
<1>19. FirstsSoFar(g, s, n, X)
  BY <1>1, <1>2, <1>17, <1>18 DEF FirstsSoFar, V
<1> QED BY <1>19

\* Of ticks in the order of their labels: some of them, each label once.
LEMMA FirstOfLabelIs ==
  ASSUME NEW n \in Nat, NEW X, \A x \in X : x.label \in Int, NEW s \in [1..n -> X],
         \A a \in 1..n, b \in 1..n : a <= b => s[a].label <= s[b].label
  PROVE  LET r == FirstOfLabel(s)
         IN /\ r \in Seq(X) /\ \A k \in 1..Len(r) : \E a \in 1..n : r[k] = s[a]
            /\ \A k \in 1..Len(r), l \in 1..Len(r) : k < l => r[k].label < r[l].label
            /\ (\A a \in 1..n, b \in 1..n : a < b => s[a].label < s[b].label) => Len(r) = n
<1>1. PICK g : FirstsSoFar(g, s, n, X)
  BY FirstSteps
<1>2. /\ g \in [0..n -> Seq(X)] /\ g[0] = <<>> /\ g[n] = FirstOfLabel(s)
      /\ \A i \in 1..n : g[i] = NextSeen(g[i - 1], s[i])
  BY <1>1 DEF FirstsSoFar
<1> DEFINE Strictly == \A a \in 1..n, b \in 1..n : a < b => s[a].label < s[b].label
           P(i) == /\ \A k \in 1..Len(g[i]) : \E a \in 1..i : g[i][k] = s[a]
                   /\ \A k \in 1..Len(g[i]), l \in 1..Len(g[i]) : k < l => g[i][k].label < g[i][l].label
                   /\ Strictly => Len(g[i]) = i
           T == {i \in Nat : i <= n => P(i)}
<1>3. \A a \in 1..n : s[a] \in X /\ s[a].label \in Int
  OBVIOUS
<1>4. P(0)
  <2>1. Len(<<>>) = 0 /\ 1..0 = {}
    BY EmptySeq
  <2> QED BY <1>2, <2>1
<1>5. Strictly => \A a \in 1..n, b \in 1..n : a < b => s[a].label # s[b].label
  BY <1>3
<1> HIDE DEF Strictly
<1>6. ASSUME NEW i \in Nat, i + 1 <= n, P(i)
      PROVE  P(i + 1)
  <2> DEFINE u == g[i]  k0 == s[i + 1]
  <2>1. i \in 0..n /\ i + 1 \in 1..n /\ (i + 1) - 1 = i /\ (\A a \in 1..i : a \in 1..n /\ a \in 1..(i + 1) /\ a < i + 1)
    BY <1>6
  <2>2. u \in Seq(X) /\ k0 \in X /\ k0.label \in Int /\ g[i + 1] = NextSeen(u, k0)
    BY <1>2, <1>3, <2>1
  <2>3. /\ Len(u) \in Nat /\ \A k \in 1..Len(u) : u[k] \in X /\ u[k].label \in Int
    BY <2>2, ElementOfSeq, LenProperties
  <2>4. /\ \A k \in 1..Len(u) : \E a \in 1..i : u[k] = s[a]
        /\ \A k \in 1..Len(u), l \in 1..Len(u) : k < l => u[k].label < u[l].label
        /\ Strictly => Len(u) = i
    BY <1>6
  <2>5. CASE Has(u, k0.label)
    <3>1. g[i + 1] = u
      BY <2>2, <2>5 DEF NextSeen
    <3>2. ~Strictly
      <4> SUFFICES ASSUME Strictly PROVE FALSE
        OBVIOUS
      <4>1. PICK j \in 1..Len(u) : u[j].label = k0.label
        BY <2>5 DEF Has
      <4>2. PICK a \in 1..i : u[j] = s[a]
        BY <2>4
      <4>3. s[a].label # s[i + 1].label
        BY <1>5, <2>1
      <4> QED BY <4>1, <4>2, <4>3
    <3>3. \A k \in 1..Len(u) : \E a \in 1..(i + 1) : u[k] = s[a]
      BY <2>1, <2>4
    <3> HIDE DEF u
    <3> QED BY <2>4, <3>1, <3>2, <3>3
  <2>6. CASE ~Has(u, k0.label)
    <3> DEFINE w == Append(u, k0)
    <3>1. g[i + 1] = w
      BY <2>2, <2>6 DEF NextSeen
    <3>2. Len(w) = Len(u) + 1 /\ w[Len(u) + 1] = k0 /\ \A k \in 1..Len(u) : w[k] = u[k]
      BY <2>2, AppendProperties
    <3>3. \A k \in 1..Len(w) : k = Len(u) + 1 \/ k \in 1..Len(u)
      BY <2>3, <3>2
    <3>4. \A k \in 1..Len(u) : u[k].label < k0.label
      <4> TAKE k \in 1..Len(u)
      <4>1. PICK a \in 1..i : u[k] = s[a]
        BY <2>4
      <4>2. a \in 1..n /\ a <= i + 1
        BY <2>1
      <4>3. s[a].label <= s[i + 1].label
        BY <2>1, <4>2
      <4>4. u[k].label # k0.label
        BY <2>6 DEF Has
      <4>5. u[k].label \in Int /\ u[k].label <= k0.label
        BY <2>3, <4>1, <4>3
      <4> QED BY <2>2, <4>4, <4>5
    <3> HIDE DEF w
    <3>5. \A k \in 1..Len(w) : \E a \in 1..(i + 1) : w[k] = s[a]
      <4> TAKE k \in 1..Len(w)
      <4>1. CASE k = Len(u) + 1
        <5>1. i + 1 \in 1..(i + 1) /\ w[k] = s[i + 1]
          BY <3>2, <4>1
        <5> QED BY <5>1
      <4>2. CASE k \in 1..Len(u)
        <5>1. PICK a \in 1..i : u[k] = s[a]
          BY <2>4, <4>2
        <5>2. a \in 1..(i + 1) /\ w[k] = s[a]
          BY <2>1, <3>2, <4>2, <5>1
        <5> QED BY <5>2
      <4> QED BY <3>3, <4>1, <4>2
    <3>6. \A k \in 1..Len(w), l \in 1..Len(w) : k < l => w[k].label < w[l].label
      <4> SUFFICES ASSUME NEW k \in 1..Len(w), NEW l \in 1..Len(w), k < l
                   PROVE  w[k].label < w[l].label
        OBVIOUS
      <4>1. k \in 1..Len(u)
        BY <2>3, <3>2
      <4>2. CASE l = Len(u) + 1
        BY <3>2, <3>4, <4>1, <4>2
      <4>3. CASE l \in 1..Len(u)
        <5>1. u[k].label < u[l].label
          BY <2>4, <4>1, <4>3
        <5> QED BY <3>2, <4>1, <4>3, <5>1
      <4> QED BY <3>3, <4>2, <4>3
    <3>7. Strictly => Len(w) = i + 1
      BY <2>4, <3>2
    <3> QED BY <3>1, <3>5, <3>6, <3>7
  <2> QED BY <2>5, <2>6
<1> HIDE DEF P
<1>7. 0 \in T
  BY <1>4
<1>8. ASSUME NEW i \in Nat, i \in T
      PROVE  i + 1 \in T
  BY <1>6, <1>8
<1> HIDE DEF T
<1>9. n \in T
  BY <1>7, <1>8, NatInduct
<1>10. P(n)
  BY <1>9 DEF T
<1>11. g[n] \in Seq(X)
  BY <1>2
<1> QED BY <1>2, <1>10, <1>11 DEF P, Strictly

-----------------------------------------------------------------------------
(* The layouts that are tried, and what is best of those that have been.       *)

LayoutsFor(times, wanted) ==
    UNION {AllIndexLayouts(Len(times), k) : k \in Later(2, wanted - 1)..Min({Len(times), wanted + 1})}

LEMMA IndicesIn ==
  ASSUME NEW len \in Nat, len >= 1, NEW count \in Nat, count >= 2
  PROVE  /\ IndicesForTickCount(len, count) \subseteq 0..(len - 1)
         /\ 0 \in IndicesForTickCount(len, count) /\ len - 1 \in IndicesForTickCount(len, count)
<1> DEFINE m == count - 1  w == len - 1
           placeAt(i) == (2 * i * w + count - 1) \div (2 * m)
<1>1. m \in Nat \ {0} /\ w \in Nat /\ 2 * m \in Nat \ {0} /\ count - 1 = m
  OBVIOUS
<1>2. IndicesForTickCount(len, count) = {placeAt(i) : i \in 0..m}
  BY DEF IndicesForTickCount
<1>3. \A i : placeAt(i) = (2 * i * w + count - 1) \div (2 * m)
  OBVIOUS
<1>4. w = len - 1
  OBVIOUS
<1> HIDE DEF m, w, placeAt
<1>5. ASSUME NEW i \in 0..m
      PROVE  placeAt(i) \in 0..w /\ (i = 0 => placeAt(i) = 0) /\ (i = m => placeAt(i) = w)
  <2> DEFINE x == i * w  y == m * w
  <2>1. x \in Nat /\ y \in Nat /\ x <= y /\ i \in Nat
    <3>1. i \in Int /\ m \in Int /\ i <= m /\ i \in Nat
      BY <1>1
    <3>2. i * w <= m * w
      BY <1>1, <3>1, ProductsInOrder
    <3> QED BY <1>1, <3>1, <3>2
  <2>2. 2 * i * w = 2 * x /\ (i = 0 => x = 0) /\ (i = m => x = y) /\ (2 * m) * w = 2 * y
    BY <1>1, <2>1
  <2> HIDE DEF x, y
  <2> DEFINE z == 2 * x + m  q == z \div (2 * m)
  <2>3. placeAt(i) = q
    BY <1>1, <1>3, <2>2
  <2>4. z \in Int /\ z >= m /\ z <= 2 * y + m
    BY <1>1, <2>1
  <2>5. q \in Int /\ (2 * m) * q <= z /\ z < (2 * m) * q + 2 * m
    BY <1>1, <2>4, Quotient
  <2>6. i = 0 => q = 0
    <3> SUFFICES ASSUME i = 0 PROVE q = 0
      OBVIOUS
    <3>1. z = m
      BY <1>1, <2>2
    <3>2. (2 * m) * 0 <= z /\ z < (2 * m) * 0 + 2 * m /\ 0 \in Int
      BY <1>1, <3>1
    <3> HIDE DEF z
    <3> QED BY <1>1, <2>4, <3>2, QuotientIs
  <2>7. i = m => q = w
    <3> SUFFICES ASSUME i = m PROVE q = w
      OBVIOUS
    <3>1. z = (2 * m) * w + m /\ w \in Int /\ (2 * m) * w \in Int
      BY <1>1, <2>1, <2>2
    <3>2. (2 * m) * w <= z /\ z < (2 * m) * w + 2 * m
      BY <1>1, <3>1
    <3> HIDE DEF z
    <3> QED BY <1>1, <2>4, <3>1, <3>2, QuotientIs
  <2> HIDE DEF q, z
  <2>8. q >= 0
    <3> SUFFICES ASSUME q <= -1 PROVE FALSE
      BY <2>5
    <3>1. (2 * m) * q <= (2 * m) * (-1) /\ (2 * m) * (-1) = -(2 * m)
      BY <1>1, <2>5, ProductsInOrder
    <3> DEFINE v == (2 * m) * q
    <3>2. v \in Int /\ v <= -(2 * m) /\ z < v + 2 * m
      BY <1>1, <2>5, <3>1
    <3> HIDE DEF v
    <3> QED BY <1>1, <2>4, <3>2
  <2>9. q <= w
    <3> SUFFICES ASSUME q >= w + 1 PROVE FALSE
      BY <1>1, <2>5
    <3>1. (2 * m) * (w + 1) <= (2 * m) * q /\ (2 * m) * (w + 1) = (2 * m) * w + 2 * m
      BY <1>1, <2>5, ProductsInOrder
    <3> DEFINE v == (2 * m) * q
    <3>2. v \in Int /\ 2 * y + 2 * m <= v /\ v <= z
      BY <1>1, <2>1, <2>2, <2>5, <3>1
    <3> HIDE DEF v
    <3> QED BY <1>1, <2>1, <2>4, <3>2
  <2> QED BY <1>1, <2>3, <2>5, <2>6, <2>7, <2>8, <2>9
<1>6. 0 \in 0..m /\ m \in 0..m
  BY <1>1
<1>7. {placeAt(i) : i \in 0..m} \subseteq 0..w
  BY <1>5
<1>8. placeAt(0) = 0 /\ placeAt(m) = w
  BY <1>5, <1>6
<1> QED BY <1>2, <1>4, <1>6, <1>7, <1>8

LEMMA LayoutsIn ==
  ASSUME NEW times, Len(times) \in Nat, NEW wanted \in Nat, wanted >= 2, wanted < Len(times)
  PROVE  /\ IsFiniteSet(LayoutsFor(times, wanted))
         /\ \A l \in LayoutsFor(times, wanted) : l \subseteq 0..(Len(times) - 1)
         /\ \A k \in (wanted - 1)..(wanted + 1) : k >= 2 =>
              AllIndexLayouts(Len(times), k) \subseteq LayoutsFor(times, wanted)
<1> DEFINE len == Len(times)
<1>1. Min({len, wanted + 1}) = wanted + 1
  <2>1. len \in Int /\ wanted + 1 \in Int /\ wanted + 1 <= len
    OBVIOUS
  <2> HIDE DEF len
  <2> QED BY <2>1, MinOfTwo
<1>2. Later(2, wanted - 1) = IF wanted = 2 THEN 2 ELSE wanted - 1
  BY DEF Later
<1>3. LayoutsFor(times, wanted) = UNION {AllIndexLayouts(len, k) : k \in Later(2, wanted - 1)..(wanted + 1)}
  BY <1>1 DEF LayoutsFor
<1>4. \A k \in Later(2, wanted - 1)..(wanted + 1) : k \in Nat /\ k >= 2
  BY <1>2
<1>5. ASSUME NEW k \in Nat, k >= 2, NEW l \in AllIndexLayouts(len, k)
      PROVE  l \subseteq 0..(len - 1)
  <2>1. l = IndicesForTickCount(len, k) \/ \E mid \in SUBSET (1..(len - 2)) : l = mid \cup {0, len - 1}
    BY <1>5 DEF AllIndexLayouts, kSubset
  <2>2. IndicesForTickCount(len, k) \subseteq 0..(len - 1)
    BY <1>5, IndicesIn
  <2>3. ASSUME NEW mid \in SUBSET (1..(len - 2))
        PROVE  mid \cup {0, len - 1} \subseteq 0..(len - 1)
    <3>1. len \in Int /\ len >= 3
      OBVIOUS
    <3> HIDE DEF len
    <3>2. 0 \in 0..(len - 1) /\ len - 1 \in 0..(len - 1)
      BY <3>1
    <3>3. \A i \in 1..(len - 2) : i \in 0..(len - 1)
      BY <3>1
    <3> QED BY <3>2, <3>3
  <2> QED BY <2>1, <2>2, <2>3
<1>6. \A l \in LayoutsFor(times, wanted) : l \subseteq 0..(len - 1)
  BY <1>3, <1>4, <1>5
<1>7. IsFiniteSet(LayoutsFor(times, wanted))
  <2>1. IsFiniteSet(0..(len - 1))
    BY FS_Interval
  <2>2. IsFiniteSet(SUBSET (0..(len - 1)))
    BY <2>1, FS_SUBSET
  <2>3. LayoutsFor(times, wanted) \in SUBSET (SUBSET (0..(len - 1)))
    BY <1>6
  <2> QED BY <2>2, <2>3, FS_Subset
<1>8. \A k \in (wanted - 1)..(wanted + 1) : k >= 2 => k \in Later(2, wanted - 1)..(wanted + 1)
  BY <1>2
<1>9. \A k \in Later(2, wanted - 1)..(wanted + 1) : AllIndexLayouts(len, k) \subseteq LayoutsFor(times, wanted)
  BY <1>3
<1> QED BY <1>6, <1>7, <1>8, <1>9

\* One more layout, and the best of all so far.
Better(best, candidate, times, wanted) ==
    LET l == DedupeByLabel(candidate, times)
    IN IF Cardinality(l) >= 2 /\ IsBetterTickLayout(ScoreTickLayout(l, times, wanted), ScoreTickLayout(best, times, wanted))
       THEN l ELSE best

BestSoFar(g, s, m, times, wanted) ==
    /\ g \in [0..m -> SUBSET (0..(Len(times) - 1))]
    /\ g[0] = IndicesForTickCount(Len(times), wanted) /\ g[m] = SelectEvenlySpaced(times, wanted)
    /\ \A i \in 1..m : g[i] = Better(g[i - 1], s[i], times, wanted)

LEMMA BestSteps ==
  ASSUME NEW times, Len(times) \in Nat, NEW wanted \in Nat, wanted >= 2, wanted < Len(times)
  PROVE  \E g, s, m : /\ m \in Nat /\ s \in [1..m -> LayoutsFor(times, wanted)]
                      /\ \A l \in LayoutsFor(times, wanted) : \E i \in 1..m : s[i] = l
                      /\ BestSoFar(g, s, m, times, wanted)
<1> DEFINE L == LayoutsFor(times, wanted)
           s == InOrder(L, TriedBefore)
           m == Cardinality(L)
           base == IndicesForTickCount(Len(times), wanted)
           V == SUBSET (0..(Len(times) - 1))
           F(f) == [x \in SUBSET DOMAIN s |-> IF x = {} THEN base ELSE Better(f[x \ {Max(x)}], s[Max(x)], times, wanted)]
           f == CHOOSE u : u = F(u)
           apply == [i \in 1..m |-> [u \in V |-> Better(u, s[i], times, wanted)]]
<1>1. SelectEvenlySpaced(times, wanted) = f[DOMAIN s]
  <2>1. ~(Len(times) <= wanted)
    OBVIOUS
  <2> QED BY <2>1, Zenon DEF SelectEvenlySpaced, FoldLeft, MapThenFoldSet, Better, LayoutsFor
<1>2. IsFiniteSet(L) /\ \A l \in L : l \subseteq 0..(Len(times) - 1)
  BY LayoutsIn
<1>3. m \in Nat /\ s \in [1..m -> L] /\ \A l \in L : \E i \in 1..m : s[i] = l
  <2>1. \A l \in L : l \subseteq Nat /\ Cardinality(l) \in Nat
    <3> TAKE l \in L
    <3>1. l \in SUBSET (0..(Len(times) - 1))
      BY <1>2
    <3>2. 0 \in Int /\ Len(times) - 1 \in Int
      OBVIOUS
    <3>3. IsFiniteSet(0..(Len(times) - 1))
      BY <3>2, FS_Interval
    <3>4. IsFiniteSet(l)
      BY <3>1, <3>3, FS_Subset
    <3>5. \A i \in 0..(Len(times) - 1) : i \in Nat
      OBVIOUS
    <3>6. l \subseteq Nat
      BY <3>1, <3>5
    <3> QED BY <3>4, <3>6, FS_CardinalityType
  <2> HIDE DEF L
  <2>2. Lists(InOrder(L, TriedBefore), L, LayoutOrder(L))
    BY <1>2, <2>1, LayoutsInOrder
  <2> QED BY <2>2 DEF Lists
<1>4. DOMAIN s = 1..m
  BY <1>3
<1>5. f = CHOOSE u : u = F(u)
  OBVIOUS
<1>6. \A u : F(u) = [x \in SUBSET DOMAIN s |-> IF x = {} THEN base ELSE Better(u[x \ {Max(x)}], s[Max(x)], times, wanted)]
  OBVIOUS
<1>7. \A i \in 1..m : \A u \in V : apply[i][u] = Better(u, s[i], times, wanted)
  OBVIOUS
<1>8. base \in V
  BY IndicesIn
<1>9. base = IndicesForTickCount(Len(times), wanted)
  OBVIOUS
<1> HIDE DEF f, F, apply, s, m, base, L
<1>10. \A i \in 1..m : \A u \in V : apply[i][u] \in V
  <2> TAKE i \in 1..m
  <2> TAKE u \in V
  <2>1. s[i] \in V
    BY <1>2, <1>3
  <2>2. DedupeByLabel(s[i], times) \in V
    BY <2>1 DEF DedupeByLabel
  <2> HIDE DEF V
  <2> QED BY <1>7, <2>2 DEF Better
<1>11. V = SUBSET (0..(Len(times) - 1))
  OBVIOUS
<1> HIDE DEF V
<1>12. PICK h : FoldedTo(h, m, apply, V, base)
  BY <1>3, <1>8, <1>10, Folded
<1>13. h \in [SUBSET (1..m) -> V]
  BY <1>12 DEF FoldedTo
<1>14. h = F(h)
  <2> DEFINE to(x) == IF x = {} THEN base ELSE Better(h[x \ {Max(x)}], s[Max(x)], times, wanted)
  <2>1. ASSUME NEW x \in SUBSET (1..m)
        PROVE  h[x] = to(x)
    <3>1. CASE x = {}
      BY <1>12, <3>1 DEF FoldedTo
    <3>2. CASE x # {}
      <4>1. Max(x) \in 1..m
        BY <1>3, <3>2, TopIn
      <4>2. x \ {Max(x)} \in SUBSET (1..m)
        OBVIOUS
      <4>3. h[x \ {Max(x)}] \in V
        BY <1>13, <4>2
      <4>4. h[x] = apply[Max(x)][h[x \ {Max(x)}]]
        BY <1>12, <3>2 DEF FoldedTo
      <4> QED BY <1>7, <3>2, <4>1, <4>3, <4>4
    <3> QED BY <3>1, <3>2
  <2>2. F(h) = [x \in SUBSET (1..m) |-> to(x)]
    BY <1>4, <1>6
  <2> HIDE DEF to
  <2> QED BY <1>13, <2>1, <2>2
<1>15. f = F(f)
  BY <1>5, <1>14
<1>16. \A x \in SUBSET (1..m) : f[x] = IF x = {} THEN base ELSE Better(f[x \ {Max(x)}], s[Max(x)], times, wanted)
  <2> DEFINE to(x) == IF x = {} THEN base ELSE Better(f[x \ {Max(x)}], s[Max(x)], times, wanted)
  <2>1. f = [x \in SUBSET (1..m) |-> to(x)]
    BY <1>4, <1>6, <1>15
  <2> HIDE DEF to
  <2>2. \A x \in SUBSET (1..m) : f[x] = to(x)
    BY <2>1
  <2> QED BY <2>2 DEF to
<1>17. f[{}] = base
  <2>1. {} \in SUBSET (1..m)
    OBVIOUS
  <2> QED BY <1>16, <2>1
<1>18. ASSUME NEW i \in 1..m, f[1..(i - 1)] \in V
       PROVE  f[1..i] = apply[i][f[1..(i - 1)]]
  <2>1. 1..i \in SUBSET (1..m) /\ 1..i # {} /\ Max(1..i) = i /\ (1..i) \ {i} = 1..(i - 1)
    BY <1>3, TopOfFirst
  <2>2. f[1..i] = Better(f[1..(i - 1)], s[i], times, wanted)
    BY <1>16, <2>1
  <2> QED BY <1>7, <1>18, <2>2
<1>19. Computes(f, m, apply, V, base)
  BY <1>17, <1>18 DEF Computes
<1>20. PICK g : Places(g, f, m, apply, V, base)
  BY <1>3, <1>8, <1>10, <1>19, FoldPlaces
<1>21. g \in [0..m -> V] /\ g[0] = base /\ g[m] = f[1..m] /\ \A i \in 1..m : g[i] = apply[i][g[i - 1]]
  BY <1>20 DEF Places
<1>22. \A i \in 1..m : g[i] = Better(g[i - 1], s[i], times, wanted)
  <2> TAKE i \in 1..m
  <2>1. i - 1 \in 0..m
    BY <1>3
  <2>2. g[i - 1] \in V
    BY <1>21, <2>1
  <2> QED BY <1>7, <1>21, <2>2
<1>23. BestSoFar(g, s, m, times, wanted)
  BY <1>1, <1>4, <1>9, <1>11, <1>21, <1>22 DEF BestSoFar
<1> QED BY <1>3, <1>23 DEF L

LEMMA SelectedIn ==
  ASSUME NEW times, Len(times) \in Nat, NEW wanted \in Nat, wanted >= 2
  PROVE  SelectEvenlySpaced(times, wanted) \subseteq 0..(Len(times) - 1)
<1>1. CASE Len(times) <= wanted
  BY <1>1 DEF SelectEvenlySpaced
<1>2. CASE ~(Len(times) <= wanted)
  <2>1. PICK g, s, m : m \in Nat /\ BestSoFar(g, s, m, times, wanted)
    BY <1>2, BestSteps
  <2>2. m \in 0..m
    BY <2>1
  <2>3. g[m] \in SUBSET (0..(Len(times) - 1)) /\ g[m] = SelectEvenlySpaced(times, wanted)
    BY <2>1, <2>2 DEF BestSoFar
  <2> QED BY <2>3
<1> QED BY <1>1, <1>2

-----------------------------------------------------------------------------
(* The time axis.  Its rows are in the order of their times, and a brush       *)
(* starts on one of them.                                                      *)

\* The time axis.
AxisInv == rowTimes \in Seq(Nat) /\ AxisTypeOK

LEMMA KeptLength ==
  ASSUME NEW s, NEW n \in Nat, NEW S \in SUBSET (1..n)
  PROVE  Len(Kept(s, S)) \in Nat
<1>1. IsFiniteSet(1..n)
  BY FS_Interval
<1>2. IsFiniteSet(S)
  BY <1>1, FS_Subset
<1>3. Cardinality(S) \in Nat
  BY <1>2, FS_CardinalityType
<1> DEFINE order == CHOOSE q \in [1..Cardinality(S) -> S] :
                        \A i \in DOMAIN q, j \in DOMAIN q : i < j => q[i] < q[j]
           all == {s[order[i]] : i \in 1..Cardinality(S)}
<1>4. Kept(s, S) = [i \in 1..Cardinality(S) |-> s[order[i]]]
  BY DEF Kept
<1> HIDE DEF order
<1>5. Kept(s, S) \in [1..Cardinality(S) -> all]
  BY <1>4
<1> HIDE DEF all
<1> QED BY <1>3, <1>5, FcnSeq

LEMMA AxisInitInv == AxisInit => AxisInv
<1> SUFFICES ASSUME AxisInit
             PROVE  AxisInv
  OBVIOUS
<1>1. rowTimes = <<>> /\ rowTimes \in Seq(Nat) /\ Len(rowTimes) = 0
  BY EmptySeq DEF AxisInit
<1>2. Visible = rowTimes /\ hovered = 0 /\ brush.from <= brush.to
  BY DEF AxisInit, Visible, NoBrush
<1> QED BY <1>1, <1>2, AxisAssumption DEF AxisInit, AxisInv, AxisTypeOK

LEMMA AxisStep == AxisInv /\ [AxisNext]_axisVars => AxisInv'
<1> SUFFICES ASSUME AxisInv, [AxisNext]_axisVars
             PROVE  AxisInv'
  OBVIOUS
<1> USE AxisAssumption
<1>u. /\ rowTimes \in Seq(Nat) /\ Len(rowTimes) \in Nat /\ Len(rowTimes) <= MaxRows
      /\ horizon \in Nat /\ brush.from <= brush.to /\ numTicks \in TickCounts /\ tickMode \in {"data", "domain"}
      /\ hovered \in 0..Len(Visible)
  BY LenProperties DEF AxisInv, AxisTypeOK
<1>n. NoBrush.from <= NoBrush.to
  BY DEF NoBrush
<1>l. rowTimes # <<>> => Last(rowTimes) \in Nat
  <2> SUFFICES ASSUME rowTimes # <<>>
               PROVE  Last(rowTimes) \in Nat
    OBVIOUS
  <2>1. Len(rowTimes) \in 1..Len(rowTimes)
    BY <1>u, EmptySeq
  <2> QED BY <1>u, <2>1, ElementOfSeq DEF Last
<1>1. ASSUME NEW g \in Gaps, NewRow(g) PROVE AxisInv'
  <2> DEFINE row == IF rowTimes = <<>> THEN Day ELSE Last(rowTimes) + g
  <2>1. row \in Nat
    BY <1>l
  <2>2. /\ Len(rowTimes) < MaxRows /\ rowTimes' = Append(rowTimes, row)
        /\ horizon' = 0 /\ brush' = NoBrush /\ hovered' = 0 /\ UNCHANGED <<numTicks, tickMode>>
    BY <1>1 DEF NewRow
  <2> HIDE DEF row
  <2>3. rowTimes' \in Seq(Nat) /\ Len(rowTimes') = Len(rowTimes) + 1
    BY <1>u, <2>1, <2>2, AppendProperties
  <2>4. \A i \in 1..Len(rowTimes') : rowTimes'[i] \in Nat
    BY <2>3, ElementOfSeq
  <2>5. Visible' = rowTimes'
    BY <2>2 DEF Visible
  <2>6. 0 \in 0..Len(Visible')
    BY <1>u, <2>3, <2>5
  <2>7. Len(rowTimes') <= MaxRows
    BY <1>u, <2>2, <2>3
  <2> QED BY <1>u, <1>n, <2>2, <2>3, <2>4, <2>6, <2>7 DEF AxisInv, AxisTypeOK
<1>2. ASSUME NEW g \in Gaps, Project(g) PROVE AxisInv'
  <2>1. /\ horizon' = Last(rowTimes) + g /\ rowTimes # <<>>
        /\ hovered' = 0 /\ brush' = NoBrush /\ UNCHANGED <<rowTimes, numTicks, tickMode>>
    BY <1>2 DEF Project
  <2>2. horizon' \in Nat
    BY <1>l, <2>1
  <2>3. Visible' = rowTimes
    BY <2>1 DEF Visible
  <2>4. 0 \in 0..Len(Visible')
    BY <1>u, <2>3
  <2> QED BY <1>u, <1>n, <2>1, <2>2, <2>4 DEF AxisInv, AxisTypeOK
<1>3. ASSUME NEW from \in ToSet(rowTimes), NEW to \in ToSet(rowTimes) \cup {horizon}, Brush(from, to) PROVE AxisInv'
  <2>1. /\ from < to /\ brush' = [from |-> from, to |-> to] /\ hovered' = 0
        /\ UNCHANGED <<rowTimes, horizon, numTicks, tickMode>>
    BY <1>3 DEF Brush
  <2>2. from \in Nat /\ to \in Nat
    <3>1. \A t \in ToSet(rowTimes) : t \in Nat
      BY <1>u, ElementOfSeq, LenProperties DEF ToSet
    <3> QED BY <1>u, <3>1
  <2>3. brush'.from <= brush'.to
    BY <2>1, <2>2
  <2>4. DOMAIN rowTimes = 1..Len(rowTimes)
    BY <1>u, LenProperties
  <2>5. Len(FilterDataByXDomain') \in Nat
    <3> DEFINE S == {i \in DOMAIN rowTimes : brush'.from <= rowTimes[i] /\ rowTimes[i] <= brush'.to}
    <3>1. FilterDataByXDomain' = Kept(rowTimes, S)
      BY <2>1 DEF FilterDataByXDomain
    <3>2. S \in SUBSET (1..Len(rowTimes))
      BY <2>4
    <3> HIDE DEF S
    <3> QED BY <1>u, <3>1, <3>2, KeptLength
  <2>6. 0 \in 0..Len(Visible')
    BY <1>u, <2>1, <2>5 DEF Visible
  <2> QED BY <1>u, <2>1, <2>3, <2>6 DEF AxisInv, AxisTypeOK
<1>4. ASSUME NEW i \in 0..Len(Visible), HoverRow(i) PROVE AxisInv'
  <2>1. hovered' = i /\ UNCHANGED <<rowTimes, horizon, brush, numTicks, tickMode>>
    BY <1>4 DEF HoverRow
  <2>2. Visible' = Visible
    BY <2>1 DEF Visible, FilterDataByXDomain
  <2> QED BY <1>u, <2>1, <2>2 DEF AxisInv, AxisTypeOK
<1>5. CASE UNCHANGED axisVars
  <2>1. Visible' = Visible
    BY <1>5 DEF axisVars, Visible, FilterDataByXDomain
  <2> QED BY <1>5, <2>1 DEF axisVars, AxisInv, AxisTypeOK
<1> QED BY <1>1, <1>2, <1>3, <1>4, <1>5 DEF AxisNext


AxisLaid ==
    /\ AxisInv
    /\ \A i \in 1..Len(rowTimes), j \in 1..Len(rowTimes) : i <= j => rowTimes[i] <= rowTimes[j]
    /\ brush = NoBrush \/ (brush.from < brush.to /\ brush.from \in ToSet(rowTimes))
    /\ brush.from \in Nat /\ brush.to \in Nat

LEMMA AxisLaidInit == AxisInit => AxisLaid
<1> SUFFICES ASSUME AxisInit PROVE AxisLaid
  OBVIOUS
<1>1. AxisInv
  BY AxisInitInv
<1>2. Len(rowTimes) = 0 /\ brush = NoBrush
  BY EmptySeq DEF AxisInit
<1>3. brush.from = 0 /\ brush.to = 0
  BY <1>2 DEF NoBrush
<1>4. \A i \in 1..Len(rowTimes) : FALSE
  BY <1>2
<1> QED BY <1>1, <1>2, <1>3, <1>4 DEF AxisLaid

LEMMA AxisLaidStep == AxisLaid /\ [AxisNext]_axisVars => AxisLaid'
<1> SUFFICES ASSUME AxisLaid, [AxisNext]_axisVars
             PROVE  AxisLaid'
  OBVIOUS
<1>1. AxisInv /\ AxisInv'
  BY AxisStep DEF AxisLaid
<1>2. rowTimes \in Seq(Nat) /\ Len(rowTimes) \in Nat /\ \A i \in 1..Len(rowTimes) : rowTimes[i] \in Nat
  BY <1>1, ElementOfSeq, LenProperties DEF AxisInv
<1>3. /\ \A i \in 1..Len(rowTimes), j \in 1..Len(rowTimes) : i <= j => rowTimes[i] <= rowTimes[j]
      /\ brush = NoBrush \/ (brush.from < brush.to /\ brush.from \in ToSet(rowTimes))
      /\ brush.from \in Nat /\ brush.to \in Nat
  BY DEF AxisLaid
<1>4. horizon \in Nat
  BY <1>1 DEF AxisInv, AxisTypeOK
<1>5. NoBrush.from \in Nat /\ NoBrush.to \in Nat
  BY DEF NoBrush
<1>6. ASSUME NEW g \in Gaps, NewRow(g) PROVE AxisLaid'
  <2> DEFINE row == IF rowTimes = <<>> THEN Day ELSE Last(rowTimes) + g
  <2>1. rowTimes' = Append(rowTimes, row) /\ brush' = NoBrush
    BY <1>6 DEF NewRow
  <2>2. row \in Nat /\ \A i \in 1..Len(rowTimes) : rowTimes[i] <= row
    <3>1. g \in Nat /\ Day \in Nat
      BY AxisAssumption
    <3>2. CASE rowTimes = <<>>
      <4>1. \A i \in 1..Len(rowTimes) : FALSE
        BY <3>2, EmptySeq
      <4> QED BY <3>1, <3>2, <4>1
    <3>3. CASE rowTimes # <<>>
      <4>1. Last(rowTimes) \in Nat /\ Last(rowTimes) = rowTimes[Len(rowTimes)] /\ Len(rowTimes) \in 1..Len(rowTimes)
        BY <1>2, <3>3, LastIn
      <4>2. row = Last(rowTimes) + g
        BY <3>3
      <4>3. \A i \in 1..Len(rowTimes) : rowTimes[i] <= rowTimes[Len(rowTimes)]
        BY <1>2, <1>3, <4>1
      <4> QED BY <1>2, <3>1, <4>1, <4>2, <4>3
    <3> QED BY <3>2, <3>3
  <2> HIDE DEF row
  <2> DEFINE s == rowTimes'
  <2>3. /\ Len(s) = Len(rowTimes) + 1 /\ s[Len(rowTimes) + 1] = row
        /\ \A i \in 1..Len(rowTimes) : s[i] = rowTimes[i]
    BY <1>2, <2>1, <2>2, AppendProperties
  <2> HIDE DEF s
  <2>4. \A i \in 1..Len(s), j \in 1..Len(s) : i <= j => s[i] <= s[j]
    <3> SUFFICES ASSUME NEW i \in 1..Len(s), NEW j \in 1..Len(s), i <= j
                 PROVE  s[i] <= s[j]
      OBVIOUS
    <3>1. CASE j \in 1..Len(rowTimes)
      <4>1. i \in 1..Len(rowTimes)
        BY <1>2, <2>3, <3>1
      <4>2. rowTimes[i] <= rowTimes[j]
        BY <1>3, <3>1, <4>1
      <4> QED BY <2>3, <3>1, <4>1, <4>2
    <3>2. CASE j = Len(rowTimes) + 1
      <4>1. CASE i = j
        BY <2>2, <2>3, <3>2, <4>1
      <4>2. CASE i \in 1..Len(rowTimes)
        BY <2>2, <2>3, <3>2, <4>2
      <4> QED BY <1>2, <2>3, <3>2, <4>1, <4>2
    <3> QED BY <1>2, <2>3, <3>1, <3>2
  <2>5. NoBrush' = NoBrush
    BY DEF NoBrush
  <2> QED BY <1>1, <1>5, <2>1, <2>4, <2>5 DEF AxisLaid, s
<1>7. ASSUME NEW g \in Gaps, Project(g) PROVE AxisLaid'
  <2>1. brush' = NoBrush /\ rowTimes' = rowTimes /\ NoBrush' = NoBrush
    BY <1>7 DEF Project, NoBrush
  <2> QED BY <1>1, <1>3, <1>5, <2>1 DEF AxisLaid
<1>8. ASSUME NEW from \in ToSet(rowTimes), NEW to \in ToSet(rowTimes) \cup {horizon}, Brush(from, to) PROVE AxisLaid'
  <2>1. from < to /\ brush' = [from |-> from, to |-> to] /\ rowTimes' = rowTimes
    BY <1>8 DEF Brush
  <2>2. from \in Nat /\ to \in Nat
    <3>1. \A t \in ToSet(rowTimes) : t \in Nat
      BY <1>2, LenProperties DEF ToSet
    <3> QED BY <1>4, <3>1
  <2>3. brush'.from = from /\ brush'.to = to
    BY <2>1
  <2>4. ToSet(rowTimes)' = ToSet(rowTimes)
    BY <2>1
  <2>5. (brush.from < brush.to)' /\ (brush.from \in ToSet(rowTimes))' /\ (brush.from \in Nat)' /\ (brush.to \in Nat)'
    BY <1>8, <2>1, <2>2, <2>3, <2>4
  <2>6. (\A i \in 1..Len(rowTimes), j \in 1..Len(rowTimes) : i <= j => rowTimes[i] <= rowTimes[j])'
    BY <1>3, <2>1
  <2> QED BY <1>1, <2>5, <2>6 DEF AxisLaid
<1>9. ASSUME NEW i \in 0..Len(Visible), HoverRow(i) PROVE AxisLaid'
  <2>1. brush' = brush /\ rowTimes' = rowTimes /\ NoBrush' = NoBrush
    BY <1>9 DEF HoverRow, NoBrush
  <2> QED BY <1>1, <1>3, <2>1 DEF AxisLaid
<1>10. CASE UNCHANGED axisVars
  <2>1. brush' = brush /\ rowTimes' = rowTimes /\ NoBrush' = NoBrush
    BY <1>10 DEF axisVars, NoBrush
  <2> QED BY <1>1, <1>3, <2>1 DEF AxisLaid
<1> QED BY <1>6, <1>7, <1>8, <1>9, <1>10 DEF AxisNext

\* What lies on the axis: rows in their order, within the domain.
OnAxis ==
    /\ Visible \in Seq(Nat) /\ Len(Visible) \in Nat
    /\ XDomain.from \in Nat /\ XDomain.to \in Nat /\ XDomain.from <= XDomain.to
    /\ \A i \in 1..Len(Visible) : Visible[i] \in XDomain.from..XDomain.to
    /\ \A i \in 1..Len(Visible), j \in 1..Len(Visible) : i <= j => Visible[i] <= Visible[j]
    /\ brush # NoBrush => Visible # <<>>
    /\ numTicks \in 2..5

LEMMA RowsLie == AxisLaid => OnAxis
<1> SUFFICES ASSUME AxisLaid PROVE OnAxis
  OBVIOUS
<1>1. /\ rowTimes \in Seq(Nat) /\ Len(rowTimes) \in Nat /\ \A i \in 1..Len(rowTimes) : rowTimes[i] \in Nat
      /\ horizon \in Nat /\ numTicks \in 2..5
  BY AxisAssumption, ElementOfSeq, LenProperties DEF AxisLaid, AxisInv, AxisTypeOK
<1>2. /\ \A i \in 1..Len(rowTimes), j \in 1..Len(rowTimes) : i <= j => rowTimes[i] <= rowTimes[j]
      /\ brush = NoBrush \/ (brush.from < brush.to /\ brush.from \in ToSet(rowTimes))
      /\ brush.from \in Nat /\ brush.to \in Nat
  BY DEF AxisLaid
<1>3. CASE brush = NoBrush
  <2>1. Visible = rowTimes
    BY <1>3 DEF Visible
  <2>2. CASE rowTimes = <<>>
    <3>1. XDomain = [from |-> 0, to |-> horizon] /\ Len(rowTimes) = 0
      BY <1>3, <2>2, EmptySeq DEF XDomain
    <3>2. XDomain.from = 0 /\ XDomain.to = horizon
      BY <3>1
    <3>3. \A i \in 1..Len(rowTimes) : FALSE
      BY <3>1
    <3> QED BY <1>1, <1>3, <2>1, <3>2, <3>3 DEF OnAxis
  <2>3. CASE rowTimes # <<>>
    <3>1. Last(rowTimes) \in Nat /\ Len(rowTimes) \in Nat \ {0} /\ Last(rowTimes) = rowTimes[Len(rowTimes)]
      BY <1>1, <2>3, LastIn
    <3>2. 1 \in 1..Len(rowTimes) /\ Len(rowTimes) \in 1..Len(rowTimes)
      BY <3>1
    <3>3. XDomain.from = rowTimes[1] /\ XDomain.to = Later(Last(rowTimes), horizon)
      BY <1>3, <2>3 DEF XDomain
    <3>4. XDomain.to \in Nat /\ Last(rowTimes) <= XDomain.to /\ XDomain.from \in Nat
      BY <1>1, <3>1, <3>2, <3>3 DEF Later
    <3>5. \A i \in 1..Len(rowTimes) : rowTimes[1] <= rowTimes[i] /\ rowTimes[i] <= Last(rowTimes)
      <4> TAKE i \in 1..Len(rowTimes)
      <4>1. 1 <= i /\ i <= Len(rowTimes)
        OBVIOUS
      <4> QED BY <1>2, <3>1, <3>2, <4>1
    <3>6. \A i \in 1..Len(rowTimes) : rowTimes[i] \in XDomain.from..XDomain.to
      BY <1>1, <3>1, <3>3, <3>4, <3>5
    <3>7. XDomain.from <= XDomain.to
      BY <1>1, <3>2, <3>4, <3>6
    <3> QED BY <1>1, <1>2, <1>3, <2>1, <3>4, <3>6, <3>7 DEF OnAxis
  <2> QED BY <2>2, <2>3
<1>4. CASE brush # NoBrush
  <2> DEFINE S == {i \in DOMAIN rowTimes : brush.from <= rowTimes[i] /\ rowTimes[i] <= brush.to}
             n == Len(rowTimes)
             c == Cardinality(S)
  <2>1. Visible = Kept(rowTimes, S)
    BY <1>4 DEF Visible, FilterDataByXDomain
  <2>2. DOMAIN rowTimes = 1..n
    BY <1>1, LenProperties
  <2>3. S \in SUBSET (1..n) /\ \A i \in S : rowTimes[i] \in Nat /\ brush.from <= rowTimes[i] /\ rowTimes[i] <= brush.to
    BY <1>1, <2>2
  <2>4. \E i \in S : TRUE
    <3>1. PICK i \in DOMAIN rowTimes : rowTimes[i] = brush.from
      BY <1>2, <1>4 DEF ToSet
    <3>2. i \in S
      BY <1>2, <1>4, <3>1
    <3> QED BY <3>2
  <2>5. n \in Nat
    BY <1>1
  <2> HIDE DEF S
  <2>6. S \in SUBSET (1..n)
    BY <2>3
  <2>7. PICK q : Keeps(rowTimes, S, q)
    BY <2>5, <2>6, KeptIs
  <2>8. /\ c \in Nat /\ q \in [1..c -> S] /\ Visible = [i \in 1..c |-> rowTimes[q[i]]]
        /\ \A i \in 1..c, j \in 1..c : i < j => q[i] < q[j]
    BY <2>1, <2>7 DEF Keeps
  <2>9. \E i \in 1..c : TRUE
    BY <2>4, <2>7 DEF Keeps
  <2> HIDE DEF c
  <2>10. \A i \in 1..c : /\ q[i] \in S /\ q[i] \in 1..n /\ Visible[i] = rowTimes[q[i]] /\ Visible[i] \in Nat
                        /\ brush.from <= Visible[i] /\ Visible[i] <= brush.to
    <3> TAKE i \in 1..c
    <3>1. q[i] \in S
      BY <2>8
    <3> QED BY <2>3, <2>8, <3>1
  <2>11. Visible \in [1..c -> Nat]
    BY <2>8, <2>10
  <2>12. Visible \in Seq(Nat) /\ Len(Visible) = c
    BY <2>8, <2>11, FcnSeq
  <2>13. Visible # <<>>
    BY <2>8, <2>9, <2>12, EmptySeq
  <2>14. ASSUME NEW i \in 1..c, NEW j \in 1..c, i <= j
         PROVE  Visible[i] <= Visible[j]
    <3>1. CASE i = j
      BY <2>10, <3>1
    <3>2. CASE i < j
      <4>1. q[i] < q[j] /\ q[i] \in 1..n /\ q[j] \in 1..n
        BY <2>8, <2>10, <3>2
      <4>2. q[i] <= q[j]
        BY <2>5, <4>1
      <4>3. rowTimes[q[i]] <= rowTimes[q[j]]
        BY <1>2, <4>1, <4>2
      <4> QED BY <2>10, <4>3
    <3>3. i = j \/ i < j
      BY <2>8, <2>14
    <3> QED BY <3>1, <3>2, <3>3
  <2>15. XDomain = brush
    BY <1>4 DEF XDomain
  <2>16. \A i \in 1..c : Visible[i] \in brush.from..brush.to
    BY <1>2, <2>10
  <2>17. brush.from <= brush.to
    BY <1>2, <1>4
  <2> QED BY <1>1, <1>2, <2>8, <2>12, <2>13, <2>14, <2>15, <2>16, <2>17 DEF OnAxis
<1> QED BY <1>3, <1>4

\* The ticks that the domain has room for: a later one is not further left, nor of an earlier day.
Spots == {Tick(t) : t \in XDomain.from..XDomain.to}

LEMMA LaterDay ==
  ASSUME NEW a \in Int, NEW b \in Int, a <= b
  PROVE  AxisLabel(a) \in Int /\ AxisLabel(a) <= AxisLabel(b)
<1> DEFINE p == a \div Day  q == b \div Day
<1>1. Day \in Nat \ {0}
  BY AxisAssumption
<1>2. p \in Int /\ Day * p <= a /\ q \in Int /\ b < Day * q + Day
  BY <1>1, Quotient
<1>3. AxisLabel(a) = p /\ AxisLabel(b) = q
  BY DEF AxisLabel
<1> HIDE DEF p, q
<1>4. ASSUME q + 1 <= p PROVE FALSE
  <2>1. Day * (q + 1) <= Day * p /\ Day * (q + 1) = Day * q + Day
    BY <1>1, <1>2, <1>4, ProductsInOrder
  <2> DEFINE x == Day * p  y == Day * q
  <2>2. x \in Int /\ y \in Int /\ y + Day <= x /\ x <= a /\ b < y + Day /\ Day \in Int
    BY <1>1, <1>2, <2>1
  <2> HIDE DEF x, y
  <2> QED BY <2>2
<1> QED BY <1>2, <1>3, <1>4

LEMMA SpotsLie ==
  ASSUME OnAxis
  PROVE  /\ \A k \in Spots : /\ k.date \in Int /\ k.x \in Int /\ k.label \in Int
                             /\ k = Tick(k.date) /\ k.date \in XDomain.from..XDomain.to
                             /\ k.x = k.date - XDomain.from /\ k.x \in 0..(XDomain.to - XDomain.from)
         /\ \A k \in Spots, l \in Spots : k.date <= l.date => k.label <= l.label
         /\ \A k \in Spots, l \in Spots : k.label < l.label => k.x < l.x
         /\ \A k \in Spots, l \in Spots : k.x = l.x => k = l
<1>1. XDomain.from \in Nat /\ XDomain.to \in Nat
  BY DEF OnAxis
<1>2. ASSUME NEW t \in XDomain.from..XDomain.to
      PROVE  /\ t \in Int /\ Tick(t).date = t /\ Tick(t).x = t - XDomain.from /\ Tick(t).label = AxisLabel(t)
             /\ AxisLabel(t) \in Int /\ t - XDomain.from \in 0..(XDomain.to - XDomain.from)
  <2>1. t \in Int /\ t <= t
    BY <1>1
  <2>2. AxisLabel(t) \in Int
    BY <2>1, LaterDay
  <2>3. Tick(t).date = t /\ Tick(t).x = t - XDomain.from /\ Tick(t).label = AxisLabel(t)
    BY DEF Tick
  <2>4. t - XDomain.from \in 0..(XDomain.to - XDomain.from)
    BY <1>1
  <2> QED BY <2>1, <2>2, <2>3, <2>4
<1>3. ASSUME NEW k \in Spots
      PROVE  /\ k.date \in Int /\ k.x \in Int /\ k.label \in Int
             /\ k = Tick(k.date) /\ k.date \in XDomain.from..XDomain.to
             /\ k.x = k.date - XDomain.from /\ k.x \in 0..(XDomain.to - XDomain.from)
             /\ k.label = AxisLabel(k.date)
  <2>1. PICK t \in XDomain.from..XDomain.to : k = Tick(t)
    BY DEF Spots
  <2>2. k.date = t /\ k.x = t - XDomain.from /\ k.label = AxisLabel(t) /\ t \in Int
    BY <1>2, <2>1
  <2> QED BY <1>1, <1>2, <2>1, <2>2
<1>4. ASSUME NEW k \in Spots, NEW l \in Spots
      PROVE  /\ k.date <= l.date => k.label <= l.label
             /\ k.label < l.label => k.x < l.x
             /\ k.x = l.x => k = l
  <2>1. k.date \in Int /\ l.date \in Int /\ k.label \in Int /\ l.label \in Int
    BY <1>3
  <2>2. k.date <= l.date => k.label <= l.label
    BY <1>3, <2>1, LaterDay
  <2>3. l.date <= k.date => l.label <= k.label
    BY <1>3, <2>1, LaterDay
  <2>4. k.label < l.label => k.date < l.date
    BY <2>1, <2>3
  <2>5. k.x = k.date - XDomain.from /\ l.x = l.date - XDomain.from
    BY <1>3
  <2>6. k.label < l.label => k.x < l.x
    BY <1>1, <2>1, <2>4, <2>5
  <2>7. k.x = l.x => k.date = l.date
    BY <1>1, <2>1, <2>5
  <2> QED BY <1>3, <2>2, <2>6, <2>7
<1> QED BY <1>3, <1>4

\* Ticks of later and later days, and ticks that stand on rows.
Rises(ticks) ==
    /\ ticks \in Seq(Spots)
    /\ \A k \in 1..Len(ticks), l \in 1..Len(ticks) : k < l => ticks[k].label < ticks[l].label
OnRowsOnly(ticks) == \A k \in 1..Len(ticks) : ticks[k].date \in ToSet(Visible)
RowsOrPast(ticks) ==
    \A k \in 1..Len(ticks) : ticks[k].date \in ToSet(Visible) \/ ticks[k].date > Last(Visible)

LEMMA ReadableIf ==
  ASSUME OnAxis, NEW ticks, Rises(ticks),
         tickMode = "data" /\ (brush # NoBrush \/ ~DomainExtendsPastData) => RowsOrPast(ticks)
  PROVE  Readable(ticks)
<1>1. Len(ticks) \in Nat /\ \A k \in 1..Len(ticks) : ticks[k] \in Spots
  BY ElementOfSeq, LenProperties DEF Rises
<1>2. ASSUME NEW k \in 1..Len(ticks) PROVE ticks[k].x \in 0..(XDomain.to - XDomain.from)
  BY <1>1, SpotsLie
<1>3. ASSUME NEW k \in 1..Len(ticks), k > 1
      PROVE  ticks[k - 1].x < ticks[k].x /\ ticks[k - 1].label < ticks[k].label
  <2>1. k - 1 \in 1..Len(ticks) /\ k - 1 < k
    BY <1>1, <1>3
  <2>2. ticks[k - 1].label < ticks[k].label
    BY <2>1 DEF Rises
  <2>3. ticks[k - 1] \in Spots /\ ticks[k] \in Spots
    BY <1>1, <2>1
  <2> QED BY <2>2, <2>3, SpotsLie
<1>4. ASSUME NEW k \in 1..Len(ticks), tickMode = "data" /\ (brush # NoBrush \/ ~DomainExtendsPastData)
      PROVE  ticks[k].date \in ToSet(Visible) \/ ticks[k].date > Last(Visible)
  BY <1>4 DEF RowsOrPast
<1> QED BY <1>2, <1>3, <1>4 DEF Readable

LEMMA FirstsRise ==
  ASSUME OnAxis, NEW n \in Nat, NEW s \in [1..n -> Spots],
         \A a \in 1..n, b \in 1..n : a <= b => s[a].date <= s[b].date
  PROVE  /\ Rises(FirstOfLabel(s))
         /\ \A k \in 1..Len(FirstOfLabel(s)) : \E a \in 1..n : FirstOfLabel(s)[k] = s[a]
<1> DEFINE X == Spots  r == FirstOfLabel(s)
<1>1. \A x \in X : x.label \in Int
  BY SpotsLie
<1>2. \A a \in 1..n : s[a] \in X
  OBVIOUS
<1>3. \A a \in 1..n, b \in 1..n : a <= b => s[a].label <= s[b].label
  BY <1>2, SpotsLie
<1>4. s \in [1..n -> X]
  OBVIOUS
<1> HIDE DEF X
<1>5. /\ r \in Seq(X) /\ \A k \in 1..Len(r) : \E a \in 1..n : r[k] = s[a]
      /\ \A k \in 1..Len(r), l \in 1..Len(r) : k < l => r[k].label < r[l].label
  BY <1>1, <1>3, <1>4, FirstOfLabelIs
<1> HIDE DEF r
<1>6. Rises(r)
  BY <1>5 DEF Rises, X
<1> QED BY <1>5, <1>6 DEF r

\* The ticks of rows in their order.
LEMMA TicksOfRows ==
  ASSUME OnAxis, NEW rr \in SUBSET (0..(Len(Visible) - 1))
  PROVE  Rises(TicksOn(InOrder(rr, <), Visible)) /\ OnRowsOnly(TicksOn(InOrder(rr, <), Visible))
<1> DEFINE q == InOrder(rr, <)  n == Cardinality(rr)
           to(k) == Tick(Visible[q[k] + 1])
           s == [k \in 1..n |-> to(k)]
<1>1. /\ Visible \in Seq(Nat) /\ Len(Visible) \in Nat
      /\ \A i \in 1..Len(Visible) : Visible[i] \in XDomain.from..XDomain.to
      /\ \A i \in 1..Len(Visible), j \in 1..Len(Visible) : i <= j => Visible[i] <= Visible[j]
  BY DEF OnAxis
<1>2. IsFiniteSet(rr) /\ rr \subseteq Int
  <2>1. 0 \in Int /\ Len(Visible) - 1 \in Int
    BY <1>1
  <2>2. IsFiniteSet(0..(Len(Visible) - 1))
    BY <2>1, FS_Interval
  <2>3. \A i \in 0..(Len(Visible) - 1) : i \in Int
    BY <2>1
  <2> QED BY <2>2, <2>3, FS_Subset
<1>3. Lists(q, rr, NumberOrder(rr))
  BY <1>2, NumbersInOrder
<1>4. /\ n \in Nat /\ q \in [1..n -> rr]
      /\ \A i \in 1..n, j \in 1..n : i < j => <<q[i], q[j]>> \in NumberOrder(rr)
  BY <1>3 DEF Lists
<1> HIDE DEF q
<1>5. TicksOn(q, Visible) = FirstOfLabel(s)
  <2>1. q \in Seq(rr) /\ Len(q) = n
    <3> HIDE DEF n
    <3> QED BY <1>4, FcnSeq
  <2> QED BY <2>1 DEF TicksOn
<1>6. \A k \in 1..n : q[k] + 1 \in 1..Len(Visible) /\ q[k] \in Int
  <2> TAKE k \in 1..n
  <2>1. q[k] \in rr
    BY <1>4
  <2>2. q[k] \in 0..(Len(Visible) - 1)
    BY <2>1
  <2> QED BY <1>1, <2>2
<1>7. \A i \in 1..n, j \in 1..n : i < j => q[i] < q[j]
  BY <1>4 DEF NumberOrder
<1> HIDE DEF n
<1>8. \A k \in 1..n : to(k) \in Spots /\ to(k).date = Visible[q[k] + 1]
  <2> TAKE k \in 1..n
  <2>1. Visible[q[k] + 1] \in XDomain.from..XDomain.to
    BY <1>1, <1>6
  <2> QED BY <2>1 DEF Spots, Tick
<1> HIDE DEF to
<1>9. s \in [1..n -> Spots] /\ \A k \in 1..n : s[k] = to(k)
  BY <1>8
<1> HIDE DEF s
<1>10. ASSUME NEW a \in 1..n, NEW b \in 1..n, a <= b
       PROVE  s[a].date <= s[b].date
  <2>1. q[a] + 1 <= q[b] + 1
    <3>1. a = b \/ a < b
      BY <1>4, <1>10
    <3> QED BY <1>6, <1>7, <3>1
  <2>2. Visible[q[a] + 1] <= Visible[q[b] + 1]
    BY <1>1, <1>6, <2>1
  <2> QED BY <1>8, <1>9, <2>2
<1> DEFINE r == FirstOfLabel(s)
<1>11. Rises(r) /\ \A k \in 1..Len(r) : \E a \in 1..n : r[k] = s[a]
  BY <1>4, <1>9, <1>10, FirstsRise
<1> HIDE DEF r
<1>12. ASSUME NEW k \in 1..Len(r) PROVE r[k].date \in ToSet(Visible)
  <2>1. PICK a \in 1..n : r[k] = s[a]
    BY <1>11
  <2>2. r[k].date = Visible[q[a] + 1] /\ q[a] + 1 \in 1..Len(Visible)
    BY <1>6, <1>8, <1>9, <2>1
  <2>3. DOMAIN Visible = 1..Len(Visible)
    BY <1>1, LenProperties
  <2> QED BY <2>2, <2>3 DEF ToSet
<1> QED BY <1>5, <1>11, <1>12 DEF OnRowsOnly, r, q

LEMMA DataTicks ==
  ASSUME OnAxis
  PROVE  Rises(BuildDataAlignedTicks(Visible)) /\ OnRowsOnly(BuildDataAlignedTicks(Visible))
<1> DEFINE rr == SelectEvenlySpaced(Visible, numTicks)
<1>1. Len(Visible) \in Nat /\ numTicks \in Nat /\ numTicks >= 2
  BY DEF OnAxis
<1>2. rr \in SUBSET (0..(Len(Visible) - 1))
  BY <1>1, SelectedIn
<1>3. BuildDataAlignedTicks(Visible) = TicksOn(InOrder(rr, <), Visible)
  BY DEF BuildDataAlignedTicks
<1> HIDE DEF rr
<1> QED BY <1>2, <1>3, TicksOfRows

LEMMA DomainTicks ==
  ASSUME OnAxis
  PROVE  Rises(BuildDomainTicks)
<1> DEFINE n == numTicks  w == XDomain.to - XDomain.from  m == numTicks - 1
           step_ == w \div m
           to(k) == Tick(XDomain.from + (k - 1) * step_)
           s == [k \in 1..n |-> to(k)]
<1>1. XDomain.from \in Nat /\ XDomain.to \in Nat /\ w \in Nat /\ n \in Nat /\ n = m + 1 /\ m \in Nat \ {0}
  BY DEF OnAxis
<1>2. BuildDomainTicks = FirstOfLabel(s)
  BY DEF BuildDomainTicks
<1>3. step_ \in Int /\ m * step_ <= w /\ w < m * step_ + m
  <2> HIDE DEF w, m
  <2> QED BY <1>1, Quotient
<1>4. XDomain.to = XDomain.from + w
  BY <1>1
<1> HIDE DEF step_, n, w, m
<1>5. step_ >= 0
  <2> SUFFICES ASSUME step_ <= -1 PROVE FALSE
    BY <1>3
  <2>1. m * step_ <= m * (-1) /\ m * (-1) = -m
    BY <1>1, <1>3, ProductsInOrder
  <2> DEFINE x == m * step_
  <2>2. x \in Int /\ x <= -m /\ w < x + m
    BY <1>1, <1>3, <2>1
  <2> HIDE DEF x
  <2> QED BY <1>1, <2>2
<1> DEFINE date_(k) == XDomain.from + (k - 1) * step_
<1>6. ASSUME NEW k \in 1..n
      PROVE  /\ date_(k) \in XDomain.from..XDomain.to /\ (k - 1) * step_ \in Int
             /\ \A l \in 1..n : k <= l => date_(k) <= date_(l)
  <2>1. step_ \in Nat /\ 0 \in Int /\ k - 1 \in Int /\ 0 <= k - 1 /\ k - 1 <= m
    BY <1>1, <1>3, <1>5
  <2>2. 0 * step_ <= (k - 1) * step_ /\ (k - 1) * step_ <= m * step_ /\ 0 * step_ = 0
    BY <1>1, <2>1, ProductsInOrder
  <2> DEFINE x == (k - 1) * step_  y == m * step_
  <2>3. x \in Int /\ y \in Int /\ 0 <= x /\ x <= y /\ y <= w
    BY <1>1, <1>3, <2>1, <2>2
  <2>4. date_(k) = XDomain.from + x
    OBVIOUS
  <2>5. ASSUME NEW l \in 1..n, k <= l PROVE date_(k) <= date_(l)
    <3>1. l - 1 \in Int /\ k - 1 <= l - 1
      BY <1>1, <2>5
    <3>2. (k - 1) * step_ <= (l - 1) * step_
      BY <2>1, <3>1, ProductsInOrder
    <3> DEFINE z == (l - 1) * step_
    <3>3. z \in Int /\ x <= z /\ date_(l) = XDomain.from + z
      BY <2>1, <3>1, <3>2
    <3> HIDE DEF x, z, date_
    <3> QED BY <1>1, <2>3, <2>4, <3>3
  <2> HIDE DEF x, y, date_
  <2>6. date_(k) \in XDomain.from..XDomain.to
    BY <1>1, <1>4, <2>3, <2>4
  <2> QED BY <2>3, <2>5, <2>6 DEF x
<1>7. \A k \in 1..n : to(k) = Tick(date_(k))
  OBVIOUS
<1> HIDE DEF date_, to
<1>8. \A k \in 1..n : to(k) \in Spots /\ to(k).date = date_(k)
  BY <1>6, <1>7 DEF Spots, Tick
<1>9. s \in [1..n -> Spots] /\ \A k \in 1..n : s[k] = to(k)
  BY <1>8
<1> HIDE DEF s
<1>10. \A a \in 1..n, b \in 1..n : a <= b => s[a].date <= s[b].date
  BY <1>6, <1>8, <1>9
<1>11. Rises(FirstOfLabel(s))
  BY <1>1, <1>9, <1>10, FirstsRise
<1> QED BY <1>2, <1>11

\* Ticks from left to right.
SpotOrder(S) == {p \in S \X S : p[1].x < p[2].x}

LEMMA SpotsInOrder ==
  ASSUME OnAxis, NEW S, IsFiniteSet(S), S \subseteq Spots
  PROVE  Lists(InOrder(S, LAMBDA k, l : k.x < l.x), S, SpotOrder(S))
<1> DEFINE R == SpotOrder(S)
           q == InOrder(S, LAMBDA k, l : k.x < l.x)
           n == Cardinality(S)
<1>1. \A a \in S, b \in S : <<b, a>> \in R <=> b.x < a.x
  BY DEF SpotOrder
<1>2. \A a \in S : a.x \in Int
  BY SpotsLie
<1>3. \A a \in S, b \in S : a.x = b.x => a = b
  BY SpotsLie
<1> HIDE DEF R
<1>4. StrictlyOrders(R, S)
  <2>1. \A a \in S, b \in S : a # b => <<a, b>> \in R \/ <<b, a>> \in R
    BY <1>1, <1>2, <1>3
  <2>2. \A a \in S : <<a, a>> \notin R
    BY <1>1, <1>2
  <2>3. \A a \in S, b \in S, c \in S : <<a, b>> \in R /\ <<b, c>> \in R => <<a, c>> \in R
    BY <1>1, <1>2
  <2> QED BY <2>1, <2>2, <2>3 DEF StrictlyOrders
<1>5. \A a \in S : {b \in S : b.x < a.x} = Below(R, S, a)
  BY <1>1 DEF Below
<1>6. q = [k \in 1..n |-> CHOOSE a \in S : Cardinality({b \in S : b.x < a.x}) = k - 1]
  BY DEF InOrder
<1> HIDE DEF q
<1>7. ASSUME NEW k \in 1..n, \E a \in S : Cardinality(Below(R, S, a)) = k - 1
      PROVE  q[k] \in S /\ Cardinality(Below(R, S, q[k])) = k - 1
  <2>1. \E a \in S : Cardinality({b \in S : b.x < a.x}) = k - 1
    BY <1>5, <1>7
  <2>2. q[k] = CHOOSE a \in S : Cardinality({b \in S : b.x < a.x}) = k - 1
    BY <1>6
  <2>3. q[k] \in S /\ Cardinality({b \in S : b.x < q[k].x}) = k - 1
    BY <2>1, <2>2
  <2> QED BY <1>5, <2>3
<1>8. q = [k \in 1..n |-> q[k]]
  <2> DEFINE to(k) == CHOOSE a \in S : Cardinality({b \in S : b.x < a.x}) = k - 1
  <2>1. q = [k \in 1..n |-> to(k)]
    BY <1>6
  <2> HIDE DEF to
  <2>2. \A k \in 1..n : q[k] = to(k)
    BY <2>1
  <2> QED BY <2>1, <2>2
<1>9. Lists(q, S, R)
  <2>1. n = Cardinality(S)
    OBVIOUS
  <2> HIDE DEF n
  <2> QED BY <1>4, <1>7, <1>8, <2>1, ListedBy
<1> QED BY <1>9 DEF q, R

\* Sorted from left to right, ticks of a day each are of later and later days.
LEMMA SortedRise ==
  ASSUME OnAxis, NEW r, Rises(r)
  PROVE  LET q == InOrder(ToSet(r), LAMBDA k, l : k.x < l.x)
         IN Rises(q) /\ \A k \in 1..Len(q) : \E a \in 1..Len(r) : q[k] = r[a]
<1> DEFINE S == ToSet(r)
           q == InOrder(S, LAMBDA k, l : k.x < l.x)
           n == Cardinality(S)
<1>1. r \in Seq(Spots) /\ Len(r) \in Nat /\ DOMAIN r = 1..Len(r) /\ \A k \in 1..Len(r) : r[k] \in Spots
  BY ElementOfSeq, LenProperties DEF Rises
<1>2. \A k \in 1..Len(r), l \in 1..Len(r) : k < l => r[k].label < r[l].label
  BY DEF Rises
<1>3. S = {r[i] : i \in 1..Len(r)}
  BY <1>1 DEF ToSet
<1>4. IsFiniteSet(S) /\ S \subseteq Spots
  <2>1. IsFiniteSet(1..Len(r))
    BY <1>1, FS_Interval
  <2> DEFINE f == [i \in 1..Len(r) |-> r[i]]
  <2>2. f \in Surjection(1..Len(r), S)
    BY <1>3 DEF Surjection
  <2>3. IsFiniteSet(S)
    BY <2>1, <2>2, FS_Surjection
  <2>4. S \subseteq Spots
    BY <1>1, <1>3
  <2> QED BY <2>3, <2>4
<1> HIDE DEF S
<1>5. Lists(q, S, SpotOrder(S))
  BY <1>4, SpotsInOrder
<1>6. /\ n \in Nat /\ q \in [1..n -> S]
      /\ \A i \in 1..n, j \in 1..n : i < j => <<q[i], q[j]>> \in SpotOrder(S)
  BY <1>5 DEF Lists
<1> HIDE DEF q, n
<1>7. \A i \in 1..n, j \in 1..n : i < j => q[i].x < q[j].x
  BY <1>6 DEF SpotOrder
<1>8. \A k \in 1..n : q[k] \in Spots /\ \E a \in 1..Len(r) : q[k] = r[a]
  <2> TAKE k \in 1..n
  <2>1. q[k] \in S
    BY <1>6
  <2> QED BY <1>3, <1>4, <2>1
<1>9. q \in [1..n -> Spots]
  BY <1>6, <1>8
<1>10. q \in Seq(Spots) /\ Len(q) = n
  BY <1>6, <1>9, FcnSeq
<1>11. ASSUME NEW k \in 1..n, NEW l \in 1..n, k < l
       PROVE  q[k].label < q[l].label
  <2>1. PICK a \in 1..Len(r) : q[k] = r[a]
    BY <1>8
  <2>2. PICK b \in 1..Len(r) : q[l] = r[b]
    BY <1>8
  <2>3. r[a].x < r[b].x /\ r[a].x \in Int /\ r[b].x \in Int
    BY <1>1, <1>7, <1>11, <2>1, <2>2, SpotsLie
  <2>4. CASE a < b
    BY <1>2, <2>1, <2>2, <2>4
  <2>5. CASE a = b
    BY <2>3, <2>5
  <2>6. CASE b < a
    <3>1. r[b].label < r[a].label
      BY <1>2, <2>6
    <3>2. r[b].x < r[a].x
      BY <1>1, <3>1, SpotsLie
    <3> QED BY <2>3, <3>2
  <2> QED BY <1>1, <2>4, <2>5, <2>6
<1> QED BY <1>8, <1>10, <1>11 DEF Rises, q, S

\* The tail: dates between the last row and the end of the domain, in their order.
LEMMA TailTicks ==
  ASSUME OnAxis, DomainExtendsPastData, NEW ticks, Rises(ticks), OnRowsOnly(ticks), NEW extra \in Nat \ {0}
  PROVE  Rises(AppendProjectionTail(ticks, extra)) /\ RowsOrPast(AppendProjectionTail(ticks, extra))
<1> DEFINE last_ == Last(Visible)  n == Len(ticks)  w == XDomain.to - last_  m == extra + 1
           step_ == w \div m
           date_(k) == IF k > extra THEN XDomain.to ELSE last_ + k * step_
           to(k) == Tick(date_(k))
           more == [k \in 1..m |-> to(k)]
           s == ticks \o more
           r == FirstOfLabel(s)
<1>1. /\ XDomain.from \in Nat /\ XDomain.to \in Nat /\ Visible \in Seq(Nat)
      /\ Len(Visible) \in Nat /\ \A i \in 1..Len(Visible) : Visible[i] \in XDomain.from..XDomain.to
      /\ \A i \in 1..Len(Visible), j \in 1..Len(Visible) : i <= j => Visible[i] <= Visible[j]
  BY DEF OnAxis
<1>2. Visible # <<>> /\ XDomain.to > last_
  BY DEF DomainExtendsPastData
<1>3. last_ \in Nat /\ last_ = Visible[Len(Visible)] /\ Len(Visible) \in 1..Len(Visible)
  BY <1>1, <1>2, LastIn
<1>4. XDomain.from <= last_ /\ \A i \in 1..Len(Visible) : Visible[i] <= last_
  <2>1. last_ \in XDomain.from..XDomain.to
    BY <1>1, <1>3
  <2>2. \A i \in 1..Len(Visible) : i <= Len(Visible)
    BY <1>1
  <2>3. \A i \in 1..Len(Visible) : Visible[i] <= Visible[Len(Visible)]
    BY <1>1, <1>3, <2>2
  <2> QED BY <1>1, <1>3, <2>1, <2>3
<1>5. last_ \in ToSet(Visible) /\ \A t \in ToSet(Visible) : t \in Nat /\ t <= last_
  <2>1. DOMAIN Visible = 1..Len(Visible)
    BY <1>1, LenProperties
  <2>2. \A i \in 1..Len(Visible) : Visible[i] \in Nat
    BY <1>1, ElementOfSeq
  <2> QED BY <1>3, <1>4, <2>1, <2>2 DEF ToSet
<1> HIDE DEF last_
<1>6. w \in Nat \ {0} /\ m \in Nat \ {0} /\ XDomain.to = last_ + w
  BY <1>1, <1>2, <1>3
<1>7. AppendProjectionTail(ticks, extra) = InOrder(ToSet(r), LAMBDA k, l : k.x < l.x)
  BY DEF AppendProjectionTail, last_
<1>8. step_ \in Nat /\ m * step_ <= w
  <2> HIDE DEF w, m
  <2>1. step_ \in Int /\ m * step_ <= w /\ w < m * step_ + m
    BY <1>6, Quotient
  <2> HIDE DEF step_
  <2>2. ASSUME step_ <= -1 PROVE FALSE
    <3>1. m * step_ <= m * (-1) /\ m * (-1) = -m
      BY <1>6, <2>1, <2>2, ProductsInOrder
    <3> DEFINE x == m * step_
    <3>2. x \in Int /\ x <= -m /\ w < x + m
      BY <1>6, <2>1, <3>1
    <3> HIDE DEF x
    <3> QED BY <1>6, <3>2
  <2> QED BY <2>1, <2>2
<1> HIDE DEF step_
<1>9. ASSUME NEW k \in 1..m
      PROVE  date_(k) \in Int /\ last_ <= date_(k) /\ date_(k) <= XDomain.to /\ k * step_ \in Int
  <2>1. k \in Int /\ k <= m /\ 0 <= k /\ m \in Int
    BY <1>6
  <2>2. k * step_ <= m * step_ /\ 0 * step_ <= k * step_ /\ 0 * step_ = 0
    BY <1>6, <1>8, <2>1, ProductsInOrder
  <2> DEFINE x == k * step_  y == m * step_
  <2>3. x \in Int /\ y \in Int /\ 0 <= x /\ x <= w
    BY <1>6, <1>8, <2>1, <2>2
  <2>4. date_(k) = IF k > extra THEN XDomain.to ELSE last_ + x
    OBVIOUS
  <2> HIDE DEF x, y, date_, w
  <2> QED BY <1>1, <1>2, <1>3, <1>6, <2>3, <2>4 DEF x
<1>10. ASSUME NEW k \in 1..m, NEW l \in 1..m, k <= l
       PROVE  date_(k) <= date_(l)
  <2>1. k \in Int /\ l \in Int
    BY <1>6
  <2>2. CASE l > extra
    <3>1. date_(l) = XDomain.to
      BY <2>2
    <3> HIDE DEF date_
    <3> QED BY <1>9, <3>1
  <2>3. CASE ~(l > extra)
    <3>1. ~(k > extra)
      BY <1>10, <2>1, <2>3
    <3>2. date_(k) = last_ + k * step_ /\ date_(l) = last_ + l * step_
      BY <2>3, <3>1
    <3>3. k * step_ <= l * step_
      BY <1>8, <1>10, <2>1, ProductsInOrder
    <3>4. k * step_ \in Int /\ l * step_ \in Int
      BY <1>9
    <3> DEFINE x == k * step_  y == l * step_
    <3>5. x \in Int /\ y \in Int /\ x <= y /\ date_(k) = last_ + x /\ date_(l) = last_ + y
      BY <3>2, <3>3, <3>4
    <3> HIDE DEF x, y, date_
    <3> QED BY <1>3, <3>5
  <2> QED BY <2>2, <2>3
<1> HIDE DEF date_, w
<1>11. \A k \in 1..m : to(k) \in Spots /\ to(k).date = date_(k)
  <2> TAKE k \in 1..m
  <2>1. date_(k) \in XDomain.from..XDomain.to
    BY <1>1, <1>3, <1>4, <1>9
  <2> QED BY <2>1 DEF Spots, Tick
<1> HIDE DEF to, m
<1>12. more \in Seq(Spots) /\ Len(more) = m /\ \A k \in 1..m : more[k] = to(k)
  <2>1. more \in [1..m -> Spots] /\ \A k \in 1..m : more[k] = to(k)
    BY <1>11
  <2> HIDE DEF more
  <2> QED BY <1>6, <2>1, FcnSeq
<1> HIDE DEF more
<1>13. ticks \in Seq(Spots) /\ n \in Nat /\ \A k \in 1..n : ticks[k] \in Spots
  BY ElementOfSeq, LenProperties DEF Rises
<1>14. /\ s \in Seq(Spots) /\ Len(s) = n + m
       /\ \A i \in 1..(n + m) : s[i] = IF i <= n THEN ticks[i] ELSE more[i - n]
  BY <1>12, <1>13, ConcatProperties
<1> HIDE DEF s
<1>15. \A i \in 1..(n + m) : i \in 1..n \/ (i > n /\ i - n \in 1..m)
  BY <1>6, <1>13
<1>16. \A i \in 1..n : s[i] = ticks[i] /\ s[i] \in Spots /\ s[i].date \in ToSet(Visible) /\ s[i].date \in Nat /\ s[i].date <= last_
  <2> TAKE i \in 1..n
  <2>1. s[i] = ticks[i]
    BY <1>6, <1>13, <1>14
  <2>2. ticks[i].date \in ToSet(Visible)
    BY DEF OnRowsOnly
  <2> QED BY <1>5, <1>13, <2>1, <2>2
<1>17. \A i \in 1..(n + m) : i > n => i - n \in 1..m /\ s[i] \in Spots /\ s[i].date = date_(i - n)
  <2> SUFFICES ASSUME NEW i \in 1..(n + m), i > n
               PROVE  i - n \in 1..m /\ s[i] \in Spots /\ s[i].date = date_(i - n)
    OBVIOUS
  <2>1. i - n \in 1..m /\ ~(i <= n)
    BY <1>6, <1>13
  <2>2. s[i] = more[i - n]
    BY <1>14, <2>1
  <2> QED BY <1>11, <1>12, <2>1, <2>2
<1>18. ASSUME NEW a \in 1..(n + m), NEW b \in 1..(n + m), a <= b
       PROVE  s[a].date <= s[b].date
  <2>1. CASE b \in 1..n
    <3>1. a \in 1..n
      BY <1>6, <1>13, <1>18, <2>1
    <3>2. CASE a = b
      BY <1>16, <2>1, <3>2
    <3>3. CASE a < b
      <4>1. ticks[a].label < ticks[b].label
        BY <2>1, <3>1, <3>3 DEF Rises
      <4>2. s[a].x < s[b].x
        BY <1>13, <1>16, <2>1, <3>1, <4>1, SpotsLie
      <4>3. /\ s[a].x = s[a].date - XDomain.from /\ s[b].x = s[b].date - XDomain.from
        BY <1>16, <2>1, <3>1, SpotsLie
      <4> QED BY <1>1, <1>16, <2>1, <3>1, <4>2, <4>3
    <3> QED BY <1>13, <1>18, <2>1, <3>1, <3>2, <3>3
  <2>2. CASE b > n /\ a \in 1..n
    <3>1. s[a].date <= last_ /\ s[a].date \in Nat
      BY <1>16, <2>2
    <3>2. last_ <= s[b].date /\ s[b].date \in Int
      BY <1>9, <1>17, <2>2
    <3> QED BY <1>3, <3>1, <3>2
  <2>3. CASE b > n /\ a > n
    <3>1. a - n <= b - n
      BY <1>6, <1>13, <1>18
    <3>2. a - n \in 1..m /\ b - n \in 1..m
      BY <1>17, <2>3
    <3> QED BY <1>10, <1>17, <2>3, <3>1, <3>2
  <2> QED BY <1>15, <1>18, <2>1, <2>2, <2>3
<1>19. s \in [1..(n + m) -> Spots] /\ n + m \in Nat
  BY <1>6, <1>13, <1>14, LenProperties
<1>20. Rises(r) /\ \A k \in 1..Len(r) : \E a \in 1..(n + m) : r[k] = s[a]
  BY <1>18, <1>19, FirstsRise
<1> HIDE DEF r
<1> DEFINE q == InOrder(ToSet(r), LAMBDA k, l : k.x < l.x)
<1>21. Rises(q) /\ \A k \in 1..Len(q) : \E a \in 1..Len(r) : q[k] = r[a]
  BY <1>20, SortedRise
<1> HIDE DEF q
<1>22. ASSUME NEW a \in 1..(n + m) PROVE s[a].date \in ToSet(Visible) \/ s[a].date > last_
  <2>1. CASE a \in 1..n
    BY <1>16, <2>1
  <2>2. CASE a > n
    <3>1. last_ <= s[a].date /\ s[a].date \in Int
      BY <1>9, <1>17, <2>2
    <3> QED BY <1>3, <1>5, <3>1
  <2> QED BY <1>15, <2>1, <2>2
<1>23. RowsOrPast(q)
  <2> SUFFICES ASSUME NEW k \in 1..Len(q)
               PROVE  q[k].date \in ToSet(Visible) \/ q[k].date > Last(Visible)
    BY DEF RowsOrPast
  <2>1. PICK a \in 1..Len(r) : q[k] = r[a]
    BY <1>21
  <2>2. PICK b \in 1..(n + m) : r[a] = s[b]
    BY <1>20
  <2> QED BY <1>22, <2>1, <2>2 DEF last_
<1> QED BY <1>7, <1>21, <1>23 DEF q

LEMMA LabelsReadable == AxisLaid => TicksReadable
<1> SUFFICES ASSUME AxisLaid PROVE Readable(LabelsToShow)
  BY DEF TicksReadable
<1>1. OnAxis
  BY RowsLie
<1> DEFINE ticks == BuildDataAlignedTicks(Visible)
           past_ == tickMode = "data" /\ (brush # NoBrush \/ ~DomainExtendsPastData)
<1>2. CASE tickMode = "domain" \/ (DomainExtendsPastData /\ brush = NoBrush)
  <2>1. LabelsToShow = BuildDomainTicks
    BY <1>2 DEF LabelsToShow
  <2>2. ~past_
    BY <1>2
  <2>3. Rises(BuildDomainTicks)
    BY <1>1, DomainTicks
  <2> QED BY <1>1, <2>1, <2>2, <2>3, ReadableIf
<1>3. CASE ~(tickMode = "domain" \/ (DomainExtendsPastData /\ brush = NoBrush))
  <2>1. LabelsToShow = WithTail(ticks)
    BY <1>3 DEF LabelsToShow
  <2>2. Rises(ticks) /\ OnRowsOnly(ticks)
    BY <1>1, DataTicks
  <2> HIDE DEF ticks
  <2>3. CASE DomainExtendsPastData
    <3> DEFINE more_ == Later(1, numTicks - Len(ticks) + 1)  extra == Min({3, more_})
    <3>1. WithTail(ticks) = AppendProjectionTail(ticks, extra)
      BY <2>3 DEF WithTail
    <3>2. more_ \in Nat \ {0}
      <4>1. numTicks \in Nat /\ Len(ticks) \in Nat
        BY <1>1, <2>2, LenProperties DEF OnAxis, Rises
      <4> QED BY <4>1 DEF Later
    <3> HIDE DEF more_
    <3>3. extra = IF 3 < more_ THEN 3 ELSE more_
      BY <3>2, MinOfTwo
    <3> HIDE DEF extra
    <3>4. extra \in Nat \ {0}
      BY <3>2, <3>3
    <3>5. Rises(AppendProjectionTail(ticks, extra)) /\ RowsOrPast(AppendProjectionTail(ticks, extra))
      BY <1>1, <2>2, <2>3, <3>4, TailTicks
    <3> QED BY <1>1, <2>1, <3>1, <3>5, ReadableIf
  <2>4. CASE ~DomainExtendsPastData
    <3>1. WithTail(ticks) = ticks
      BY <2>4 DEF WithTail
    <3>2. RowsOrPast(ticks)
      BY <2>2 DEF OnRowsOnly, RowsOrPast
    <3> QED BY <1>1, <2>1, <2>2, <3>1, <3>2, ReadableIf
  <2> QED BY <2>3, <2>4
<1> QED BY <1>2, <1>3

-----------------------------------------------------------------------------
(* Layouts: the rows that get a tick, the gaps between them and their score.   *)

\* What is in a list of numbers in their order.
InTheirOrder(q, d) ==
    /\ Cardinality(d) \in Nat /\ q \in [1..Cardinality(d) -> d] /\ Len(q) = Cardinality(d)
    /\ \A i \in 1..Cardinality(d), j \in 1..Cardinality(d) : i < j => q[i] < q[j]
    /\ \A a \in d : \E i \in 1..Cardinality(d) : q[i] = a

LEMMA OrderIs ==
  ASSUME NEW len \in Nat, NEW d \in SUBSET (0..(len - 1))
  PROVE  IsFiniteSet(d) /\ InTheirOrder(InOrder(d, <), d)
<1> DEFINE q == InOrder(d, <)  n == Cardinality(d)
<1>1. IsFiniteSet(d) /\ d \subseteq Int
  <2>1. 0 \in Int /\ len - 1 \in Int
    OBVIOUS
  <2>2. IsFiniteSet(0..(len - 1))
    BY <2>1, FS_Interval
  <2>3. \A i \in 0..(len - 1) : i \in Int
    OBVIOUS
  <2> QED BY <2>2, <2>3, FS_Subset
<1>2. Lists(q, d, NumberOrder(d))
  BY <1>1, NumbersInOrder
<1>3. /\ n \in Nat /\ q \in [1..n -> d]
      /\ \A i \in 1..n, j \in 1..n : i < j => <<q[i], q[j]>> \in NumberOrder(d)
      /\ \A a \in d : \E i \in 1..n : q[i] = a
  BY <1>2 DEF Lists
<1> HIDE DEF q
<1>4. \A i \in 1..n, j \in 1..n : i < j => q[i] < q[j]
  BY <1>3 DEF NumberOrder
<1>5. Len(q) = n
  <2> HIDE DEF n
  <2> QED BY <1>3, FcnSeq
<1> QED BY <1>1, <1>3, <1>4, <1>5 DEF InTheirOrder, q

\* The dates of a layout, and its gaps.
DateOf(times, d, k) == times[InOrder(d, <)[k] + 1]

LEMMA DatesLie ==
  ASSUME NEW times \in Seq(Nat), NEW d \in SUBSET (0..(Len(times) - 1)),
         \A i \in 1..Len(times), j \in 1..Len(times) : i <= j => times[i] <= times[j]
  PROVE  /\ \A k \in 1..Cardinality(d) : /\ DateOf(times, d, k) \in Nat
                                         /\ InOrder(d, <)[k] \in d
                                         /\ InOrder(d, <)[k] + 1 \in 1..Len(times)
         /\ \A k \in 1..Cardinality(d), l \in 1..Cardinality(d) :
              k <= l => DateOf(times, d, k) <= DateOf(times, d, l)
<1> DEFINE q == InOrder(d, <)  n == Cardinality(d)
<1>1. Len(times) \in Nat /\ \A i \in 1..Len(times) : times[i] \in Nat
  BY ElementOfSeq, LenProperties
<1>2. InTheirOrder(q, d)
  BY <1>1, OrderIs
<1> HIDE DEF q
<1>3. n \in Nat /\ q \in [1..n -> d] /\ \A i \in 1..n, j \in 1..n : i < j => q[i] < q[j]
  BY <1>2 DEF InTheirOrder
<1> HIDE DEF n
<1>4. \A k \in 1..n : q[k] \in d /\ q[k] \in Int /\ q[k] + 1 \in 1..Len(times)
  <2> TAKE k \in 1..n
  <2>1. q[k] \in d
    BY <1>3
  <2>2. q[k] \in 0..(Len(times) - 1)
    BY <2>1
  <2> QED BY <1>1, <2>1, <2>2
<1>5. \A k \in 1..n : DateOf(times, d, k) = times[q[k] + 1] /\ times[q[k] + 1] \in Nat
  BY <1>1, <1>4 DEF DateOf, q
<1>6. ASSUME NEW k \in 1..n, NEW l \in 1..n, k <= l
      PROVE  DateOf(times, d, k) <= DateOf(times, d, l)
  <2>1. q[k] + 1 <= q[l] + 1
    <3>1. k = l \/ k < l
      BY <1>3, <1>6
    <3> QED BY <1>3, <1>4, <3>1
  <2> QED BY <1>4, <1>5, <2>1
<1> QED BY <1>4, <1>5, <1>6 DEF n, q

LEMMA GapsAre ==
  ASSUME NEW times \in Seq(Nat), NEW d \in SUBSET (0..(Len(times) - 1)), Cardinality(d) >= 2,
         \A i \in 1..Len(times), j \in 1..Len(times) : i <= j => times[i] <= times[j],
         NEW n, n = Cardinality(d) - 1
  PROVE  /\ n \in Nat \ {0}
         /\ GapsOnScreen(d, times) \in [1..n -> Nat] /\ Len(GapsOnScreen(d, times)) = n
         /\ IndexGaps(d) \in [1..n -> Int] /\ Len(IndexGaps(d)) = n
         /\ \A g \in 1..n : GapsOnScreen(d, times)[g] = DateOf(times, d, g + 1) - DateOf(times, d, g)
<1> DEFINE q == InOrder(d, <)  c == Cardinality(d)
           dates_ == [k \in 1..c |-> times[q[k] + 1]]
           xs == Differences(dates_)
           gaps_ == Differences(q)
<1>1. Len(times) \in Nat
  BY LenProperties
<1>2. InTheirOrder(q, d)
  BY <1>1, OrderIs
<1>3. c \in Nat /\ q \in [1..c -> d] /\ Len(q) = c
  BY <1>2 DEF InTheirOrder
<1>4. GapsOnScreen(d, times) = xs /\ IndexGaps(d) = gaps_
  BY <1>3 DEF GapsOnScreen, IndexGaps
<1>5. \A k \in 1..c : /\ DateOf(times, d, k) \in Nat /\ q[k] \in d /\ q[k] \in Int
                      /\ DateOf(times, d, k) = times[q[k] + 1]
  <2> TAKE k \in 1..c
  <2>1. DateOf(times, d, k) \in Nat /\ q[k] \in d
    BY DatesLie
  <2>2. d \subseteq 0..(Len(times) - 1)
    OBVIOUS
  <2>3. q[k] \in Int
    <3> HIDE DEF q
    <3>1. q[k] \in 0..(Len(times) - 1)
      BY <2>1, <2>2
    <3> QED BY <1>1, <3>1
  <2> QED BY <2>1, <2>3 DEF DateOf
<1>6. \A k \in 1..c, l \in 1..c : k <= l => DateOf(times, d, k) <= DateOf(times, d, l)
  BY DatesLie
<1> HIDE DEF q
<1>7. n \in Nat \ {0} /\ c = n + 1
  BY <1>3
<1> HIDE DEF c
<1>8. dates_ \in [1..c -> Nat] /\ \A k \in 1..c : dates_[k] = DateOf(times, d, k)
  BY <1>5
<1> HIDE DEF dates_
<1>9. Len(dates_) = c
  BY <1>3, <1>8, FcnSeq
<1>10. \A g \in 1..n : g \in 1..c /\ g + 1 \in 1..c /\ g <= g + 1
  BY <1>7
<1>11. xs = [g \in 1..n |-> dates_[g + 1] - dates_[g]]
  BY <1>7, <1>9 DEF Differences
<1>12. \A g \in 1..n : xs[g] = DateOf(times, d, g + 1) - DateOf(times, d, g) /\ xs[g] \in Nat
  <2> TAKE g \in 1..n
  <2>1. xs[g] = DateOf(times, d, g + 1) - DateOf(times, d, g)
    BY <1>8, <1>10, <1>11
  <2>2. /\ DateOf(times, d, g + 1) \in Nat /\ DateOf(times, d, g) \in Nat
        /\ DateOf(times, d, g) <= DateOf(times, d, g + 1)
    BY <1>5, <1>6, <1>10
  <2> QED BY <2>1, <2>2
<1>13. xs \in [1..n -> Nat]
  BY <1>11, <1>12
<1>14. gaps_ = [g \in 1..n |-> q[g + 1] - q[g]]
  BY <1>3, <1>7 DEF Differences
<1>15. \A g \in 1..n : q[g + 1] - q[g] \in Int
  BY <1>5, <1>10
<1>16. gaps_ \in [1..n -> Int]
  BY <1>14, <1>15
<1> HIDE DEF xs, gaps_
<1>17. Len(xs) = n /\ Len(gaps_) = n
  BY <1>7, <1>13, <1>16, FcnSeq
<1> QED BY <1>4, <1>7, <1>12, <1>13, <1>16, <1>17

\* A score is a fraction that is never negative, and nought only where the gaps on
\* screen are equal and the ticks as many as wanted; it is nought where they are, and
\* the gaps in rows read the same from both ends, none smaller than the first.
Evenly(xs, n) == \A i \in 1..n, j \in 1..n : xs[i] = xs[j]

LEMMA NoProduct ==
  ASSUME NEW a \in Nat, NEW b \in Nat \ {0}
  PROVE  a * b \in Nat /\ (a * b = 0 => a = 0) /\ 0 * b = 0
<1>1. CASE a = 0
  BY <1>1
<1>2. CASE a # 0
  <2>1. 1 \in Int /\ a \in Int /\ 1 <= a /\ b \in Nat
    BY <1>2
  <2>2. 1 * b <= a * b
    BY <2>1, ProductsInOrder
  <2> DEFINE x == a * b
  <2>3. x \in Int /\ b <= x
    BY <2>2
  <2> HIDE DEF x
  <2> QED BY <1>2, <2>3 DEF x
<1> QED BY <1>1, <1>2

ScoreTells(r, xs, gaps_, n, away) ==
    /\ r.num \in Nat /\ r.den \in Nat \ {0}
    /\ r.num = 0 => away = 0 /\ Evenly(xs, n)
    /\ /\ away = 0 /\ Evenly(xs, n)
       /\ \A h \in 1..n : gaps_[1] <= gaps_[h] /\ gaps_[h] = gaps_[n + 1 - h]
       => r.num = 0

LEMMA ScoreIs ==
  ASSUME NEW n \in Nat \ {0}, NEW xs \in [1..n -> Nat], Len(xs) = n,
         NEW gaps_ \in [1..n -> Int], Len(gaps_) = n, NEW away \in Nat, NEW r, r = ScoreGaps(xs, gaps_, away)
  PROVE  ScoreTells(r, xs, gaps_, n, away)
<1> DEFINE total == FoldLeft(+, 0, xs)
           least == {g \in 1..n : \A h \in 1..n : gaps_[g] <= gaps_[h]}
           smallest == Min(least)
           interior == IF 1 < smallest /\ smallest < n THEN 8 ELSE 0
           unlike == [g \in 1..n |-> Apart(gaps_[g], gaps_[n + 1 - g])]
           mirrored == FoldLeft(+, 0, unlike)
           S == ToSet(xs)
           spread == Max(S) - Min(S)
           mean == IF total > 0 THEN total ELSE n
<1>1. r.num = 100 * spread * n * n + (10 * away + interior) * mean * n + 2 * mirrored * mean /\ r.den = mean * n
  BY DEF ScoreGaps
<1>2. total \in Nat
  <2>1. xs \in [1..n -> Int] /\ \A k \in 1..n : xs[k] >= 0
    OBVIOUS
  <2>2. 0 \in Int /\ n \in Nat
    OBVIOUS
  <2>3. total >= n * 0
    BY <2>1, <2>2, SumAtLeast
  <2>4. \E g \in [0..n -> Int] : g[0] = 0 /\ g[n] = total /\ \A i \in 1..n : g[i] = g[i - 1] + xs[i]
    BY <2>1, <2>2, SumSteps
  <2>5. n \in 0..n /\ n * 0 = 0
    OBVIOUS
  <2> HIDE DEF total
  <2> QED BY <2>3, <2>4, <2>5
<1>3. /\ unlike \in [1..n -> Int] /\ \A k \in 1..n : unlike[k] >= 0
      /\ (\A h \in 1..n : gaps_[h] = gaps_[n + 1 - h]) => \A k \in 1..n : unlike[k] = 0
  <2>1. \A k \in 1..n : n + 1 - k \in 1..n
    OBVIOUS
  <2>2. \A k \in 1..n : gaps_[k] \in Int /\ gaps_[n + 1 - k] \in Int
    BY <2>1
  <2>3. \A k \in 1..n : /\ Apart(gaps_[k], gaps_[n + 1 - k]) \in Int /\ Apart(gaps_[k], gaps_[n + 1 - k]) >= 0
                        /\ gaps_[k] = gaps_[n + 1 - k] => Apart(gaps_[k], gaps_[n + 1 - k]) = 0
    BY <2>2 DEF Apart
  <2> QED BY <2>3
<1> HIDE DEF unlike
<1>4. mirrored \in Nat /\ ((\A k \in 1..n : unlike[k] = 0) => mirrored = 0)
  <2>1. 0 \in Int /\ n \in Nat
    OBVIOUS
  <2>2. mirrored >= n * 0
    BY <1>3, <2>1, SumAtLeast
  <2>3. \E g \in [0..n -> Int] : g[0] = 0 /\ g[n] = mirrored /\ \A i \in 1..n : g[i] = g[i - 1] + unlike[i]
    BY <1>3, <2>1, SumSteps
  <2>4. (\A k \in 1..n : unlike[k] = 0) => mirrored = n * 0
    BY <1>3, <2>1, SumOfEqual
  <2>5. n \in 0..n /\ n * 0 = 0
    OBVIOUS
  <2> HIDE DEF mirrored
  <2> QED BY <2>2, <2>3, <2>4, <2>5
<1> HIDE DEF total, mirrored
<1>5. mean \in Nat \ {0}
  BY <1>2
<1>6. interior \in Nat /\ ((\A h \in 1..n : gaps_[1] <= gaps_[h]) => interior = 0)
  <2>1. ASSUME \A h \in 1..n : gaps_[1] <= gaps_[h] PROVE interior = 0
    <3>1. 1 \in least /\ least \subseteq Int /\ \A y \in least : 1 <= y
      BY <2>1
    <3> HIDE DEF least
    <3>2. smallest = 1
      BY <3>1, MinIs
    <3> HIDE DEF smallest
    <3> QED BY <3>2
  <2> QED BY <2>1
<1>7. spread \in Nat /\ (spread = 0 => Evenly(xs, n)) /\ (Evenly(xs, n) => spread = 0)
  <2>1. S = {xs[i] : i \in 1..n}
    BY DEF ToSet
  <2>2. PICK i \in 1..n : \A j \in 1..n : xs[i] <= xs[j]
    <3>1. n >= 1 /\ n \in Nat /\ \A j \in 1..n : xs[j] \in Int
      OBVIOUS
    <3> QED BY <3>1, LeastOf
  <2>3. PICK k \in 1..n : \A j \in 1..n : xs[j] <= xs[k]
    <3>1. n >= 1 /\ n \in Nat /\ \A j \in 1..n : xs[j] \in Int
      OBVIOUS
    <3> QED BY <3>1, GreatestOf
  <2>4. S \subseteq Int /\ xs[i] \in S /\ xs[k] \in S /\ \A y \in S : xs[i] <= y /\ y <= xs[k]
    BY <2>1, <2>2, <2>3
  <2> HIDE DEF S
  <2>5. Min(S) = xs[i] /\ Max(S) = xs[k]
    BY <2>4, MinIs, MaxIs
  <2>6. spread = xs[k] - xs[i] /\ xs[k] \in Nat /\ xs[i] \in Nat /\ xs[i] <= xs[k]
    BY <2>2, <2>5
  <2>7. ASSUME xs[k] = xs[i] PROVE Evenly(xs, n)
    <3>1. \A j \in 1..n : xs[j] \in Int /\ xs[j] = xs[i]
      BY <2>2, <2>3, <2>7
    <3> QED BY <3>1 DEF Evenly
  <2>8. ASSUME Evenly(xs, n) PROVE xs[k] = xs[i]
    BY <2>8 DEF Evenly
  <2> HIDE DEF spread
  <2> QED BY <2>6, <2>7, <2>8
<1> HIDE DEF mean, interior, spread
<1> DEFINE A == 100 * spread * n * n  b == 10 * away + interior  B == b * mean * n  C == 2 * mirrored * mean
<1>8. A \in Nat /\ (A = 0 <=> spread = 0)
  <2>1. 100 * spread \in Nat /\ (100 * spread = 0 <=> spread = 0)
    BY <1>7
  <2> DEFINE x == 100 * spread
  <2>2. x \in Nat /\ (x = 0 <=> spread = 0) /\ A = (x * n) * n
    BY <2>1
  <2> HIDE DEF x, A
  <2>3. x * n \in Nat /\ (x * n = 0 => x = 0) /\ 0 * n = 0
    BY <2>2, NoProduct
  <2>4. (x * n) * n \in Nat /\ ((x * n) * n = 0 => x * n = 0)
    BY <2>3, NoProduct
  <2> QED BY <2>2, <2>3, <2>4
<1>9. B \in Nat /\ (B = 0 <=> b = 0) /\ b \in Nat /\ (b = 0 <=> away = 0 /\ interior = 0)
  <2>1. b \in Nat /\ (b = 0 <=> away = 0 /\ interior = 0)
    BY <1>6
  <2> HIDE DEF b
  <2>2. b * mean \in Nat /\ (b * mean = 0 => b = 0) /\ 0 * mean = 0
    BY <1>5, <2>1, NoProduct
  <2>3. (b * mean) * n \in Nat /\ ((b * mean) * n = 0 => b * mean = 0) /\ 0 * n = 0
    BY <2>2, NoProduct
  <2>4. B = (b * mean) * n
    OBVIOUS
  <2> HIDE DEF B
  <2> QED BY <2>1, <2>2, <2>3, <2>4
<1>10. C \in Nat /\ (mirrored = 0 => C = 0)
  <2>1. 2 * mirrored \in Nat /\ (mirrored = 0 => 2 * mirrored = 0)
    BY <1>4
  <2> DEFINE x == 2 * mirrored
  <2>2. x * mean \in Nat /\ 0 * mean = 0
    BY <1>5, <2>1, NoProduct
  <2> QED BY <2>1, <2>2
<1>11. mean * n \in Nat \ {0}
  <2>1. mean \in Nat
    BY <1>5
  <2>2. mean * n \in Nat /\ (mean * n = 0 => mean = 0)
    BY <2>1, NoProduct
  <2> QED BY <1>5, <2>2
<1>12. r.num = A + B + C /\ r.den = mean * n
  BY <1>1
<1> HIDE DEF A, B, C, b
<1>13. r.num \in Nat /\ r.den \in Nat \ {0}
  BY <1>8, <1>9, <1>10, <1>11, <1>12
<1>14. r.num = 0 => away = 0 /\ Evenly(xs, n)
  BY <1>7, <1>8, <1>9, <1>10, <1>12
<1>15. ASSUME away = 0, Evenly(xs, n), \A h \in 1..n : gaps_[1] <= gaps_[h] /\ gaps_[h] = gaps_[n + 1 - h]
       PROVE  r.num = 0
  <2>1. spread = 0 /\ interior = 0 /\ mirrored = 0
    BY <1>3, <1>4, <1>6, <1>7, <1>15
  <2> QED BY <1>8, <1>9, <1>10, <1>12, <1>15, <2>1
<1> QED BY <1>13, <1>14, <1>15 DEF ScoreTells

\* A layout of `count` ticks: so many rows, the first and the last among them.
LEMMA IndicesCount ==
  ASSUME NEW len \in Nat, NEW count \in Nat, count >= 2, count < len
  PROVE  Cardinality(IndicesForTickCount(len, count)) = count
<1> DEFINE m == count - 1  w == len - 1  S == IndicesForTickCount(len, count)
           placeAt(i) == (2 * i * w + count - 1) \div (2 * m)
<1>1. m \in Nat \ {0} /\ w \in Nat /\ 2 * m \in Nat \ {0} /\ count = m + 1 /\ m <= w
  OBVIOUS
<1>2. S = {placeAt(i) : i \in 0..m}
  BY DEF IndicesForTickCount
<1> HIDE DEF S
<1>3. ASSUME NEW i \in 0..m
      PROVE  /\ i * w \in Int /\ placeAt(i) = (2 * (i * w) + m) \div (2 * m) /\ placeAt(i) \in Int
             /\ (2 * m) * placeAt(i) <= 2 * (i * w) + m /\ 2 * (i * w) + m < (2 * m) * placeAt(i) + 2 * m
  <2>1. i * w \in Int /\ 2 * i * w = 2 * (i * w)
    BY <1>1
  <2> DEFINE x == i * w
  <2>2. placeAt(i) = (2 * x + m) \div (2 * m) /\ x \in Int
    BY <1>1, <2>1
  <2> HIDE DEF x, placeAt
  <2>3. 2 * x + m \in Int
    BY <1>1, <2>2
  <2> DEFINE z == 2 * x + m  t == 2 * m
  <2>4. z \in Int /\ t \in Nat \ {0} /\ placeAt(i) = z \div t
    BY <1>1, <2>2, <2>3
  <2> HIDE DEF z, t
  <2>5. placeAt(i) \in Int /\ t * placeAt(i) <= z /\ z < t * placeAt(i) + t
    BY <2>4, Quotient
  <2> QED BY <2>2, <2>5 DEF x, z, t
<1> HIDE DEF placeAt, m, w
<1>4. ASSUME NEW i \in 0..m, NEW j \in 0..m, i < j
      PROVE  placeAt(i) < placeAt(j)
  <2> SUFFICES ASSUME placeAt(j) <= placeAt(i) PROVE FALSE
    BY <1>3
  <2>1. i + 1 \in Int /\ j \in Int /\ i \in Int /\ i + 1 <= j
    BY <1>1, <1>4
  <2>2. (i + 1) * w <= j * w /\ (i + 1) * w = i * w + w
    BY <1>1, <2>1, ProductsInOrder
  <2>3. (2 * m) * placeAt(j) <= (2 * m) * placeAt(i)
    BY <1>1, <1>3, ProductsInOrder
  <2> DEFINE x == i * w  y == j * w  u == (2 * m) * placeAt(i)  z == (2 * m) * placeAt(j)
  <2>4. x \in Int /\ y \in Int /\ u \in Int /\ z \in Int
    BY <1>1, <1>3
  <2>5. x + w <= y /\ z <= u /\ u <= 2 * x + m /\ 2 * y + m < z + 2 * m
    BY <1>3, <2>2, <2>3
  <2> HIDE DEF x, y, u, z
  <2> QED BY <1>1, <2>4, <2>5
<1> DEFINE f == [k \in 1..count |-> placeAt(k - 1)]
<1>5. \A k \in 1..count : k - 1 \in 0..m
  BY <1>1
<1>6. \A i \in 0..m : i + 1 \in 1..count /\ (i + 1) - 1 = i
  BY <1>1
<1>7. f \in [1..count -> S] /\ \A k \in 1..count : f[k] = placeAt(k - 1)
  BY <1>2, <1>5
<1> HIDE DEF f
<1>8. \A k \in 1..count, l \in 1..count : f[k] = f[l] => k = l
  <2> SUFFICES ASSUME NEW k \in 1..count, NEW l \in 1..count, f[k] = f[l]
               PROVE  k = l
    OBVIOUS
  <2>1. placeAt(k - 1) = placeAt(l - 1) /\ k - 1 \in 0..m /\ l - 1 \in 0..m
    BY <1>5, <1>7
  <2>2. placeAt(k - 1) \in Int
    BY <1>3, <2>1
  <2>3. ~(k - 1 < l - 1) /\ ~(l - 1 < k - 1)
    BY <1>4, <2>1, <2>2
  <2> QED BY <1>1, <2>3
<1>9. \A x \in S : \E k \in 1..count : f[k] = x
  <2> TAKE x \in S
  <2>1. PICK i \in 0..m : x = placeAt(i)
    BY <1>2
  <2>2. f[i + 1] = x
    BY <1>6, <1>7, <2>1
  <2> QED BY <1>6, <2>2
<1>10. f \in Bijection(1..count, S)
  BY <1>7, <1>8, <1>9 DEF Bijection, Injection, Surjection, IsInjective
<1>11. ExistsBijection(1..count, S)
  BY <1>10 DEF ExistsBijection
<1> QED BY <1>11, FS_CountingElements DEF S

LEMMA LayoutHas ==
  ASSUME NEW len \in Nat, NEW count \in Nat, count >= 2, count < len, NEW l \in AllIndexLayouts(len, count)
  PROVE  l \subseteq 0..(len - 1) /\ 0 \in l /\ len - 1 \in l /\ Cardinality(l) = count
<1>1. l = IndicesForTickCount(len, count) \/ \E mid \in kSubset(count - 2, 1..(len - 2)) : l = mid \cup {0, len - 1}
  BY DEF AllIndexLayouts
<1>2. CASE l = IndicesForTickCount(len, count)
  <2>1. len >= 1
    OBVIOUS
  <2> QED BY <1>2, <2>1, IndicesIn, IndicesCount
<1>3. ASSUME NEW mid \in kSubset(count - 2, 1..(len - 2)), l = mid \cup {0, len - 1}
      PROVE  l \subseteq 0..(len - 1) /\ 0 \in l /\ len - 1 \in l /\ Cardinality(l) = count
  <2>1. mid \in SUBSET (1..(len - 2)) /\ Cardinality(mid) = count - 2
    BY DEF kSubset
  <2>2. 1 \in Int /\ len - 2 \in Int
    OBVIOUS
  <2>3. IsFiniteSet(1..(len - 2))
    BY <2>2, FS_Interval
  <2>4. IsFiniteSet(mid)
    BY <2>1, <2>3, FS_Subset
  <2>5. 0 \notin mid
    BY <2>1
  <2>6. IsFiniteSet(mid \cup {0}) /\ Cardinality(mid \cup {0}) = count - 1
    <3>1. IsFiniteSet(mid \cup {0}) /\ Cardinality(mid \cup {0}) = Cardinality(mid) + 1
      BY <2>4, <2>5, FS_AddElement
    <3> QED BY <2>1, <3>1
  <2>7. len - 1 \notin mid \cup {0}
    <3>1. \A i \in 1..(len - 2) : i # len - 1
      OBVIOUS
    <3>2. len - 1 # 0
      OBVIOUS
    <3> QED BY <2>1, <3>1, <3>2
  <2>8. Cardinality((mid \cup {0}) \cup {len - 1}) = count
    <3>1. Cardinality((mid \cup {0}) \cup {len - 1}) = Cardinality(mid \cup {0}) + 1
      BY <2>6, <2>7, FS_AddElement
    <3> QED BY <2>6, <3>1
  <2>9. l = (mid \cup {0}) \cup {len - 1}
    BY <1>3
  <2>10. 0 \in 0..(len - 1) /\ len - 1 \in 0..(len - 1) /\ \A i \in 1..(len - 2) : i \in 0..(len - 1)
    OBVIOUS
  <2> QED BY <2>1, <2>8, <2>9, <2>10
<1> QED BY <1>1, <1>2, <1>3

\* Where the gaps on screen are equal, the dates are a fixed step apart, from the first row to the last.
Stepped(times, d, n, c) ==
    /\ c \in Int /\ n * c = times[Len(times)] - times[1]
    /\ \A k \in 1..(n + 1) : DateOf(times, d, k) = times[1] + (k - 1) * c

LEMMA EvenSteps ==
  ASSUME NEW times \in Seq(Nat), NEW d \in SUBSET (0..(Len(times) - 1)), 0 \in d, Len(times) - 1 \in d,
         \A i \in 1..Len(times), j \in 1..Len(times) : i <= j => times[i] <= times[j],
         NEW n \in Nat \ {0}, Cardinality(d) = n + 1, Evenly(GapsOnScreen(d, times), n)
  PROVE  \E c : Stepped(times, d, n, c)
<1> DEFINE q == InOrder(d, <)  xs == GapsOnScreen(d, times)  c == xs[1]  len == Len(times)
           T == {k \in Nat : k <= n => DateOf(times, d, k + 1) = times[1] + k * c}
<1>1. len \in Nat /\ \A i \in 1..len : times[i] \in Nat
  BY ElementOfSeq, LenProperties
<1>2. InTheirOrder(q, d)
  BY <1>1, OrderIs
<1>3. /\ q \in [1..(n + 1) -> d] /\ \A i \in 1..(n + 1), j \in 1..(n + 1) : i < j => q[i] < q[j]
      /\ \A a \in d : \E i \in 1..(n + 1) : q[i] = a
  BY <1>2 DEF InTheirOrder
<1>4. n = Cardinality(d) - 1 /\ Cardinality(d) >= 2
  OBVIOUS
<1>5. xs \in [1..n -> Nat] /\ \A g \in 1..n : xs[g] = DateOf(times, d, g + 1) - DateOf(times, d, g)
  BY <1>4, GapsAre
<1>6. \A k \in 1..(n + 1) : DateOf(times, d, k) \in Nat /\ q[k] \in d
  BY DatesLie
<1>7. \A k \in 1..(n + 1) : DateOf(times, d, k) = times[q[k] + 1]
  BY DEF DateOf
<1> HIDE DEF q, xs
<1>8. \A k \in 1..(n + 1) : q[k] \in 0..(len - 1)
  BY <1>6
<1>9. q[1] = 0
  <2>1. PICK i \in 1..(n + 1) : q[i] = 0
    BY <1>3
  <2>2. 1 \in 1..(n + 1) /\ (i = 1 \/ 1 < i)
    OBVIOUS
  <2>3. 1 < i => q[1] < 0
    BY <1>3, <2>1, <2>2
  <2>4. q[1] \in 0..(len - 1)
    BY <1>8, <2>2
  <2> QED BY <1>1, <2>1, <2>2, <2>3, <2>4
<1>10. q[n + 1] = len - 1
  <2>1. PICK i \in 1..(n + 1) : q[i] = len - 1
    BY <1>3
  <2>2. n + 1 \in 1..(n + 1) /\ (i = n + 1 \/ i < n + 1)
    OBVIOUS
  <2>3. i < n + 1 => len - 1 < q[n + 1]
    BY <1>3, <2>1, <2>2
  <2>4. q[n + 1] \in 0..(len - 1)
    BY <1>8, <2>2
  <2> QED BY <1>1, <2>1, <2>2, <2>3, <2>4
<1>11. c \in Nat /\ \A g \in 1..n : xs[g] = c
  <2>1. 1 \in 1..n
    OBVIOUS
  <2>2. Evenly(xs, n)
    BY DEF xs
  <2> QED BY <1>5, <2>1, <2>2 DEF Evenly
<1> HIDE DEF c
<1>12. len \in 1..len /\ 1 \in 1..len /\ (len - 1) + 1 = len /\ 0 + 1 = 1
  <2>1. 0 \in 0..(len - 1)
    OBVIOUS
  <2> HIDE DEF len
  <2> QED BY <1>1, <2>1
<1> HIDE DEF len
<1>13. DateOf(times, d, 1) = times[1] /\ DateOf(times, d, n + 1) = times[len] /\ times[1] \in Nat /\ times[len] \in Nat
  <2>1. 1 \in 1..(n + 1) /\ n + 1 \in 1..(n + 1)
    OBVIOUS
  <2> QED BY <1>1, <1>7, <1>9, <1>10, <1>12, <2>1
<1>14. 0 \in T
  <2>1. 0 + 1 = 1 /\ 0 * c = 0
    BY <1>11
  <2> QED BY <1>13, <2>1
<1>15. ASSUME NEW k \in Nat, k \in T
       PROVE  k + 1 \in T
  <2> SUFFICES ASSUME k + 1 <= n PROVE DateOf(times, d, (k + 1) + 1) = times[1] + (k + 1) * c
    OBVIOUS
  <2>1. DateOf(times, d, k + 1) = times[1] + k * c
    BY <1>15
  <2>2. k + 1 \in 1..n /\ k + 1 \in 1..(n + 1) /\ (k + 1) + 1 \in 1..(n + 1)
    OBVIOUS
  <2>3. DateOf(times, d, (k + 1) + 1) - DateOf(times, d, k + 1) = c
    BY <1>5, <1>11, <2>2
  <2>4. DateOf(times, d, (k + 1) + 1) \in Nat /\ DateOf(times, d, k + 1) \in Nat
    BY <1>6, <2>2
  <2>5. (k + 1) * c = k * c + c /\ k * c \in Int
    BY <1>11
  <2> DEFINE x == k * c  y == (k + 1) * c  u == DateOf(times, d, k + 1)  z == DateOf(times, d, (k + 1) + 1)
  <2>6. x \in Int /\ y = x + c /\ u = times[1] + x /\ z - u = c /\ z \in Nat /\ u \in Nat
    BY <2>1, <2>3, <2>4, <2>5
  <2> HIDE DEF x, y, u, z
  <2>7. z = times[1] + y
    <3>1. c \in Int
      BY <1>11
    <3> DEFINE first_ == times[1]
    <3>2. first_ \in Int /\ u = first_ + x
      BY <1>13, <2>6
    <3> HIDE DEF first_
    <3>3. z = first_ + y
      BY <2>6, <3>1, <3>2
    <3> QED BY <3>3 DEF first_
  <2> QED BY <2>7 DEF y, z
<1> HIDE DEF T
<1>16. \A k \in Nat : k \in T
  BY <1>14, <1>15, NatInduct
<1>17. \A k \in 1..(n + 1) : DateOf(times, d, k) = times[1] + (k - 1) * c
  <2> TAKE k \in 1..(n + 1)
  <2>1. k - 1 \in Nat /\ k - 1 <= n /\ (k - 1) + 1 = k
    OBVIOUS
  <2>2. k - 1 \in T
    BY <1>16, <2>1
  <2> QED BY <2>1, <2>2 DEF T
<1>18. n * c = times[len] - times[1]
  <2>1. n + 1 \in 1..(n + 1) /\ (n + 1) - 1 = n /\ n * c \in Int
    BY <1>11
  <2>2. times[len] = times[1] + n * c
    BY <1>13, <1>17, <2>1
  <2> DEFINE x == n * c
  <2>3. x \in Int /\ times[len] = times[1] + x
    BY <2>1, <2>2
  <2> HIDE DEF x
  <2>4. x = times[len] - times[1]
    BY <1>13, <2>3
  <2> QED BY <2>4 DEF x
<1>19. c \in Int
  BY <1>11
<1>20. Stepped(times, d, n, c)
  BY <1>17, <1>18, <1>19 DEF Stepped, len
<1> QED BY <1>20

\* Two of them, of as many ticks, have the same dates.
LEMMA SameDates ==
  ASSUME NEW times, NEW d, NEW e, NEW n \in Nat \ {0}, NEW a, Stepped(times, d, n, a), NEW b, Stepped(times, e, n, b)
  PROVE  \A k \in 1..(n + 1) : DateOf(times, d, k) = DateOf(times, e, k)
<1>1. a \in Int /\ b \in Int /\ n * a = n * b
  BY DEF Stepped
<1>2. \A x \in Int, y \in Int : n * x = n * y => ~(x < y)
  <2> SUFFICES ASSUME NEW x \in Int, NEW y \in Int, n * x = n * y, x < y PROVE FALSE
    OBVIOUS
  <2>1. x + 1 \in Int /\ x + 1 <= y /\ n \in Nat
    OBVIOUS
  <2>2. n * (x + 1) <= n * y /\ n * (x + 1) = n * x + n
    BY <2>1, ProductsInOrder
  <2> DEFINE u == n * x
  <2>3. u \in Int /\ u + n <= u
    BY <2>2
  <2> HIDE DEF u
  <2> QED BY <2>3
<1>3. a = b
  BY <1>1, <1>2
<1> QED BY <1>3 DEF Stepped

\* A layout of two ticks or more has a score; a better one than nought is nought.
Scored(r) == r.num \in Nat /\ r.den \in Nat \ {0}

LEMMA LayoutScored ==
  ASSUME NEW times \in Seq(Nat), NEW d \in SUBSET (0..(Len(times) - 1)), Cardinality(d) >= 2,
         \A i \in 1..Len(times), j \in 1..Len(times) : i <= j => times[i] <= times[j],
         NEW wanted \in Nat, NEW r, r = ScoreTickLayout(d, times, wanted)
  PROVE  /\ Scored(r) /\ Cardinality(d) \in Nat
         /\ r.num = 0 => Cardinality(d) = wanted /\ Evenly(GapsOnScreen(d, times), Cardinality(d) - 1)
<1> DEFINE n == Cardinality(d) - 1  xs == GapsOnScreen(d, times)  gaps_ == IndexGaps(d)
           away_ == Apart(Cardinality(d), wanted)
<1>1. /\ n \in Nat \ {0} /\ xs \in [1..n -> Nat] /\ Len(xs) = n /\ gaps_ \in [1..n -> Int] /\ Len(gaps_) = n
  BY GapsAre
<1>2. Cardinality(d) \in Nat
  <2>1. Len(times) \in Nat
    BY LenProperties
  <2>2. InTheirOrder(InOrder(d, <), d)
    BY <2>1, OrderIs
  <2> QED BY <2>2 DEF InTheirOrder
<1>3. away_ \in Nat /\ (away_ = 0 => Cardinality(d) = wanted)
  BY <1>2 DEF Apart
<1>4. r = ScoreGaps(xs, gaps_, away_)
  BY DEF ScoreTickLayout
<1> HIDE DEF n, xs, gaps_, away_
<1>5. ScoreTells(r, xs, gaps_, n, away_)
  BY <1>1, <1>3, <1>4, ScoreIs
<1>6. r.num \in Nat /\ r.den \in Nat \ {0} /\ (r.num = 0 => away_ = 0 /\ Evenly(xs, n))
  BY <1>5 DEF ScoreTells
<1> QED BY <1>2, <1>3, <1>6 DEF Scored, xs, n

\* An even layout of as many ticks as wanted, the same from both ends, has no score to beat.
LEMMA EvenScore ==
  ASSUME NEW times \in Seq(Nat), NEW d \in SUBSET (0..(Len(times) - 1)),
         \A i \in 1..Len(times), j \in 1..Len(times) : i <= j => times[i] <= times[j],
         NEW n \in Nat \ {0}, Cardinality(d) = n + 1, Evenly(GapsOnScreen(d, times), n),
         IndexGaps(d) = Reverse(IndexGaps(d)), IndexGaps(d)[1] = Min(ToSet(IndexGaps(d)))
  PROVE  ScoreTickLayout(d, times, n + 1).num = 0
<1> DEFINE xs == GapsOnScreen(d, times)  gaps_ == IndexGaps(d)  r == ScoreTickLayout(d, times, n + 1)
<1>1. n = Cardinality(d) - 1 /\ Cardinality(d) >= 2
  OBVIOUS
<1>2. xs \in [1..n -> Nat] /\ Len(xs) = n /\ gaps_ \in [1..n -> Int] /\ Len(gaps_) = n
  BY <1>1, GapsAre
<1>3. Apart(Cardinality(d), n + 1) = 0
  BY DEF Apart
<1>4. r = ScoreGaps(xs, gaps_, 0)
  BY <1>3 DEF ScoreTickLayout
<1>5. Evenly(xs, n) /\ gaps_ = Reverse(gaps_) /\ gaps_[1] = Min(ToSet(gaps_))
  OBVIOUS
<1> HIDE DEF xs, gaps_, r
<1>6. ASSUME NEW h \in 1..n PROVE gaps_[1] <= gaps_[h] /\ gaps_[h] = gaps_[n + 1 - h]
  <2>1. Reverse(gaps_) = [i \in 1..n |-> gaps_[(n - i) + 1]]
    BY <1>2 DEF Reverse
  <2>2. (n - h) + 1 = n + 1 - h
    OBVIOUS
  <2>3. gaps_[h] = gaps_[n + 1 - h]
    BY <1>5, <2>1, <2>2
  <2> DEFINE S == ToSet(gaps_)
  <2>4. PICK i \in 1..n : \A j \in 1..n : gaps_[i] <= gaps_[j]
    <3>1. n >= 1 /\ n \in Nat /\ \A j \in 1..n : gaps_[j] \in Int
      BY <1>2
    <3> QED BY <3>1, LeastOf
  <2>5. S = {gaps_[j] : j \in 1..n}
    BY <1>2 DEF ToSet
  <2>6. S \subseteq Int /\ gaps_[i] \in S /\ \A y \in S : gaps_[i] <= y
    BY <1>2, <2>4, <2>5
  <2> HIDE DEF S
  <2>7. Min(S) = gaps_[i]
    BY <2>6, MinIs
  <2>8. gaps_[1] = gaps_[i]
    BY <1>5, <2>7 DEF S
  <2> QED BY <2>3, <2>4, <2>8
<1>7. r.num = 0
  <2>1. 0 \in Nat
    OBVIOUS
  <2>2. ScoreTells(r, xs, gaps_, n, 0)
    BY <1>2, <1>4, <2>1, ScoreIs
  <2> QED BY <1>5, <1>6, <2>2 DEF ScoreTells
<1> QED BY <1>7 DEF r

LEMMA NoneBetter ==
  ASSUME NEW new, NEW best_, Scored(new), Scored(best_)
  PROVE  /\ IsBetterTickLayout(new, best_) /\ best_.num = 0 => new.num = 0
         /\ ~IsBetterTickLayout(new, best_) /\ new.num = 0 => best_.num = 0
<1> DEFINE n == new.num * best_.den  b == best_.num * new.den
<1>1. new.num \in Nat /\ new.den \in Nat \ {0} /\ best_.num \in Nat /\ best_.den \in Nat \ {0}
  BY DEF Scored
<1>2. n \in Nat /\ (n = 0 => new.num = 0) /\ 0 * best_.den = 0
  BY <1>1, NoProduct
<1>3. b \in Nat /\ (b = 0 => best_.num = 0) /\ 0 * new.den = 0
  BY <1>1, NoProduct
<1>4. (new.num = 0 => n = 0) /\ (best_.num = 0 => b = 0)
  BY <1>2, <1>3
<1>5. (n < b => IsBetterTickLayout(new, best_)) /\ (IsBetterTickLayout(new, best_) => n < b \/ n = b)
  BY DEF IsBetterTickLayout
<1> HIDE DEF n, b
<1> QED BY <1>2, <1>3, <1>4, <1>5

\* The days of a layout.
DistinctDays(d, times) == \A i \in d, j \in d : j < i => AxisLabel(times[j + 1]) # AxisLabel(times[i + 1])

LEMMA DedupedDays ==
  ASSUME NEW d, NEW times
  PROVE  DistinctDays(DedupeByLabel(d, times), times) /\ DedupeByLabel(d, times) \subseteq d
BY DEF DedupeByLabel, DistinctDays

\* What is best of all the layouts scores nought where one of them does.
LEMMA BestIs ==
  ASSUME NEW times \in Seq(Nat), NEW wanted \in Nat, wanted >= 2, wanted < Len(times),
         \A i \in 1..Len(times), j \in 1..Len(times) : i <= j => times[i] <= times[j],
         NEW l \in AllIndexLayouts(Len(times), wanted), DedupeByLabel(l, times) = l,
         ScoreTickLayout(l, times, wanted).num = 0,
         NEW best_, best_ = SelectEvenlySpaced(times, wanted)
  PROVE  /\ best_ \in SUBSET (0..(Len(times) - 1)) /\ Cardinality(best_) >= 2
         /\ ScoreTickLayout(best_, times, wanted).num = 0
         /\ best_ = IndicesForTickCount(Len(times), wanted) \/ DistinctDays(best_, times)
<1> DEFINE W == 0..(Len(times) - 1)  base_ == IndicesForTickCount(Len(times), wanted)
           num_(d) == ScoreTickLayout(d, times, wanted).num
<1>1. Len(times) \in Nat
  BY LenProperties
<1>2. \E g, s, m : /\ m \in Nat /\ s \in [1..m -> LayoutsFor(times, wanted)]
                   /\ \A e \in LayoutsFor(times, wanted) : \E i \in 1..m : s[i] = e
                   /\ BestSoFar(g, s, m, times, wanted)
  BY <1>1, BestSteps
<1>3. PICK g, s, m : /\ m \in Nat /\ s \in [1..m -> LayoutsFor(times, wanted)]
                     /\ \A e \in LayoutsFor(times, wanted) : \E i \in 1..m : s[i] = e
                     /\ BestSoFar(g, s, m, times, wanted)
  BY <1>2
<1>4. /\ g \in [0..m -> SUBSET W] /\ g[0] = base_ /\ g[m] = best_
      /\ \A i \in 1..m : g[i] = Better(g[i - 1], s[i], times, wanted)
  BY <1>3 DEF BestSoFar
<1>5. Cardinality(l) = wanted /\ Cardinality(base_) = wanted /\ l \in SUBSET W /\ base_ \in SUBSET W
  <2>1. Len(times) >= 1
    BY <1>1
  <2>2. base_ \in SUBSET W
    BY <1>1, <2>1, IndicesIn
  <2>3. l \in SUBSET W /\ Cardinality(l) = wanted
    BY <1>1, LayoutHas
  <2> QED BY <1>1, <2>2, <2>3, IndicesCount
<1>6. \A e \in LayoutsFor(times, wanted) : e \in SUBSET W
  BY <1>1, LayoutsIn
<1>7. PICK i0 \in 1..m : s[i0] = l
  <2>1. wanted \in (wanted - 1)..(wanted + 1)
    OBVIOUS
  <2>2. AllIndexLayouts(Len(times), wanted) \subseteq LayoutsFor(times, wanted)
    BY <1>1, <2>1, LayoutsIn
  <2>3. l \in LayoutsFor(times, wanted)
    BY <2>2
  <2> QED BY <1>3, <2>3
<1> HIDE DEF W, base_
<1>8. ASSUME NEW d \in SUBSET W, Cardinality(d) >= 2
      PROVE  Scored(ScoreTickLayout(d, times, wanted)) /\ num_(d) \in Nat
  <2>1. Scored(ScoreTickLayout(d, times, wanted))
    BY <1>8, LayoutScored DEF W
  <2> QED BY <2>1 DEF Scored
<1>9. num_(l) = 0
  OBVIOUS
<1> DEFINE P(i) == /\ Cardinality(g[i]) >= 2
                   /\ g[i] = base_ \/ DistinctDays(g[i], times)
                   /\ i0 <= i => num_(g[i]) = 0
           T == {i \in Nat : i <= m => P(i)}
<1> HIDE DEF num_
<1>10. P(0)
  <2>1. ~(i0 <= 0)
    BY <1>3
  <2> QED BY <1>4, <1>5, <2>1
<1>11. ASSUME NEW i \in Nat, i + 1 <= m, P(i)
       PROVE  P(i + 1)
  <2> DEFINE u == g[i]  z == g[i + 1]  candidate == s[i + 1]  d == DedupeByLabel(candidate, times)
             better_ == IsBetterTickLayout(ScoreTickLayout(d, times, wanted), ScoreTickLayout(u, times, wanted))
  <2>1. i + 1 \in 1..m /\ (i + 1) - 1 = i /\ i \in 0..m
    BY <1>3, <1>11
  <2>2. z = Better(u, candidate, times, wanted)
    BY <1>4, <2>1
  <2>3. z = IF Cardinality(d) >= 2 /\ better_ THEN d ELSE u
    BY <2>2 DEF Better
  <2>4. u \in SUBSET W
    BY <1>4, <2>1
  <2>5. candidate \in SUBSET W
    BY <1>3, <1>6, <2>1
  <2>6. d \in SUBSET W /\ DistinctDays(d, times)
    BY <2>5, DedupedDays
  <2>7. /\ Cardinality(u) >= 2 /\ (u = base_ \/ DistinctDays(u, times)) /\ (i0 <= i => num_(u) = 0)
    BY <1>11
  <2>8. i0 <= i + 1 => i0 <= i \/ i0 = i + 1
    BY <1>3
  <2>9. i0 = i + 1 => d = l
    BY <1>7
  <2>10. num_(d) = ScoreTickLayout(d, times, wanted).num /\ num_(u) = ScoreTickLayout(u, times, wanted).num
    BY DEF num_
  <2>11. Scored(ScoreTickLayout(u, times, wanted))
    BY <1>8, <2>4, <2>7
  <2> HIDE DEF u, d, z, candidate
  <2>12. CASE Cardinality(d) >= 2 /\ better_
    <3>1. z = d
      BY <2>3, <2>12
    <3>2. Scored(ScoreTickLayout(d, times, wanted))
      BY <1>8, <2>6, <2>12
    <3>3. num_(u) = 0 => num_(d) = 0
      BY <2>10, <2>11, <2>12, <3>2, NoneBetter
    <3>4. i0 <= i + 1 => num_(d) = 0
      BY <1>9, <2>7, <2>8, <2>9, <3>3
    <3>5. Cardinality(z) >= 2 /\ (z = base_ \/ DistinctDays(z, times)) /\ (i0 <= i + 1 => num_(z) = 0)
      BY <2>6, <2>12, <3>1, <3>4
    <3> QED BY <3>5 DEF z
  <2>13. CASE ~(Cardinality(d) >= 2 /\ better_)
    <3>1. z = u
      BY <2>3, <2>13
    <3>2. ASSUME i0 = i + 1 PROVE num_(u) = 0
      <4>1. d = l /\ Cardinality(d) >= 2
        BY <1>5, <2>9, <3>2
      <4>2. ~better_
        BY <2>13, <4>1
      <4>3. Scored(ScoreTickLayout(d, times, wanted)) /\ num_(d) = 0
        BY <1>8, <1>9, <2>6, <4>1
      <4> QED BY <2>10, <2>11, <4>2, <4>3, NoneBetter
    <3>3. Cardinality(z) >= 2 /\ (z = base_ \/ DistinctDays(z, times)) /\ (i0 <= i + 1 => num_(z) = 0)
      BY <2>7, <2>8, <3>1, <3>2
    <3> QED BY <3>3 DEF z
  <2> QED BY <2>12, <2>13
<1> HIDE DEF P
<1>12. 0 \in T
  BY <1>10
<1>13. ASSUME NEW i \in Nat, i \in T
       PROVE  i + 1 \in T
  <2> SUFFICES ASSUME i + 1 <= m PROVE P(i + 1)
    OBVIOUS
  <2>1. i <= m
    BY <1>3
  <2>2. P(i)
    BY <1>13, <2>1
  <2> QED BY <1>11, <2>2
<1> HIDE DEF T
<1>14. m \in T
  BY <1>3, <1>12, <1>13, NatInduct
<1>15. P(m)
  BY <1>3, <1>14 DEF T
<1>16. i0 <= m /\ m \in 0..m
  BY <1>3
<1>17. g[m] \in SUBSET W /\ Cardinality(g[m]) >= 2 /\ num_(g[m]) = 0 /\ (g[m] = base_ \/ DistinctDays(g[m], times))
  BY <1>4, <1>15, <1>16 DEF P
<1> QED BY <1>4, <1>17 DEF W, base_, num_

\* As many labels as ticks, where each has a day of its own.
DaysApart(times, d) ==
    \A k \in 1..Cardinality(d), l \in 1..Cardinality(d) : k < l => AxisLabel(DateOf(times, d, k)) # AxisLabel(DateOf(times, d, l))

LEMMA DaysOfLayout ==
  ASSUME NEW times \in Seq(Nat), NEW d \in SUBSET (0..(Len(times) - 1)), DistinctDays(d, times)
  PROVE  DaysApart(times, d)
<1> DEFINE q == InOrder(d, <)  n == Cardinality(d)
<1>1. Len(times) \in Nat
  BY LenProperties
<1>2. InTheirOrder(q, d)
  BY <1>1, OrderIs
<1>3. q \in [1..n -> d] /\ \A i \in 1..n, j \in 1..n : i < j => q[i] < q[j]
  BY <1>2 DEF InTheirOrder
<1>4. \A k \in 1..n : DateOf(times, d, k) = times[q[k] + 1]
  BY DEF DateOf
<1> HIDE DEF q
<1>5. ASSUME NEW k \in 1..n, NEW l \in 1..n, k < l
      PROVE  AxisLabel(DateOf(times, d, k)) # AxisLabel(DateOf(times, d, l))
  <2>1. q[k] \in d /\ q[l] \in d /\ q[k] < q[l]
    BY <1>3, <1>5
  <2>2. AxisLabel(times[q[k] + 1]) # AxisLabel(times[q[l] + 1])
    BY <2>1 DEF DistinctDays
  <2> QED BY <1>4, <2>2
<1> QED BY <1>5 DEF DaysApart

LEMMA TicksCount ==
  ASSUME OnAxis, NEW rr \in SUBSET (0..(Len(Visible) - 1)), DaysApart(Visible, rr)
  PROVE  Len(TicksOn(InOrder(rr, <), Visible)) = Cardinality(rr)
<1> DEFINE q == InOrder(rr, <)  n == Cardinality(rr)
           to(k) == Tick(Visible[q[k] + 1])
           s == [k \in 1..n |-> to(k)]
           X == Spots
<1>1. /\ Visible \in Seq(Nat) /\ Len(Visible) \in Nat
      /\ \A i \in 1..Len(Visible) : Visible[i] \in XDomain.from..XDomain.to
      /\ \A i \in 1..Len(Visible), j \in 1..Len(Visible) : i <= j => Visible[i] <= Visible[j]
  BY DEF OnAxis
<1>2. InTheirOrder(q, rr)
  BY <1>1, OrderIs
<1>3. n \in Nat /\ q \in [1..n -> rr] /\ Len(q) = n
  BY <1>2 DEF InTheirOrder
<1>4. TicksOn(q, Visible) = FirstOfLabel(s)
  BY <1>3 DEF TicksOn
<1>5. /\ \A k \in 1..n : DateOf(Visible, rr, k) \in Nat /\ q[k] + 1 \in 1..Len(Visible)
      /\ \A k \in 1..n, l \in 1..n : k <= l => DateOf(Visible, rr, k) <= DateOf(Visible, rr, l)
  BY <1>1, DatesLie
<1>6. \A k \in 1..n : DateOf(Visible, rr, k) = Visible[q[k] + 1]
  BY DEF DateOf
<1> HIDE DEF q
<1>7. \A k \in 1..n : to(k) \in X /\ to(k).label = AxisLabel(DateOf(Visible, rr, k))
  <2> TAKE k \in 1..n
  <2>1. Visible[q[k] + 1] \in XDomain.from..XDomain.to
    BY <1>1, <1>5
  <2> QED BY <1>6, <2>1 DEF Spots, Tick
<1>8. \A x \in X : x.label \in Int
  BY SpotsLie
<1> HIDE DEF X, to
<1>9. s \in [1..n -> X] /\ \A k \in 1..n : s[k] = to(k)
  BY <1>7
<1> HIDE DEF s
<1>10. ASSUME NEW a \in 1..n, NEW b \in 1..n, a <= b
       PROVE  s[a].label <= s[b].label
  <2>1. DateOf(Visible, rr, a) \in Int /\ DateOf(Visible, rr, b) \in Int
    BY <1>5
  <2>2. DateOf(Visible, rr, a) <= DateOf(Visible, rr, b)
    BY <1>5, <1>10
  <2>3. AxisLabel(DateOf(Visible, rr, a)) <= AxisLabel(DateOf(Visible, rr, b))
    BY <2>1, <2>2, LaterDay
  <2> QED BY <1>7, <1>9, <2>3
<1>11. ASSUME NEW a \in 1..n, NEW b \in 1..n, a < b
       PROVE  s[a].label < s[b].label
  <2>1. a <= b
    BY <1>3, <1>11
  <2>2. s[a].label <= s[b].label
    BY <1>10, <2>1
  <2>3. s[a].label # s[b].label
    BY <1>7, <1>9, <1>11 DEF DaysApart
  <2>4. s[a].label \in Int /\ s[b].label \in Int
    BY <1>8, <1>9
  <2> QED BY <2>2, <2>3, <2>4
<1> HIDE DEF n
<1> DEFINE r == FirstOfLabel(s)
<1>12. Len(r) = n
  BY <1>3, <1>8, <1>9, <1>10, <1>11, FirstOfLabelIs
<1> QED BY <1>4, <1>12 DEF q, r, n

LEMMA OneGap ==
  ASSUME NEW n \in Nat \ {0}, NEW xs \in [1..n -> Nat]
  PROVE  Cardinality(ToSet(xs)) = 1 <=> Evenly(xs, n)
<1> DEFINE S == ToSet(xs)
<1>1. S = {xs[i] : i \in 1..n} /\ 1 \in 1..n
  BY DEF ToSet
<1>2. IsFiniteSet(S)
  <2> DEFINE f == [i \in 1..n |-> xs[i]]
  <2>1. f \in Surjection(1..n, S)
    BY <1>1 DEF Surjection
  <2>2. 1 \in Int /\ n \in Int
    OBVIOUS
  <2>3. IsFiniteSet(1..n)
    BY <2>2, FS_Interval
  <2> HIDE DEF f, S
  <2> QED BY <2>1, <2>3, FS_Surjection
<1> HIDE DEF S
<1>3. Cardinality(S) = 1 <=> \E x : S = {x}
  BY <1>2, FS_Singleton
<1>4. ASSUME NEW x, S = {x} PROVE Evenly(xs, n)
  <2>1. \A i \in 1..n : xs[i] \in S
    BY <1>1
  <2> QED BY <1>4, <2>1 DEF Evenly
<1>5. ASSUME Evenly(xs, n) PROVE S = {xs[1]}
  BY <1>1, <1>5 DEF Evenly
<1> QED BY <1>3, <1>4, <1>5 DEF S

\* Where an even layout scores nought, the best is even too, and its labels are as many as wanted.
LEMMA EvenLabels == AxisLaid => EvenWhenPossible
<1> SUFFICES ASSUME AxisLaid, OnRows, NEW l \in EvenLayouts,
                    IndexGaps(l) = Reverse(IndexGaps(l)), IndexGaps(l)[1] = Min(ToSet(IndexGaps(l)))
             PROVE  EvenShown
  BY DEF EvenWhenPossible
<1> DEFINE times == Visible  best_ == SelectEvenlySpaced(Visible, numTicks)  m == numTicks - 1
<1>1. OnAxis
  BY RowsLie
<1>2. /\ times \in Seq(Nat) /\ Len(times) \in Nat
      /\ \A i \in 1..Len(times), j \in 1..Len(times) : i <= j => times[i] <= times[j]
      /\ numTicks \in Nat /\ numTicks >= 2 /\ m \in Nat \ {0} /\ numTicks = m + 1
  BY <1>1 DEF OnAxis
<1>3. tickMode = "data" /\ Len(times) > numTicks /\ ~DomainExtendsPastData
  BY DEF OnRows
<1>4. l \in AllIndexLayouts(Len(times), numTicks) /\ EvenOnScreen(l) /\ DedupeByLabel(l, times) = l
  BY DEF EvenLayouts
<1>5. numTicks < Len(times)
  BY <1>2, <1>3
<1>6. LabelsToShow = TicksOn(InOrder(best_, <), times)
  <2>1. LabelsToShow = WithTail(BuildDataAlignedTicks(times))
    BY <1>3 DEF LabelsToShow
  <2>2. WithTail(BuildDataAlignedTicks(times)) = BuildDataAlignedTicks(times)
    BY <1>3 DEF WithTail
  <2> QED BY <2>1, <2>2 DEF BuildDataAlignedTicks
<1>7. /\ EvenOnScreen(l) <=> Cardinality(ToSet(GapsOnScreen(l, times))) = 1
      /\ EvenOnScreen(best_) <=> Cardinality(ToSet(GapsOnScreen(best_, times))) = 1
  BY DEF EvenOnScreen
<1>8. EvenShown <=> Len(LabelsToShow) = numTicks /\ EvenOnScreen(best_)
  BY DEF EvenShown
<1>9. best_ = SelectEvenlySpaced(times, numTicks)
  OBVIOUS
<1> HIDE DEF times, best_, m
<1>10. l \in SUBSET (0..(Len(times) - 1)) /\ 0 \in l /\ Len(times) - 1 \in l /\ Cardinality(l) = numTicks
  BY <1>2, <1>4, <1>5, LayoutHas
<1>11. Cardinality(l) = m + 1 /\ m = Cardinality(l) - 1 /\ Cardinality(l) >= 2
  BY <1>2, <1>10
<1>12. Evenly(GapsOnScreen(l, times), m)
  <2>1. GapsOnScreen(l, times) \in [1..m -> Nat]
    BY <1>2, <1>10, <1>11, GapsAre
  <2> QED BY <1>2, <1>4, <1>7, <2>1, OneGap
<1>13. ScoreTickLayout(l, times, numTicks).num = 0
  BY <1>2, <1>10, <1>11, <1>12, EvenScore
<1>14. /\ best_ \in SUBSET (0..(Len(times) - 1)) /\ Cardinality(best_) >= 2
       /\ ScoreTickLayout(best_, times, numTicks).num = 0
       /\ best_ = IndicesForTickCount(Len(times), numTicks) \/ DistinctDays(best_, times)
  BY <1>2, <1>4, <1>5, <1>9, <1>13, BestIs
<1>15. Cardinality(best_) = numTicks /\ Evenly(GapsOnScreen(best_, times), Cardinality(best_) - 1)
  BY <1>2, <1>14, LayoutScored
<1>16. Cardinality(best_) = m + 1 /\ m = Cardinality(best_) - 1 /\ Evenly(GapsOnScreen(best_, times), m)
  BY <1>2, <1>15
<1>17. EvenOnScreen(best_)
  <2>1. GapsOnScreen(best_, times) \in [1..m -> Nat]
    BY <1>2, <1>14, <1>16, GapsAre
  <2> QED BY <1>2, <1>7, <1>16, <2>1, OneGap
<1>18. DaysApart(times, best_)
  <2>1. CASE DistinctDays(best_, times)
    BY <1>2, <1>14, <2>1, DaysOfLayout
  <2>2. CASE best_ = IndicesForTickCount(Len(times), numTicks)
    <3>1. Len(times) >= 1
      BY <1>2, <1>5
    <3>2. 0 \in best_ /\ Len(times) - 1 \in best_
      BY <1>2, <2>2, <3>1, IndicesIn
    <3>3. PICK a : Stepped(times, best_, m, a)
      BY <1>2, <1>14, <1>16, <3>2, EvenSteps
    <3>4. PICK b : Stepped(times, l, m, b)
      BY <1>2, <1>10, <1>11, <1>12, EvenSteps
    <3>5. \A k \in 1..(m + 1) : DateOf(times, best_, k) = DateOf(times, l, k)
      BY <1>2, <3>3, <3>4, SameDates
    <3>6. DistinctDays(l, times)
      BY <1>4, DedupedDays
    <3>7. DaysApart(times, l)
      BY <1>2, <1>10, <3>6, DaysOfLayout
    <3> QED BY <1>11, <1>16, <3>5, <3>7 DEF DaysApart
  <2> QED BY <1>14, <2>1, <2>2
<1>19. Len(TicksOn(InOrder(best_, <), times)) = Cardinality(best_)
  BY <1>1, <1>14, <1>18, TicksCount DEF times
<1> QED BY <1>6, <1>8, <1>15, <1>17, <1>19
==============================================================================
