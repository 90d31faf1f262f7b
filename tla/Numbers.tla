------------------------------ MODULE Numbers ------------------------------
(***************************************************************************)
(* Quotients, rests and products, as the proofs about places on the card   *)
(* need them: clusters of sectors, sectors of records, sectors of bytes;   *)
(* and least numbers, which take the place of induction; and what these    *)
(* say of a loop: that its values are there, and what they keep.           *)
(***************************************************************************)
EXTENDS Integers, WellFoundedInduction, TLAPS

\* A number is its quotient and its rest.
LEMMA Division ==
  ASSUME NEW a \in Int, NEW b \in Int, b > 0
  PROVE  a = b * (a \div b) + (a % b)
BY SMTT(30)

\* A rest that nothing was taken from.
LEMMA SmallRest ==
  ASSUME NEW a \in Int, NEW b \in Int, 0 <= a, a < b
  PROVE  a % b = a
OBVIOUS

\* The same, as a number of things of size b and a place in the next one.
LEMMA Divides ==
  ASSUME NEW a \in Nat, NEW b \in Nat \ {0}
  PROVE  /\ a \div b \in Nat /\ a % b \in 0 .. b - 1
         /\ a = (a \div b) * b + (a % b)
<1>1. a \div b \in Nat /\ a % b \in 0 .. b - 1
  OBVIOUS
<1>2. a = b * (a \div b) + (a % b)
  <2>1. a \in Int /\ b \in Int /\ b > 0
    OBVIOUS
  <2> QED BY <2>1, Division, Zenon
<1>3. b * (a \div b) = (a \div b) * b
  BY <1>1
<1> QED BY <1>1, <1>2, <1>3

\* A product with a positive factor is no smaller than the other factor.
LEMMA ProductGrows ==
  ASSUME NEW k \in Nat, k > 0, NEW n \in Nat
  PROVE  k * n \in Nat /\ k * n >= n
<1>1. k * n = (k - 1) * n + n
  OBVIOUS
<1>2. (k - 1) * n >= 0
  OBVIOUS
<1> QED BY <1>1, <1>2

\* Things of size b laid out one behind the other do not overlap.
LEMMA PlacesApart ==
  ASSUME NEW b \in Nat \ {0}, NEW q \in Int, NEW p \in Int,
         NEW r \in 0 .. b - 1, NEW s \in 0 .. b - 1, q * b + r = p * b + s
  PROVE  q = p /\ r = s
<1>1. (q - p) * b = s - r
  OBVIOUS
<1>2. CASE q > p
  <2>1. (q - p) * b >= b
    BY <1>2, ProductGrows
  <2> QED BY <1>1, <2>1
<1>3. CASE p > q
  <2>1. (p - q) * b >= b
    BY <1>3, ProductGrows
  <2>2. (p - q) * b = r - s
    BY <1>1
  <2> QED BY <2>1, <2>2
<1>4. CASE q = p
  BY <1>4
<1> QED BY <1>2, <1>3, <1>4

\* Quotient and rest are found by any way of writing a number with them.
LEMMA DividedIs ==
  ASSUME NEW b \in Nat \ {0}, NEW q \in Nat, NEW r \in 0 .. b - 1,
         NEW a \in Nat, a = q * b + r
  PROVE  a \div b = q /\ a % b = r
<1>1. /\ a = (a \div b) * b + (a % b)
      /\ a \div b \in Nat /\ a % b \in 0 .. b - 1
  BY Divides
<1> QED BY <1>1, PlacesApart

\* As many times as b fits into a.
LEMMA QuotientsGrow ==
  ASSUME NEW a \in Nat, NEW b \in Nat \ {0}, NEW q \in Nat, q * b <= a
  PROVE  q <= a \div b
<1>1. a = (a \div b) * b + (a % b) /\ a \div b \in Nat /\ a % b \in 0 .. b - 1
  BY Divides
<1> DEFINE p == a \div b
<1>2. a = p * b + (a % b) /\ p \in Nat /\ a % b < b /\ a % b \in Nat
  BY <1>1
<1> HIDE DEF p
<1>3. SUFFICES ASSUME q > p PROVE FALSE
  BY <1>2 DEF p
<1>4. (q - p) * b >= b
  BY <1>2, <1>3, ProductGrows
<1>5. q * b = p * b + (q - p) * b
  BY <1>2
<1>6. p * b \in Nat /\ q * b \in Nat /\ (q - p) * b \in Int
  BY <1>2
<1> QED BY <1>2, <1>4, <1>5, <1>6

\* Quotients keep the order,
LEMMA QuotientsInOrder ==
  ASSUME NEW b \in Nat \ {0}, NEW s \in Nat, NEW n \in Nat, s <= n
  PROVE  s \div b <= n \div b
<1> DEFINE q == s \div b
           r == s % b
<1>1. q \in Nat /\ r \in Nat /\ s = q * b + r
  BY Divides
<1> HIDE DEF q, r
<1>2. q * b \in Nat
  BY <1>1
<1>3. q * b <= n
  BY <1>1, <1>2
<1>4. q <= n \div b
  BY <1>1, <1>3, QuotientsGrow
<1> QED BY <1>4 DEF q

\* and do not jump.
LEMMA QuotientOfNext ==
  ASSUME NEW b \in Nat \ {0}, NEW n \in Nat
  PROVE  (n + 1) \div b <= (n \div b) + 1
<1> DEFINE q == n \div b
           r == n % b
           a == n + 1
           p == a \div b
           t == a % b
<1>1. q \in Nat /\ r \in 0 .. b - 1 /\ n = q * b + r
  BY Divides
<1>2. p \in Nat /\ t \in 0 .. b - 1 /\ a = p * b + t
  <2>1. a \in Nat
    OBVIOUS
  <2> HIDE DEF a
  <2> QED BY <2>1, Divides
<1>3. p * b + t = q * b + r + 1
  BY <1>1, <1>2
<1> HIDE DEF q, r, p, t
<1>4. SUFFICES ASSUME p > q + 1 PROVE FALSE
  BY <1>1, <1>2 DEF p, q
<1>5. (p - q - 1) * b >= b
  <2>1. p - q - 1 \in Nat /\ p - q - 1 > 0
    BY <1>1, <1>2, <1>4
  <2> DEFINE k == p - q - 1
  <2>2. k \in Nat /\ k > 0
    BY <2>1
  <2> HIDE DEF k
  <2>3. k * b >= b
    BY <2>2, ProductGrows
  <2> QED BY <2>3 DEF k
<1>6. (p - q - 1) * b = p * b - q * b - b
  BY <1>1, <1>2
<1>7. p * b \in Nat /\ q * b \in Nat
  BY <1>1, <1>2
<1> QED BY <1>1, <1>2, <1>3, <1>5, <1>6, <1>7

\* A set of numbers has a least one.
LEMMA LeastNumber ==
  ASSUME NEW T \in SUBSET Nat, T # {}
  PROVE  \E m \in T : \A k \in T : m <= k
<1>1. PICK m \in T : \A k \in T : ~ (<< k, m >> \in OpToRel(<, Nat))
  BY NatLessThanWellFounded, WFMin
<1>2. \A k \in T : ~ (k < m)
  BY <1>1 DEF OpToRel
<1> QED BY <1>2

\* What holds at first and is kept from each number to the next holds of all.
LEMMA CarriedOn ==
  ASSUME NEW n \in Nat, NEW good, 0 \in good,
         \A k \in 1 .. n : k - 1 \in good => k \in good
  PROVE  \A k \in 0 .. n : k \in good
<1> DEFINE bad == {k \in 0 .. n : k \notin good}
<1>1. SUFFICES ASSUME bad # {} PROVE FALSE
  OBVIOUS
<1>2. PICK m \in bad : \A k \in bad : m <= k
  <2>1. bad \in SUBSET Nat
    OBVIOUS
  <2> HIDE DEF bad
  <2> QED BY <1>1, <2>1, LeastNumber
<1>3. m \in 1 .. n
  BY <1>2
<1>4. m - 1 \in good
  BY <1>2, <1>3
<1> QED BY <1>2, <1>3, <1>4

\* The values of a loop of n rounds: c at first, and T of the value before and
\* the number of the round.
LoopValues(g, n, c, T) ==
  \A k \in 0 .. n : g[k] = IF k = 0 THEN c ELSE T[<<g[k - 1], k>>]

\* Every loop has its values: the equation of a recursive function is solved.
LEMMA LoopHasValues ==
  ASSUME NEW n \in Nat, NEW S, NEW c \in S, NEW T \in [S \X (1 .. n) -> S]
  PROVE  \E g \in [0 .. n -> S] : LoopValues(g, n, c, T)
<1> DEFINE good == {m \in 0 .. n : \E g \in [0 .. m -> S] : LoopValues(g, m, c, T)}
<1>1. 0 \in good
  <2> DEFINE g == [k \in 0 .. 0 |-> c]
  <2>1. g \in [0 .. 0 -> S] /\ LoopValues(g, 0, c, T)
    BY DEF LoopValues
  <2> HIDE DEF g
  <2> QED BY <2>1
<1>2. ASSUME NEW m \in 1 .. n, m - 1 \in good
      PROVE  m \in good
  <2>1. PICK g \in [0 .. m - 1 -> S] : LoopValues(g, m - 1, c, T)
    BY <1>2
  <2> DEFINE h == [k \in 0 .. m |-> IF k = m THEN T[<<g[m - 1], m>>] ELSE g[k]]
  <2>2. T[<<g[m - 1], m>>] \in S
    BY <2>1
  <2>3. h \in [0 .. m -> S]
    BY <2>1, <2>2
  <2>4. ASSUME NEW k \in 0 .. m
        PROVE  h[k] = IF k = 0 THEN c ELSE T[<<h[k - 1], k>>]
    <3>1. CASE k = m
      BY <2>1, <3>1 DEF LoopValues
    <3>2. CASE k # m
      <4>1. k \in 0 .. m - 1 /\ (k # 0 => k - 1 \in 0 .. m /\ k - 1 # m)
        BY <3>2
      <4>2. g[k] = IF k = 0 THEN c ELSE T[<<g[k - 1], k>>]
        BY <2>1, <4>1 DEF LoopValues
      <4> QED BY <3>2, <4>1, <4>2
    <3> QED BY <3>1, <3>2
  <2>5. LoopValues(h, m, c, T)
    BY <2>4 DEF LoopValues
  <2> HIDE DEF h
  <2> QED BY <2>3, <2>5
<1> HIDE DEF good
<1>3. n \in good
  BY <1>1, <1>2, CarriedOn
<1> QED BY <1>3 DEF good

=====
