-------------------------- MODULE NaturalNumbers --------------------------
(***************************************************************************)
(* Facts about the natural numbers that the proofs about the progress of a *)
(* capture and about the envelope rest on: induction, in a form that takes *)
(* a set and not a predicate, recursion, and division.                     *)
(***************************************************************************)
EXTENDS Naturals, WellFoundedInduction, TLAPS

(* Every set of numbers that is not empty has a least one. Induction over data
   is by contradiction from the least counterexample. *)
LEMMA LeastNumber ==
    ASSUME NEW T \in SUBSET Nat, T # {}
    PROVE  \E x \in T : \A y \in T : x <= y
<1> DEFINE R == OpToRel(<, Nat)
<1>1. IsWellFoundedOn(R, Nat)
  BY NatLessThanWellFounded
<1>2. \A x, y \in Nat : y < x => <<y, x>> \in R
  BY DEF OpToRel
<1> HIDE DEF R
<1>3. PICK x \in T : \A y \in T : ~ (<<y, x>> \in R)
  BY <1>1, WFMin
<1>4. \A y \in T : ~(y < x)
  BY <1>2, <1>3
<1>5. \A y \in T : x <= y
  BY <1>4
<1> QED
  BY <1>5

(* A set of numbers that has zero, and with each number the next, has all. *)
LEMMA Induction ==
    ASSUME NEW S, 0 \in S, \A n \in Nat : n \in S => n + 1 \in S
    PROVE  Nat \subseteq S
<1> SUFFICES ASSUME Nat \ S # {} PROVE FALSE
  OBVIOUS
<1>1. PICK x \in Nat \ S : \A y \in Nat \ S : x <= y
  BY LeastNumber
<1>2. x # 0 /\ x - 1 \in Nat /\ (x - 1) + 1 = x
  BY <1>1
<1>3. x - 1 \in S
  BY <1>1, <1>2
<1> QED
  BY <1>1, <1>2, <1>3

(* The same for the numbers up to m. *)
LEMMA InductionUpTo ==
    ASSUME NEW m \in Nat, NEW S, 0 \in S, \A n \in 1..m : n - 1 \in S => n \in S
    PROVE  0..m \subseteq S
<1> DEFINE T == {n \in Nat : n <= m => n \in S}
<1>1. 0 \in T
  OBVIOUS
<1>2. ASSUME NEW n \in Nat, n \in T PROVE n + 1 \in T
  <2>1. n + 1 <= m => n <= m /\ n + 1 \in 1..m /\ (n + 1) - 1 = n
    OBVIOUS
  <2> QED
    BY <1>2, <2>1
<1>3. \A n \in 0..m : n \in Nat /\ n <= m
  OBVIOUS
<1> HIDE DEF T
<1>4. Nat \subseteq T
  BY <1>1, <1>2, Induction
<1> QED
  BY <1>3, <1>4 DEF T

(* g is defined up to m by recursion, each value from its argument and the one
   before. *)
Solves(g, m, first, next) ==
    \A k \in 0..m : g[k] = IF k = 0 THEN first ELSE next[k][g[k - 1]]

(* Such a recursion has a solution. *)
LEMMA RecursionSolved ==
    ASSUME NEW V, NEW first \in V, NEW next \in [Nat -> [V -> V]], NEW m \in Nat
    PROVE  \E g \in [0..m -> V] : Solves(g, m, first, next)
<1> DEFINE S == {n \in Nat : \E g \in [0..n -> V] : Solves(g, n, first, next)}
<1>1. 0 \in S
  <2> DEFINE g == [k \in 0..0 |-> first]
  <2>1. g \in [0..0 -> V] /\ \A k \in 0..0 : k = 0 /\ g[k] = first
    OBVIOUS
  <2> QED
    BY <2>1 DEF Solves
<1>2. ASSUME NEW n \in Nat, n \in S PROVE n + 1 \in S
  <2>1. PICK g \in [0..n -> V] : Solves(g, n, first, next)
    BY <1>2
  <2> DEFINE h == [k \in 0..(n + 1) |-> IF k = n + 1 THEN next[n + 1][g[n]] ELSE g[k]]
  <2>2. \A k \in 0..(n + 1) : k = n + 1 \/ k \in 0..n
    OBVIOUS
  <2>3. n + 1 \in 0..(n + 1) /\ n \in 0..n /\ \A k \in 0..n : k \in 0..(n + 1) /\ k # n + 1
    OBVIOUS
  <2>4. next[n + 1][g[n]] \in V
    <3>1. n + 1 \in Nat /\ g[n] \in V
      BY <2>3
    <3> QED
      BY <3>1
  <2>5. h \in [0..(n + 1) -> V]
    BY <2>2, <2>4
  <2>6. h[n + 1] = next[n + 1][g[n]] /\ \A k \in 0..n : h[k] = g[k]
    BY <2>3
  <2> HIDE DEF h
  <2>7. ASSUME NEW k \in 0..(n + 1)
        PROVE  h[k] = IF k = 0 THEN first ELSE next[k][h[k - 1]]
    <3>1. CASE k = n + 1
      <4>1. k - 1 = n /\ k # 0
        BY <3>1
      <4> QED
        BY <3>1, <4>1, <2>3, <2>6
    <3>2. CASE k \in 0..n
      <4>1. g[k] = IF k = 0 THEN first ELSE next[k][g[k - 1]]
        BY <2>1, <3>2 DEF Solves
      <4>2. k # 0 => k - 1 \in 0..n
        BY <3>2
      <4> QED
        BY <2>6, <3>2, <4>1, <4>2
    <3> QED
      BY <2>2, <3>1, <3>2
  <2>8. Solves(h, n + 1, first, next)
    BY <2>7 DEF Solves
  <2>9. n + 1 \in Nat
    OBVIOUS
  <2> QED
    BY <2>5, <2>8, <2>9
<1> HIDE DEF S
<1>3. Nat \subseteq S
  BY <1>1, <1>2, Induction
<1> QED
  BY <1>3 DEF S

----------------------------------------------------------------------------
(* A smaller product with the same factor has the smaller other factor. *)
LEMMA CancelFactor ==
    ASSUME NEW a \in Nat, NEW b \in Nat, NEW c \in Nat \ {0}
    PROVE  /\ a * c < b * c => a < b
           /\ a <= b => a * c <= b * c
           /\ a < b => a * c + c <= b * c
           /\ a * c \in Nat /\ b * c \in Nat
<1>1. a <= b => a * c <= b * c
  OBVIOUS
<1>2. a < b => a * c + c <= b * c
  <2>1. SUFFICES ASSUME a + 1 <= b PROVE a * c + c <= b * c
    OBVIOUS
  <2>2. (a + 1) * c <= b * c /\ (a + 1) * c = a * c + c
    BY <2>1
  <2> QED
    BY <2>2
<1>3. b <= a => b * c <= a * c
  OBVIOUS
<1> QED
  BY <1>1, <1>2, <1>3

(* A factor keeps the order. *)
LEMMA ScaledUp ==
    ASSUME NEW a \in Nat, NEW b \in Nat, NEW c \in Nat, a <= b
    PROVE  c * a <= c * b /\ a * c <= b * c /\ c * a \in Nat /\ c * b \in Nat
OBVIOUS

(* Products of numbers are numbers. *)
LEMMA Product ==
    ASSUME NEW a \in Nat, NEW b \in Nat
    PROVE  a * b \in Nat
OBVIOUS

(* A product of factors that are not zero is not zero. *)
LEMMA ProductPositive ==
    ASSUME NEW a \in Nat \ {0}, NEW b \in Nat \ {0}
    PROVE  a * b \in Nat \ {0}
<1>1. 1 * b <= a * b /\ a * b \in Nat
  OBVIOUS
<1> QED
  BY <1>1

(* Quotient and remainder. *)
LEMMA DivMod ==
    ASSUME NEW a \in Nat, NEW b \in Nat \ {0}
    PROVE  /\ a \div b \in Nat /\ a % b \in Nat /\ a % b < b
           /\ a = (a \div b) * b + (a % b)
OBVIOUS

(* A quotient and a remainder are the only ones. *)
LEMMA QuotientUnique ==
    ASSUME NEW q \in Nat, NEW b \in Nat \ {0}, NEW r \in Nat, r < b,
           NEW a, a = q * b + r
    PROVE  a \in Nat /\ a \div b = q /\ a % b = r
<1> DEFINE p == a \div b
           t == a % b
<1>1. a \in Nat /\ q * b \in Nat
  OBVIOUS
<1>2. p \in Nat /\ t \in Nat /\ t < b /\ a = p * b + t
  BY <1>1, DivMod
<1> HIDE DEF p, t
<1>3. p * b \in Nat
  BY <1>2
<1>4. ~(p < q)
  <2>1. p < q => p * b + b <= q * b
    BY <1>2, CancelFactor
  <2> QED
    BY <1>1, <1>2, <1>3, <2>1
<1>5. ~(q < p)
  <2>1. q < p => q * b + b <= p * b
    BY <1>2, CancelFactor
  <2> QED
    BY <1>1, <1>2, <1>3, <2>1
<1>6. p = q
  BY <1>2, <1>4, <1>5
<1>7. t = r
  BY <1>1, <1>2, <1>6
<1> QED
  BY <1>1, <1>6, <1>7 DEF p, t

(* Division keeps the order. *)
LEMMA DivMonotone ==
    ASSUME NEW a \in Nat, NEW c \in Nat, NEW b \in Nat \ {0}, a <= c
    PROVE  a \div b <= c \div b
<1> DEFINE p == a \div b
           q == c \div b
           r == a % b
           t == c % b
<1>1. p \in Nat /\ r \in Nat /\ a = p * b + r /\ q \in Nat /\ t \in Nat /\ t < b /\ c = q * b + t
  BY DivMod
<1> HIDE DEF p, q, r, t
<1>2. q < p => q * b + b <= p * b
  BY <1>1, CancelFactor
<1>3. p * b \in Nat /\ q * b \in Nat
  BY <1>1
<1>4. ~(q < p)
  BY <1>1, <1>2, <1>3
<1>5. p <= q
  BY <1>1, <1>4
<1> QED
  BY <1>5 DEF p, q

(* Dividing twice is dividing by the product. *)
LEMMA DivDiv ==
    ASSUME NEW a \in Nat, NEW b \in Nat \ {0}, NEW c \in Nat \ {0}
    PROVE  (a \div b) \div c = a \div (c * b)
<1> DEFINE p == a \div b
           r == a % b
           q == p \div c
           t == p % c
<1>1. p \in Nat /\ r \in Nat /\ r < b /\ a = p * b + r
  BY DivMod
<1> HIDE DEF p, r
<1>2. q \in Nat /\ t \in Nat /\ t < c /\ p = q * c + t
  BY <1>1, DivMod
<1> HIDE DEF q, t
<1>3. t * b + b <= c * b /\ t * b \in Nat /\ c * b \in Nat
  BY <1>2, CancelFactor
<1>4. c * b # 0 /\ t * b + r \in Nat /\ t * b + r < c * b
  BY <1>1, <1>3
<1>5. a = q * (c * b) + (t * b + r)
  <2>1. (q * c + t) * b = q * (c * b) + t * b
    BY <1>2
  <2>2. q * (c * b) \in Nat
    BY <1>2
  <2> QED
    BY <1>1, <1>2, <1>3, <2>1, <2>2
<1>6. a \div (c * b) = q
  <2> DEFINE d == c * b
             e == t * b + r
  <2>1. d \in Nat \ {0} /\ e \in Nat /\ e < d /\ a = q * d + e
    BY <1>3, <1>4, <1>5
  <2> HIDE DEF d, e
  <2>2. a \div d = q
    BY <2>1, <1>2, QuotientUnique
  <2> QED
    BY <2>2 DEF d
<1> QED
  BY <1>6 DEF p, q
===========================================================================
