----------------------------- MODULE Arithmetic -----------------------------
(***************************************************************************)
(* Facts about numbers that the proofs share: indices taken modulo the     *)
(* number of slots of a ring, and the least element of a set, by which the *)
(* other modules argue about the first entry that does something.          *)
(***************************************************************************)
EXTENDS Integers, WellFoundedInduction, TLAPS

\* Division with remainder, as inq.head and inq.tail use it.
LEMMA DivMod ==
    ASSUME NEW n \in Nat, NEW C \in Nat \ {0}
    PROVE  /\ n % C \in 0..(C - 1)
           /\ n = C * (n \div C) + (n % C)
           /\ n \div C \in Nat
BY SMT

\* The remainder is the only number below C that completes a multiple of C.
LEMMA ModUnique ==
    ASSUME NEW C \in Nat \ {0}, NEW q \in Nat, NEW r \in 0..(C - 1)
    PROVE  (C * q + r) % C = r
BY SMT

\* An index already inside the ring stays where it is.
LEMMA ModSmall ==
    ASSUME NEW C \in Nat \ {0}, NEW r \in 0..(C - 1)
    PROVE  r % C = r
BY SMT

\* Advancing the wrapped index is wrapping the advanced count.
LEMMA ModSucc ==
    ASSUME NEW n \in Nat, NEW C \in Nat \ {0}
    PROVE  ((n % C) + 1) % C = (n + 1) % C
<1> DEFINE q == n \div C
           r == n % C
<1>1. r \in 0..(C - 1) /\ n = C * q + r /\ q \in Nat
  BY DivMod
<1> HIDE DEF q, r
<1>2. CASE r + 1 < C
  <2>1. n + 1 = C * q + (r + 1) /\ r + 1 \in 0..(C - 1)
    BY <1>1, <1>2
  <2>2. (n + 1) % C = r + 1
    BY <1>1, <2>1, ModUnique
  <2>3. QED
    BY <2>1, <2>2, ModSmall DEF r
<1>3. CASE r + 1 = C
  <2>1. n + 1 = C * (q + 1) + 0 /\ q + 1 \in Nat /\ 0 \in 0..(C - 1)
    BY <1>1, <1>3
  <2>2. (n + 1) % C = 0
    BY <2>1, ModUnique
  <2>3. r + 1 = C * 1 + 0 /\ 1 \in Nat
    BY <1>1, <1>3
  <2>4. (r + 1) % C = 0
    BY <2>1, <2>3, ModUnique
  <2>5. QED
    BY <2>2, <2>4 DEF r
<1>4. QED
  BY <1>1, <1>2, <1>3

\* A whole turn of the ring comes back to the same slot.
LEMMA ModTurn ==
    ASSUME NEW n \in Nat, NEW C \in Nat \ {0}
    PROVE  (n + C) % C = n % C
<1> DEFINE q == n \div C
           r == n % C
<1>1. r \in 0..(C - 1) /\ n = C * q + r /\ q \in Nat
  BY DivMod
<1> HIDE DEF q, r
<1>2. n + C = C * (q + 1) + r /\ q + 1 \in Nat
  BY <1>1
<1>3. QED
  BY <1>1, <1>2, ModUnique DEF r

\* Less than a turn apart, only equal counts share a slot.
LEMMA ModEqual ==
    ASSUME NEW m \in Nat, NEW n \in Nat, NEW C \in Nat \ {0},
           m <= n, n - m <= C - 1, m % C = n % C
    PROVE  m = n
<1> DEFINE p == m \div C
           q == n \div C
           r == n % C
<1>1. r \in 0..(C - 1) /\ n = C * q + r /\ q \in Nat /\ m = C * p + r /\ p \in Nat
  BY DivMod
<1> HIDE DEF p, q, r
<1>2. n - m = C * (q - p)
  BY <1>1
<1>3. CASE q - p >= 1
  <2>1. C * (q - p) >= C
    BY <1>1, <1>3
  <2>2. QED
    BY <2>1, <1>2
<1>4. CASE q - p <= -1
  <2>1. C * (q - p) <= -C
    BY <1>1, <1>4
  <2>2. QED
    BY <2>1, <1>2
<1>5. CASE q = p
  BY <1>1, <1>5
<1>6. QED
  BY <1>1, <1>3, <1>4, <1>5

\* A set of natural numbers has a least element, if it has one at all.
LEMMA LeastElement ==
    ASSUME NEW S \in SUBSET Nat, NEW x \in S
    PROVE  \E n \in S : \A m \in S : n <= m
<1> DEFINE R == OpToRel(<, Nat)
<1>1. IsWellFoundedOn(R, Nat)
  BY NatLessThanWellFounded, Zenon
<1>2. \A a, b \in Nat : <<a, b>> \in R <=> a < b
  BY DEF OpToRel
<1> HIDE DEF R
<1>3. PICK n \in S : \A m \in S : ~(<<m, n>> \in R)
  BY <1>1, WFMin
<1>4. ASSUME NEW m \in S PROVE n <= m
  <2>1. n \in Nat /\ m \in Nat /\ ~(m < n)
    BY <1>2, <1>3
  <2>2. QED
    BY <2>1
<1>5. QED
  BY <1>4
=============================================================================
