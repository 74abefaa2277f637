---------------------------- MODULE RingArithmetic ----------------------------
(***************************************************************************)
(* Remainders: what the proofs about the rings need of  %.                 *)
(***************************************************************************)
EXTENDS Integers, TLAPS

(* A number below the modulus is its own remainder.                        *)
LEMMA ModSmall ==
  ASSUME NEW n \in Nat \ {0}, NEW x \in 0 .. n - 1
  PROVE  x % n = x
  OBVIOUS

(* A remainder lies below the modulus.                                     *)
LEMMA ModRange ==
  ASSUME NEW n \in Nat \ {0}, NEW x \in Int
  PROVE  x % n \in 0 .. n - 1
  OBVIOUS

(* Division with remainder.                                                *)
LEMMA DivMod ==
  ASSUME NEW n \in Nat \ {0}, NEW x \in Int
  PROVE  /\ x \div n \in Int
         /\ x = n * (x \div n) + (x % n)
  OBVIOUS

(* Zero is the only multiple of n strictly between -n and n.               *)
LEMMA NoMultipleBetween ==
  ASSUME NEW n \in Nat \ {0}, NEW d \in Int, -n < n * d, n * d < n
  PROVE  d = 0
  <1>1. CASE d >= 1
    <2>1. n * d >= n
      BY <1>1
    <2> QED BY <2>1
  <1>2. CASE d <= -1
    <2>1. n * d <= -n
      BY <1>2
    <2> QED BY <2>1
  <1> QED
    BY <1>1, <1>2

(* Quotient and remainder are unique.                                      *)
LEMMA ModUnique ==
  ASSUME NEW n \in Nat \ {0}, NEW q \in Int, NEW r \in 0 .. n - 1
  PROVE  (n * q + r) % n = r
  <1> DEFINE x == n * q + r
             p == x \div n
             m == x % n
             d == q - p
  <1>1. x \in Int /\ p \in Int /\ m \in 0 .. n - 1 /\ x = n * p + m
    BY DivMod, ModRange
  <1>2. x = n * q + r /\ d = q - p
    OBVIOUS
  <1> HIDE DEF x, p, m, d
  <1>3. d \in Int /\ n * d = m - r
    BY <1>1, <1>2
  <1>4. d = 0
    BY <1>1, <1>3, NoMultipleBetween
  <1>5. m = r
    BY <1>1, <1>3, <1>4
  <1> QED
    BY <1>5 DEF m, x

(* Adding a multiple of the modulus changes nothing.                       *)
LEMMA ModPlusMultiple ==
  ASSUME NEW n \in Nat \ {0}, NEW x \in Int, NEW k \in Int
  PROVE  (x + n * k) % n = x % n
  <1> DEFINE q == x \div n
             r == x % n
  <1>1. q \in Int /\ r \in 0 .. n - 1 /\ x = n * q + r
    BY DivMod, ModRange
  <1> HIDE DEF q, r
  <1>2. q + k \in Int /\ x + n * k = n * (q + k) + r
    BY <1>1
  <1>3. (n * (q + k) + r) % n = r
    BY <1>1, <1>2, ModUnique
  <1> QED
    BY <1>2, <1>3 DEF r

(* Adding the modulus changes nothing.                                     *)
LEMMA ModPlusOnce ==
  ASSUME NEW n \in Nat \ {0}, NEW x \in Int
  PROVE  (x + n) % n = x % n
  <1> DEFINE k == 1
  <1>1. k \in Int /\ n * k = n
    OBVIOUS
  <1> HIDE DEF k
  <1>2. (x + n * k) % n = x % n
    BY <1>1, ModPlusMultiple
  <1> QED
    BY <1>1, <1>2

(* Two different numbers less than n apart have different remainders.      *)
LEMMA ModDiffer ==
  ASSUME NEW n \in Nat \ {0}, NEW x \in Int, NEW y \in Int, x < y, y - x < n
  PROVE  x % n # y % n
  <1> SUFFICES ASSUME x % n = y % n PROVE FALSE
    OBVIOUS
  <1> DEFINE p == x \div n
             q == y \div n
             r == x % n
  <1>1. /\ p \in Int /\ q \in Int /\ r \in Int
        /\ x = n * p + r /\ y = n * q + r
    BY DivMod, ModRange
  <1> HIDE DEF p, q, r
  <1>2. q - p \in Int /\ n * (q - p) = y - x
    BY <1>1
  <1>3. q - p = 0
    BY <1>2, NoMultipleBetween
  <1> QED
    BY <1>2, <1>3

=============================================================================
