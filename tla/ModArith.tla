------------------------------ MODULE ModArith ------------------------------
(***************************************************************************)
(* Facts about remainders that the unsigned counters of the rings rest on: *)
(* a register holds a count modulo M, an index is a count modulo the size. *)
(***************************************************************************)
EXTENDS Integers, TLAPS

\* Quotient and remainder put a number together again.
LEMMA DivMod ==
    ASSUME NEW M \in Nat \ {0}, NEW a \in Int
    PROVE  a = M * (a \div M) + (a % M) /\ a % M \in 0..M - 1 /\ a \div M \in Int
  BY Z3

\* A value below M is its own remainder.
LEMMA ModSmall ==
    ASSUME NEW M \in Nat \ {0}, NEW a \in Int, 0 <= a, a < M
    PROVE  a % M = a
  BY Z3

\* A remainder is no larger than the number.
LEMMA ModLe ==
    ASSUME NEW M \in Nat \ {0}, NEW a \in Nat
    PROVE  a % M <= a /\ a % M \in 0..M - 1
  BY Z3

\* Two counts less than M apart with equal registers are equal.
LEMMA ModInj ==
    ASSUME NEW M \in Nat \ {0}, NEW a \in Int, NEW b \in Int,
           a <= b, b - a < M, a % M = b % M
    PROVE  a = b
<1> DEFINE q == (b \div M) - (a \div M)
<1>1. q \in Int /\ M * q = b - a
  <2> DEFINE x == a \div M
             y == b \div M
             r == a % M
  <2>1. a = M * x + r /\ x \in Int /\ r \in Int
    BY DivMod
  <2>2. b = M * y + r /\ y \in Int
    BY DivMod
  <2>3. q = y - x
    OBVIOUS
  <2> HIDE DEF x, y, r, q
  <2>4. M * (y - x) = M * y - M * x
    BY <2>1, <2>2, Z3
  <2> QED BY <2>1, <2>2, <2>3, <2>4, Z3
<1> HIDE DEF q
<1>2. ~(q >= 1)
  <2> SUFFICES ASSUME q >= 1 PROVE FALSE
    OBVIOUS
  <2>1. M * q >= M
    BY <1>1, Z3
  <2> QED BY <2>1, <1>1
<1>3. ~(q <= -1)
  <2> SUFFICES ASSUME q <= -1 PROVE FALSE
    OBVIOUS
  <2>1. M * q <= -M
    BY <1>1, Z3
  <2> QED BY <2>1, <1>1
<1>4. q = 0
  BY <1>1, <1>2, <1>3
<1> QED BY <1>1, <1>4

\* The unsigned difference of two registers is the difference of the counts,
\* modulo M.
LEMMA ModSub ==
    ASSUME NEW M \in Nat \ {0}, NEW a \in Int, NEW b \in Int
    PROVE  ((a % M) - (b % M)) % M = (a - b) % M
<1> DEFINE x == a \div M
           y == b \div M
           r == a % M
           s == b % M
           d == (r - s) \div M
           e == (r - s) % M
<1>1. a = M * x + r /\ x \in Int /\ r \in Int
  BY DivMod
<1>2. b = M * y + s /\ y \in Int /\ s \in Int
  BY DivMod
<1>3. r - s = M * d + e /\ d \in Int /\ e \in 0..M - 1
  <2> HIDE DEF r, s
  <2> QED BY <1>1, <1>2, DivMod
<1>4. a - b = M * (x - y + d) + e
  <2> HIDE DEF x, y, r, s, d, e
  <2>1. M * (x - y + d) = M * x - M * y + M * d
    BY <1>1, <1>2, <1>3, Z3
  <2> QED BY <1>1, <1>2, <1>3, <2>1
<1>5. ASSUME NEW k \in Int, NEW f \in 0..M - 1 PROVE (M * k + f) % M = f
  BY Z3
<1>6. (a - b) % M = e
  <2> HIDE DEF x, y, r, s, d, e
  <2>1. x - y + d \in Int
    BY <1>1, <1>2, <1>3
  <2> QED BY <1>3, <1>4, <1>5, <2>1
<1> QED BY <1>6
=============================================================================
