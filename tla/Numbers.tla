------------------------------ MODULE Numbers -------------------------------
(***************************************************************************)
(* Natural numbers: induction, in the form of a set that is closed under   *)
(* successors, and quotients and remainders as the code uses them, to cut  *)
(* received bytes into records, to number pages, and to let the position   *)
(* of the seed iterator wrap around.                                       *)
(***************************************************************************)
EXTENDS Integers, WellFoundedInduction, TLAPS

\* A set of natural numbers has a least element.
LEMMA LeastNumber ==
    ASSUME NEW T, T \subseteq Nat, T # {}
    PROVE  \E x \in T : \A y \in T : ~(y < x)
<1>1. PICK x \in T : \A y \in T : ~(<<y, x>> \in OpToRel(<, Nat))
  BY WFMin, NatLessThanWellFounded
<1>2. \A y \in T : y < x => <<y, x>> \in OpToRel(<, Nat)  BY DEF OpToRel
<1>. QED  BY <1>1, <1>2

\* Induction up to m.
LEMMA SetInduction ==
    ASSUME NEW m \in Nat, NEW S, 0 \in S, \A n \in 0 .. m - 1 : n \in S => n + 1 \in S
    PROVE  0 .. m \subseteq S
<1>. SUFFICES ASSUME (0 .. m) \ S # {} PROVE FALSE  OBVIOUS
<1>1. PICK x \in (0 .. m) \ S : \A y \in (0 .. m) \ S : ~(y < x)
  <2>1. (0 .. m) \ S \subseteq Nat  OBVIOUS
  <2>. QED  BY <2>1, LeastNumber
<1>2. x # 0 /\ x \in 0 .. m  OBVIOUS
<1>3. x - 1 \in 0 .. m - 1 /\ x - 1 \in 0 .. m /\ x - 1 < x  BY <1>2
<1>4. x - 1 \in S  BY <1>1, <1>3
<1>5. (x - 1) + 1 \in S  BY <1>3, <1>4
<1>6. (x - 1) + 1 = x  BY <1>2
<1>. QED  BY <1>5, <1>6

\* A larger multiple of R is larger by at least R.
LEMMA SmallMultiple ==
    ASSUME NEW R \in Nat, R > 0, NEW m \in Int, NEW q \in Int, m > q
    PROVE  m * R >= q * R + R
<1>1. PICK d \in Nat : m = q + 1 + d
  <2>1. m - q - 1 \in Nat /\ m = q + 1 + (m - q - 1)  OBVIOUS
  <2>. QED  BY <2>1
<1>2. m * R = q * R + R + d * R  BY <1>1
<1>3. d * R \in Nat  OBVIOUS
<1>. QED  BY <1>2, <1>3

\* Quotient and remainder, as the code's / and the sizes it subtracts use them.
LEMMA DivMod ==
    ASSUME NEW R \in Nat, R > 0, NEW x \in Nat
    PROVE  /\ x \div R \in Nat /\ x % R \in 0 .. R - 1
           /\ x = (x \div R) * R + (x % R)
<1>. DEFINE q == x \div R
            r == x % R
<1>1. q \in Int /\ r \in Int /\ 0 <= r /\ r < R  OBVIOUS
<1>2. x = R * q + r  BY SMTT(30)
<1>. HIDE DEF q, r
<1>3. q * R \in Int /\ x = q * R + r  BY <1>1, <1>2
<1>4. q >= 0
  <2>1. SUFFICES ASSUME 0 > q PROVE FALSE  BY <1>1
  <2>2. 0 * R >= q * R + R  BY <1>1, <2>1, SmallMultiple
  <2>3. PICK m \in Int : m = q * R /\ x = m + r /\ 0 >= m + R  BY <1>3, <2>2
  <2>. QED  BY <1>1, <2>3
<1>. QED  BY <1>1, <1>3, <1>4 DEF q, r

\* They are the only ones.
LEMMA DivModUnique ==
    ASSUME NEW R \in Nat, R > 0, NEW m \in Nat, NEW r \in 0 .. R - 1
    PROVE  (m * R + r) \div R = m /\ (m * R + r) % R = r
<1>. DEFINE x == m * R + r
            q == x \div R
            s == x % R
<1>1. x \in Nat  OBVIOUS
<1>2. q \in Nat /\ s \in 0 .. R - 1 /\ x = q * R + s  BY <1>1, DivMod
<1>3. m * R \in Nat /\ q * R \in Nat  BY <1>2
<1>. HIDE DEF q, s
<1>4. ~(m > q)
  <2>1. SUFFICES ASSUME m > q PROVE FALSE  OBVIOUS
  <2>2. m * R >= q * R + R  BY <1>2, <2>1, SmallMultiple
  <2>. QED  BY <1>2, <1>3, <2>2
<1>5. ~(q > m)
  <2>1. SUFFICES ASSUME q > m PROVE FALSE  OBVIOUS
  <2>2. q * R >= m * R + R  BY <1>2, <2>1, SmallMultiple
  <2>. QED  BY <1>2, <1>3, <2>2
<1>6. q = m  BY <1>2, <1>4, <1>5
<1>7. s = r  BY <1>2, <1>3, <1>6
<1>. QED  BY <1>6, <1>7 DEF q, s

\* A number below R is its own remainder.
LEMMA SmallMod ==
    ASSUME NEW R \in Nat, R > 0, NEW a \in Nat, a < R
    PROVE  (a + 0) % R = a
<1>1. a \in 0 .. R - 1 /\ 0 * R + a = a + 0  OBVIOUS
<1>2. (0 * R + a) % R = a  BY <1>1, DivModUnique
<1>. QED  BY <1>1, <1>2

\* A sum wraps around the same way whether its first part did before or not.
LEMMA ModPlus ==
    ASSUME NEW R \in Nat, R > 0, NEW a \in Nat, NEW b \in Nat
    PROVE  ((a % R) + b) % R = (a + b) % R
<1>1. PICK q \in Nat, r \in 0 .. R - 1 : q = a \div R /\ r = a % R /\ a = q * R + r
  BY DivMod
<1>2. r + b \in Nat  BY <1>1
<1>3. PICK p \in Nat, s \in 0 .. R - 1 :
          p = (r + b) \div R /\ s = (r + b) % R /\ r + b = p * R + s
  BY <1>2, DivMod
<1>4. a + b = (q + p) * R + s
  <2>1. (q + p) * R = q * R + p * R  OBVIOUS
  <2>2. PICK x \in Nat, y \in Nat : x = q * R /\ y = p * R  OBVIOUS
  <2>3. a = x + r /\ r + b = y + s /\ (q + p) * R = x + y  BY <1>1, <1>3, <2>1, <2>2
  <2>. QED  BY <2>3
<1>5. q + p \in Nat  OBVIOUS
<1>6. ((q + p) * R + s) % R = s  BY <1>5, DivModUnique
<1>. QED  BY <1>1, <1>3, <1>4, <1>6

\* A whole turn changes nothing.
LEMMA ModTurn ==
    ASSUME NEW R \in Nat, R > 0, NEW a \in Nat
    PROVE  (a + R) % R = a % R
<1>1. PICK q \in Nat, r \in 0 .. R - 1 : q = a \div R /\ r = a % R /\ a = q * R + r
  BY DivMod
<1>2. (q + 1) * R = q * R + R  OBVIOUS
<1>3. PICK x \in Nat : x = q * R  OBVIOUS
<1>4. a + R = (q + 1) * R + r  BY <1>1, <1>2, <1>3
<1>5. ((q + 1) * R + r) % R = r  BY DivModUnique
<1>. QED  BY <1>1, <1>4, <1>5

\* Less than R apart, two numbers do not wrap around onto each other.
LEMMA ModDistinct ==
    ASSUME NEW R \in Nat, R > 0, NEW a \in Nat, NEW b \in Nat, a < b, b < a + R
    PROVE  a % R # b % R
<1>. SUFFICES ASSUME a % R = b % R PROVE FALSE  OBVIOUS
<1>1. PICK q \in Nat, r \in 0 .. R - 1 : q = a \div R /\ r = a % R /\ a = q * R + r
  BY DivMod
<1>2. PICK p \in Nat, s \in 0 .. R - 1 : p = b \div R /\ s = b % R /\ b = p * R + s
  BY DivMod
<1>3. r = s  BY <1>1, <1>2
<1>4. PICK x \in Nat, y \in Nat : x = q * R /\ y = p * R  OBVIOUS
<1>5. a = x + r /\ b = y + r  BY <1>1, <1>2, <1>3, <1>4
<1>6. x < y /\ y < x + R  BY <1>5
<1>7. CASE p > q
  <2>1. p * R >= q * R + R  BY <1>7, SmallMultiple
  <2>. QED  BY <1>4, <1>6, <2>1
<1>8. CASE q > p
  <2>1. q * R >= p * R + R  BY <1>8, SmallMultiple
  <2>. QED  BY <1>4, <1>6, <2>1
<1>9. CASE p = q  BY <1>4, <1>6, <1>9
<1>. QED  BY <1>7, <1>8, <1>9
=============================================================================
