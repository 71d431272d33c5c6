---------------------------- MODULE BitStreamProofs ----------------------------
(***************************************************************************)
(* The bit layer of the codec, for every sequence of fields: the bytes the *)
(* encoder hands on hold the bits of the fields one after the other, and   *)
(* the decoder takes them out again, in whatever portions it asks for      *)
(* them.  Powers of two, quotients and rests are all there is to a bit; a  *)
(* claim about all of them is shown by its least counterexample.           *)
(***************************************************************************)
EXTENDS BitStream, SequenceTheorems, WellFoundedInduction, TLAPS

-----------------------------------------------------------------------------
(* Numbers and their bits.                                                 *)

\* A set of naturals has a least element: a claim about all numbers up to a
\* bound is shown by looking at the least one for which it fails.
LEMMA LeastNatural ==
  ASSUME NEW S, S \subseteq Nat, S # {}
  PROVE  \E m \in S : \A k \in S : ~(k < m)
<1>1. \E m \in S : \A k \in S : ~(<<k, m>> \in OpToRel(<, Nat))
  BY WFMin, NatLessThanWellFounded, Zenon
<1> QED
  BY <1>1, Zenon DEF OpToRel

\* Powers of two, up to the width of a word.
LEMMA PowerDoubles == \A n \in 0 .. 30 : 2 ^ (n + 1) = 2 * 2 ^ n
<1>1. \A n \in {0, 1, 2, 3} : 2 ^ (n + 1) = 2 * 2 ^ n
  <2>1. /\ 2 ^ (0 + 1) = 2 * 2 ^ 0 /\ 2 ^ (1 + 1) = 2 * 2 ^ 1
        /\ 2 ^ (2 + 1) = 2 * 2 ^ 2 /\ 2 ^ (3 + 1) = 2 * 2 ^ 3
    OBVIOUS
  <2> QED
    BY <2>1, Zenon
<1>2. \A n \in {4, 5, 6, 7} : 2 ^ (n + 1) = 2 * 2 ^ n
  <2>1. /\ 2 ^ (4 + 1) = 2 * 2 ^ 4 /\ 2 ^ (5 + 1) = 2 * 2 ^ 5
        /\ 2 ^ (6 + 1) = 2 * 2 ^ 6 /\ 2 ^ (7 + 1) = 2 * 2 ^ 7
    OBVIOUS
  <2> QED
    BY <2>1, Zenon
<1>3. \A n \in {8, 9, 10, 11} : 2 ^ (n + 1) = 2 * 2 ^ n
  <2>1. /\ 2 ^ (8 + 1) = 2 * 2 ^ 8 /\ 2 ^ (9 + 1) = 2 * 2 ^ 9
        /\ 2 ^ (10 + 1) = 2 * 2 ^ 10 /\ 2 ^ (11 + 1) = 2 * 2 ^ 11
    OBVIOUS
  <2> QED
    BY <2>1, Zenon
<1>4. \A n \in {12, 13, 14, 15} : 2 ^ (n + 1) = 2 * 2 ^ n
  <2>1. /\ 2 ^ (12 + 1) = 2 * 2 ^ 12 /\ 2 ^ (13 + 1) = 2 * 2 ^ 13
        /\ 2 ^ (14 + 1) = 2 * 2 ^ 14 /\ 2 ^ (15 + 1) = 2 * 2 ^ 15
    OBVIOUS
  <2> QED
    BY <2>1, Zenon
<1>5. \A n \in {16, 17, 18, 19} : 2 ^ (n + 1) = 2 * 2 ^ n
  <2>1. /\ 2 ^ (16 + 1) = 2 * 2 ^ 16 /\ 2 ^ (17 + 1) = 2 * 2 ^ 17
        /\ 2 ^ (18 + 1) = 2 * 2 ^ 18 /\ 2 ^ (19 + 1) = 2 * 2 ^ 19
    OBVIOUS
  <2> QED
    BY <2>1, Zenon
<1>6. \A n \in {20, 21, 22, 23} : 2 ^ (n + 1) = 2 * 2 ^ n
  <2>1. /\ 2 ^ (20 + 1) = 2 * 2 ^ 20 /\ 2 ^ (21 + 1) = 2 * 2 ^ 21
        /\ 2 ^ (22 + 1) = 2 * 2 ^ 22 /\ 2 ^ (23 + 1) = 2 * 2 ^ 23
    OBVIOUS
  <2> QED
    BY <2>1, Zenon
<1>7. \A n \in {24, 25, 26, 27} : 2 ^ (n + 1) = 2 * 2 ^ n
  <2>1. /\ 2 ^ (24 + 1) = 2 * 2 ^ 24 /\ 2 ^ (25 + 1) = 2 * 2 ^ 25
        /\ 2 ^ (26 + 1) = 2 * 2 ^ 26 /\ 2 ^ (27 + 1) = 2 * 2 ^ 27
    OBVIOUS
  <2> QED
    BY <2>1, Zenon
<1>8. \A n \in {28, 29, 30} : 2 ^ (n + 1) = 2 * 2 ^ n
  <2>1. /\ 2 ^ (28 + 1) = 2 * 2 ^ 28 /\ 2 ^ (29 + 1) = 2 * 2 ^ 29
        /\ 2 ^ (30 + 1) = 2 * 2 ^ 30
    OBVIOUS
  <2> QED
    BY <2>1, Zenon
<1> SUFFICES ASSUME NEW n \in 0 .. 30 PROVE 2 ^ (n + 1) = 2 * 2 ^ n
  OBVIOUS
<1>9. \/ n \in {0, 1, 2, 3} \/ n \in {4, 5, 6, 7} \/ n \in {8, 9, 10, 11}
      \/ n \in {12, 13, 14, 15} \/ n \in {16, 17, 18, 19} \/ n \in {20, 21, 22, 23}
      \/ n \in {24, 25, 26, 27} \/ n \in {28, 29, 30}
  OBVIOUS
<1> QED
  BY <1>1, <1>2, <1>3, <1>4, <1>5, <1>6, <1>7, <1>8, <1>9, Zenon

\* Single ones, for exponents that are given by name: nought.
LEMMA PowerZero == ASSUME NEW n, n = 0 PROVE 2 ^ n = 1
<1>1. 2 ^ 0 = 1
  OBVIOUS
<1> QED
  BY <1>1, Zenon

\* One.
LEMMA PowerOne == ASSUME NEW n, n = 1 PROVE 2 ^ n = 2
<1>1. 2 ^ 1 = 2
  OBVIOUS
<1> QED
  BY <1>1, Zenon

\* Eight.
LEMMA PowerEight == ASSUME NEW n, n = 8 PROVE 2 ^ n = 256
<1>1. 2 ^ 8 = 256
  OBVIOUS
<1> QED
  BY <1>1, Zenon

\* All of them are positive.
LEMMA PowerNat == \A n \in 0 .. 31 : 2 ^ n \in Nat /\ 2 ^ n > 0
<1> DEFINE Wrong == {n \in 0 .. 31 : ~(2 ^ n \in Nat /\ 2 ^ n > 0)}
<1> SUFFICES ASSUME Wrong # {} PROVE FALSE
  OBVIOUS
<1>1. PICK m \in Wrong : \A k \in Wrong : ~(k < m)
  <2>1. Wrong \subseteq Nat
    OBVIOUS
  <2> HIDE DEF Wrong
  <2> QED
    BY <2>1, LeastNatural, Zenon
<1>2. m # 0
  BY <1>1, PowerZero
<1>3. m - 1 \in 0 .. 30 /\ (m - 1) + 1 = m /\ m - 1 \notin Wrong
  BY <1>1, <1>2
<1>4. 2 ^ m = 2 * 2 ^ (m - 1)
  BY <1>3, PowerDoubles, Zenon
<1>5. 2 ^ (m - 1) \in Nat /\ 2 ^ (m - 1) > 0
  BY <1>3
<1> HIDE DEF Wrong
<1>6. 2 ^ m \in Nat /\ 2 ^ m > 0
  BY <1>4, <1>5
<1> QED
  BY <1>6, <1>1, Zenon DEF Wrong

\* Shifting twice is shifting once.
LEMMA PowerSum == \A b \in 0 .. 31 : \A a \in 0 .. 31 : a + b <= 31 => 2 ^ (a + b) = 2 ^ a * 2 ^ b
<1> DEFINE Right(a, b) == a + b <= 31 => 2 ^ (a + b) = 2 ^ a * 2 ^ b
           Wrong == {b \in 0 .. 31 : \E a \in 0 .. 31 : ~Right(a, b)}
<1> SUFFICES ASSUME Wrong # {} PROVE FALSE
  OBVIOUS
<1>1. PICK m \in Wrong : \A k \in Wrong : ~(k < m)
  <2>1. Wrong \subseteq Nat
    OBVIOUS
  <2> HIDE DEF Wrong
  <2> QED
    BY <2>1, LeastNatural, Zenon
<1>2. PICK a \in 0 .. 31 : ~Right(a, m)
  BY <1>1, Zenon
<1>3. a + m <= 31 /\ 2 ^ (a + m) # 2 ^ a * 2 ^ m
  BY <1>2
<1>a. m \in 0 .. 31
  BY <1>1
<1>p. 2 ^ a \in Nat
  BY PowerNat
<1>4. m # 0
  <2> SUFFICES ASSUME m = 0 PROVE FALSE
    OBVIOUS
  <2>1. a + m = a
    OBVIOUS
  <2>2. 2 ^ m = 1
    BY PowerZero
  <2> QED
    BY <2>1, <2>2, <1>3, <1>p
<1>5. m - 1 \in 0 .. 30 /\ (m - 1) + 1 = m /\ m - 1 \notin Wrong /\ m - 1 \in 0 .. 31
  BY <1>1, <1>4, <1>a
<1> HIDE DEF Right
<1>r. Right(a, m - 1)
  BY <1>5
<1> HIDE DEF Wrong
<1>6. 2 ^ (a + (m - 1)) = 2 ^ a * 2 ^ (m - 1)
  BY <1>3, <1>5, <1>a, <1>r DEF Right
<1>7. 2 ^ m = 2 * 2 ^ (m - 1)
  BY <1>5, PowerDoubles, Zenon
<1>8. 2 ^ (a + m) = 2 * 2 ^ (a + (m - 1))
  <2>1. a + (m - 1) \in 0 .. 30 /\ a + m = (a + (m - 1)) + 1
    BY <1>3, <1>5, <1>a
  <2> QED
    BY <2>1, PowerDoubles, Zenon
<1>9. 2 ^ (m - 1) \in Nat
  BY <1>5, PowerNat
<1>10. ASSUME NEW p \in Nat, NEW q \in Nat PROVE 2 * (p * q) = p * (2 * q)
  OBVIOUS
<1>11. 2 * (2 ^ a * 2 ^ (m - 1)) = 2 ^ a * (2 * 2 ^ (m - 1))
  BY <1>10, <1>9, <1>p
<1> QED
  BY <1>3, <1>6, <1>7, <1>8, <1>11, Zenon

\* Quotient and rest.
LEMMA Divide ==
  ASSUME NEW a \in Nat, NEW b \in Nat, b > 0
  PROVE  a \div b \in Nat /\ a % b \in Nat /\ a % b < b /\ a = b * (a \div b) + (a % b)
<1>1. a % b = a - b * (a \div b)
  OBVIOUS
<1>2. a % b < b /\ a % b \in Nat
  OBVIOUS
<1>3. a \div b \in Nat
  OBVIOUS
<1>4. b * (a \div b) \in Nat
  BY <1>3
<1> QED
  BY <1>1, <1>2, <1>3, <1>4

\* The quotient is determined by what it leaves over.
LEMMA Quotient ==
  ASSUME NEW a \in Nat, NEW b \in Nat, b > 0, NEW q \in Nat, NEW r \in Nat,
         r < b, a = b * q + r
  PROVE  a \div b = q /\ a % b = r
<1>1. a \div b = q
  OBVIOUS
<1>2. a % b = a - b * (a \div b)
  OBVIOUS
<1> QED
  BY <1>1, <1>2

\* Shifting right twice is shifting right once.
LEMMA DivDiv ==
  ASSUME NEW v \in Nat, NEW a \in Nat, NEW b \in Nat, a > 0, b > 0
  PROVE  (v \div a) \div b = v \div (a * b)
<1> DEFINE w == v \div a
           q == w \div b
<1>1. w \in Nat /\ v % a \in Nat /\ v % a < a /\ v = a * w + (v % a)
  BY Divide
<1>2. q \in Nat /\ w % b \in Nat /\ w % b < b /\ w = b * q + (w % b)
  BY <1>1, Divide
<1> HIDE DEF w, q
<1>5. ASSUME NEW r \in Nat, NEW s \in Nat, r < b, s < a
      PROVE  a * r + s < a * b /\ a * b > 0
  <2>1. r + 1 <= b
    BY <1>5
  <2>2. a * (r + 1) <= a * b
    BY <1>5, <2>1
  <2> QED
    BY <2>2, <1>5
<1>3. v = (a * b) * q + (a * (w % b) + (v % a))
  <2>1. ASSUME NEW r \in Nat, NEW s \in Nat, w = b * q + r, v = a * w + s
        PROVE  v = (a * b) * q + (a * r + s)
    <3>1. \A x \in Nat : a * (b * x + r) + s = (a * b) * x + (a * r + s)
      OBVIOUS
    <3> QED
      BY <1>2, <2>1, <3>1
  <2> QED
    BY <1>1, <1>2, <2>1
<1>4. a * (w % b) + (v % a) \in Nat /\ a * (w % b) + (v % a) < a * b /\ a * b \in Nat /\ a * b > 0
  BY <1>1, <1>2, <1>5
<1>6. v \div (a * b) = q
  <2> DEFINE c == a * b
             t == a * (w % b) + (v % a)
  <2>1. c \in Nat /\ c > 0 /\ t \in Nat /\ t < c /\ v = c * q + t /\ q \in Nat
    BY <1>2, <1>3, <1>4
  <2> HIDE DEF c, t
  <2>2. v \div c = q
    BY <2>1, Quotient
  <2> QED
    BY <2>2 DEF c
<1> QED
  BY <1>6 DEF q, w

\* The bit of a number that stands for 2 ^ i.
Bit(v, i) == (v \div 2 ^ i) % 2

\* It is one of two.
LEMMA BitValue == ASSUME NEW v \in Nat, NEW i \in 0 .. 31 PROVE Bit(v, i) \in {0, 1}
<1>1. v \div 2 ^ i \in Nat
  BY PowerNat, Divide
<1> QED
  BY <1>1 DEF Bit

\* Shifting right moves the bits down.
LEMMA BitShift ==
  ASSUME NEW v \in Nat, NEW a \in 0 .. 31, NEW b \in 0 .. 31, a + b <= 31
  PROVE  Bit(v \div 2 ^ a, b) = Bit(v, a + b)
<1>1. 2 ^ (a + b) = 2 ^ a * 2 ^ b
  BY PowerSum
<1>2. /\ 2 ^ a \in Nat /\ 2 ^ a > 0
      /\ 2 ^ b \in Nat /\ 2 ^ b > 0
  BY PowerNat
<1>3. (v \div 2 ^ a) \div 2 ^ b = v \div (2 ^ a * 2 ^ b)
  BY <1>2, DivDiv
<1> QED
  BY <1>1, <1>3, Zenon DEF Bit

\* A number made of two parts has the bits of both.
LEMMA BitAbove ==
  ASSUME NEW A \in Nat, NEW m \in 0 .. 31, NEW B \in Nat, B < 2 ^ m,
         NEW k \in 0 .. 31, k >= m
  PROVE  Bit(A * 2 ^ m + B, k) = Bit(A, k - m)
<1>1. 2 ^ m \in Nat /\ 2 ^ m > 0
  BY PowerNat
<1>2. (A * 2 ^ m + B) \div 2 ^ m = A
  <2>1. A * 2 ^ m + B \in Nat /\ A * 2 ^ m + B = 2 ^ m * A + B
    BY <1>1
  <2> QED
    BY <1>1, <2>1, Quotient
<1>3. A * 2 ^ m + B \in Nat
  BY <1>1
<1>4. k - m \in 0 .. 31 /\ m + (k - m) = k /\ m + (k - m) <= 31
  OBVIOUS
<1>5. Bit((A * 2 ^ m + B) \div 2 ^ m, k - m) = Bit(A * 2 ^ m + B, m + (k - m))
  BY <1>3, <1>4, BitShift
<1> QED
  BY <1>2, <1>4, <1>5, Zenon

\* The same for the bits of the lower part.
LEMMA BitBelow ==
  ASSUME NEW A \in Nat, NEW m \in 0 .. 31, NEW B \in Nat,
         NEW k \in 0 .. 31, k < m
  PROVE  Bit(A * 2 ^ m + B, k) = Bit(B, k)
<1> DEFINE p == 2 ^ k
           h == 2 ^ (m - (k + 1))
<1>1. /\ p \in Nat /\ p > 0
      /\ h \in Nat
  <2>1. m - (k + 1) \in 0 .. 31
    OBVIOUS
  <2> QED
    BY <2>1, PowerNat
<1>2. 2 ^ m = 2 * (p * h)
  <2>1. /\ m - (k + 1) \in 0 .. 31 /\ k + 1 \in 0 .. 31
        /\ (m - (k + 1)) + (k + 1) = m /\ k \in 0 .. 30
        /\ (m - (k + 1)) + (k + 1) <= 31
    OBVIOUS
  <2>2. 2 ^ ((m - (k + 1)) + (k + 1)) = h * 2 ^ (k + 1)
    BY <2>1, PowerSum
  <2>3. 2 ^ (k + 1) = 2 * p
    BY <2>1, PowerDoubles
  <2>4. 2 ^ m = h * (2 * p)
    BY <2>1, <2>2, <2>3, Zenon
  <2> HIDE DEF h, p
  <2> QED
    BY <2>4, <1>1
<1>3. /\ B \div p \in Nat /\ B % p \in Nat /\ B % p < p
      /\ B = p * (B \div p) + (B % p)
  BY <1>1, Divide
<1> HIDE DEF h, p
<1>4. \A q, r \in Nat : B = p * q + r =>
        A * (2 * (p * h)) + B = p * (2 * (A * h) + q) + r
  BY <1>1
<1>5. /\ 2 * (A * h) + (B \div p) \in Nat
      /\ A * 2 ^ m + B \in Nat
      /\ A * 2 ^ m + B = p * (2 * (A * h) + (B \div p)) + (B % p)
  <2>1. A * h \in Nat /\ p * h \in Nat
    BY <1>1
  <2>2. A * (2 * (p * h)) \in Nat
    BY <2>1
  <2> QED
    BY <1>2, <1>3, <1>4, <2>1, <2>2
<1>6. (A * 2 ^ m + B) \div p = 2 * (A * h) + (B \div p)
  BY <1>1, <1>3, <1>5, Quotient
<1>7. (2 * (A * h) + (B \div p)) % 2 = (B \div p) % 2
  <2>1. ASSUME NEW x \in Nat, NEW y \in Nat PROVE (2 * x + y) % 2 = y % 2
    OBVIOUS
  <2>2. A * h \in Nat
    BY <1>1
  <2> QED
    BY <1>3, <2>1, <2>2
<1> QED
  BY <1>6, <1>7 DEF Bit, p

\* A number of n bits has none above them.
LEMMA BitHigh ==
  ASSUME NEW v \in Nat, NEW n \in 0 .. 31, v < 2 ^ n, NEW k \in 0 .. 31, k >= n
  PROVE  Bit(v, k) = 0
<1>1. Bit(0 * 2 ^ n + v, k) = Bit(0, k - n)
  BY BitAbove
<1>2. 0 * 2 ^ n + v = v
  BY PowerNat
<1>3. Bit(0, k - n) = 0
  <2>1. k - n \in 0 .. 31
    OBVIOUS
  <2>2. 2 ^ (k - n) \in Nat /\ 2 ^ (k - n) > 0
    BY <2>1, PowerNat
  <2>3. 0 \div 2 ^ (k - n) = 0
    BY <2>2, Quotient
  <2>4. 0 % 2 = 0
    OBVIOUS
  <2> QED
    BY <2>3, <2>4, Zenon DEF Bit
<1> QED
  BY <1>1, <1>2, <1>3

\* Cutting a number to n bits leaves these as they are.
LEMMA BitLow ==
  ASSUME NEW v \in Nat, NEW n \in 0 .. 31, NEW k \in 0 .. 31, k < n
  PROVE  Bit(v % 2 ^ n, k) = Bit(v, k)
<1>1. 2 ^ n \in Nat /\ 2 ^ n > 0
  BY PowerNat
<1>2. /\ v \div 2 ^ n \in Nat /\ v % 2 ^ n \in Nat
      /\ v = 2 ^ n * (v \div 2 ^ n) + (v % 2 ^ n)
  BY <1>1, Divide
<1>3. v = (v \div 2 ^ n) * 2 ^ n + (v % 2 ^ n)
  <2>1. 2 ^ n * (v \div 2 ^ n) = (v \div 2 ^ n) * 2 ^ n
    BY <1>1, <1>2
  <2> QED
    BY <1>2, <2>1, Zenon
<1>4. Bit((v \div 2 ^ n) * 2 ^ n + (v % 2 ^ n), k) = Bit(v % 2 ^ n, k)
  BY <1>2, BitBelow
<1> QED
  BY <1>3, <1>4, Zenon

\* Two numbers with the same bits are the same.
LEMMA SameBits ==
  ASSUME NEW n \in 0 .. 31, NEW a \in Nat, NEW b \in Nat, a < 2 ^ n, b < 2 ^ n,
         \A k \in 0 .. 31 : k < n => Bit(a, k) = Bit(b, k)
  PROVE  a = b
<1> DEFINE Differ(m, x, y) == /\ x < 2 ^ m /\ y < 2 ^ m /\ x # y
                              /\ \A k \in 0 .. 31 : k < m => Bit(x, k) = Bit(y, k)
           Wrong == {m \in 0 .. 31 : \E x, y \in Nat : Differ(m, x, y)}
<1>s. SUFFICES ASSUME a # b PROVE FALSE
  OBVIOUS
<1>0. n \in Wrong
  BY <1>s
<1>1. PICK m \in Wrong : \A k \in Wrong : ~(k < m)
  <2>1. Wrong \subseteq Nat
    OBVIOUS
  <2> HIDE DEF Wrong
  <2> QED
    BY <1>0, <2>1, LeastNatural, Zenon
<1>2. PICK x \in Nat, y \in Nat : Differ(m, x, y)
  BY <1>1, Zenon
<1>3. m \in 0 .. 31
  BY <1>1
<1>4. m # 0
  <2> SUFFICES ASSUME m = 0 PROVE FALSE
    OBVIOUS
  <2>1. 2 ^ m = 1
    BY PowerZero
  <2> QED
    BY <1>2, <2>1
<1>5. /\ m - 1 \in 0 .. 30 /\ m - 1 \in 0 .. 31 /\ (m - 1) + 1 = m
      /\ m - 1 < m
  BY <1>3, <1>4
<1>6. m - 1 \notin Wrong
  BY <1>1, <1>5
<1>7. x \div 2 \in Nat /\ y \div 2 \in Nat
  OBVIOUS
<1>8. x \div 2 < 2 ^ (m - 1) /\ y \div 2 < 2 ^ (m - 1)
  <2>1. 2 ^ m = 2 * 2 ^ (m - 1) /\ 2 ^ (m - 1) \in Nat
    BY <1>5, PowerDoubles, PowerNat, Zenon
  <2>2. ASSUME NEW z \in Nat, NEW p \in Nat, z < 2 * p PROVE z \div 2 < p
    BY <2>2
  <2> QED
    BY <1>2, <2>1, <2>2
<1>9. x % 2 = y % 2
  <2>0. ASSUME NEW z \in Nat, NEW i \in 0 .. 31, i = 0 PROVE Bit(z, i) = z % 2
    <3>1. 2 ^ i = 1
      BY <2>0, PowerZero
    <3>2. z \div 1 = z
      OBVIOUS
    <3> QED
      BY <3>1, <3>2, Zenon DEF Bit
  <2>1. Bit(x, 0) = Bit(y, 0)
    BY <1>2, <1>3, <1>4
  <2> QED
    BY <2>0, <2>1
<1>10. x \div 2 # y \div 2
  BY <1>2, <1>9
<1>11. ASSUME NEW k \in 0 .. 31, k < m - 1
       PROVE  Bit(x \div 2, k) = Bit(y \div 2, k)
  <2>1. 1 + k \in 0 .. 31 /\ 1 + k < m /\ 1 + k <= 31
    BY <1>11, <1>5
  <2>2. ASSUME NEW z \in Nat, NEW i \in 0 .. 31, i = 1
        PROVE  Bit(z \div 2, k) = Bit(z, i + k)
    <3>1. 2 ^ i = 2
      BY <2>2, PowerOne
    <3>2. i + k <= 31
      BY <2>1, <2>2
    <3>3. Bit(z \div 2 ^ i, k) = Bit(z, i + k)
      BY <3>2, BitShift
    <3> QED
      BY <3>1, <3>3, Zenon
  <2>3. Bit(x, 1 + k) = Bit(y, 1 + k)
    BY <1>2, <2>1
  <2> QED
    BY <2>2, <2>3
<1>12. Differ(m - 1, x \div 2, y \div 2)
  BY <1>8, <1>10, <1>11
<1> HIDE DEF Differ
<1>13. m - 1 \in Wrong
  BY <1>5, <1>7, <1>12
<1> QED
  BY <1>6, <1>13

\* Zero has no bits.
LEMMA BitOfZero == ASSUME NEW k \in 0 .. 31 PROVE Bit(0, k) = 0
<1>1. 2 ^ k \in Nat /\ 2 ^ k > 0
  BY PowerNat
<1>2. 0 \div 2 ^ k = 0
  BY <1>1, Quotient
<1>3. 0 % 2 = 0
  OBVIOUS
<1> QED
  BY <1>2, <1>3, Zenon DEF Bit

\* Two parts side by side have as many bits as both together.
LEMMA JoinSmall ==
  ASSUME NEW a \in 0 .. 31, NEW m \in 0 .. 31, a + m <= 31,
         NEW A \in Nat, NEW B \in Nat, A < 2 ^ a, B < 2 ^ m
  PROVE  A * 2 ^ m + B \in Nat /\ A * 2 ^ m + B < 2 ^ (a + m)
<1> DEFINE p == 2 ^ a
           q == 2 ^ m
<1>1. p \in Nat /\ q \in Nat /\ p > 0 /\ q > 0
  BY PowerNat
<1>2. 2 ^ (a + m) = p * q
  BY PowerSum
<1>3. A < p /\ B < q
  OBVIOUS
<1> HIDE DEF p, q
<1>4. A + 1 <= p
  BY <1>1, <1>3
<1>5. (A + 1) * q <= p * q
  BY <1>1, <1>4
<1>6. (A + 1) * q = A * q + q /\ A * q \in Nat /\ p * q \in Nat
  BY <1>1
<1>7. A * q + B \in Nat /\ A * q + B < p * q
  BY <1>1, <1>3, <1>5, <1>6
<1> QED
  BY <1>2, <1>7, Zenon DEF q

\* Shifting right takes bits away.
LEMMA ShiftSmall ==
  ASSUME NEW a \in 0 .. 31, NEW m \in 0 .. 31, a + m <= 31,
         NEW v \in Nat, v < 2 ^ (a + m)
  PROVE  v \div 2 ^ m \in Nat /\ v \div 2 ^ m < 2 ^ a
<1> DEFINE p == 2 ^ a
           q == 2 ^ m
           r == v \div q
<1>1. p \in Nat /\ q \in Nat /\ p > 0 /\ q > 0
  BY PowerNat
<1>2. 2 ^ (a + m) = p * q
  BY PowerSum
<1>3. v < p * q
  BY <1>2, Zenon
<1>4. r \in Nat /\ v % q \in Nat /\ v = q * r + (v % q)
  BY <1>1, Divide
<1> HIDE DEF p, q, r
<1>5. SUFFICES ASSUME r >= p PROVE FALSE
  BY <1>1, <1>4 DEF p, q, r
<1>6. r * q >= p * q
  BY <1>1, <1>4, <1>5
<1>7. q * r = r * q /\ r * q \in Nat /\ p * q \in Nat
  BY <1>1, <1>4
<1> QED
  BY <1>3, <1>4, <1>6, <1>7

\* A rest is small.
LEMMA RestSmall ==
  ASSUME NEW a \in Nat, NEW b \in Nat, b > 0
  PROVE  a % b \in Nat /\ a % b <= a /\ a % b < b
<1>1. a \div b \in Nat /\ a % b \in Nat /\ a % b < b /\ a = b * (a \div b) + (a % b)
  BY Divide
<1>2. b * (a \div b) \in Nat
  BY <1>1
<1> QED
  BY <1>1, <1>2

-----------------------------------------------------------------------------
(* The bytes of a field, as Store writes them.                             *)

\* The bytes a field fills, bit by bit.
LEMMA ByteWithin ==
  ASSUME NEW v \in Nat, NEW e \in 0 .. 24
  PROVE  /\ (v \div 2 ^ e) % 256 \in 0 .. 255
         /\ \A k \in 0 .. 7 : Bit((v \div 2 ^ e) % 256, k) = Bit(v, e + k)
<1>0. 2 ^ e \in Nat /\ 2 ^ e > 0
  <2>1. e \in 0 .. 31
    OBVIOUS
  <2> QED
    BY <2>1, PowerNat
<1>1. v \div 2 ^ e \in Nat
  BY <1>0, Divide
<1>2. (v \div 2 ^ e) % 256 \in 0 .. 255
  BY <1>1
<1>3. ASSUME NEW k \in 0 .. 7, NEW n \in 0 .. 31, n = 8
      PROVE  Bit((v \div 2 ^ e) % 256, k) = Bit(v, e + k)
  <2>1. 2 ^ n = 256
    BY <1>3, PowerEight
  <2>2. k \in 0 .. 31 /\ k < n /\ e \in 0 .. 31 /\ e + k <= 31
    BY <1>3
  <2>3. Bit((v \div 2 ^ e) % 2 ^ n, k) = Bit(v \div 2 ^ e, k)
    BY <1>1, <2>2, BitLow
  <2>4. Bit(v \div 2 ^ e, k) = Bit(v, e + k)
    BY <2>2, BitShift
  <2> QED
    BY <2>1, <2>3, <2>4, Zenon
<1> QED
  BY <1>2, <1>3

\* The byte a field ends in is filled up with zeros.
LEMMA ByteAtEnd ==
  ASSUME NEW v \in Nat, NEW s \in 0 .. 7
  PROVE  /\ ((v % 256) * 2 ^ s) % 256 \in 0 .. 255
         /\ \A k \in 0 .. 7 : Bit(((v % 256) * 2 ^ s) % 256, k)
              = IF k >= s THEN Bit(v, k - s) ELSE 0
<1> DEFINE low == v % 256
           up  == low * 2 ^ s
<1>1. low \in Nat
  OBVIOUS
<1>2. 2 ^ s \in Nat /\ 2 ^ s > 0 /\ 0 < 2 ^ s
  <2>1. s \in 0 .. 31
    OBVIOUS
  <2> QED
    BY <2>1, PowerNat
<1> PICK zero \in Nat : zero = 0
  OBVIOUS
<1>3. up \in Nat /\ low * 2 ^ s + zero = up
  BY <1>1, <1>2
<1> HIDE DEF up, low
<1>4. up % 256 \in 0 .. 255
  BY <1>3
<1>5. ASSUME NEW k \in 0 .. 7, NEW n \in 0 .. 31, n = 8
      PROVE  Bit(up % 256, k) = IF k >= s THEN Bit(v, k - s) ELSE 0
  <2>1. 2 ^ n = 256
    BY <1>5, PowerEight
  <2>2. k \in 0 .. 31 /\ k < n /\ s \in 0 .. 31
    BY <1>5
  <2>3. Bit(up % 2 ^ n, k) = Bit(up, k)
    BY <1>3, <2>2, BitLow
  <2>4. CASE k >= s
    <3>0. zero < 2 ^ s
      BY <1>2
    <3>1. Bit(low * 2 ^ s + zero, k) = Bit(low, k - s)
      BY <1>1, <2>2, <2>4, <3>0, BitAbove, Zenon
    <3>2. k - s \in 0 .. 31 /\ k - s < n
      BY <2>4, <1>5
    <3>3. Bit(v % 2 ^ n, k - s) = Bit(v, k - s)
      BY <3>2, BitLow
    <3>4. Bit(low, k - s) = Bit(v, k - s)
      BY <2>1, <3>3, Zenon DEF low
    <3>5. Bit(up, k) = Bit(low, k - s)
      BY <1>3, <3>1, Zenon
    <3> QED
      BY <2>1, <2>3, <2>4, <3>4, <3>5, Zenon
  <2>5. CASE ~(k >= s)
    <3>1. k < s
      BY <2>5
    <3>2. Bit(low * 2 ^ s + zero, k) = Bit(zero, k)
      BY <1>1, <2>2, <3>1, BitBelow
    <3>3. Bit(zero, k) = 0
      BY <2>2, BitOfZero
    <3> QED
      BY <1>3, <2>1, <2>3, <2>5, <3>2, <3>3, Zenon
  <2> QED
    BY <2>4, <2>5
<1>6. \A k \in 0 .. 7 : Bit(up % 256, k) = IF k >= s THEN Bit(v, k - s) ELSE 0
  BY <1>5
<1> QED
  BY <1>4, <1>6, Zenon DEF up, low

\* The byte x has o bits of begun and the others of f.
Divided(x, o, begun, f) ==
  /\ x \in 0 .. 255
  /\ \A k \in 0 .. 7 : Bit(x, 7 - k) = IF k < o THEN Bit(begun, 7 - k) ELSE Bit(f, 7 - k)

\* The bits a byte had before stay in front of those it gets.
LEMMA KeptInFront ==
  ASSUME NEW o \in 0 .. 7, NEW begun \in 0 .. 255, NEW f \in Nat, f < 2 ^ (8 - o),
         NEW kept, kept = begun - (begun % 2 ^ (8 - o))
  PROVE  Divided(f + kept, o, begun, f)
<1> DEFINE m == 8 - o
           q == begun \div 2 ^ m
<1>1. m \in 0 .. 31 /\ o \in 0 .. 31 /\ o + m = 8 /\ o + m <= 31
  OBVIOUS
<1>2. 2 ^ m \in Nat /\ 2 ^ m > 0
  BY <1>1, PowerNat
<1>3. q \in Nat /\ begun % 2 ^ m \in Nat /\ begun = 2 ^ m * q + (begun % 2 ^ m)
  BY <1>2, Divide
<1>4. kept = q * 2 ^ m
  <2>1. 2 ^ m * q = q * 2 ^ m /\ 2 ^ m * q \in Nat
    BY <1>2, <1>3
  <2>2. kept = 2 ^ m * q
    <3>1. ASSUME NEW x \in Nat, NEW y \in Nat, begun = x + y PROVE begun - y = x
      BY <3>1
    <3> HIDE DEF q
    <3>2. begun - (begun % 2 ^ m) = 2 ^ m * q
      BY <1>3, <2>1, <3>1
    <3> QED
      BY <3>2
  <2> QED
    BY <2>1, <2>2
<1>5. 2 ^ (o + m) = 256
  BY <1>1, PowerEight
<1>6. q < 2 ^ o
  <2>1. begun < 2 ^ (o + m) /\ begun \in Nat
    BY <1>5
  <2> QED
    BY <1>1, <2>1, ShiftSmall
<1>7. f < 2 ^ m
  OBVIOUS
<1> HIDE DEF m, q
<1>8. f + kept \in 0 .. 255 /\ f + kept = q * 2 ^ m + f
  <2>1. q * 2 ^ m + f \in Nat /\ q * 2 ^ m + f < 2 ^ (o + m)
    BY <1>1, <1>3, <1>6, <1>7, JoinSmall
  <2>2. q * 2 ^ m \in Nat
    BY <1>2, <1>3
  <2> QED
    BY <2>1, <2>2, <1>4, <1>5
<1>9. ASSUME NEW k \in 0 .. 7
      PROVE  Bit(f + kept, 7 - k) = IF k < o THEN Bit(begun, 7 - k) ELSE Bit(f, 7 - k)
  <2>1. 7 - k \in 0 .. 31
    OBVIOUS
  <2>2. CASE k < o
    <3>1. 7 - k >= m /\ (7 - k) - m \in 0 .. 31 /\ m + ((7 - k) - m) = 7 - k
          /\ m + ((7 - k) - m) <= 31
      BY <2>2, <1>1
    <3>2. Bit(q * 2 ^ m + f, 7 - k) = Bit(q, (7 - k) - m)
      BY <1>1, <1>3, <1>7, <2>1, <3>1, BitAbove
    <3>3. begun \in Nat
      OBVIOUS
    <3>4. Bit(begun \div 2 ^ m, (7 - k) - m) = Bit(begun, m + ((7 - k) - m))
      BY <1>1, <3>1, <3>3, BitShift
    <3>5. Bit(q, (7 - k) - m) = Bit(begun, 7 - k)
      BY <3>1, <3>4, Zenon DEF q
    <3> QED
      BY <1>8, <2>2, <3>2, <3>5, Zenon
  <2>3. CASE ~(k < o)
    <3>1. 7 - k < m
      BY <2>3, <1>1
    <3>2. Bit(q * 2 ^ m + f, 7 - k) = Bit(f, 7 - k)
      BY <1>1, <1>3, <2>1, <3>1, BitBelow
    <3> QED
      BY <1>8, <2>3, <3>2, Zenon
  <2> QED
    BY <2>2, <2>3
<1> QED
  BY <1>8, <1>9 DEF Divided

\* What Store writes into the byte i after the one a field begins in.
FieldByte(v, off, i) ==
  IF i < (off - 1) \div 8 THEN (v \div 2 ^ (off - 8 * (i + 1))) % 256
  ELSE ((v % 256) * 2 ^ (8 * ((off - 1) \div 8 + 1) - off)) % 256

\* The byte x has the bits of v from its bit 8 * i on, the last at off - 1.
HoldsField(x, v, off, i) ==
  /\ x \in 0 .. 255
  /\ \A k \in 0 .. 7 :
       Bit(x, 7 - k) = IF 8 * i + k < off THEN Bit(v, off - 1 - (8 * i + k)) ELSE 0

\* These bytes hold the field.
LEMMA FieldBits ==
  ASSUME NEW v \in Nat, NEW off \in 1 .. 31, NEW i \in Nat, i <= (off - 1) \div 8
  PROVE  HoldsField(FieldByte(v, off, i), v, off, i)
<1> DEFINE last == (off - 1) \div 8
<1>1. last \in Nat /\ 8 * last <= off - 1 /\ off - 1 <= 8 * last + 7
  OBVIOUS
<1>2. CASE i < last
  <2> DEFINE e == off - 8 * (i + 1)
  <2>1. e \in 0 .. 24
    BY <1>1, <1>2
  <2>2. FieldByte(v, off, i) = (v \div 2 ^ e) % 256
    BY <1>2, Zenon DEF FieldByte
  <2>3. ASSUME NEW k \in 0 .. 7
        PROVE  8 * i + k < off /\ e + (7 - k) = off - 1 - (8 * i + k) /\ 7 - k \in 0 .. 7
    BY <1>1, <1>2
  <2> HIDE DEF e, last
  <2>4. /\ (v \div 2 ^ e) % 256 \in 0 .. 255
        /\ \A k \in 0 .. 7 : Bit((v \div 2 ^ e) % 256, k) = Bit(v, e + k)
    BY <2>1, ByteWithin
  <2>5. ASSUME NEW k \in 0 .. 7
        PROVE  Bit(FieldByte(v, off, i), 7 - k)
                 = IF 8 * i + k < off THEN Bit(v, off - 1 - (8 * i + k)) ELSE 0
    <3>1. Bit((v \div 2 ^ e) % 256, 7 - k) = Bit(v, e + (7 - k))
      BY <2>3, <2>4
    <3>2. Bit(FieldByte(v, off, i), 7 - k) = Bit(v, off - 1 - (8 * i + k))
      BY <2>2, <2>3, <3>1, Zenon
    <3> QED
      BY <2>3, <3>2
  <2> QED
    BY <2>2, <2>4, <2>5 DEF HoldsField
<1>3. CASE ~(i < last)
  <2> DEFINE s == 8 * (last + 1) - off
  <2>1. s \in 0 .. 7 /\ i = last
    BY <1>1, <1>3
  <2>2. FieldByte(v, off, i) = ((v % 256) * 2 ^ s) % 256
    BY <1>3, Zenon DEF FieldByte
  <2>3. ASSUME NEW k \in 0 .. 7
        PROVE  /\ 7 - k \in 0 .. 7
               /\ (7 - k >= s) <=> (8 * i + k < off)
               /\ 7 - k >= s => (7 - k) - s = off - 1 - (8 * i + k)
    BY <2>1
  <2> HIDE DEF s, last
  <2>4. /\ ((v % 256) * 2 ^ s) % 256 \in 0 .. 255
        /\ \A k \in 0 .. 7 : Bit(((v % 256) * 2 ^ s) % 256, k)
             = IF k >= s THEN Bit(v, k - s) ELSE 0
    BY <2>1, ByteAtEnd, Zenon
  <2>5. ASSUME NEW k \in 0 .. 7
        PROVE  Bit(FieldByte(v, off, i), 7 - k)
                 = IF 8 * i + k < off THEN Bit(v, off - 1 - (8 * i + k)) ELSE 0
    <3>1. Bit(((v % 256) * 2 ^ s) % 256, 7 - k)
            = IF 7 - k >= s THEN Bit(v, (7 - k) - s) ELSE 0
      BY <2>3, <2>4, Zenon
    <3>2. CASE 7 - k >= s
      BY <2>2, <2>3, <3>1, <3>2, Zenon
    <3>3. CASE ~(7 - k >= s)
      BY <2>2, <2>3, <3>1, <3>3, Zenon
    <3> QED
      BY <3>2, <3>3
  <2> QED
    BY <2>2, <2>4, <2>5 DEF HoldsField
<1> QED
  BY <1>2, <1>3

\* The first byte of a field that has room for it leaves the bits before alone.
LEMMA FieldBegin ==
  ASSUME NEW o \in 0 .. 7, NEW n \in 1 .. 31, NEW off \in 1 .. 31, off = o + n,
         NEW v \in Nat, v < 2 ^ n
  PROVE  FieldByte(v, off, 0) < 2 ^ (8 - o)
<1> DEFINE last == (off - 1) \div 8
           m    == 8 - o
<1>1. /\ last \in Nat /\ 8 * last <= off - 1 /\ off - 1 <= 8 * last + 7
      /\ m \in 1 .. 8 /\ m \in 0 .. 31
  OBVIOUS
<1>2. 2 ^ m \in Nat
  BY <1>1, PowerNat
<1>3. CASE 0 < last
  <2> DEFINE e == off - 8 * (0 + 1)
  <2>1. e \in 0 .. 31 /\ m + e = n /\ m + e <= 31
    BY <1>1, <1>3
  <2>2. FieldByte(v, off, 0) = (v \div 2 ^ e) % 256
    BY <1>3, Zenon DEF FieldByte
  <2>3. v < 2 ^ (m + e)
    BY <2>1, Zenon
  <2> HIDE DEF m, e
  <2>4. v \div 2 ^ e \in Nat /\ v \div 2 ^ e < 2 ^ m
    BY <1>1, <2>1, <2>3, ShiftSmall
  <2>5. ASSUME NEW x \in Nat PROVE x % 256 <= x /\ x % 256 \in Nat
    OBVIOUS
  <2>6. FieldByte(v, off, 0) < 2 ^ m
    BY <1>2, <2>2, <2>4, <2>5
  <2> QED
    BY <2>6 DEF m
<1>4. CASE ~(0 < last)
  <2> DEFINE s == 8 * (last + 1) - off
  <2>1. s \in 0 .. 31 /\ n + s = m /\ n + s <= 31 /\ n \in 0 .. 31
    BY <1>1, <1>4
  <2>2. FieldByte(v, off, 0) = ((v % 256) * 2 ^ s) % 256
    BY <1>4, Zenon DEF FieldByte
  <2>3. 2 ^ n \in Nat /\ 2 ^ s \in Nat /\ 0 < 2 ^ s
    BY <2>1, PowerNat
  <2>4. ASSUME NEW x \in Nat PROVE x % 256 <= x /\ x % 256 \in Nat
    OBVIOUS
  <2>5. v % 256 \in Nat /\ v % 256 < 2 ^ n
    BY <2>3, <2>4
  <2> DEFINE low == v % 256
  <2> HIDE DEF m, s, low
  <2> PICK zero \in Nat : zero = 0
    OBVIOUS
  <2>6. low * 2 ^ s + zero \in Nat /\ low * 2 ^ s + zero < 2 ^ (n + s)
    <3>1. zero < 2 ^ s /\ low \in Nat /\ low < 2 ^ n
      BY <2>3, <2>5 DEF low
    <3> QED
      BY <2>1, <3>1, JoinSmall, Zenon
  <2>7. low * 2 ^ s \in Nat /\ low * 2 ^ s < 2 ^ m
    <3>1. low * 2 ^ s \in Nat
      BY <2>3, <2>5 DEF low
    <3>2. low * 2 ^ s + zero = low * 2 ^ s
      BY <3>1
    <3> QED
      BY <2>1, <2>6, <3>1, <3>2, Zenon
  <2>8. (low * 2 ^ s) % 256 < 2 ^ m
    BY <1>2, <2>4, <2>7
  <2> QED
    BY <2>2, <2>8, Zenon DEF m, low
<1> QED
  BY <1>3, <1>4

\* A byte of the stream after Store.
Stored(x, v, o, off, begun, i) ==
  /\ x \in 0 .. 255
  /\ \A k \in 0 .. 7 :
       Bit(x, 7 - k) = IF 8 * i + k < o THEN Bit(begun, 7 - k)
                       ELSE IF 8 * i + k < off THEN Bit(v, off - 1 - (8 * i + k)) ELSE 0

\* That is what Store leaves in each byte it writes.
LEMMA StoredByte ==
  ASSUME NEW o \in 0 .. 7, NEW n \in 1 .. 31, NEW off \in 1 .. 31, off = o + n,
         NEW v \in Nat, v < 2 ^ n,
         NEW begun \in 0 .. 255, NEW i \in Nat, i <= (off - 1) \div 8,
         NEW x, x = FieldByte(v, off, i)
                      + IF i = 0 THEN begun - (begun % 2 ^ (8 - o)) ELSE 0
  PROVE  Stored(x, v, o, off, begun, i)
<1>1. PICK f : f = FieldByte(v, off, i)
  OBVIOUS
<1>2. /\ f \in 0 .. 255
      /\ \A k \in 0 .. 7 : Bit(f, 7 - k)
           = IF 8 * i + k < off THEN Bit(v, off - 1 - (8 * i + k)) ELSE 0
  <2>1. HoldsField(f, v, off, i)
    BY <1>1, FieldBits
  <2> QED
    BY <2>1, Zenon DEF HoldsField
<1>3. PICK kept : kept = begun - (begun % 2 ^ (8 - o))
  OBVIOUS
<1>4. CASE i = 0
  <2>1. f < 2 ^ (8 - o)
    BY <1>1, <1>4, FieldBegin
  <2>2. x = f + kept
    BY <1>1, <1>3, <1>4, Zenon
  <2>3. f \in Nat
    BY <1>2
  <2>4. Divided(f + kept, o, begun, f)
    BY <1>3, <2>1, <2>3, KeptInFront, Zenon
  <2>5. ASSUME NEW k \in 0 .. 7
        PROVE  Bit(x, 7 - k)
              = IF 8 * i + k < o THEN Bit(begun, 7 - k)
                ELSE IF 8 * i + k < off THEN Bit(v, off - 1 - (8 * i + k)) ELSE 0
    <3>1. 8 * i + k = k
      BY <1>4
    <3>2. Bit(x, 7 - k) = IF k < o THEN Bit(begun, 7 - k) ELSE Bit(f, 7 - k)
      BY <2>2, <2>4, Zenon DEF Divided
    <3>3. Bit(f, 7 - k) = IF 8 * i + k < off THEN Bit(v, off - 1 - (8 * i + k)) ELSE 0
      BY <1>2
    <3> QED
      BY <3>1, <3>2, <3>3
  <2>6. x \in 0 .. 255
    BY <2>2, <2>4, Zenon DEF Divided
  <2> QED
    BY <2>5, <2>6 DEF Stored
<1>5. CASE i # 0
  <2>1. x = f
    BY <1>1, <1>2, <1>5
  <2>2. ASSUME NEW k \in 0 .. 7 PROVE ~(8 * i + k < o)
    BY <1>5
  <2>3. ASSUME NEW k \in 0 .. 7
        PROVE  Bit(x, 7 - k)
              = IF 8 * i + k < o THEN Bit(begun, 7 - k)
                ELSE IF 8 * i + k < off THEN Bit(v, off - 1 - (8 * i + k)) ELSE 0
    <3>1. Bit(f, 7 - k) = IF 8 * i + k < off THEN Bit(v, off - 1 - (8 * i + k)) ELSE 0
      BY <1>2
    <3> QED
      BY <2>1, <2>2, <3>1
  <2> QED
    BY <1>2, <2>1, <2>3 DEF Stored
<1> QED
  BY <1>4, <1>5

-----------------------------------------------------------------------------
(* The encoder.                                                            *)

\* What is handed on, and the memory it comes from.
Bytes == Seq(0 .. 255)
Space == [0 .. TmpSize - 1 -> 0 .. 255]

\* The whole state.
Encoder ==
  [out : Bytes, tmpspace : Space,
   buffer : Nat, nboff : Nat, nbits : Int, failed : BOOLEAN]

\* The changes an encoder undergoes.
Moved(p, x, y, z) == [p EXCEPT !.buffer = x, !.nboff = y, !.nbits = z]
Emptied(p, c, t, z) == [p EXCEPT !.out = c, !.tmpspace = t, !.buffer = 0, !.nbits = z]
Filled(p, y, t) == [p EXCEPT !.nboff = y, !.tmpspace = t]

\* Each of them leaves an encoder, changed where it says.
LEMMA EncoderMoved ==
  ASSUME NEW p \in Encoder, NEW x \in Nat, NEW y \in Nat, NEW z \in Int,
         NEW q, q = Moved(p, x, y, z)
  PROVE  /\ q \in Encoder /\ q.buffer = x /\ q.nboff = y /\ q.nbits = z
         /\ q.out = p.out /\ q.tmpspace = p.tmpspace /\ q.failed = p.failed
BY DEF Encoder, Moved

\* Everything handed on.
LEMMA EncoderEmptied ==
  ASSUME NEW p \in Encoder, NEW c \in Bytes, NEW t \in Space, NEW z \in Int,
         NEW q, q = Emptied(p, c, t, z)
  PROVE  /\ q \in Encoder /\ q.buffer = 0 /\ q.nboff = p.nboff /\ q.nbits = z
         /\ q.out = c /\ q.tmpspace = t /\ q.failed = p.failed
BY DEF Encoder, Emptied

\* A field more in tmpspace.
LEMMA EncoderFilled ==
  ASSUME NEW p \in Encoder, NEW y \in Nat, NEW t \in Space,
         NEW q, q = Filled(p, y, t)
  PROVE  /\ q \in Encoder /\ q.buffer = p.buffer /\ q.nboff = y /\ q.nbits = p.nbits
         /\ q.out = p.out /\ q.tmpspace = t /\ q.failed = p.failed
BY DEF Encoder, Filled

\* The byte j of all that is there, handed on or not.
ByteAt(p, j) == IF j < Len(p.out) THEN p.out[j + 1] ELSE p.tmpspace[j - Len(p.out)]

\* The first Len(b) bits of all that is there are those of b.
BitsAre(p, b) ==
  \A j \in Nat : \A k \in 0 .. 7 :
    8 * j + k < Len(b) => b[8 * j + k + 1] = Bit(ByteAt(p, j), 7 - k)

\* Where a position is when length bits have been put and n bytes handed on.
Stands(length, n, buffer, nboff, nbits) ==
  /\ buffer \in 0 .. TmpSize /\ nboff \in 0 .. 31
  /\ nbits = 8 * (TmpSize - buffer) /\ nboff <= nbits
  /\ length = 8 * (n + buffer) + nboff

\* p has been given the bits b.
Written(p, b) ==
  /\ p \in Encoder /\ p.failed = FALSE /\ b \in Seq({0, 1})
  /\ Stands(Len(b), Len(p.out), p.buffer, p.nboff, p.nbits)
  /\ BitsAre(p, b)

\* A sequence that is given by its elements.
LEMMA BuiltSequence ==
  ASSUME NEW S, NEW n \in Nat, NEW f \in [1 .. n -> S]
  PROVE  f \in Seq(S) /\ Len(f) = n
OBVIOUS

\* The types of what is written.
LEMMA WrittenLengths ==
  ASSUME NEW p, NEW b, Written(p, b)
  PROVE  Len(b) \in Nat /\ Len(p.out) \in Nat /\ p.out \in Bytes /\ p.tmpspace \in Space
<1>1. p \in Encoder /\ b \in Seq({0, 1})
  BY Zenon DEF Written
<1>2. p.out \in Bytes /\ p.tmpspace \in Space
  BY <1>1 DEF Encoder
<1>3. Len(p.out) \in Nat
  BY <1>2 DEF Bytes
<1>4. Len(b) \in Nat
  BY <1>1
<1> QED
  BY <1>2, <1>3, <1>4

\* Moving on by whole bytes.
LEMMA StandsNormal ==
  ASSUME NEW l \in Nat, NEW n \in Nat, NEW buffer, NEW nboff, NEW nbits,
         Stands(l, n, buffer, nboff, nbits)
  PROVE  /\ Stands(l, n, buffer + nboff \div 8, nboff % 8, nbits - 8 * (nboff \div 8))
         /\ buffer + nboff \div 8 \in Nat /\ nboff % 8 \in 0 .. 7
         /\ nbits - 8 * (nboff \div 8) \in Int
<1>1. /\ buffer \in 0 .. TmpSize /\ nboff \in 0 .. 31
      /\ nbits = 8 * (TmpSize - buffer) /\ nboff <= nbits
      /\ l = 8 * (n + buffer) + nboff /\ TmpSize \in Nat
  BY TmpAssumption DEF Stands
<1>2. PICK whole \in Nat, rest \in 0 .. 7 :
        whole = nboff \div 8 /\ rest = nboff % 8 /\ nboff = 8 * whole + rest
  BY <1>1
<1>3. buffer + whole \in 0 .. TmpSize
  BY <1>1, <1>2
<1>4. Stands(l, n, buffer + whole, rest, nbits - 8 * whole)
  BY <1>1, <1>2, <1>3 DEF Stands
<1>5. buffer + whole \in Nat /\ nbits - 8 * whole \in Int
  BY <1>1
<1> QED
  BY <1>2, <1>4, <1>5, Zenon

\* Bytes behind bytes.
LEMMA ByteConcat ==
  ASSUME NEW a \in Seq(0 .. 255), NEW b \in Seq(0 .. 255)
  PROVE  a \o b \in Seq(0 .. 255) /\ Len(a \o b) = Len(a) + Len(b)
BY ConcatProperties, Zenon

\* Moving on by whole bytes changes no bit.
LEMMA NormaliseWritten ==
  ASSUME NEW p, NEW b, Written(p, b), NEW q, q = Normalise(p)
  PROVE  Written(q, b) /\ q.nboff \in 0 .. 7
<1>1. /\ p \in Encoder /\ p.failed = FALSE /\ b \in Seq({0, 1}) /\ BitsAre(p, b)
      /\ Stands(Len(b), Len(p.out), p.buffer, p.nboff, p.nbits)
  BY Zenon DEF Written
<1>2. PICK x, y, z :
        /\ x = p.buffer + p.nboff \div 8 /\ y = p.nboff % 8
        /\ z = p.nbits - 8 * (p.nboff \div 8)
  BY Zenon
<1>3. Stands(Len(b), Len(p.out), x, y, z) /\ x \in Nat /\ y \in 0 .. 7 /\ z \in Int
  BY <1>1, <1>2, WrittenLengths, StandsNormal
<1>4. q = Moved(p, x, y, z)
  BY <1>2, Zenon DEF Normalise, Moved
<1>5. y \in Nat
  BY <1>3
<1>6. /\ q \in Encoder /\ q.buffer = x /\ q.nboff = y /\ q.nbits = z
      /\ q.out = p.out /\ q.tmpspace = p.tmpspace /\ q.failed = p.failed
  <2>1. p \in Encoder /\ x \in Nat /\ y \in Nat /\ z \in Int
    BY <1>1, <1>3, <1>5, Zenon
  <2> QED
    BY <1>4, <2>1, EncoderMoved
<1>7. BitsAre(q, b)
  BY <1>1, <1>6, Zenon DEF BitsAre, ByteAt
<1> QED
  BY <1>1, <1>3, <1>6, <1>7, Zenon DEF Written

\* What is handed on are the bytes before the current one.
LEMMA CompleteBytes ==
  ASSUME NEW p \in Encoder, NEW n \in 0 .. TmpSize, NEW c, c = Complete(p, n)
  PROVE  /\ c \in Bytes
         /\ Len(c) = Len(p.out) + n
         /\ \A j \in 0 .. Len(p.out) + n - 1 : c[j + 1] = ByteAt(p, j)
<1>1. PICK o \in Seq(0 .. 255), t \in [0 .. TmpSize - 1 -> 0 .. 255] : o = p.out /\ t = p.tmpspace
  BY DEF Encoder, Bytes, Space
<1> DEFINE f == [i \in 1 .. n |-> t[i - 1]]
<1>2. n \in Nat /\ TmpSize \in Nat
  BY TmpAssumption
<1>3. f \in [1 .. n -> 0 .. 255] /\ \A i \in 1 .. n : f[i] = t[i - 1]
  BY <1>2
<1>4. c = o \o f
  BY <1>1, Zenon DEF Complete
<1> HIDE DEF f
<1>5. f \in Seq(0 .. 255) /\ Len(f) = n
  BY <1>2, <1>3, BuiltSequence
<1>6. ASSUME NEW j \in 0 .. Len(o) + n - 1
      PROVE  (o \o f)[j + 1] = IF j < Len(o) THEN o[j + 1] ELSE t[j - Len(o)]
  <2>0. Len(o) \in Nat /\ j \in Nat
    OBVIOUS
  <2>1. CASE j < Len(o)
    BY <1>5, <2>0, <2>1
  <2>2. CASE ~(j < Len(o))
    <3>1. j + 1 - Len(o) \in 1 .. n /\ (j + 1 - Len(o)) - 1 = j - Len(o)
      BY <1>2, <1>6, <2>0, <2>2
    <3>2. (o \o f)[j + 1] = f[j + 1 - Len(o)]
      BY <1>2, <1>5, <2>0, <2>2, <3>1
    <3>3. f[j + 1 - Len(o)] = t[j - Len(o)]
      BY <1>3, <3>1
    <3> QED
      BY <2>2, <3>2, <3>3
  <2> QED
    BY <2>1, <2>2
<1>7. o \o f \in Seq(0 .. 255) /\ Len(o \o f) = Len(o) + n
  BY <1>5, ByteConcat, Zenon
<1>8. ASSUME NEW j \in 0 .. Len(o) + n - 1 PROVE c[j + 1] = ByteAt(p, j)
  <2>1. c[j + 1] = IF j < Len(o) THEN o[j + 1] ELSE t[j - Len(o)]
    BY <1>4, <1>6
  <2> QED
    BY <1>1, <2>1, Zenon DEF ByteAt
<1> QED
  BY <1>1, <1>4, <1>7, <1>8, Zenon DEF Bytes

\* From the front of tmpspace.
LEMMA StandsFront ==
  ASSUME NEW l \in Nat, NEW n \in Nat, NEW buffer, NEW nboff \in 0 .. 7, NEW nbits,
         Stands(l, n, buffer, nboff, nbits)
  PROVE  /\ Stands(l, n + buffer, 0, nboff, 8 * TmpSize)
         /\ buffer \in 0 .. TmpSize /\ (nboff > 0 => buffer \in 0 .. TmpSize - 1)
         /\ 8 * TmpSize \in Int
         /\ \A j \in Nat, k \in 0 .. 7 :
              8 * j + k < l /\ ~(j < n + buffer) => j = n + buffer /\ nboff > 0
<1>1. /\ buffer \in 0 .. TmpSize
      /\ nbits = 8 * (TmpSize - buffer) /\ nboff <= nbits
      /\ l = 8 * (n + buffer) + nboff /\ TmpSize \in Nat /\ TmpSize > 4
  BY TmpAssumption DEF Stands
<1>2. Stands(l, n + buffer, 0, nboff, 8 * TmpSize)
  BY <1>1 DEF Stands
<1> QED
  BY <1>1, <1>2

\* Handing them on changes no bit either.
LEMMA FlushWritten ==
  ASSUME NEW p, NEW b, Written(p, b), p.nboff \in 0 .. 7, NEW q, q = Flush(p)
  PROVE  Written(q, b) /\ q.nboff = p.nboff /\ q.nbits = 8 * TmpSize
<1>1. /\ p \in Encoder /\ p.failed = FALSE /\ b \in Seq({0, 1}) /\ BitsAre(p, b)
      /\ Stands(Len(b), Len(p.out), p.buffer, p.nboff, p.nbits)
  BY Zenon DEF Written
<1>2. PICK l \in Nat, n \in Nat : l = Len(b) /\ n = Len(p.out)
  BY WrittenLengths
<1>u. PICK u : u = p.buffer
  OBVIOUS
<1>3. /\ Stands(l, n + u, 0, p.nboff, 8 * TmpSize)
      /\ u \in 0 .. TmpSize /\ (p.nboff > 0 => u \in 0 .. TmpSize - 1)
      /\ 8 * TmpSize \in Int
      /\ \A j \in Nat, k \in 0 .. 7 :
           8 * j + k < l /\ ~(j < n + u) => j = n + u /\ p.nboff > 0
  <2>1. Stands(l, n, u, p.nboff, p.nbits)
    BY <1>1, <1>2, <1>u, Zenon
  <2> QED
    BY <2>1, StandsFront
<1>4. PICK c : c = Complete(p, u)
  OBVIOUS
<1>5. /\ c \in Bytes /\ Len(c) = n + u
      /\ \A j \in 0 .. n + u - 1 : c[j + 1] = ByteAt(p, j)
  <2>1. /\ c \in Bytes /\ Len(c) = Len(p.out) + u
        /\ \A j \in 0 .. Len(p.out) + u - 1 : c[j + 1] = ByteAt(p, j)
    BY <1>1, <1>3, <1>4, CompleteBytes, Zenon
  <2> QED
    BY <1>2, <1>u, <2>1, Zenon
<1>6. PICK t : t = [p.tmpspace EXCEPT ![0] = IF p.nboff > 0 THEN p.tmpspace[u] ELSE @]
  OBVIOUS
<1>7. t \in Space /\ (p.nboff > 0 => t[0] = p.tmpspace[u])
  <2>1. PICK s \in [0 .. TmpSize - 1 -> 0 .. 255] : s = p.tmpspace
    BY WrittenLengths DEF Space
  <2>2. 0 \in 0 .. TmpSize - 1
    BY TmpAssumption
  <2>3. PICK w \in 0 .. 255 : /\ w = IF p.nboff > 0 THEN s[u] ELSE s[0]
                             /\ t = [s EXCEPT ![0] = w]
    <3>1. s[0] \in 0 .. 255 /\ (p.nboff > 0 => s[u] \in 0 .. 255)
      BY <1>3, <2>1, <2>2
    <3>2. t = [s EXCEPT ![0] = IF p.nboff > 0 THEN s[u] ELSE s[0]]
      BY <1>6, <2>1
    <3> QED
      BY <3>1, <3>2, Zenon
  <2>4. t \in [0 .. TmpSize - 1 -> 0 .. 255] /\ t[0] = w
    BY <2>1, <2>2, <2>3
  <2> QED
    BY <2>1, <2>3, <2>4, Zenon DEF Space
<1>8. PICK z \in Int : z = 8 * TmpSize
  BY <1>3, Zenon
<1>9. /\ q \in Encoder /\ q.out = c /\ q.buffer = 0 /\ q.nboff = p.nboff
      /\ q.nbits = 8 * TmpSize /\ q.failed = p.failed /\ q.tmpspace = t
  <2>1. q = Emptied(p, c, t, z)
    BY <1>2, <1>u, <1>4, <1>6, <1>8, Zenon DEF Flush, Emptied
  <2>2. /\ q \in Encoder /\ q.out = c /\ q.buffer = 0 /\ q.nboff = p.nboff
        /\ q.nbits = z /\ q.failed = p.failed /\ q.tmpspace = t
    BY <1>1, <1>5, <1>7, <2>1, EncoderEmptied
  <2> QED
    BY <1>8, <2>2, Zenon
<1>10. ASSUME NEW j \in Nat, NEW k \in 0 .. 7, 8 * j + k < l
       PROVE  ByteAt(q, j) = ByteAt(p, j)
  <2>1. CASE j < n + u
    <3>1. j \in 0 .. n + u - 1
      BY <1>3, <2>1
    <3>2. ByteAt(q, j) = c[j + 1]
      BY <1>5, <1>9, <2>1, Zenon DEF ByteAt
    <3> QED
      BY <1>5, <3>1, <3>2, Zenon
  <2>2. CASE ~(j < n + u)
    <3>1. j = n + u /\ p.nboff > 0
      BY <1>3, <1>10, <2>2, Zenon
    <3>2. j - (n + u) = 0 /\ ~(j < n) /\ j - n = u
      BY <1>3, <3>1
    <3>4. ByteAt(q, j) = t[0]
      BY <1>5, <1>9, <2>2, <3>2, Zenon DEF ByteAt
    <3>5. ByteAt(p, j) = p.tmpspace[u]
      BY <1>2, <1>u, <3>2, Zenon DEF ByteAt
    <3> QED
      BY <1>7, <3>1, <3>4, <3>5, Zenon
  <2> QED
    BY <2>1, <2>2
<1>11. BitsAre(q, b)
  BY <1>1, <1>2, <1>u, <1>10, Zenon DEF BitsAre
<1> QED
  BY <1>1, <1>2, <1>u, <1>3, <1>5, <1>9, <1>11, Zenon DEF Written

\* After that there is room for the field.
LEMMA RoomWritten ==
  ASSUME NEW p, NEW b, Written(p, b), p.nboff \in 0 .. 7, NEW n \in 1 .. 31,
         NEW q, q = MakeRoom(p, n)
  PROVE  Written(q, b) /\ q.nboff = p.nboff /\ q.nboff + n <= q.nbits
<1>1. CASE p.nboff + n > p.nbits
  <2>1. q = Flush(p)
    BY <1>1, Zenon DEF MakeRoom
  <2>2. Written(q, b) /\ q.nboff = p.nboff /\ q.nbits = 8 * TmpSize
    BY <2>1, FlushWritten
  <2>3. p.nboff + n <= 8 * TmpSize
    BY TmpAssumption
  <2> QED
    BY <2>2, <2>3, Zenon
<1>2. CASE ~(p.nboff + n > p.nbits)
  <2>1. q = p
    BY <1>2, Zenon DEF MakeRoom
  <2>2. p.nbits \in Int
    BY Zenon DEF Written, Stands, Encoder
  <2>3. p.nboff + n <= p.nbits
    BY <1>2, <2>2
  <2> QED
    BY <2>1, <2>3, Zenon
<1> QED
  BY <1>1, <1>2

\* d is the last n bits of v, the highest first.
NumberBits(d, v, n) ==
  d \in Seq({0, 1}) /\ Len(d) = n /\ \A m \in 1 .. n : d[m] = Bit(v, n - m)

\* BitsOf gives them.
LEMMA BitsOfNumber ==
  ASSUME NEW v \in Nat, NEW n \in 0 .. 31
  PROVE  NumberBits(BitsOf(v, n), v, n)
<1> DEFINE f == [i \in 1 .. n |-> Bit(v, n - i)]
<1>1. BitsOf(v, n) = f
  BY Zenon DEF BitsOf, Bit
<1>2. \A i \in 1 .. n : Bit(v, n - i) \in {0, 1}
  <2> SUFFICES ASSUME NEW i \in 1 .. n PROVE Bit(v, n - i) \in {0, 1}
    OBVIOUS
  <2>1. n - i \in 0 .. 31
    OBVIOUS
  <2> QED
    BY <2>1, BitValue
<1>3. f \in [1 .. n -> {0, 1}] /\ \A m \in 1 .. n : f[m] = Bit(v, n - m)
  BY <1>2
<1> HIDE DEF f
<1>4. f \in Seq({0, 1}) /\ Len(f) = n
  BY <1>3, BuiltSequence
<1> QED
  BY <1>1, <1>3, <1>4, Zenon DEF NumberBits

\* c is b with d behind it.
Behind(c, b, d) ==
  /\ c \in Seq({0, 1}) /\ Len(c) = Len(b) + Len(d)
  /\ \A m \in 1 .. Len(b) : c[m] = b[m]
  /\ \A m \in 1 .. Len(d) : c[Len(b) + m] = d[m]

\* Concatenation gives it.
LEMMA BitsBehind ==
  ASSUME NEW b \in Seq({0, 1}), NEW d \in Seq({0, 1})
  PROVE  Behind(b \o d, b, d)
<1>1. b \o d \in Seq({0, 1}) /\ Len(b \o d) = Len(b) + Len(d)
  BY ConcatProperties, Zenon
<1>2. \A m \in 1 .. Len(b) : (b \o d)[m] = b[m]
  OBVIOUS
<1>3. \A m \in 1 .. Len(d) : (b \o d)[Len(b) + m] = d[m]
  OBVIOUS
<1> QED
  BY <1>1, <1>2, <1>3, Zenon DEF Behind

\* Where the bits of a field of n bits go: off is the end of the field, last the
\* last byte it fills, both counted from the byte u of tmpspace.
FieldPlace(l, h, u, o, n, z, off, last) ==
  /\ Stands(l + n, h, u, off, z)
  /\ off \in 1 .. 31 /\ off \in Nat /\ off = o + n
  /\ last \in 0 .. 3 /\ last = (off - 1) \div 8
  /\ u \in 0 .. TmpSize - 1 /\ u \in Nat /\ u + last \in 0 .. TmpSize - 1
  /\ l = 8 * (h + u) + o

\* A field that fits stands in at most four bytes of tmpspace.
LEMMA FieldPlaced ==
  ASSUME NEW l \in Nat, NEW h \in Nat, NEW u, NEW o \in 0 .. 7, NEW z,
         Stands(l, h, u, o, z), NEW n \in 1 .. 31, o + n <= 31, o + n <= z
  PROVE  \E off, last : FieldPlace(l, h, u, o, n, z, off, last)
<1>1. /\ u \in 0 .. TmpSize /\ z = 8 * (TmpSize - u) /\ l = 8 * (h + u) + o
      /\ TmpSize \in Nat
  BY TmpAssumption DEF Stands
<1>2. PICK off \in 1 .. 31 : off = o + n
  OBVIOUS
<1>3. PICK last \in 0 .. 3 : last = (off - 1) \div 8 /\ 8 * last <= off - 1
  OBVIOUS
<1>4. u \in 0 .. TmpSize - 1 /\ u + last \in 0 .. TmpSize - 1 /\ u \in Nat
  BY <1>1, <1>2, <1>3
<1>5. Stands(l + n, h, u, off, z)
  BY <1>1, <1>2 DEF Stands
<1>6. FieldPlace(l, h, u, o, n, z, off, last)
  BY <1>1, <1>2, <1>3, <1>4, <1>5 DEF FieldPlace
<1> QED
  BY <1>6

\* The bit k of the byte j is one of those before the field or one of the field.
BitPlace(l, h, u, o, n, off, last, j, k) ==
  \/ /\ j < h + u /\ 8 * j + k + 1 \in 1 .. l /\ 8 * j + k < l
     /\ (~(j < h) => j - h \in 0 .. u - 1)
  \/ \E i \in 0 .. last :
       /\ ~(j < h) /\ j - h = u + i /\ 8 * i + k < off
       /\ \/ /\ 8 * i + k < o /\ i = 0 /\ j - h = u
             /\ 8 * j + k + 1 \in 1 .. l /\ 8 * j + k < l
          \/ /\ ~(8 * i + k < o)
             /\ \E m \in 1 .. n : l + m = 8 * j + k + 1 /\ n - m = off - 1 - (8 * i + k)

\* There is no third place for a bit.
LEMMA BitPlaced ==
  ASSUME NEW l \in Nat, NEW h \in Nat, NEW u \in Nat, NEW o \in 0 .. 7, NEW n \in 1 .. 31,
         NEW off \in 1 .. 31, off = o + n, NEW last \in 0 .. 3, last = (off - 1) \div 8,
         l = 8 * (h + u) + o,
         NEW j \in Nat, NEW k \in 0 .. 7, 8 * j + k < l + n
  PROVE  BitPlace(l, h, u, o, n, off, last, j, k)
<1>1. CASE j < h + u
  <2>1. 8 * j + k < l /\ 8 * j + k + 1 \in 1 .. l /\ (~(j < h) => j - h \in 0 .. u - 1)
    BY <1>1
  <2> QED
    BY <1>1, <2>1, Zenon DEF BitPlace
<1>2. CASE ~(j < h + u)
  <2>1. PICK i \in Nat : i = j - (h + u)
    BY <1>2
  <2>2. ~(j < h) /\ j - h = u + i /\ 8 * i + k < off /\ 8 * j + k = 8 * (h + u) + 8 * i + k
    BY <1>2, <2>1
  <2>3. i \in 0 .. last
    BY <2>2
  <2>4. CASE 8 * i + k < o
    <3>1. i = 0 /\ j - h = u /\ 8 * j + k + 1 \in 1 .. l /\ 8 * j + k < l
      BY <2>1, <2>2, <2>4
    <3> QED
      BY <2>2, <2>3, <2>4, <3>1, Zenon DEF BitPlace
  <2>5. CASE ~(8 * i + k < o)
    <3>1. 8 * i + k + 1 - o \in 1 .. n
      BY <2>2, <2>5
    <3>2. l + (8 * i + k + 1 - o) = 8 * j + k + 1
      BY <2>2
    <3>3. n - (8 * i + k + 1 - o) = off - 1 - (8 * i + k)
      OBVIOUS
    <3> QED
      BY <2>2, <2>3, <2>5, <3>1, <3>2, <3>3, Zenon DEF BitPlace
  <2> QED
    BY <2>4, <2>5
<1> QED
  BY <1>1, <1>2

\* tmpspace after Store.
StoredSpace(p, v, n) ==
  LET off   == p.nboff + n
      begun == p.tmpspace[p.buffer]
  IN  [i \in DOMAIN p.tmpspace |->
         IF i \notin p.buffer .. p.buffer + (off - 1) \div 8 THEN p.tmpspace[i]
         ELSE FieldByte(v, off, i - p.buffer)
                + (IF i = p.buffer THEN begun - (begun % 2 ^ (8 - p.nboff)) ELSE 0)]

\* Store moves on by n and fills tmpspace in this way.
LEMMA StoreFills == ASSUME NEW p, NEW v, NEW n
                    PROVE  Store(p, v, n) = Filled(p, p.nboff + n, StoredSpace(p, v, n))
BY Zenon DEF Store, Filled, StoredSpace, FieldByte

\* The last + 1 bytes of tmpspace from u on.
Fits(u, last) ==
  /\ u \in 0 .. TmpSize - 1
  /\ \A i \in 0 .. u - 1 : i \in 0 .. TmpSize - 1 /\ i \notin u .. u + last
  /\ \A i \in 0 .. last :
       /\ u + i \in 0 .. TmpSize - 1 /\ u + i \in u .. u + last
       /\ (u + i) - u = i /\ (u + i = u <=> i = 0) /\ i \in Nat
  /\ \A i \in 0 .. TmpSize - 1 :
       i \in u .. u + last => i - u \in 0 .. last /\ u + (i - u) = i

\* They do not reach into the bytes before.
LEMMA FieldFits ==
  ASSUME NEW u \in Nat, NEW last \in 0 .. 3, u + last \in 0 .. TmpSize - 1
  PROVE  Fits(u, last)
<1>1. TmpSize \in Nat
  BY TmpAssumption
<1> QED
  BY <1>1 DEF Fits

\* s is t with the field in its bytes and nothing else changed before it.
SpaceFilled(s, t, u, v, o, off, begun, last) ==
  /\ s \in Space
  /\ \A i \in 0 .. u - 1 : s[i] = t[i]
  /\ \A i \in 0 .. last : Stored(s[u + i], v, o, off, begun, i)

\* Store does this.
LEMMA StoredSpaceBytes ==
  ASSUME NEW p, p.tmpspace \in Space, NEW u \in Nat, u = p.buffer, NEW o \in 0 .. 7,
         o = p.nboff, NEW n \in 1 .. 31, NEW off \in 1 .. 31, off = o + n,
         NEW last \in 0 .. 3, last = (off - 1) \div 8, u + last \in 0 .. TmpSize - 1,
         NEW v \in Nat, v < 2 ^ n, NEW begun, begun = p.tmpspace[u],
         NEW s, s = StoredSpace(p, v, n)
  PROVE  SpaceFilled(s, p.tmpspace, u, v, o, off, begun, last)
<1>1. PICK t \in [0 .. TmpSize - 1 -> 0 .. 255] : t = p.tmpspace
  BY DEF Space
<1>2. PICK kept : kept = begun - (begun % 2 ^ (8 - o))
  OBVIOUS
<1>3. s = [i \in DOMAIN t |->
             IF i \notin u .. u + last THEN t[i]
             ELSE FieldByte(v, off, i - u) + (IF i = u THEN kept ELSE 0)]
  BY <1>1, <1>2, Zenon DEF StoredSpace
<1>4. \A i \in 0 .. TmpSize - 1 :
        s[i] = IF i \notin u .. u + last THEN t[i]
               ELSE FieldByte(v, off, i - u) + (IF i = u THEN kept ELSE 0)
  <2>1. DOMAIN t = 0 .. TmpSize - 1
    OBVIOUS
  <2> QED
    BY <1>3, <2>1, Zenon
<1>w. Fits(u, last)
  BY FieldFits, Zenon
<1>5. \A i \in 0 .. u - 1 : s[i] = t[i]
  BY <1>4, <1>w, Zenon DEF Fits
<1>b. begun \in 0 .. 255
  <2>1. begun = t[u]
    BY <1>1, Zenon
  <2> QED
    BY <1>w, <2>1 DEF Fits
<1>6. ASSUME NEW i \in 0 .. last
      PROVE  Stored(s[u + i], v, o, off, begun, i)
  <2>0. i <= last
    OBVIOUS
  <2>1. /\ u + i \in 0 .. TmpSize - 1 /\ u + i \in u .. u + last
        /\ (u + i) - u = i /\ (u + i = u <=> i = 0) /\ i \in Nat /\ i <= (off - 1) \div 8
    BY <1>w, <2>0, Zenon DEF Fits
  <2>2. s[u + i] = FieldByte(v, off, (u + i) - u) + (IF u + i = u THEN kept ELSE 0)
    BY <1>4, <2>1, Zenon
  <2>3. s[u + i] = FieldByte(v, off, i) + (IF i = 0 THEN kept ELSE 0)
    BY <2>1, <2>2, Zenon
  <2>4. s[u + i] = FieldByte(v, off, i)
                     + IF i = 0 THEN begun - (begun % 2 ^ (8 - o)) ELSE 0
    BY <1>2, <2>3, Zenon
  <2> QED
    BY <1>b, <2>1, <2>4, StoredByte
<1>7. ASSUME NEW i \in 0 .. TmpSize - 1 PROVE s[i] \in 0 .. 255
  <2>1. CASE i \in u .. u + last
    <3>1. i - u \in 0 .. last /\ u + (i - u) = i
      BY <1>w, <2>1, Zenon DEF Fits
    <3>2. Stored(s[i], v, o, off, begun, i - u)
      BY <1>6, <3>1, Zenon
    <3> QED
      BY <3>2, Zenon DEF Stored
  <2>2. CASE i \notin u .. u + last
    <3>1. s[i] = t[i]
      BY <1>4, <2>2, Zenon
    <3> QED
      BY <3>1
  <2> QED
    BY <2>1, <2>2
<1>8. s \in [0 .. TmpSize - 1 -> 0 .. 255]
  <2>1. s = [i \in 0 .. TmpSize - 1 |-> s[i]]
    <3>1. DOMAIN t = 0 .. TmpSize - 1
      OBVIOUS
    <3> QED
      BY <1>3, <3>1, Zenon
  <2> QED
    BY <1>7, <2>1, Zenon
<1> QED
  BY <1>1, <1>5, <1>6, <1>8, Zenon DEF SpaceFilled, Space

\* Store puts the field behind the bits that are there.
LEMMA StoreWritten ==
  ASSUME NEW p, NEW b, Written(p, b), NEW o \in 0 .. 7, o = p.nboff,
         NEW n \in 1 .. 31, o + n <= 31, o + n <= p.nbits,
         NEW v \in Nat, v < 2 ^ n, NEW q, q = Store(p, v, n)
  PROVE  Written(q, b \o BitsOf(v, n)) /\ q.nboff \in Nat /\ q.nboff = o + n
<1>1. /\ p \in Encoder /\ p.failed = FALSE /\ b \in Seq({0, 1}) /\ BitsAre(p, b)
      /\ Stands(Len(b), Len(p.out), p.buffer, p.nboff, p.nbits)
  BY Zenon DEF Written
<1>2. PICK l \in Nat, h \in Nat : l = Len(b) /\ h = Len(p.out)
  BY WrittenLengths
<1>u. PICK u, z, t : u = p.buffer /\ z = p.nbits /\ t = p.tmpspace
  OBVIOUS
<1>4. Stands(l, h, u, o, z) /\ o + n <= z
  BY <1>1, <1>2, <1>u, Zenon
<1>5. PICK off, last : FieldPlace(l, h, u, o, n, z, off, last)
  BY <1>4, FieldPlaced
<1>6. /\ Stands(l + n, h, u, off, z) /\ l = 8 * (h + u) + o
      /\ off \in 1 .. 31 /\ off \in Nat /\ off = o + n
      /\ last \in 0 .. 3 /\ last = (off - 1) \div 8
      /\ u \in Nat /\ u + last \in 0 .. TmpSize - 1
  BY <1>5, Zenon DEF FieldPlace
<1>3. PICK begun, s, d, c :
        begun = t[u] /\ s = StoredSpace(p, v, n) /\ d = BitsOf(v, n) /\ c = b \o d
  BY Zenon
<1>7. /\ s \in Space
      /\ \A i \in 0 .. u - 1 : s[i] = t[i]
      /\ \A i \in 0 .. last : Stored(s[u + i], v, o, off, begun, i)
  <2>1. p.tmpspace \in Space
    BY WrittenLengths
  <2>2. SpaceFilled(s, t, u, v, o, off, begun, last)
    BY <1>2, <1>u, <1>3, <1>6, <2>1, StoredSpaceBytes
  <2> QED
    BY <2>2, Zenon DEF SpaceFilled
<1>8. /\ d \in Seq({0, 1}) /\ Len(d) = n /\ \A m \in 1 .. n : d[m] = Bit(v, n - m)
  <2>1. n \in 0 .. 31
    OBVIOUS
  <2>2. NumberBits(BitsOf(v, n), v, n)
    BY <2>1, BitsOfNumber
  <2> QED
    BY <1>3, <2>2, Zenon DEF NumberBits
<1>9. /\ c \in Seq({0, 1}) /\ Len(c) = l + n
      /\ \A m \in 1 .. l : c[m] = b[m]
      /\ \A m \in 1 .. n : c[l + m] = d[m]
  <2>1. Behind(b \o d, b, d)
    BY <1>1, <1>8, BitsBehind
  <2> QED
    BY <1>2, <1>u, <1>3, <1>8, <2>1, Zenon DEF Behind
<1>10. /\ q \in Encoder /\ q.buffer = u /\ q.nboff = off /\ q.nbits = z
       /\ q.out = p.out /\ q.tmpspace = s /\ q.failed = p.failed
  <2>1. q = Filled(p, off, s)
    <3>1. p.nboff + n = off
      BY <1>6, Zenon
    <3> QED
      BY <1>3, <3>1, StoreFills, Zenon
  <2>2. p \in Encoder /\ off \in Nat /\ s \in Space
    BY <1>1, <1>6, <1>7, Zenon
  <2>3. /\ q \in Encoder /\ q.buffer = p.buffer /\ q.nboff = off /\ q.nbits = p.nbits
        /\ q.out = p.out /\ q.tmpspace = s /\ q.failed = p.failed
    BY <2>1, <2>2, EncoderFilled
  <2> QED
    BY <1>2, <1>u, <2>3, Zenon
<1>11. ASSUME NEW j \in Nat, NEW k \in 0 .. 7, 8 * j + k < l + n
       PROVE  c[8 * j + k + 1] = Bit(ByteAt(q, j), 7 - k)
  <2>0. BitPlace(l, h, u, o, n, off, last, j, k)
    BY <1>6, <1>11, BitPlaced
  <2>1. CASE /\ j < h + u /\ 8 * j + k + 1 \in 1 .. l /\ 8 * j + k < l
             /\ (~(j < h) => j - h \in 0 .. u - 1)
    <3>2. c[8 * j + k + 1] = Bit(ByteAt(p, j), 7 - k)
      BY <1>1, <1>2, <1>u, <1>9, <2>1, Zenon DEF BitsAre
    <3>3. ByteAt(q, j) = ByteAt(p, j)
      <4>1. CASE j < h
        BY <1>2, <1>u, <1>10, <4>1, Zenon DEF ByteAt
      <4>2. CASE ~(j < h)
        BY <1>2, <1>u, <1>7, <1>10, <2>1, <4>2, Zenon DEF ByteAt
      <4> QED
        BY <4>1, <4>2
    <3> QED
      BY <3>2, <3>3, Zenon
  <2>2. ASSUME NEW i \in 0 .. last, ~(j < h), j - h = u + i, 8 * i + k < off,
               \/ /\ 8 * i + k < o /\ i = 0 /\ j - h = u
                  /\ 8 * j + k + 1 \in 1 .. l /\ 8 * j + k < l
               \/ /\ ~(8 * i + k < o)
                  /\ \E m \in 1 .. n : /\ l + m = 8 * j + k + 1
                                       /\ n - m = off - 1 - (8 * i + k)
        PROVE  c[8 * j + k + 1] = Bit(ByteAt(q, j), 7 - k)
    <3>1. ByteAt(q, j) = s[u + i]
      BY <1>2, <1>u, <1>10, <2>2, Zenon DEF ByteAt
    <3>2. Bit(s[u + i], 7 - k)
            = IF 8 * i + k < o THEN Bit(begun, 7 - k)
              ELSE IF 8 * i + k < off THEN Bit(v, off - 1 - (8 * i + k)) ELSE 0
      BY <1>7, Zenon DEF Stored
    <3>3. CASE /\ 8 * i + k < o /\ i = 0 /\ j - h = u
               /\ 8 * j + k + 1 \in 1 .. l /\ 8 * j + k < l
      <4>1. c[8 * j + k + 1] = Bit(ByteAt(p, j), 7 - k)
        BY <1>1, <1>2, <1>u, <1>9, <3>3, Zenon DEF BitsAre
      <4>2. ByteAt(p, j) = begun
        BY <1>2, <1>u, <1>3, <2>2, <3>3, Zenon DEF ByteAt
      <4>3. Bit(s[u + i], 7 - k) = Bit(begun, 7 - k)
        BY <3>2, <3>3, Zenon
      <4> QED
        BY <3>1, <4>1, <4>2, <4>3, Zenon
    <3>4. CASE /\ ~(8 * i + k < o)
               /\ \E m \in 1 .. n : /\ l + m = 8 * j + k + 1
                                    /\ n - m = off - 1 - (8 * i + k)
      <4>1. c[8 * j + k + 1] = Bit(v, off - 1 - (8 * i + k))
        <5>1. PICK m \in 1 .. n : l + m = 8 * j + k + 1 /\ n - m = off - 1 - (8 * i + k)
          BY <3>4, Zenon
        <5>2. c[l + m] = Bit(v, n - m)
          BY <1>8, <1>9, Zenon
        <5> QED
          BY <5>1, <5>2, Zenon
      <4>2. Bit(s[u + i], 7 - k) = Bit(v, off - 1 - (8 * i + k))
        BY <2>2, <3>2, <3>4, Zenon
      <4> QED
        BY <3>1, <4>1, <4>2, Zenon
    <3> QED
      BY <2>2, <3>3, <3>4, Zenon
  <2> QED
    BY <2>0, <2>1, <2>2, Zenon DEF BitPlace
<1>12. BitsAre(q, c)
  BY <1>9, <1>11, Zenon DEF BitsAre
<1>13. Stands(Len(c), Len(q.out), q.buffer, q.nboff, q.nbits)
  BY <1>2, <1>u, <1>6, <1>9, <1>10, Zenon
<1>14. Written(q, c)
  BY <1>1, <1>9, <1>10, <1>12, <1>13, Zenon DEF Written
<1> QED
  BY <1>3, <1>6, <1>10, <1>14, Zenon

\* Low cuts a number to its width.
LEMMA LowBits ==
  ASSUME NEW x \in Nat, NEW n \in 0 .. 30
  PROVE  /\ Low(x, n) \in Nat /\ Low(x, n) < 2 ^ n
         /\ \A k \in 0 .. 31 : k < n => Bit(Low(x, n), k) = Bit(x, k)
<1>1. n \in 0 .. 31 /\ ~(n >= 31)
  OBVIOUS
<1>2. Low(x, n) = x % 2 ^ n
  BY <1>1, Zenon DEF Low
<1>3. 2 ^ n \in Nat /\ 2 ^ n > 0
  BY <1>1, PowerNat
<1>4. x % 2 ^ n \in Nat /\ x % 2 ^ n < 2 ^ n
  BY <1>3, Divide
<1>5. ASSUME NEW k \in 0 .. 31, k < n PROVE Bit(x % 2 ^ n, k) = Bit(x, k)
  BY <1>1, <1>5, BitLow
<1> QED
  BY <1>2, <1>4, <1>5, Zenon

\* The bits that are left are the same.
LEMMA BitsOfLow ==
  ASSUME NEW x \in Nat, NEW n \in 0 .. 30
  PROVE  BitsOf(Low(x, n), n) = BitsOf(x, n)
<1>1. PICK y \in Nat : y = Low(x, n) /\ \A k \in 0 .. 31 : k < n => Bit(y, k) = Bit(x, k)
  BY LowBits
<1>2. \A i \in 1 .. n : n - i \in 0 .. 31 /\ n - i < n
  OBVIOUS
<1>3. \A i \in 1 .. n : Bit(y, n - i) = Bit(x, n - i)
  BY <1>1, <1>2, Zenon
<1>4. [i \in 1 .. n |-> Bit(y, n - i)] = [i \in 1 .. n |-> Bit(x, n - i)]
  BY <1>3, Zenon
<1> QED
  BY <1>1, <1>4, Zenon DEF BitsOf, Bit

\* One call that does not have to divide its field.
LEMMA PartWritten ==
  ASSUME NEW p, NEW b, Written(p, b), NEW n \in 1 .. 24, NEW x \in Nat,
         NEW q, q = put_part(p, x, n)
  PROVE  Written(q, b \o BitsOf(x, n))
<1>1. PICK at, room, v :
        at = Normalise(p) /\ room = MakeRoom(at, n) /\ v = Low(x, n)
  BY Zenon
<1>2. Written(at, b) /\ at.nboff \in 0 .. 7
  BY <1>1, NormaliseWritten
<1>3. n \in 1 .. 31 /\ n \in 0 .. 30
  OBVIOUS
<1>4. Written(room, b) /\ room.nboff = at.nboff /\ room.nboff + n <= room.nbits
  BY <1>1, <1>2, <1>3, RoomWritten
<1>5. v \in Nat /\ v < 2 ^ n /\ BitsOf(v, n) = BitsOf(x, n)
  BY <1>1, <1>3, LowBits, BitsOfLow, Zenon
<1>6. PICK o \in 0 .. 7 : o = room.nboff
  BY <1>2, <1>4
<1>7. o + n <= 31 /\ o + n <= room.nbits
  BY <1>4, <1>6
<1>8. q = Store(room, v, n)
  BY <1>1, Zenon DEF put_part
<1>9. Written(q, b \o BitsOf(v, n))
  BY <1>3, <1>4, <1>5, <1>6, <1>7, <1>8, StoreWritten
<1> QED
  BY <1>5, <1>9, Zenon

\* A number of more than 24 bits is the one of all but the last n - 24 and that of these.
LEMMA BitsOfHalves ==
  ASSUME NEW x \in Nat, NEW n \in 25 .. 31
  PROVE  BitsOf(x, n) = BitsOf(x \div 2 ^ (n - 24), 24) \o BitsOf(x, n - 24)
<1>1. PICK r \in 1 .. 7 : r = n - 24
  OBVIOUS
<1>2. PICK y \in Nat : y = x \div 2 ^ r
  <2>1. r \in 0 .. 31
    OBVIOUS
  <2>2. 2 ^ r \in Nat /\ 2 ^ r > 0
    BY <2>1, PowerNat
  <2> QED
    BY <2>2, Divide
<1>3. PICK e, f, g : e = BitsOf(x, n) /\ f = BitsOf(y, 24) /\ g = BitsOf(x, r)
  BY Zenon
<1>4. /\ n \in 0 .. 31 /\ r \in 0 .. 31 /\ 24 \in 0 .. 31 /\ 24 + r = n
      /\ n \in Nat
  BY <1>1
<1>5. /\ e \in Seq({0, 1}) /\ Len(e) = n /\ \A m \in 1 .. n : e[m] = Bit(x, n - m)
  BY <1>3, <1>4, BitsOfNumber, Zenon DEF NumberBits
<1>6. /\ f \in Seq({0, 1}) /\ Len(f) = 24 /\ \A m \in 1 .. 24 : f[m] = Bit(y, 24 - m)
  BY <1>3, <1>4, BitsOfNumber, Zenon DEF NumberBits
<1>7. /\ g \in Seq({0, 1}) /\ Len(g) = r /\ \A m \in 1 .. r : g[m] = Bit(x, r - m)
  BY <1>3, <1>4, BitsOfNumber, Zenon DEF NumberBits
<1>8. /\ f \o g \in Seq({0, 1}) /\ Len(f \o g) = n
      /\ \A m \in 1 .. 24 : (f \o g)[m] = f[m]
      /\ \A m \in 1 .. r : (f \o g)[24 + m] = g[m]
  <2>1. Behind(f \o g, f, g)
    BY <1>6, <1>7, BitsBehind
  <2> QED
    BY <1>4, <1>6, <1>7, <2>1, Zenon DEF Behind
<1>9. ASSUME NEW m \in 1 .. n PROVE (f \o g)[m] = e[m]
  <2>1. CASE m \in 1 .. 24
    <3>1. 24 - m \in 0 .. 31 /\ r + (24 - m) = n - m /\ r + (24 - m) <= 31
      BY <1>4, <2>1
    <3>2. Bit(x \div 2 ^ r, 24 - m) = Bit(x, r + (24 - m))
      BY <1>4, <3>1, BitShift
    <3>3. (f \o g)[m] = Bit(y, 24 - m)
      BY <1>6, <1>8, <2>1, Zenon
    <3>4. e[m] = Bit(x, n - m)
      BY <1>5, Zenon
    <3>5. Bit(y, 24 - m) = Bit(x, n - m)
      BY <1>2, <3>1, <3>2, Zenon
    <3> QED
      BY <3>3, <3>4, <3>5, Zenon
  <2>2. CASE m \notin 1 .. 24
    <3>1. PICK i \in 1 .. r : m = 24 + i /\ r - i = n - m
      <4>1. m - 24 \in 1 .. r /\ m = 24 + (m - 24) /\ r - (m - 24) = n - m
        BY <1>4, <2>2
      <4> QED
        BY <4>1
    <3>2. (f \o g)[24 + i] = Bit(x, r - i)
      BY <1>7, <1>8, Zenon
    <3> QED
      BY <1>5, <3>1, <3>2, Zenon
  <2> QED
    BY <2>1, <2>2
<1>10. f \o g = e
  BY <1>4, <1>5, <1>8, <1>9, SeqEqual
<1> QED
  BY <1>1, <1>2, <1>3, <1>10, Zenon

\* Both halves have the width they are put with.
LEMMA NumberSplit ==
  ASSUME NEW x \in Nat, NEW n \in 25 .. 31
  PROVE  x \div 2 ^ (n - 24) \in Nat
<1>1. n - 24 \in 0 .. 31
  OBVIOUS
<1>2. 2 ^ (n - 24) \in Nat /\ 2 ^ (n - 24) > 0
  BY <1>1, PowerNat
<1> QED
  BY <1>2, Divide

\* A field of any width is put behind the bits that are there.
LEMMA FewWritten ==
  ASSUME NEW p, NEW b, Written(p, b), NEW n \in 0 .. 31, NEW x \in Nat,
         n = 31 => x < 2 ^ n, NEW q, q = put_few_bits(p, x, n)
  PROVE  Written(q, b \o BitsOf(x, n))
<1>1. b \in Seq({0, 1})
  BY Zenon DEF Written
<1>2. PICK d : d = BitsOf(x, n) /\ d \in Seq({0, 1}) /\ Len(d) = n
  <2>1. NumberBits(BitsOf(x, n), x, n)
    BY BitsOfNumber
  <2> QED
    BY <2>1, Zenon DEF NumberBits
<1>3. PICK v \in Nat : v = Low(x, n) /\ v < 2 ^ n /\ BitsOf(v, n) = d
  <2>1. CASE n = 31
    <3>1. n >= 31
      BY <2>1
    <3>2. Low(x, n) = x
      BY <3>1, Zenon DEF Low
    <3> QED
      BY <1>2, <2>1, <3>2, Zenon
  <2>2. CASE n # 31
    <3>1. n \in 0 .. 30
      BY <2>2
    <3>2. /\ Low(x, n) \in Nat /\ Low(x, n) < 2 ^ n
          /\ BitsOf(Low(x, n), n) = BitsOf(x, n)
      BY <3>1, LowBits, BitsOfLow, Zenon
    <3> QED
      BY <1>2, <3>2, Zenon
  <2> QED
    BY <2>1, <2>2
<1>4. CASE n = 0
  <2>1. q = p
    BY <1>4, Zenon DEF put_few_bits
  <2>2. d = << >>
    BY <1>2, <1>4
  <2>3. b \o d = b
    BY <1>1, <2>2
  <2> QED
    BY <1>2, <2>1, <2>3, Zenon
<1>5. CASE n # 0
  <2>1. n \in 1 .. 31 /\ ~(n > 31)
    BY <1>5
  <2>2. PICK at, room : at = Normalise(p) /\ room = MakeRoom(at, n)
    BY Zenon
  <2>3. Written(at, b) /\ at.nboff \in 0 .. 7
    BY <2>2, NormaliseWritten
  <2>4. Written(room, b) /\ room.nboff = at.nboff /\ room.nboff + n <= room.nbits
    BY <2>1, <2>2, <2>3, RoomWritten
  <2>5. PICK o \in 0 .. 7 : o = room.nboff
    BY <2>3, <2>4
  <2>6. CASE o + n <= 31
    <3>1. q = Store(room, v, n)
      BY <1>3, <1>5, <2>1, <2>2, <2>5, <2>6, Zenon DEF put_few_bits
    <3>2. o + n <= room.nbits
      BY <2>4, <2>5
    <3>3. Written(q, b \o BitsOf(v, n))
      BY <1>3, <2>1, <2>4, <2>5, <2>6, <3>1, <3>2, StoreWritten
    <3> QED
      BY <1>2, <1>3, <3>3, Zenon
  <2>7. CASE ~(o + n <= 31)
    <3>1. n \in 25 .. 31
      BY <2>1, <2>7
    <3>2. PICK y \in Nat : y = v \div 2 ^ (n - 24)
      BY <3>1, NumberSplit
    <3>3. PICK r \in 1 .. 24 : r = n - 24
      BY <3>1
    <3>4. PICK e : e = put_part(room, y, 24)
      BY Zenon
    <3>5. q = put_part(e, v, r)
      BY <1>3, <1>5, <2>1, <2>2, <2>5, <2>7, <3>2, <3>3, <3>4, Zenon DEF put_few_bits
    <3>6. 24 \in 1 .. 24 /\ 24 \in 0 .. 31 /\ r \in 0 .. 31
      OBVIOUS
    <3>7. Written(e, b \o BitsOf(y, 24))
      BY <2>4, <3>4, <3>6, PartWritten
    <3>8. Written(q, (b \o BitsOf(y, 24)) \o BitsOf(v, r))
      BY <3>5, <3>7, PartWritten
    <3>9. BitsOf(y, 24) \in Seq({0, 1}) /\ BitsOf(v, r) \in Seq({0, 1})
      BY <3>6, BitsOfNumber, Zenon DEF NumberBits
    <3>10. (b \o BitsOf(y, 24)) \o BitsOf(v, r) = b \o (BitsOf(y, 24) \o BitsOf(v, r))
      <4>1. ASSUME NEW f \in Seq({0, 1}), NEW g \in Seq({0, 1})
            PROVE  (b \o f) \o g = b \o (f \o g)
        BY <1>1, ConcatAssociative, SMTT(30)
      <4> QED
        BY <3>9, <4>1, Zenon
    <3>11. BitsOf(y, 24) \o BitsOf(v, r) = d
      BY <1>3, <3>1, <3>2, <3>3, BitsOfHalves, Zenon
    <3> QED
      BY <1>2, <3>8, <3>10, <3>11, Zenon
  <2> QED
    BY <2>6, <2>7
<1> QED
  BY <1>4, <1>5

-----------------------------------------------------------------------------
(* The datagram.                                                           *)

\* The bytes w hold the bits b, filled up with zeros.
Shows(w, b) ==
  /\ w \in Bytes /\ Len(w) \in Nat
  /\ Len(b) <= 8 * Len(w) /\ 8 * Len(w) <= Len(b) + 7
  /\ \A j \in Nat : \A k \in 0 .. 7 :
       j < Len(w) =>
         Bit(w[j + 1], 7 - k) = IF 8 * j + k < Len(b) THEN b[8 * j + k + 1] ELSE 0

\* That is what the datagram does.
LEMMA FlushedBytes ==
  ASSUME NEW p, NEW b, Written(p, b), NEW w, w = Flushed(p)
  PROVE  Shows(w, b)
<1>1. PICK at : at = Normalise(p) /\ Written(at, b) /\ at.nboff \in 0 .. 7
  <2>1. ASSUME NEW q, q = Normalise(p) PROVE Written(q, b) /\ q.nboff \in 0 .. 7
    BY <2>1, NormaliseWritten
  <2> QED
    BY <2>1, Zenon
<1>2. /\ at \in Encoder /\ b \in Seq({0, 1}) /\ BitsAre(at, b)
      /\ Stands(Len(b), Len(at.out), at.buffer, at.nboff, at.nbits)
  BY <1>1, Zenon DEF Written
<1>3. PICK l \in Nat, h \in Nat, o \in 0 .. 7 : l = Len(b) /\ h = Len(at.out) /\ o = at.nboff
  BY <1>1, WrittenLengths
<1>u. PICK u, t : u = at.buffer /\ t = at.tmpspace
  OBVIOUS
<1>4. /\ u \in 0 .. TmpSize /\ u \in Nat /\ l = 8 * (h + u) + o
      /\ (o > 0 => u \in 0 .. TmpSize - 1)
  <2>1. Stands(l, h, u, o, at.nbits)
    BY <1>2, <1>3, <1>u, Zenon
  <2>2. u \in 0 .. TmpSize /\ l = 8 * (h + u) + o
    BY <2>1, Zenon DEF Stands
  <2>3. o > 0 => u \in 0 .. TmpSize - 1
    BY <2>1, StandsFront
  <2> QED
    BY <2>2, <2>3, TmpAssumption
<1>5. PICK c : /\ c = Complete(at, u) /\ c \in Bytes /\ Len(c) = h + u
               /\ \A j \in 0 .. h + u - 1 : c[j + 1] = ByteAt(at, j)
  <2>1. ASSUME NEW d, d = Complete(at, u)
        PROVE  /\ d \in Bytes /\ Len(d) = Len(at.out) + u
               /\ \A j \in 0 .. Len(at.out) + u - 1 : d[j + 1] = ByteAt(at, j)
    BY <1>2, <1>4, <2>1, CompleteBytes, Zenon
  <2> QED
    BY <1>3, <1>u, <2>1, Zenon
<1>6. PICK e \in Nat : e = h + u
  BY <1>4
<1>7. ASSUME NEW j \in Nat, NEW k \in 0 .. 7, j < e
      PROVE  8 * j + k < l /\ Bit(c[j + 1], 7 - k) = b[8 * j + k + 1]
  <2>1. 8 * j + k < l /\ j \in 0 .. h + u - 1
    BY <1>4, <1>6, <1>7
  <2>2. b[8 * j + k + 1] = Bit(ByteAt(at, j), 7 - k)
    BY <1>2, <1>3, <1>u, <2>1, Zenon DEF BitsAre
  <2> QED
    BY <1>5, <2>1, <2>2, Zenon
<1>8. CASE o = 0
  <2>1. w = c
    BY <1>1, <1>3, <1>u, <1>5, <1>8, Zenon DEF Flushed
  <2>2. Len(w) = e /\ e \in Nat /\ l <= 8 * e /\ 8 * e <= l + 7
    BY <1>4, <1>5, <1>6, <1>8, <2>1
  <2>3. ASSUME NEW j \in Nat, NEW k \in 0 .. 7, j < e
        PROVE  Bit(w[j + 1], 7 - k) = IF 8 * j + k < l THEN b[8 * j + k + 1] ELSE 0
    BY <1>7, <2>1, <2>3, Zenon
  <2> QED
    BY <1>3, <1>u, <1>5, <2>1, <2>2, <2>3, Zenon DEF Shows
<1>9. CASE o # 0
  <2>1. PICK last : last = t[u] /\ last \in 0 .. 255
    <3>1. t \in [0 .. TmpSize - 1 -> 0 .. 255]
      BY <1>1, <1>3, <1>u, WrittenLengths, Zenon DEF Space
    <3>2. u \in 0 .. TmpSize - 1
      BY <1>4, <1>9
    <3> QED
      BY <3>1, <3>2
  <2>2. PICK kept : kept = last - (last % 2 ^ (8 - o))
    OBVIOUS
  <2>3. /\ kept \in 0 .. 255
        /\ \A k \in 0 .. 7 : Bit(kept, 7 - k) = IF k < o THEN Bit(last, 7 - k) ELSE 0
    <3>1. PICK zero \in Nat : zero = 0
      OBVIOUS
    <3>2. zero < 2 ^ (8 - o)
      <4>1. 8 - o \in 0 .. 31
        OBVIOUS
      <4> QED
        BY <3>1, <4>1, PowerNat
    <3>3. Divided(zero + kept, o, last, zero)
      BY <2>1, <2>2, <3>2, KeptInFront
    <3>4. zero + kept = kept
      <4>1. kept \in Int
        <5>1. 8 - o \in 0 .. 31
          OBVIOUS
        <5>2. 2 ^ (8 - o) \in Nat /\ 2 ^ (8 - o) > 0
          BY <5>1, PowerNat
        <5>3. last % 2 ^ (8 - o) \in Nat
          BY <2>1, <5>2, Divide
        <5> QED
          BY <2>1, <2>2, <5>3
      <4> QED
        BY <3>1, <4>1
    <3>5. \A k \in 0 .. 7 : Bit(zero, 7 - k) = 0
      <4>1. \A k \in 0 .. 7 : 7 - k \in 0 .. 31
        OBVIOUS
      <4> QED
        BY <3>1, <4>1, BitOfZero, Zenon
    <3> QED
      BY <3>3, <3>4, <3>5, Zenon DEF Divided
  <2>4. w = Append(c, kept)
    <3>1. at.nboff # 0
      BY <1>3, <1>u, <1>9, Zenon
    <3> QED
      BY <1>1, <1>3, <1>u, <1>5, <2>1, <2>2, <3>1, Zenon DEF Flushed
  <2>5. /\ w \in Bytes /\ Len(w) = e + 1 /\ w[e + 1] = kept
        /\ \A i \in 1 .. e : w[i] = c[i]
    <3>1. c \in Seq(0 .. 255) /\ Len(c) = e
      BY <1>5, <1>6, Zenon DEF Bytes
    <3>2. /\ Append(c, kept) \in Seq(0 .. 255) /\ Len(Append(c, kept)) = Len(c) + 1
          /\ \A i \in 1 .. Len(c) : Append(c, kept)[i] = c[i]
          /\ Append(c, kept)[Len(c) + 1] = kept
      BY <2>3, <3>1, AppendProperties
    <3> QED
      BY <2>4, <3>1, <3>2, Zenon DEF Bytes
  <2>6. PICK z \in Nat : z = e + 1 /\ l <= 8 * z /\ 8 * z <= l + 7
    BY <1>4, <1>6, <1>9
  <2>7. ASSUME NEW j \in Nat, NEW k \in 0 .. 7, j < z
        PROVE  Bit(w[j + 1], 7 - k) = IF 8 * j + k < l THEN b[8 * j + k + 1] ELSE 0
    <3>1. CASE j < e
      <4>1. j + 1 \in 1 .. e
        BY <3>1
      <4>2. w[j + 1] = c[j + 1]
        BY <2>5, <4>1, Zenon
      <4> QED
        BY <1>7, <3>1, <4>2, Zenon
    <3>2. CASE ~(j < e)
      <4>1. j = e /\ (8 * j + k < l <=> k < o)
        BY <1>4, <1>6, <2>6, <2>7, <3>2
      <4>2. w[j + 1] = kept
        BY <2>5, <4>1, Zenon
      <4>3. CASE k < o
        <5>1. b[8 * j + k + 1] = Bit(ByteAt(at, j), 7 - k)
          BY <1>2, <1>3, <1>u, <4>1, <4>3, Zenon DEF BitsAre
        <5>2. ~(j < h) /\ j - h = u
          BY <1>4, <1>6, <4>1
        <5>3. ByteAt(at, j) = last
          BY <1>3, <1>u, <2>1, <5>2, Zenon DEF ByteAt
        <5> QED
          BY <2>3, <4>1, <4>2, <4>3, <5>1, <5>3, Zenon
      <4>4. CASE ~(k < o)
        BY <2>3, <4>1, <4>2, <4>4, Zenon
      <4> QED
        BY <4>3, <4>4
    <3> QED
      BY <3>1, <3>2
  <2> QED
    BY <1>3, <1>u, <2>5, <2>6, <2>7, Zenon DEF Shows
<1> QED
  BY <1>8, <1>9

\* The bits of these bytes, taken one by one.
LEMMA ShownBits ==
  ASSUME NEW w, NEW b \in Seq({0, 1}), Shows(w, b), NEW z, z = BitsIn(w)
  PROVE  /\ Len(z) \in Len(b) .. Len(b) + 7
         /\ \A i \in DOMAIN z : z[i] = IF i <= Len(b) THEN b[i] ELSE 0
<1>1. PICK l \in Nat, e \in Nat : l = Len(b) /\ e = Len(w) /\ l <= 8 * e /\ 8 * e <= l + 7
  <2>1. Len(b) \in Nat
    OBVIOUS
  <2> QED
    BY <2>1, Zenon DEF Shows
<1>2. ASSUME NEW j \in Nat, NEW k \in 0 .. 7, j < e
      PROVE  Bit(w[j + 1], 7 - k) = IF 8 * j + k < l THEN b[8 * j + k + 1] ELSE 0
  BY <1>1, <1>2, Zenon DEF Shows
<1>3. z = [i \in 1 .. 8 * e |-> Bit(w[(i - 1) \div 8 + 1], 7 - ((i - 1) % 8))]
  BY <1>1, Zenon DEF BitsIn, Bit
<1>4. DOMAIN z = 1 .. 8 * e
  BY <1>3, Zenon
<1>5. Len(z) = 8 * e
  <2>1. PICK g \in Nat : g = 8 * e
    BY <1>1
  <2>2. DOMAIN z = 1 .. g
    BY <1>4, <2>1, Zenon
  <2>3. z = [i \in 1 .. g |-> Bit(w[(i - 1) \div 8 + 1], 7 - ((i - 1) % 8))]
    BY <1>3, <2>1, Zenon
  <2>4. z \in [1 .. g -> {z[i] : i \in 1 .. g}]
    BY <2>2, <2>3, Zenon
  <2>5. Len(z) = g
    BY <2>4, BuiltSequence
  <2> QED
    BY <2>1, <2>5
<1>6. ASSUME NEW i \in 1 .. 8 * e PROVE z[i] = IF i <= l THEN b[i] ELSE 0
  <2>1. PICK j \in Nat, k \in 0 .. 7 :
          /\ j = (i - 1) \div 8 /\ k = (i - 1) % 8 /\ j < e /\ i = 8 * j + k + 1
          /\ (i <= l <=> 8 * j + k < l)
    <3>1. PICK x \in Nat : x = i - 1 /\ x < 8 * e /\ i = x + 1
      BY <1>1
    <3>2. /\ x \div 8 \in Nat /\ x % 8 \in 0 .. 7 /\ x \div 8 < e
          /\ x = 8 * (x \div 8) + (x % 8)
      BY <1>1, <3>1
    <3>3. PICK j \in Nat, k \in 0 .. 7 : j = x \div 8 /\ k = x % 8 /\ j < e /\ x = 8 * j + k
      BY <3>2
    <3>4. i = 8 * j + k + 1 /\ (i <= l <=> 8 * j + k < l)
      BY <1>1, <3>1, <3>3
    <3> QED
      BY <3>1, <3>3, <3>4, Zenon
  <2>2. z[i] = Bit(w[j + 1], 7 - k)
    BY <1>3, <2>1, Zenon
  <2>3. Bit(w[j + 1], 7 - k) = IF 8 * j + k < l THEN b[8 * j + k + 1] ELSE 0
    BY <1>2, <2>1, Zenon
  <2> QED
    BY <2>1, <2>2, <2>3, Zenon
<1> QED
  BY <1>1, <1>4, <1>5, <1>6

-----------------------------------------------------------------------------
(* What Extract adds up.                                                   *)

\* What Extract adds up for the byte i of a field that ends at off.
Part(i, off, B) ==
  IF i > (off - 1) \div 8 THEN 0
  ELSE IF i = (off - 1) \div 8 THEN B[i] \div 2 ^ (8 * ((off - 1) \div 8 + 1) - off)
  ELSE B[i] * 2 ^ (off - 8 * (i + 1))

\* The bits of the bytes of B from the byte i on.
SumIs(R, i, off, B) ==
  IF i > (off - 1) \div 8 THEN R = 0
  ELSE /\ R \in Nat /\ R < 2 ^ (off - 8 * i)
       /\ \A j \in 0 .. 3 : \A k \in 0 .. 7 :
            i <= j /\ 8 * j + k < off => Bit(R, off - 1 - (8 * j + k)) = Bit(B[j], 7 - k)

\* The last byte, cut where the field ends.
LEMMA SumEnds ==
  ASSUME NEW off \in 1 .. 31, NEW B \in [0 .. 3 -> 0 .. 255], NEW last \in 0 .. 3,
         last = (off - 1) \div 8, NEW R, R = B[last] \div 2 ^ (8 * (last + 1) - off)
  PROVE  SumIs(R, last, off, B)
<1>1. PICK s \in 0 .. 7, a \in 1 .. 8 :
        /\ s = 8 * (last + 1) - off /\ a = off - 8 * last /\ a + s = 8
        /\ s \in 0 .. 31 /\ a \in 0 .. 31
  <2>1. 8 * last <= off - 1 /\ off - 1 <= 8 * last + 7
    OBVIOUS
  <2>2. 8 * (last + 1) - off \in 0 .. 7 /\ off - 8 * last \in 1 .. 8
    BY <2>1
  <2> QED
    BY <2>2
<1>2. PICK v \in 0 .. 255 : v = B[last] /\ v \in Nat
  OBVIOUS
<1>3. 2 ^ (a + s) = 256
  BY <1>1, PowerEight
<1>4. R = v \div 2 ^ s
  BY <1>1, <1>2, Zenon
<1>5. R \in Nat /\ R < 2 ^ a
  <2>1. v < 2 ^ (a + s) /\ a + s <= 31
    BY <1>1, <1>2, <1>3
  <2>2. v \div 2 ^ s \in Nat /\ v \div 2 ^ s < 2 ^ a
    BY <1>1, <1>2, <2>1, ShiftSmall, Zenon
  <2> QED
    BY <1>4, <2>2, Zenon
<1>6. ASSUME NEW j \in 0 .. 3, NEW k \in 0 .. 7, last <= j, 8 * j + k < off
      PROVE  Bit(R, off - 1 - (8 * j + k)) = Bit(B[j], 7 - k)
  <2>1. j = last
    BY <1>1, <1>6
  <2>2. PICK c \in 0 .. 31 : c = off - 1 - (8 * j + k) /\ s + c = 7 - k /\ s + c <= 31
    <3>1. off - 1 - (8 * j + k) \in 0 .. 31
      BY <1>6
    <3>2. s + (off - 1 - (8 * j + k)) = 7 - k
      BY <1>1, <2>1
    <3> QED
      BY <3>1, <3>2
  <2>3. Bit(v \div 2 ^ s, c) = Bit(v, s + c)
    BY <1>1, <1>2, <2>2, BitShift, Zenon
  <2> QED
    BY <1>2, <1>4, <2>1, <2>2, <2>3, Zenon
<1>7. ~(last > (off - 1) \div 8)
  OBVIOUS
<1>8. R < 2 ^ (off - 8 * last)
  BY <1>1, <1>5, Zenon
<1> QED
  BY <1>5, <1>6, <1>7, <1>8, Zenon DEF SumIs

\* One more byte in front of it.
LEMMA SumGoesOn ==
  ASSUME NEW off \in 1 .. 31, NEW B \in [0 .. 3 -> 0 .. 255], NEW i \in 0 .. 2,
         i < (off - 1) \div 8, NEW T, SumIs(T, i + 1, off, B),
         NEW R, R = B[i] * 2 ^ (off - 8 * (i + 1)) + T
  PROVE  SumIs(R, i, off, B)
<1>1. ~(i + 1 > (off - 1) \div 8) /\ ~(i > (off - 1) \div 8)
  OBVIOUS
<1>2. PICK m \in 1 .. 23 : /\ m = off - 8 * (i + 1) /\ 8 + m = off - 8 * i
                           /\ m \in 0 .. 31 /\ 8 + m <= 31
  OBVIOUS
<1>3. /\ T \in Nat /\ T < 2 ^ m
      /\ \A j \in 0 .. 3 : \A k \in 0 .. 7 :
           i + 1 <= j /\ 8 * j + k < off => Bit(T, off - 1 - (8 * j + k)) = Bit(B[j], 7 - k)
  BY <1>1, <1>2, Zenon DEF SumIs
<1>4. PICK v \in 0 .. 255 : v = B[i] /\ v \in Nat
  OBVIOUS
<1>5. R = v * 2 ^ m + T
  BY <1>2, <1>4, Zenon
<1>6. R \in Nat /\ R < 2 ^ (off - 8 * i)
  <2>1. PICK x \in 0 .. 31 : x = 8
    OBVIOUS
  <2>2. 2 ^ x = 256
    BY <2>1, PowerEight
  <2>3. v < 2 ^ x /\ x + m <= 31
    BY <1>2, <1>4, <2>1, <2>2
  <2>4. v * 2 ^ m + T \in Nat /\ v * 2 ^ m + T < 2 ^ (x + m)
    BY <1>2, <1>3, <1>4, <2>3, JoinSmall
  <2>5. x + m = off - 8 * i
    BY <1>2, <2>1
  <2> QED
    BY <1>5, <2>4, <2>5, Zenon
<1>7. ASSUME NEW j \in 0 .. 3, NEW k \in 0 .. 7, i <= j, 8 * j + k < off
      PROVE  Bit(R, off - 1 - (8 * j + k)) = Bit(B[j], 7 - k)
  <2>1. PICK c \in 0 .. 31 : c = off - 1 - (8 * j + k)
    BY <1>7
  <2>2. CASE j = i
    <3>1. c >= m /\ c - m = 7 - k
      BY <1>2, <2>1, <2>2
    <3>2. Bit(v * 2 ^ m + T, c) = Bit(v, c - m)
      BY <1>2, <1>3, <1>4, <3>1, BitAbove, Zenon
    <3> QED
      BY <1>4, <1>5, <2>1, <2>2, <3>1, <3>2, Zenon
  <2>3. CASE j # i
    <3>1. c < m /\ i + 1 <= j
      BY <1>2, <1>7, <2>1, <2>3
    <3>2. Bit(v * 2 ^ m + T, c) = Bit(T, c)
      BY <1>2, <1>3, <1>4, <3>1, BitBelow
    <3> QED
      BY <1>3, <1>5, <1>7, <2>1, <3>1, <3>2, Zenon
  <2> QED
    BY <2>2, <2>3
<1> QED
  BY <1>1, <1>6, <1>7, Zenon DEF SumIs

\* Both cases, and the bytes behind the last.
LEMMA SumStep ==
  ASSUME NEW off \in 1 .. 31, NEW B \in [0 .. 3 -> 0 .. 255], NEW i \in 0 .. 3,
         NEW T, SumIs(T, i + 1, off, B), NEW R, R = Part(i, off, B) + T
  PROVE  SumIs(R, i, off, B)
<1>1. PICK last \in 0 .. 3 : last = (off - 1) \div 8
  OBVIOUS
<1>2. CASE i > last
  <2>1. T = 0 /\ Part(i, off, B) = 0
    <3>1. i + 1 > last
      BY <1>2
    <3> QED
      BY <1>1, <1>2, <3>1, Zenon DEF SumIs, Part
  <2>2. R = 0
    BY <2>1
  <2> QED
    BY <1>1, <1>2, <2>2, Zenon DEF SumIs
<1>3. CASE i = last
  <2>1. T = 0
    <3>1. i + 1 > last
      BY <1>3
    <3> QED
      BY <1>1, <3>1, Zenon DEF SumIs
  <2>2. ~(i > last)
    BY <1>3
  <2>3. PICK y : y = B[i] \div 2 ^ (8 * (last + 1) - off)
    BY Zenon
  <2>4. Part(i, off, B) = y
    BY <1>1, <1>3, <2>2, <2>3, Zenon DEF Part
  <2>5. SumIs(y, i, off, B)
    <3>1. y = B[last] \div 2 ^ (8 * (last + 1) - off)
      BY <1>3, <2>3, Zenon
    <3>2. SumIs(y, last, off, B)
      BY <1>1, <3>1, SumEnds, Zenon
    <3> QED
      BY <1>3, <3>2, Zenon
  <2>6. y \in Nat
    BY <1>1, <2>2, <2>5, Zenon DEF SumIs
  <2>7. R = y
    BY <2>1, <2>4, <2>6
  <2> QED
    BY <2>5, <2>7, Zenon
<1>4. CASE i < last
  <2>1. ~(i > last) /\ i # last /\ i \in 0 .. 2
    BY <1>4
  <2>2. Part(i, off, B) = B[i] * 2 ^ (off - 8 * (i + 1))
    BY <1>1, <2>1, Zenon DEF Part
  <2>3. R = B[i] * 2 ^ (off - 8 * (i + 1)) + T
    BY <2>2, Zenon
  <2>4. i < (off - 1) \div 8
    BY <1>1, <1>4, Zenon
  <2> QED
    BY <2>1, <2>3, <2>4, SumGoesOn
<1> QED
  BY <1>1, <1>2, <1>3, <1>4

\* The byte i from the current one on as Extract takes it, and its part of the field.
InByte(d, i) ==
  LET b == IF d.buffer + i < Len(d.bytes) THEN d.bytes[d.buffer + i + 1] ELSE 0
  IN  IF i = 0 THEN b % 2 ^ (8 - d.nboff) ELSE b

\* What becomes of it in the sum.
InPart(d, off, i) ==
  IF i > (off - 1) \div 8 THEN 0
  ELSE IF i = (off - 1) \div 8 THEN InByte(d, i) \div 2 ^ (8 * ((off - 1) \div 8 + 1) - off)
  ELSE InByte(d, i) * 2 ^ (off - 8 * (i + 1))

\* Extract adds up four parts.
LEMMA ExtractAdds ==
  ASSUME NEW d, NEW n, n # 0
  PROVE  Extract(d, n) = InPart(d, d.nboff + n, 0) + InPart(d, d.nboff + n, 1)
                         + InPart(d, d.nboff + n, 2) + InPart(d, d.nboff + n, 3)
BY Zenon DEF Extract, InPart, InByte

\* A part is a natural number.
LEMMA PartNat ==
  ASSUME NEW off \in 1 .. 31, NEW B \in [0 .. 3 -> 0 .. 255], NEW i \in 0 .. 3
  PROVE  Part(i, off, B) \in Nat
<1>1. PICK v \in Nat : v = B[i]
  <2>1. B[i] \in 0 .. 255
    OBVIOUS
  <2> QED
    BY <2>1
<1>2. PICK last \in 0 .. 3 : last = (off - 1) \div 8 /\ 8 * last <= off - 1 /\ off - 1 <= 8 * last + 7
  OBVIOUS
<1>3. CASE i > last
  BY <1>2, <1>3, Zenon DEF Part
<1>4. CASE i = last
  <2>1. PICK s \in 0 .. 31 : s = 8 * (last + 1) - off
    BY <1>2
  <2>2. 2 ^ s \in Nat /\ 2 ^ s > 0
    BY PowerNat
  <2>3. v \div 2 ^ s \in Nat
    BY <2>2, Divide
  <2>4. ~(i > last)
    BY <1>4
  <2>5. Part(i, off, B) = v \div 2 ^ s
    BY <1>1, <1>2, <1>4, <2>1, <2>4, Zenon DEF Part
  <2> QED
    BY <2>3, <2>5, Zenon
<1>5. CASE i < last
  <2>1. PICK m \in 0 .. 31 : m = off - 8 * (i + 1)
    BY <1>2, <1>5
  <2>2. 2 ^ m \in Nat
    BY PowerNat
  <2>3. v * 2 ^ m \in Nat
    BY <2>2
  <2>4. ~(i > last) /\ i # last
    BY <1>5
  <2>5. Part(i, off, B) = v * 2 ^ m
    BY <1>1, <1>2, <2>1, <2>4, Zenon DEF Part
  <2> QED
    BY <2>3, <2>5, Zenon
<1> QED
  BY <1>3, <1>4, <1>5

\* The sum of all parts has the bits of all bytes.
LEMMA SumOfParts ==
  ASSUME NEW off \in 1 .. 31, NEW B \in [0 .. 3 -> 0 .. 255],
         NEW R, R = Part(0, off, B) + Part(1, off, B) + Part(2, off, B) + Part(3, off, B)
  PROVE  SumIs(R, 0, off, B)
<1>1. 4 > (off - 1) \div 8
  OBVIOUS
<1>2. PICK z \in Nat : z = 0
  OBVIOUS
<1>3. SumIs(z, 4, off, B)
  BY <1>1, <1>2, Zenon DEF SumIs
<1>4. PICK a \in Nat, b \in Nat, c \in Nat, d \in Nat :
        /\ a = Part(0, off, B) /\ b = Part(1, off, B)
        /\ c = Part(2, off, B) /\ d = Part(3, off, B)
  <2>1. 0 \in 0 .. 3 /\ 1 \in 0 .. 3 /\ 2 \in 0 .. 3 /\ 3 \in 0 .. 3
    OBVIOUS
  <2>2. \A i \in 0 .. 3 : Part(i, off, B) \in Nat
    BY PartNat, Zenon
  <2> QED
    BY <2>1, <2>2, Zenon
<1>5. PICK r3, r2, r1, r0 : r3 = d + z /\ r2 = c + r3 /\ r1 = b + r2 /\ r0 = a + r1
  BY Zenon
<1>6. ASSUME NEW i \in 0 .. 3, NEW j, j = i + 1, NEW T, SumIs(T, j, off, B),
             NEW Q, Q = Part(i, off, B) + T
      PROVE  SumIs(Q, i, off, B)
  <2>1. SumIs(T, i + 1, off, B)
    BY <1>6, Zenon
  <2> QED
    BY <1>6, <2>1, SumStep, Zenon
<1>7. SumIs(r3, 3, off, B)
  BY <1>3, <1>4, <1>5, <1>6
<1>8. SumIs(r2, 2, off, B)
  BY <1>4, <1>5, <1>6, <1>7
<1>9. SumIs(r1, 1, off, B)
  BY <1>4, <1>5, <1>6, <1>8
<1>10. SumIs(r0, 0, off, B)
  BY <1>4, <1>5, <1>6, <1>9
<1>11. R = r0
  BY <1>2, <1>4, <1>5
<1> QED
  BY <1>10, <1>11, Zenon

-----------------------------------------------------------------------------
(* The decoder.                                                            *)

\* The state of the decoder.
Decoder == [bytes : Bytes, buffer : Nat, nboff : Nat, nbits : Int]

\* A byte of the input, zero behind its end.
ByteIn(w, j) == IF j < Len(w) THEN w[j + 1] ELSE 0

\* d is to go on with the bit after the first pos of w.
Reads(d, w, pos) ==
  /\ d \in Decoder /\ d.bytes = w
  /\ pos = 8 * d.buffer + d.nboff
  /\ 8 * Len(w) <= d.nbits + 8 * d.buffer

\* x is the number the n bits after the first pos of b stand for.
Taken(x, n, b, pos) ==
  /\ x \in Nat /\ x < 2 ^ n
  /\ \A t \in 1 .. n : Bit(x, n - t) = b[pos + t]

\* It is a byte.
LEMMA ByteInByte ==
  ASSUME NEW w \in Bytes, NEW j \in Nat
  PROVE  ByteIn(w, j) \in 0 .. 255
<1>1. w \in Seq(0 .. 255)
  BY Zenon DEF Bytes
<1>2. CASE j < Len(w)
  <2>1. j + 1 \in 1 .. Len(w)
    BY <1>1, <1>2
  <2>2. w[j + 1] \in 0 .. 255
    BY <1>1, <2>1, ElementOfSeq, Zenon
  <2> QED
    BY <1>2, <2>2, Zenon DEF ByteIn
<1>3. CASE ~(j < Len(w))
  <2>1. 0 \in 0 .. 255
    OBVIOUS
  <2> QED
    BY <1>3, <2>1, Zenon DEF ByteIn
<1> QED
  BY <1>2, <1>3

\* The bytes a field is taken from.
FieldBytes(w, u, o) ==
  [i \in 0 .. 3 |-> IF i = 0 THEN ByteIn(w, u) % 2 ^ (8 - o) ELSE ByteIn(w, u + i)]

\* They have the bits of w, except for the o before the field.
AreFrom(B, w, u, o) ==
  /\ B \in [0 .. 3 -> 0 .. 255]
  /\ B[0] \in Nat /\ B[0] < 2 ^ (8 - o)
  /\ \A i \in 0 .. 3 : \A k \in 0 .. 7 :
       o <= 8 * i + k => Bit(B[i], 7 - k) = Bit(ByteIn(w, u + i), 7 - k)

\* That is how these bytes are taken.
LEMMA FieldBytesBits ==
  ASSUME NEW w \in Bytes, NEW u \in Nat, NEW o \in 0 .. 7, NEW B, B = FieldBytes(w, u, o)
  PROVE  AreFrom(B, w, u, o)
<1>1. PICK m \in 0 .. 31 : m = 8 - o
  OBVIOUS
<1>2. 2 ^ m \in Nat /\ 2 ^ m > 0
  BY PowerNat
<1>3. PICK v \in 0 .. 255 : v = ByteIn(w, u) /\ v \in Nat
  BY ByteInByte
<1>4. v % 2 ^ m \in 0 .. 255 /\ v % 2 ^ m < 2 ^ m
  <2>1. v % 2 ^ m \in Nat /\ v % 2 ^ m <= v /\ v % 2 ^ m < 2 ^ m
    BY <1>2, <1>3, RestSmall, Zenon
  <2> QED
    BY <2>1, <1>3
<1>5. B = [i \in 0 .. 3 |-> IF i = 0 THEN v % 2 ^ m ELSE ByteIn(w, u + i)]
  BY <1>1, <1>3, Zenon DEF FieldBytes
<1>6. \A i \in 0 .. 3 : u + i \in Nat /\ ByteIn(w, u + i) \in 0 .. 255
  <2>1. \A i \in 0 .. 3 : u + i \in Nat
    OBVIOUS
  <2> QED
    BY <2>1, ByteInByte, Zenon
<1>7. \A i \in 0 .. 3 : B[i] = IF i = 0 THEN v % 2 ^ m ELSE ByteIn(w, u + i)
  BY <1>5, Zenon
<1>8. B \in [0 .. 3 -> 0 .. 255]
  <2>1. \A i \in 0 .. 3 : B[i] \in 0 .. 255
    BY <1>4, <1>6, <1>7, Zenon
  <2>2. B = [i \in 0 .. 3 |-> B[i]]
    BY <1>5, Zenon
  <2> QED
    BY <2>1, <2>2, Zenon
<1>9. B[0] = v % 2 ^ m
  <2>1. 0 \in 0 .. 3
    OBVIOUS
  <2> QED
    BY <1>7, <2>1, Zenon
<1>10. ASSUME NEW i \in 0 .. 3, NEW k \in 0 .. 7, o <= 8 * i + k
       PROVE  Bit(B[i], 7 - k) = Bit(ByteIn(w, u + i), 7 - k)
  <2>1. CASE i = 0
    <3>1. 7 - k \in 0 .. 31 /\ 7 - k < m /\ u + i = u
      BY <1>1, <1>10, <2>1
    <3>2. Bit(v % 2 ^ m, 7 - k) = Bit(v, 7 - k)
      BY <1>3, <3>1, BitLow, Zenon
    <3> QED
      BY <1>3, <1>9, <2>1, <3>1, <3>2, Zenon
  <2>2. CASE i # 0
    BY <1>7, <2>2, Zenon
  <2> QED
    BY <2>1, <2>2
<1>11. v % 2 ^ m \in Nat
  BY <1>4
<1> QED
  BY <1>1, <1>4, <1>8, <1>9, <1>10, <1>11, Zenon DEF AreFrom

\* They are the bytes Extract looks at.
LEMMA PartIsIn ==
  ASSUME NEW d, NEW w, d.bytes = w, NEW u \in Nat, u = d.buffer, NEW o, o = d.nboff,
         NEW off, NEW B, B = FieldBytes(w, u, o), NEW i \in 0 .. 3
  PROVE  InPart(d, off, i) = Part(i, off, B)
<1>1. B[i] = IF i = 0 THEN ByteIn(w, u) % 2 ^ (8 - o) ELSE ByteIn(w, u + i)
  BY Zenon DEF FieldBytes
<1>2. InByte(d, i) = B[i]
  <2>1. CASE i = 0
    <3>1. u + i = u /\ i \in {0}
      BY <2>1
    <3>2. InByte(d, i) = ByteIn(w, u + i) % 2 ^ (8 - o)
      BY <2>1, Zenon DEF InByte, ByteIn
    <3> QED
      BY <1>1, <2>1, <3>1, <3>2, Zenon
  <2>2. CASE i # 0
    <3>1. InByte(d, i) = ByteIn(w, u + i)
      BY <2>2, Zenon DEF InByte, ByteIn
    <3> QED
      BY <1>1, <2>2, <3>1, Zenon
  <2> QED
    BY <2>1, <2>2
<1> QED
  BY <1>2, Zenon DEF InPart, Part

\* A number without the bits from n to off has only n.
LEMMA FewerBits ==
  ASSUME NEW off \in 0 .. 31, NEW n \in 0 .. 31, n <= off, NEW x \in Nat, x < 2 ^ off,
         \A c \in 0 .. 31 : n <= c /\ c < off => Bit(x, c) = 0
  PROVE  x < 2 ^ n
<1>1. 2 ^ n \in Nat /\ 2 ^ n > 0 /\ 2 ^ off \in Nat
  BY PowerNat
<1>2. PICK y \in Nat : y = x % 2 ^ n /\ y <= x /\ y < 2 ^ n
  BY <1>1, RestSmall
<1>3. y < 2 ^ off
  BY <1>1, <1>2
<1>4. ASSUME NEW k \in 0 .. 31, k < off PROVE Bit(x, k) = Bit(y, k)
  <2>1. CASE k < n
    <3>1. Bit(x % 2 ^ n, k) = Bit(x, k)
      BY <2>1, BitLow, Zenon
    <3> QED
      BY <1>2, <3>1, Zenon
  <2>2. CASE ~(k < n)
    <3>1. k >= n /\ n <= k
      BY <2>2
    <3>2. Bit(y, k) = 0
      BY <1>2, <3>1, BitHigh, Zenon
    <3> QED
      BY <1>4, <3>1, <3>2, Zenon
  <2> QED
    BY <2>1, <2>2
<1>5. x = y
  BY <1>3, <1>4, SameBits
<1> QED
  BY <1>2, <1>5, Zenon

\* A field ends within the word.
LEMMA FieldEnd ==
  ASSUME NEW o \in 0 .. 7, NEW n \in 0 .. 31, n # 0, o + n <= 31
  PROVE  \E off \in 1 .. 31 : off = o + n /\ off \in 0 .. 31 /\ n <= off
<1>1. o + n \in 1 .. 31 /\ o + n \in 0 .. 31 /\ n <= o + n
  OBVIOUS
<1> QED
  BY <1>1, Zenon

\* Where the bit c of what Extract adds up comes from: before the field ...
InFront(k, o, off, c) ==
  /\ 0 \in 0 .. 3 /\ 8 * 0 + k < off /\ off - 1 - (8 * 0 + k) = c
  /\ 8 - o \in 0 .. 31 /\ 7 - k \in 0 .. 31 /\ 7 - k >= 8 - o

\* There is nothing of the current byte before it.
LEMMA FrontPlace ==
  ASSUME NEW o \in 0 .. 7, NEW n \in 0 .. 31, NEW off \in 1 .. 31, off = o + n,
         NEW c \in 0 .. 31, n <= c, c < off
  PROVE  \E k \in 0 .. 7 : InFront(k, o, off, c)
<1>1. off - 1 - c \in 0 .. 7 /\ off - 1 - c < o
  OBVIOUS
<1>2. PICK k \in 0 .. 7 : k = off - 1 - c /\ k < o
  BY <1>1, Zenon
<1>3. /\ 0 \in 0 .. 3 /\ 8 * 0 + k < off /\ off - 1 - (8 * 0 + k) = c
      /\ 8 - o \in 0 .. 31 /\ 7 - k \in 0 .. 31 /\ 7 - k >= 8 - o
  BY <1>2
<1> QED
  BY <1>3, Zenon DEF InFront

\* ... or in it.
InField(j, k, o, n, off, u, pos, l, e, t) ==
  /\ 8 * j + k < off /\ off - 1 - (8 * j + k) = n - t /\ o <= 8 * j + k
  /\ u + j \in Nat /\ u + j < e /\ 8 * (u + j) + k < l
  /\ 8 * (u + j) + k + 1 = pos + t

\* The place of such a bit in the datagram.
LEMMA InnerPlace ==
  ASSUME NEW o \in 0 .. 7, NEW n \in 0 .. 31, NEW off \in 1 .. 31, off = o + n,
         NEW u \in Nat, NEW pos \in Nat, pos = 8 * u + o, NEW l \in Nat, NEW e \in Nat,
         pos + n <= l, l <= 8 * e, NEW t \in 1 .. n
  PROVE  \E j \in 0 .. 3, k \in 0 .. 7 : InField(j, k, o, n, off, u, pos, l, e, t)
<1>1. PICK q \in 0 .. 30 : q = o + t - 1 /\ o <= q /\ q < off /\ off - 1 - q = n - t
  <2>1. /\ o + t - 1 \in 0 .. 30 /\ o <= o + t - 1 /\ o + t - 1 < off
        /\ off - 1 - (o + t - 1) = n - t
    OBVIOUS
  <2> QED
    BY <2>1, Zenon
<1>2. PICK j \in 0 .. 3, k \in 0 .. 7 : 8 * j + k = q
  <2>1. q \div 8 \in 0 .. 3 /\ q % 8 \in 0 .. 7 /\ 8 * (q \div 8) + (q % 8) = q
    OBVIOUS
  <2> QED
    BY <2>1, Zenon
<1>3. 8 * (u + j) + k + 1 = pos + t /\ 8 * (u + j) + k < l /\ u + j \in Nat
  BY <1>1, <1>2
<1>4. u + j < e
  BY <1>3
<1> QED
  BY <1>1, <1>2, <1>3, <1>4, Zenon DEF InField

\* x has the bits of all bytes of the field.
SumHas(x, off, B) ==
  /\ x \in Nat /\ x < 2 ^ off
  /\ \A j \in 0 .. 3 : \A k \in 0 .. 7 :
       8 * j + k < off => Bit(x, off - 1 - (8 * j + k)) = Bit(B[j], 7 - k)

\* The sum of all parts has.
LEMMA FieldSum ==
  ASSUME NEW off \in 1 .. 31, NEW x, NEW B, SumIs(x, 0, off, B)
  PROVE  SumHas(x, off, B)
<1>1. ~(0 > (off - 1) \div 8) /\ off - 8 * 0 = off /\ \A j \in 0 .. 3 : 0 <= j
  OBVIOUS
<1> QED
  BY <1>1, Zenon DEF SumIs, SumHas

\* x is the sum Extract builds.
LEMMA ExtractSum ==
  ASSUME NEW d, NEW w \in Bytes, d.bytes = w, NEW u \in Nat, u = d.buffer,
         NEW o \in 0 .. 7, o = d.nboff, NEW n, n # 0,
         NEW off \in 1 .. 31, off = o + n, NEW B, B = FieldBytes(w, u, o),
         NEW x, x = Extract(d, n)
  PROVE  AreFrom(B, w, u, o) /\ SumIs(x, 0, off, B)
<1>1. AreFrom(B, w, u, o)
  BY FieldBytesBits, Zenon
<1>2. B \in [0 .. 3 -> 0 .. 255]
  BY <1>1, Zenon DEF AreFrom
<1>3. \A i \in 0 .. 3 : InPart(d, off, i) = Part(i, off, B)
  BY PartIsIn
<1>4. 0 \in 0 .. 3 /\ 1 \in 0 .. 3 /\ 2 \in 0 .. 3 /\ 3 \in 0 .. 3
  OBVIOUS
<1>5. off = d.nboff + n
  BY Zenon
<1>6. x = InPart(d, off, 0) + InPart(d, off, 1) + InPart(d, off, 2) + InPart(d, off, 3)
  BY <1>5, ExtractAdds, Zenon
<1>7. x = Part(0, off, B) + Part(1, off, B) + Part(2, off, B) + Part(3, off, B)
  BY <1>3, <1>4, <1>6, Zenon
<1>8. SumIs(x, 0, off, B)
  BY <1>2, <1>7, SumOfParts, Zenon
<1> QED
  BY <1>1, <1>8, Zenon

\* That sum is the number the decoder is asked for.
LEMMA SumTaken ==
  ASSUME NEW w, NEW b, NEW l \in Nat, l = Len(b), NEW e \in Nat, e = Len(w), Shows(w, b),
         NEW u \in Nat, NEW o \in 0 .. 7, NEW pos \in Nat, pos = 8 * u + o,
         NEW n \in 0 .. 31, NEW off \in 1 .. 31, off = o + n, off \in 0 .. 31, n <= off,
         pos + n <= l, l <= 8 * e, NEW B, AreFrom(B, w, u, o),
         NEW x, SumIs(x, 0, off, B)
  PROVE  Taken(x, n, b, pos)
<1>1. /\ x \in Nat /\ x < 2 ^ off
      /\ \A j \in 0 .. 3 : \A k \in 0 .. 7 :
           8 * j + k < off => Bit(x, off - 1 - (8 * j + k)) = Bit(B[j], 7 - k)
  <2>1. SumHas(x, off, B)
    BY FieldSum, Zenon
  <2> QED
    BY <2>1, Zenon DEF SumHas
<1>2. ASSUME NEW c \in 0 .. 31, n <= c, c < off PROVE Bit(x, c) = 0
  <2>0. PICK k \in 0 .. 7 : InFront(k, o, off, c)
    BY <1>2, FrontPlace
  <2>1. /\ 0 \in 0 .. 3 /\ 8 * 0 + k < off /\ off - 1 - (8 * 0 + k) = c
        /\ 8 - o \in 0 .. 31 /\ 7 - k \in 0 .. 31 /\ 7 - k >= 8 - o
    BY <2>0, Zenon DEF InFront
  <2>2. Bit(x, c) = Bit(B[0], 7 - k)
    BY <1>1, <2>1, Zenon
  <2>3. Bit(B[0], 7 - k) = 0
    <3>1. B[0] \in Nat /\ B[0] < 2 ^ (8 - o)
      BY Zenon DEF AreFrom
    <3> QED
      BY <2>1, <3>1, BitHigh, Zenon
  <2> QED
    BY <2>2, <2>3, Zenon
<1>3. x < 2 ^ n
  BY <1>1, <1>2, FewerBits, Zenon
<1>4. ASSUME NEW t \in 1 .. n PROVE Bit(x, n - t) = b[pos + t]
  <2>0. PICK j \in 0 .. 3, k \in 0 .. 7 : InField(j, k, o, n, off, u, pos, l, e, t)
    BY InnerPlace
  <2>1. /\ 8 * j + k < off /\ off - 1 - (8 * j + k) = n - t /\ o <= 8 * j + k
        /\ u + j \in Nat /\ u + j < e /\ 8 * (u + j) + k < l
        /\ 8 * (u + j) + k + 1 = pos + t
    BY <2>0, Zenon DEF InField
  <2>2. Bit(x, n - t) = Bit(B[j], 7 - k)
    BY <1>1, <2>1, Zenon
  <2>3. Bit(B[j], 7 - k) = Bit(ByteIn(w, u + j), 7 - k)
    BY <2>1, Zenon DEF AreFrom
  <2>4. ByteIn(w, u + j) = w[(u + j) + 1]
    BY <2>1, Zenon DEF ByteIn
  <2>5. Bit(w[(u + j) + 1], 7 - k) = b[8 * (u + j) + k + 1]
    BY <2>1, Zenon DEF Shows
  <2> QED
    BY <2>1, <2>2, <2>3, <2>4, <2>5, Zenon
<1> QED
  BY <1>1, <1>3, <1>4, Zenon DEF Taken

\* So Extract takes the bits that were put.
LEMMA ExtractTaken ==
  ASSUME NEW d, NEW w, NEW b \in Seq({0, 1}), Shows(w, b), NEW pos \in Nat, Reads(d, w, pos),
         NEW o \in 0 .. 7, o = d.nboff, NEW n \in 0 .. 31, o + n <= 31,
         pos + n <= Len(b), NEW x, x = Extract(d, n)
  PROVE  Taken(x, n, b, pos)
<1>1. CASE n = 0
  <2>1. x = 0
    BY <1>1, Zenon DEF Extract
  <2>2. 2 ^ n = 1
    BY <1>1, PowerZero, Zenon
  <2>3. x \in Nat /\ x < 2 ^ n
    BY <2>1, <2>2
  <2>4. \A t : ~(t \in 1 .. n)
    BY <1>1
  <2> QED
    BY <2>3, <2>4, Zenon DEF Taken
<1>2. CASE n # 0
  <2>1. /\ d \in Decoder /\ d.bytes = w /\ pos = 8 * d.buffer + d.nboff
        /\ w \in Bytes
    BY Zenon DEF Reads, Shows
  <2>2. PICK u \in Nat : u = d.buffer /\ pos = 8 * u + o
    <3>1. d.buffer \in Nat
      BY <2>1 DEF Decoder
    <3> QED
      BY <2>1, <3>1, Zenon
  <2>3. PICK l \in Nat, e \in Nat :
          l = Len(b) /\ e = Len(w) /\ pos + n <= l /\ l <= 8 * e
    <3>1. Len(b) \in Nat
      BY LenProperties, Zenon
    <3> QED
      BY <3>1, Zenon DEF Shows
  <2>4. PICK off \in 1 .. 31 : off = o + n /\ off \in 0 .. 31 /\ n <= off
    BY <1>2, FieldEnd, Zenon
  <2>5. PICK B : B = FieldBytes(w, u, o)
    BY Zenon
  <2>6. AreFrom(B, w, u, o) /\ SumIs(x, 0, off, B)
    BY <1>2, <2>1, <2>2, <2>4, <2>5, ExtractSum, Zenon
  <2> QED
    BY <2>2, <2>3, <2>4, <2>6, SumTaken, Zenon
<1> QED
  BY <1>1, <1>2

\* The decoder n bits further.
Ahead(p, n) == [p EXCEPT !.nboff = @ + n]

\* Both changes leave a decoder.
LEMMA DecoderMoved ==
  ASSUME NEW p \in Decoder, NEW x \in Nat, NEW y \in Nat, NEW z \in Int,
         NEW q, q = Moved(p, x, y, z)
  PROVE  /\ q \in Decoder /\ q.buffer = x /\ q.nboff = y /\ q.nbits = z
         /\ q.bytes = p.bytes
BY DEF Decoder, Moved

\* The position alone.
LEMMA DecoderAhead ==
  ASSUME NEW p \in Decoder, NEW n \in Nat, NEW q, q = Ahead(p, n)
  PROVE  /\ q \in Decoder /\ q.buffer = p.buffer /\ q.nboff = p.nboff + n
         /\ q.nbits = p.nbits /\ q.bytes = p.bytes
BY DEF Decoder, Ahead

\* The types of its parts.
LEMMA DecoderFields ==
  ASSUME NEW p \in Decoder
  PROVE  p.buffer \in Nat /\ p.nboff \in Nat /\ p.nbits \in Int /\ p.bytes \in Bytes
BY DEF Decoder

\* Moving on by whole bytes.
NormalPlace(u, o, z, e, pos, x, y, v) ==
  /\ x = u + o \div 8 /\ y = o % 8 /\ v = z - 8 * (o \div 8) /\ y \in Nat
  /\ pos = 8 * x + y /\ 8 * e <= v + 8 * x

\* It is the same position.
LEMMA ReadsNormal ==
  ASSUME NEW u \in Nat, NEW o \in Nat, NEW z \in Int, NEW e \in Nat, NEW pos,
         pos = 8 * u + o, 8 * e <= z + 8 * u
  PROVE  \E x \in Nat, y \in 0 .. 7, v \in Int : NormalPlace(u, o, z, e, pos, x, y, v)
<1>1. PICK h \in Nat, y \in 0 .. 7 : h = o \div 8 /\ y = o % 8 /\ o = 8 * h + y
  <2>1. o \div 8 \in Nat /\ o % 8 \in 0 .. 7 /\ o = 8 * (o \div 8) + (o % 8)
    OBVIOUS
  <2> QED
    BY <2>1, Zenon
<1>2. /\ u + h \in Nat /\ z - 8 * h \in Int /\ y \in Nat
      /\ pos = 8 * (u + h) + y /\ 8 * e <= (z - 8 * h) + 8 * (u + h)
  BY <1>1
<1> QED
  BY <1>1, <1>2, Zenon DEF NormalPlace

\* The decoder reads on where it was.
LEMMA NormaliseReads ==
  ASSUME NEW d, NEW w \in Bytes, NEW pos, Reads(d, w, pos), NEW q, q = Normalise(d)
  PROVE  Reads(q, w, pos) /\ q.nboff \in 0 .. 7
<1>1. /\ d \in Decoder /\ d.bytes = w /\ pos = 8 * d.buffer + d.nboff
      /\ 8 * Len(w) <= d.nbits + 8 * d.buffer
  BY Zenon DEF Reads
<1>2. PICK u \in Nat, o \in Nat, z \in Int, e \in Nat :
        u = d.buffer /\ o = d.nboff /\ z = d.nbits /\ e = Len(w)
  <2>1. Len(w) \in Nat
    BY LenProperties, Zenon DEF Bytes
  <2> QED
    BY <1>1, <2>1, DecoderFields, Zenon
<1>3. PICK x \in Nat, y \in 0 .. 7, v \in Int : NormalPlace(u, o, z, e, pos, x, y, v)
  <2>1. pos = 8 * u + o /\ 8 * e <= z + 8 * u
    BY <1>1, <1>2, Zenon
  <2> QED
    BY <2>1, ReadsNormal
<1>4. q = Moved(d, x, y, v)
  BY <1>2, <1>3, Zenon DEF Normalise, Moved, NormalPlace
<1>5. /\ q \in Decoder /\ q.buffer = x /\ q.nboff = y /\ q.nbits = v
      /\ q.bytes = d.bytes
  <2>1. d \in Decoder /\ x \in Nat /\ y \in Nat /\ v \in Int
    BY <1>1, <1>3, Zenon DEF NormalPlace
  <2> QED
    BY <1>4, <2>1, DecoderMoved
<1> QED
  BY <1>1, <1>2, <1>3, <1>5, Zenon DEF Reads, NormalPlace

\* Moving on by n bits.
LEMMA AheadReads ==
  ASSUME NEW d, NEW w, NEW pos \in Nat, Reads(d, w, pos), NEW n \in Nat, NEW q, q = Ahead(d, n)
  PROVE  Reads(q, w, pos + n)
<1>1. /\ d \in Decoder /\ d.bytes = w /\ pos = 8 * d.buffer + d.nboff
      /\ 8 * Len(w) <= d.nbits + 8 * d.buffer
  BY Zenon DEF Reads
<1>2. /\ q \in Decoder /\ q.buffer = d.buffer /\ q.nboff = d.nboff + n
      /\ q.nbits = d.nbits /\ q.bytes = d.bytes
  BY <1>1, DecoderAhead, Zenon
<1>3. pos + n = 8 * d.buffer + (d.nboff + n)
  <2>1. PICK u \in Nat, o \in Nat : u = d.buffer /\ o = d.nboff
    BY <1>1, DecoderFields, Zenon
  <2>2. pos = 8 * u + o
    BY <1>1, <2>1, Zenon
  <2>3. pos + n = 8 * u + (o + n)
    BY <2>2
  <2> QED
    BY <2>1, <2>3, Zenon
<1> QED
  BY <1>1, <1>2, <1>3, Zenon DEF Reads

\* One call that does not have to divide its number.
LEMMA PartRead ==
  ASSUME NEW d, NEW w, NEW b \in Seq({0, 1}), Shows(w, b), NEW pos \in Nat, Reads(d, w, pos),
         NEW n \in 0 .. 24, pos + n <= Len(b), NEW g, g = get_part(d, n)
  PROVE  Taken(g.value, n, b, pos) /\ Reads(g.pd, w, pos + n)
<1>1. PICK at, x, q : at = Normalise(d) /\ x = Extract(at, n) /\ q = Ahead(at, n)
  BY Zenon
<1>2. g.value = x /\ g.pd = q
  <2>1. g = [value |-> x, pd |-> q]
    BY <1>1, Zenon DEF get_part, Ahead
  <2> QED
    BY <2>1
<1>3. w \in Bytes
  BY Zenon DEF Shows
<1>4. Reads(at, w, pos) /\ at.nboff \in 0 .. 7
  BY <1>1, <1>3, NormaliseReads
<1>5. PICK o \in 0 .. 7 : o = at.nboff
  BY <1>4, Zenon
<1>6. n \in 0 .. 31 /\ o + n <= 31 /\ n \in Nat
  OBVIOUS
<1>7. Taken(x, n, b, pos)
  BY <1>1, <1>4, <1>5, <1>6, ExtractTaken
<1>8. Reads(q, w, pos + n)
  BY <1>1, <1>4, <1>6, AheadReads
<1> QED
  BY <1>2, <1>7, <1>8, Zenon

\* What was taken in two parts.
LEMMA PartsTaken ==
  ASSUME NEW b, NEW pos \in Nat, NEW n \in 25 .. 31, NEW r \in 1 .. 7, r = n - 24,
         NEW x, Taken(x, r, b, pos), NEW p, p = pos + r,
         NEW m \in 0 .. 31, m = 24, NEW y, Taken(y, m, b, p), NEW v, v = x * 2 ^ m + y
  PROVE  Taken(v, n, b, pos)
<1>1. /\ x \in Nat /\ x < 2 ^ r
      /\ \A t \in 1 .. r : Bit(x, r - t) = b[pos + t]
  BY Zenon DEF Taken
<1>2. /\ y \in Nat /\ y < 2 ^ m
      /\ \A t \in 1 .. m : Bit(y, m - t) = b[p + t]
  BY Zenon DEF Taken
<1>3. r \in 0 .. 31 /\ r + m = n /\ r + m <= 31
  OBVIOUS
<1>4. v \in Nat /\ v < 2 ^ n
  <2>1. x * 2 ^ m + y \in Nat /\ x * 2 ^ m + y < 2 ^ (r + m)
    BY <1>1, <1>2, <1>3, JoinSmall, Zenon
  <2> QED
    BY <1>3, <2>1, Zenon
<1>5. ASSUME NEW t \in 1 .. n PROVE Bit(v, n - t) = b[pos + t]
  <2>1. CASE t <= r
    <3>1. t \in 1 .. r /\ n - t \in 0 .. 31 /\ n - t >= m /\ (n - t) - m = r - t
      BY <2>1
    <3>2. Bit(x * 2 ^ m + y, n - t) = Bit(x, (n - t) - m)
      BY <1>1, <1>2, <3>1, BitAbove, Zenon
    <3> QED
      BY <1>1, <3>1, <3>2, Zenon
  <2>2. CASE ~(t <= r)
    <3>1. PICK i \in 1 .. m : /\ i = t - r /\ n - t \in 0 .. 31 /\ n - t < m
                              /\ n - t = m - i /\ p + i = pos + t
      <4>1. t - r \in 1 .. m
        BY <2>2
      <4>2. PICK i \in 1 .. m : i = t - r
        BY <4>1, Zenon
      <4>3. n - t \in 0 .. 31 /\ n - t < m /\ n - t = m - i /\ p + i = pos + t
        BY <4>2
      <4> QED
        BY <4>2, <4>3, Zenon
    <3>2. Bit(x * 2 ^ m + y, n - t) = Bit(y, n - t)
      BY <1>1, <1>2, <3>1, BitBelow, Zenon
    <3>3. Bit(y, m - i) = b[p + i]
      BY <1>2, Zenon
    <3> QED
      BY <3>1, <3>2, <3>3, Zenon
  <2> QED
    BY <2>1, <2>2
<1> QED
  BY <1>4, <1>5, Zenon DEF Taken

\* There is no failure while bits are left of those that were put.
LEMMA BitsLeft ==
  ASSUME NEW d, NEW w, NEW b \in Seq({0, 1}), Shows(w, b), NEW pos \in Nat, Reads(d, w, pos),
         NEW n \in 0 .. 31, pos + n <= Len(b)
  PROVE  ~(n > d.nbits - d.nboff)
<1>1. /\ d \in Decoder /\ pos = 8 * d.buffer + d.nboff
      /\ 8 * Len(w) <= d.nbits + 8 * d.buffer
  BY Zenon DEF Reads
<1>2. PICK u \in Nat, o \in Nat, z \in Int : u = d.buffer /\ o = d.nboff /\ z = d.nbits
  BY <1>1, DecoderFields, Zenon
<1>3. PICK l \in Nat, e \in Nat : l = Len(b) /\ e = Len(w) /\ l <= 8 * e
  <2>1. Len(b) \in Nat
    BY LenProperties, Zenon
  <2> QED
    BY <2>1, Zenon DEF Shows
<1>4. pos = 8 * u + o /\ 8 * e <= z + 8 * u /\ pos + n <= l
  BY <1>1, <1>2, <1>3, Zenon
<1>5. ASSUME NEW P \in Nat, NEW L \in Nat, P = 8 * u + o, 8 * e <= z + 8 * u, P + n <= L, L <= 8 * e
      PROVE  ~(n > z - o)
  BY <1>5
<1>6. ~(n > z - o)
  BY <1>3, <1>4, <1>5, Zenon
<1> QED
  BY <1>2, <1>6, Zenon

\* A number of any width is taken, and the decoder moves on behind it.
LEMMA FewRead ==
  ASSUME NEW d, NEW w, NEW b \in Seq({0, 1}), Shows(w, b), NEW pos \in Nat, Reads(d, w, pos),
         NEW n \in 0 .. 31, pos + n <= Len(b), NEW g, g = get_few_bits(d, n)
  PROVE  g.ok = TRUE /\ Taken(g.value, n, b, pos) /\ Reads(g.pd, w, pos + n)
<1>1. PICK at, q, h, t, v :
        /\ at = Normalise(d) /\ q = Ahead(at, n)
        /\ h = get_part(at, n - 24) /\ t = get_part(h.pd, 24)
        /\ v = IF at.nboff + n <= 31 THEN Extract(at, n) ELSE h.value * 2 ^ 24 + t.value
  BY Zenon
<1>2. g.ok = TRUE /\ g.value = v /\ g.pd = q
  <2>1. ~(n > d.nbits - d.nboff)
    BY BitsLeft, Zenon
  <2>2. g = [ok |-> TRUE, value |-> v, pd |-> q]
    BY <1>1, <2>1, Zenon DEF get_few_bits, Ahead
  <2> QED
    BY <2>2
<1>3. w \in Bytes
  BY Zenon DEF Shows
<1>4. Reads(at, w, pos) /\ at.nboff \in 0 .. 7
  BY <1>1, <1>3, NormaliseReads
<1>5. PICK o \in 0 .. 7 : o = at.nboff
  BY <1>4, Zenon
<1>6. n \in Nat
  OBVIOUS
<1>7. Reads(q, w, pos + n)
  BY <1>1, <1>4, <1>6, AheadReads
<1>8. Taken(v, n, b, pos)
  <2>1. CASE o + n <= 31
    <3>1. v = Extract(at, n)
      BY <1>1, <1>5, <2>1, Zenon
    <3> QED
      BY <1>4, <1>5, <2>1, <3>1, ExtractTaken, Zenon
  <2>2. CASE ~(o + n <= 31)
    <3>1. PICK r \in 1 .. 7, m \in 0 .. 31, p \in Nat :
            /\ r = n - 24 /\ m = 24 /\ p = pos + r /\ r \in 0 .. 24 /\ m \in 0 .. 24
            /\ n \in 25 .. 31 /\ p + m = pos + n
      <4>1. /\ n \in 25 .. 31 /\ n - 24 \in 1 .. 7 /\ n - 24 \in 0 .. 24
            /\ 24 \in 0 .. 31 /\ 24 \in 0 .. 24
            /\ pos + (n - 24) \in Nat /\ (pos + (n - 24)) + 24 = pos + n
        BY <2>2
      <4> QED
        BY <4>1, Zenon
    <3>2. h = get_part(at, r) /\ t = get_part(h.pd, m) /\ v = h.value * 2 ^ m + t.value
      BY <1>1, <1>5, <2>2, <3>1, Zenon
    <3>3. pos + r <= Len(b) /\ p + m <= Len(b)
      <4>1. PICK l \in Nat : l = Len(b)
        BY LenProperties, Zenon
      <4>2. pos + n <= l
        BY <4>1, Zenon
      <4>3. pos + r <= l /\ p + m <= l
        BY <3>1, <4>2
      <4> QED
        BY <4>1, <4>3, Zenon
    <3>4. Taken(h.value, r, b, pos) /\ Reads(h.pd, w, p)
      BY <1>4, <3>1, <3>2, <3>3, PartRead, Zenon
    <3>5. Taken(t.value, m, b, p)
      BY <3>1, <3>2, <3>3, <3>4, PartRead, Zenon
    <3> QED
      BY <3>1, <3>2, <3>4, <3>5, PartsTaken, Zenon
  <2> QED
    BY <2>1, <2>2
<1> QED
  BY <1>2, <1>7, <1>8, Zenon

-----------------------------------------------------------------------------
(* The stream: fields, datagram, numbers.                                  *)

\* What the encoder was given, and where it went.
Field == [value : Values, width : Widths, first : Nat]

\* The low n bits of v follow on the first pos of b.
StandAt(v, n, b, pos) == \A t \in 1 .. n : b[pos + t] = Bit(v, n - t)

\* The bits of the field f stand at its place in b.
InPlace(f, b) ==
  f.first + f.width <= Len(b) /\ StandAt(f.value, f.width, b, f.first)

\* b is the bits of the fields fs one after the other.
Laid(fs, b) ==
  /\ fs \in Seq(Field)
  /\ \A i \in 1 .. Len(fs) : InPlace(fs[i], b) /\ fs[i].first = EndOf(fs, i - 1)
  /\ EndOf(fs, Len(fs)) = Len(b)

\* What the decoder took, and where.
Number == [value : Nat, width : Widths, first : Nat]

\* g is what was taken of b, one after the other.
GotBack(g, b) ==
  /\ g \in Seq(Number)
  /\ \A i \in 1 .. Len(g) : /\ Taken(g[i].value, g[i].width, b, g[i].first)
                            /\ g[i].first + g[i].width <= Len(b)

\* Values and widths that a field can have.
LEMMA FieldBounds ==
  ASSUME NEW v \in Values, NEW n \in Widths
  PROVE  v \in Nat /\ n \in 0 .. 31 /\ (n = 31 => v < 2 ^ n)
<1>1. v \in Nat /\ n \in 0 .. 31 /\ v \div 2 ^ 30 \in {0, 1}
  BY FieldsAssumption, Zenon
<1>2. PICK m \in 0 .. 30 : m = 30 /\ m \in 0 .. 31
  <2>1. 30 \in 0 .. 30 /\ 30 \in 0 .. 31
    OBVIOUS
  <2> QED
    BY <2>1, Zenon
<1>3. PICK p \in Nat : p = 2 ^ m /\ p > 0
  BY <1>2, PowerNat, Zenon
<1>4. PICK q \in {0, 1} : q = v \div p
  BY <1>1, <1>2, <1>3, Zenon
<1>5. v = p * q + (v % p) /\ v % p < p /\ v % p \in Nat
  BY <1>1, <1>3, <1>4, Divide
<1>6. v < 2 * p
  <2>1. p * q <= p
    BY <1>3, <1>4
  <2>2. PICK c \in Nat : c = p * q
    BY <1>3, <1>4
  <2> QED
    BY <1>1, <1>3, <1>5, <2>1, <2>2
<1>7. ASSUME n = 31 PROVE v < 2 ^ n
  <2>1. m + 1 = n
    BY <1>2, <1>7
  <2>2. 2 ^ (m + 1) = 2 * 2 ^ m
    BY <1>2, PowerDoubles, Zenon
  <2> QED
    BY <1>3, <1>6, <2>1, <2>2, Zenon
<1> QED
  BY <1>1, <1>7, Zenon

\* The low bits of a number are determined.
LEMMA TakenLow ==
  ASSUME NEW v \in Nat, NEW n \in 0 .. 31, n = 31 => v < 2 ^ n,
         NEW x, NEW b, NEW pos, Taken(x, n, b, pos),
         StandAt(v, n, b, pos)
  PROVE  x = Low(v, n)
<1>1. /\ x \in Nat /\ x < 2 ^ n
      /\ \A t \in 1 .. n : Bit(x, n - t) = b[pos + t]
  BY Zenon DEF Taken
<1>2. PICK y \in Nat : /\ y = Low(v, n) /\ y < 2 ^ n
                       /\ \A k \in 0 .. 31 : k < n => Bit(y, k) = Bit(v, k)
  <2>1. CASE n = 31
    <3>1. n >= 31
      BY <2>1
    <3>2. Low(v, n) = v
      BY <3>1, Zenon DEF Low
    <3> QED
      BY <2>1, <3>2, Zenon
  <2>2. CASE n # 31
    <3>1. n \in 0 .. 30
      BY <2>2
    <3> QED
      BY <3>1, LowBits, Zenon
  <2> QED
    BY <2>1, <2>2
<1>3. ASSUME NEW k \in 0 .. 31, k < n PROVE Bit(x, k) = Bit(y, k)
  <2>1. PICK t \in 1 .. n : n - t = k
    <3>1. n - k \in 1 .. n /\ n - (n - k) = k
      BY <1>3
    <3> QED
      BY <3>1, Zenon
  <2>2. Bit(x, n - t) = Bit(v, n - t)
    BY <1>1, Zenon DEF StandAt
  <2> QED
    BY <1>2, <1>3, <2>1, <2>2, Zenon
<1>4. x = y
  BY <1>1, <1>2, <1>3, SameBits, Zenon
<1> QED
  BY <1>2, <1>4, Zenon

\* The parts of a field.
LEMMA FieldParts ==
  ASSUME NEW f \in Field
  PROVE  f.value \in Values /\ f.width \in Widths /\ f.first \in Nat
BY DEF Field

\* One more field behind those that are laid.
LEMMA OneMoreLaid ==
  ASSUME NEW fs, NEW b \in Seq({0, 1}), Laid(fs, b), NEW v \in Values, NEW n \in Widths,
         NEW f, f = [value |-> v, width |-> n, first |-> Len(b)],
         NEW c, c = b \o BitsOf(v, n), NEW gs, gs = Append(fs, f)
  PROVE  Laid(gs, c)
<1>1. /\ fs \in Seq(Field) /\ EndOf(fs, Len(fs)) = Len(b)
      /\ \A i \in 1 .. Len(fs) : InPlace(fs[i], b) /\ fs[i].first = EndOf(fs, i - 1)
  BY Zenon DEF Laid
<1>2. PICK l \in Nat, k \in Nat : l = Len(b) /\ k = Len(fs)
  BY <1>1, LenProperties, Zenon
<1>3. v \in Nat /\ n \in 0 .. 31 /\ n \in Nat
  <2>1. v \in Nat /\ n \in 0 .. 31
    BY FieldBounds, Zenon
  <2> QED
    BY <2>1
<1>4. f \in Field /\ f.value = v /\ f.width = n /\ f.first = l
  BY <1>2 DEF Field
<1>5. /\ gs \in Seq(Field) /\ Len(gs) = k + 1 /\ gs[k + 1] = f
      /\ \A i \in 1 .. k : gs[i] = fs[i]
  <2>1. /\ Append(fs, f) \in Seq(Field) /\ Len(Append(fs, f)) = Len(fs) + 1
        /\ \A i \in 1 .. Len(fs) : Append(fs, f)[i] = fs[i]
        /\ Append(fs, f)[Len(fs) + 1] = f
    BY <1>1, <1>4, AppendProperties
  <2> QED
    BY <1>2, <2>1, Zenon
<1>6. PICK d : /\ d = BitsOf(v, n) /\ d \in Seq({0, 1}) /\ Len(d) = n
               /\ \A m \in 1 .. n : d[m] = Bit(v, n - m)
  <2>1. NumberBits(BitsOf(v, n), v, n)
    BY <1>3, BitsOfNumber, Zenon
  <2> QED
    BY <2>1, Zenon DEF NumberBits
<1>7. /\ Len(c) = l + n /\ \A m \in 1 .. l : c[m] = b[m]
      /\ \A m \in 1 .. n : c[l + m] = d[m]
  <2>1. Behind(b \o d, b, d)
    BY <1>6, BitsBehind, Zenon
  <2> QED
    BY <1>2, <1>6, <2>1, Zenon DEF Behind
<1>8. InPlace(f, c)
  <2>1. l + n <= l + n
    BY <1>3
  <2> QED
    BY <1>4, <1>6, <1>7, <2>1, Zenon DEF InPlace, StandAt
<1>9. ASSUME NEW i \in 1 .. k PROVE InPlace(fs[i], c)
  <2>1. InPlace(fs[i], b) /\ fs[i] \in Field
    <3>1. fs[i] \in Field
      BY <1>1, <1>2, ElementOfSeq, Zenon
    <3> QED
      BY <1>1, <1>2, <3>1, Zenon
  <2>2. PICK x \in Nat, w \in 0 .. 31 : x = fs[i].first /\ w = fs[i].width
    BY <2>1, FieldParts, FieldBounds, FieldsAssumption, Zenon
  <2>3. x + w <= l /\ \A t \in 1 .. w : b[x + t] = Bit(fs[i].value, w - t)
    BY <1>2, <2>1, <2>2, Zenon DEF InPlace, StandAt
  <2>4. x + w <= l + n /\ \A t \in 1 .. w : x + t \in 1 .. l
    BY <1>3, <2>3
  <2>5. \A t \in 1 .. w : c[x + t] = Bit(fs[i].value, w - t)
    BY <1>7, <2>3, <2>4, Zenon
  <2> QED
    BY <1>7, <2>2, <2>4, <2>5, Zenon DEF InPlace, StandAt
<1>10. ASSUME NEW i \in 0 .. k PROVE EndOf(gs, i) = EndOf(fs, i)
  <2>1. CASE i = 0
    BY <2>1, Zenon DEF EndOf
  <2>2. CASE i # 0
    <3>1. i \in 1 .. k
      BY <2>2
    <3> QED
      BY <1>5, <2>2, <3>1, Zenon DEF EndOf
  <2> QED
    BY <2>1, <2>2
<1>11. ASSUME NEW i \in 1 .. k + 1
       PROVE  InPlace(gs[i], c) /\ gs[i].first = EndOf(gs, i - 1)
  <2>1. i - 1 \in 0 .. k
    BY <1>2
  <2>2. CASE i \in 1 .. k
    <3>1. gs[i] = fs[i] /\ fs[i].first = EndOf(fs, i - 1)
      BY <1>1, <1>2, <1>5, <2>2, Zenon
    <3>2. InPlace(fs[i], c) /\ EndOf(gs, i - 1) = EndOf(fs, i - 1)
      BY <1>9, <1>10, <2>1, <2>2, Zenon
    <3> QED
      BY <3>1, <3>2, Zenon
  <2>3. CASE i \notin 1 .. k
    <3>1. i = k + 1 /\ i - 1 = k
      BY <1>2, <2>3
    <3>2. gs[i] = f /\ EndOf(gs, i - 1) = EndOf(fs, k)
      BY <1>5, <1>10, <2>1, <3>1, Zenon
    <3> QED
      BY <1>1, <1>2, <1>4, <1>8, <3>2, Zenon
  <2> QED
    BY <2>2, <2>3
<1>12. EndOf(gs, Len(gs)) = Len(c)
  <2>1. k + 1 # 0
    BY <1>2
  <2> QED
    BY <1>4, <1>5, <1>7, <2>1, Zenon DEF EndOf
<1> QED
  BY <1>5, <1>11, <1>12, Zenon DEF Laid

\* Every bit that was put is where its position says, in the encoder first and
\* then in the datagram, and every number that was taken has the bits of its place.
StreamInv ==
  /\ stage \in {"put", "get"}
  /\ Written(po, bits)
  /\ Laid(fields, bits)
  /\ GotBack(got, bits)
  /\ stage = "put" => got = << >>
  /\ stage = "get" => /\ Shows(bytes, bits)
                      /\ Reads(pd, bytes, EndOf(got, Len(got)))

\* An empty encoder has been given no bits.
LEMMA StartWritten == ASSUME NEW p, p = StartOutput PROVE Written(p, << >>)
<1>1. TmpSize \in Nat /\ 8 * TmpSize \in Int /\ 8 * TmpSize = 8 * (TmpSize - 0)
      /\ 0 <= 8 * TmpSize /\ 0 \in 0 .. TmpSize /\ 0 \in 0 .. 31 /\ Debris \in 0 .. 255
  BY TmpAssumption
<1>2. PICK s : s = [i \in 0 .. TmpSize - 1 |-> Debris] /\ s \in Space
  <2>1. [i \in 0 .. TmpSize - 1 |-> Debris] \in [0 .. TmpSize - 1 -> 0 .. 255]
    BY <1>1
  <2> QED
    BY <2>1, Zenon DEF Space
<1>3. PICK e : e = << >> /\ e \in Bytes /\ e \in Seq({0, 1}) /\ Len(e) = 0
  <2>1. << >> \in Seq(0 .. 255) /\ << >> \in Seq({0, 1}) /\ Len(<< >>) = 0
    BY EmptySeq
  <2> QED
    BY <2>1, Zenon DEF Bytes
<1>4. PICK z \in Int : z = 8 * TmpSize
  BY <1>1, Zenon
<1>5. p = [out |-> e, tmpspace |-> s, buffer |-> 0, nboff |-> 0, nbits |-> z, failed |-> FALSE]
  BY <1>2, <1>3, <1>4, Zenon DEF StartOutput
<1>6. /\ p \in Encoder /\ p.out = e /\ p.buffer = 0 /\ p.nboff = 0 /\ p.nbits = z
      /\ p.failed = FALSE
  BY <1>2, <1>3, <1>4, <1>5 DEF Encoder
<1>7. 0 = 8 * (0 + 0) + 0
  OBVIOUS
<1>8. Stands(Len(e), Len(p.out), p.buffer, p.nboff, p.nbits)
  BY <1>1, <1>3, <1>4, <1>6, <1>7, Zenon DEF Stands
<1>9. BitsAre(p, e)
  <2>1. \A j \in Nat : \A k \in 0 .. 7 : ~(8 * j + k < 0)
    OBVIOUS
  <2> QED
    BY <1>3, <2>1, Zenon DEF BitsAre
<1> QED
  BY <1>3, <1>6, <1>8, <1>9, Zenon DEF Written

\* The decoder begins with the first bit.
LEMMA StartReads ==
  ASSUME NEW w \in Bytes, NEW extra \in Nat, NEW d, d = StartInput(w, Len(w) + extra)
  PROVE  Reads(d, w, 0)
<1>1. PICK e \in Nat : e = Len(w)
  BY LenProperties, Zenon DEF Bytes
<1>2. PICK z \in Int : z = 8 * (e + extra) /\ 8 * e <= z + 8 * 0
  <2>1. 8 * (e + extra) \in Int /\ 8 * e <= 8 * (e + extra) + 8 * 0
    OBVIOUS
  <2> QED
    BY <2>1, Zenon
<1>3. d = [bytes |-> w, buffer |-> 0, nboff |-> 0, nbits |-> z]
  BY <1>1, <1>2, Zenon DEF StartInput
<1>4. d \in Decoder /\ d.bytes = w /\ d.buffer = 0 /\ d.nboff = 0 /\ d.nbits = z
  BY <1>3 DEF Decoder
<1>5. 0 = 8 * 0 + 0
  OBVIOUS
<1> QED
  BY <1>1, <1>2, <1>4, <1>5, Zenon DEF Reads

\* Nothing has been taken yet.
LEMMA NoneGot == ASSUME NEW b PROVE GotBack(<< >>, b)
<1>1. << >> \in Seq(Number) /\ Len(<< >>) = 0
  BY EmptySeq
<1>2. \A i : ~(i \in 1 .. 0)
  OBVIOUS
<1> QED
  BY <1>1, <1>2, Zenon DEF GotBack

\* The invariant holds at the start,
LEMMA InitStream == StreamInit => StreamInv
<1> SUFFICES ASSUME StreamInit PROVE StreamInv
  OBVIOUS
<1>1. /\ po = StartOutput /\ fields = << >> /\ bits = << >> /\ got = << >>
      /\ stage = "put"
  BY Zenon DEF StreamInit
<1>2. Written(po, bits)
  BY <1>1, StartWritten, Zenon
<1>3. << >> \in Seq(Field) /\ Len(<< >>) = 0
  BY EmptySeq
<1>4. Laid(fields, bits)
  <2>1. \A i : ~(i \in 1 .. 0)
    OBVIOUS
  <2> QED
    BY <1>1, <1>3, <2>1, Zenon DEF Laid, EndOf
<1>5. GotBack(got, bits)
  BY <1>1, NoneGot, Zenon
<1> QED
  BY <1>1, <1>2, <1>4, <1>5 DEF StreamInv

\* when a field is put,
LEMMA PutKeeps ==
  ASSUME StreamInv, NEW v \in Values, NEW n \in Widths, Put(v, n)
  PROVE  StreamInv'
<1>1. /\ stage = "put" /\ po' = put_few_bits(po, v, n)
      /\ fields' = Append(fields, [value |-> v, width |-> n, first |-> Len(bits)])
      /\ bits' = bits \o BitsOf(v, n)
      /\ got' = got /\ stage' = stage
  BY Zenon DEF Put
<1>2. /\ Written(po, bits) /\ Laid(fields, bits) /\ got = << >>
  BY <1>1, Zenon DEF StreamInv
<1>3. v \in Nat /\ n \in 0 .. 31 /\ (n = 31 => v < 2 ^ n)
  BY FieldBounds, Zenon
<1>4. bits \in Seq({0, 1})
  BY <1>2, Zenon DEF Written
<1>5. Written(po', bits')
  BY <1>1, <1>2, <1>3, FewWritten, Zenon
<1>6. Laid(fields', bits')
  BY <1>1, <1>2, <1>4, OneMoreLaid, Zenon
<1>7. GotBack(got', bits')
  <2>1. got' = << >>
    BY <1>1, <1>2, Zenon
  <2> QED
    BY <2>1, NoneGot, Zenon
<1>8. stage' = "put" /\ stage' # "get"
  BY <1>1
<1> QED
  BY <1>1, <1>2, <1>5, <1>6, <1>7, <1>8, Zenon DEF StreamInv

\* when the datagram is handed on,
LEMMA HandOnKeeps ==
  ASSUME StreamInv, HandOn
  PROVE  StreamInv'
<1>1. PICK extra \in Extra :
        /\ stage = "put" /\ stage' = "get" /\ bytes' = Flushed(po)
        /\ pd' = StartInput(bytes', Len(bytes') + extra)
        /\ po' = po /\ fields' = fields /\ bits' = bits /\ got' = got
  BY Zenon DEF HandOn
<1>2. Written(po, bits) /\ Laid(fields, bits) /\ GotBack(got, bits) /\ got = << >>
  BY <1>1, Zenon DEF StreamInv
<1>3. Shows(bytes', bits')
  <2>1. Shows(bytes', bits)
    BY <1>1, <1>2, FlushedBytes, Zenon
  <2> QED
    BY <1>1, <2>1, Zenon
<1>4. Reads(pd', bytes', EndOf(got', Len(got')))
  <2>1. extra \in Nat
    BY FieldsAssumption
  <2>2. bytes' \in Bytes
    BY <1>3, Zenon DEF Shows
  <2>3. Reads(pd', bytes', 0)
    BY <1>1, <2>1, <2>2, StartReads, Zenon
  <2>4. Len(got') = 0
    BY <1>1, <1>2
  <2> QED
    BY <2>3, <2>4, Zenon DEF EndOf
<1>5. Written(po', bits') /\ Laid(fields', bits') /\ GotBack(got', bits')
  BY <1>1, <1>2, Zenon
<1>6. stage' = "get" /\ stage' # "put"
  BY <1>1
<1> QED
  BY <1>3, <1>4, <1>5, <1>6, Zenon DEF StreamInv

\* A width is at most 31.
LEMMA WidthBounds == ASSUME NEW n \in Widths PROVE n \in 0 .. 31 /\ n \in Nat
<1>1. n \in 0 .. 31
  BY FieldsAssumption, Zenon
<1> QED
  BY <1>1

\* The last number taken ends somewhere.
LEMMA GotEnds ==
  ASSUME NEW g, NEW b \in Seq({0, 1}), GotBack(g, b)
  PROVE  Len(g) \in Nat /\ EndOf(g, Len(g)) \in Nat /\ g \in Seq(Number)
<1>1. g \in Seq(Number)
  BY Zenon DEF GotBack
<1>2. PICK k \in Nat : k = Len(g)
  BY <1>1, LenProperties, Zenon
<1>3. CASE k = 0
  <2>1. EndOf(g, k) = 0
    BY <1>3, Zenon DEF EndOf
  <2>2. EndOf(g, k) \in Nat
    BY <2>1
  <2> QED
    BY <1>1, <1>2, <2>2, Zenon
<1>4. CASE k # 0
  <2>1. k \in 1 .. k
    BY <1>4
  <2>2. PICK x \in Number : x = g[k]
    BY <1>1, <1>2, <2>1, ElementOfSeq, Zenon
  <2>3. x.first \in Nat /\ x.width \in Widths
    BY DEF Number
  <2>4. x.first + x.width \in Nat
    BY <2>3, WidthBounds
  <2>5. EndOf(g, k) = x.first + x.width
    BY <1>4, <2>2, Zenon DEF EndOf
  <2> QED
    BY <1>1, <1>2, <2>4, <2>5, Zenon
<1> QED
  BY <1>3, <1>4

\* One more number behind those that are taken.
OneMore(h, g, x, n, pos) == h = Append(g, [value |-> x, width |-> n, first |-> pos])

\* It is taken behind the others.
LEMMA OneMoreGot ==
  ASSUME NEW g, NEW b \in Seq({0, 1}), GotBack(g, b), NEW pos \in Nat,
         pos = EndOf(g, Len(g)), NEW n \in Widths, pos + n <= Len(b),
         NEW x, Taken(x, n, b, pos), NEW h, OneMore(h, g, x, n, pos)
  PROVE  GotBack(h, b) /\ EndOf(h, Len(h)) = pos + n
<1>1. PICK k \in Nat : k = Len(g)
  BY GotEnds, Zenon
<1>2. g \in Seq(Number)
  BY Zenon DEF GotBack
<1>3. PICK f : f = [value |-> x, width |-> n, first |-> pos]
  BY Zenon
<1>4. f \in Number /\ f.value = x /\ f.width = n /\ f.first = pos
  <2>1. x \in Nat
    BY Zenon DEF Taken
  <2> QED
    BY <1>3, <2>1 DEF Number
<1>5. /\ h \in Seq(Number) /\ Len(h) = k + 1 /\ h[k + 1] = f
      /\ \A i \in 1 .. k : h[i] = g[i]
  <2>1. /\ Append(g, f) \in Seq(Number) /\ Len(Append(g, f)) = Len(g) + 1
        /\ \A i \in 1 .. Len(g) : Append(g, f)[i] = g[i]
        /\ Append(g, f)[Len(g) + 1] = f
    BY <1>2, <1>4, AppendProperties
  <2> QED
    BY <1>1, <1>3, <2>1, Zenon DEF OneMore
<1>6. ASSUME NEW i \in 1 .. k + 1
      PROVE  Taken(h[i].value, h[i].width, b, h[i].first) /\ h[i].first + h[i].width <= Len(b)
  <2>1. CASE i \in 1 .. k
    BY <1>1, <1>5, <2>1, Zenon DEF GotBack
  <2>2. CASE i \notin 1 .. k
    <3>1. i = k + 1
      BY <2>2
    <3> QED
      BY <1>4, <1>5, <3>1, Zenon
  <2> QED
    BY <2>1, <2>2
<1>7. k + 1 # 0
  OBVIOUS
<1> QED
  BY <1>4, <1>5, <1>6, <1>7, Zenon DEF GotBack, EndOf

\* and when a number is taken.
LEMMA GetKeeps ==
  ASSUME StreamInv, NEW n \in Widths, Get(n)
  PROVE  StreamInv'
<1>1. PICK taken, pos :
        /\ taken = get_few_bits(pd, n) /\ pos = EndOf(got, Len(got))
        /\ stage = "get" /\ pos + n <= Len(bits) /\ pd' = taken.pd
        /\ got' = IF taken.ok
                  THEN Append(got, [value |-> taken.value, width |-> n, first |-> pos])
                  ELSE got
        /\ stage' = IF taken.ok THEN stage ELSE "failed"
        /\ po' = po /\ fields' = fields /\ bits' = bits /\ bytes' = bytes
  BY Zenon DEF Get
<1>2. /\ Written(po, bits) /\ Laid(fields, bits) /\ GotBack(got, bits)
      /\ Shows(bytes, bits) /\ Reads(pd, bytes, pos)
  BY <1>1, Zenon DEF StreamInv
<1>3. bits \in Seq({0, 1})
  BY <1>2, Zenon DEF Written
<1>4. pos \in Nat /\ n \in 0 .. 31
  BY <1>1, <1>2, <1>3, GotEnds, WidthBounds, Zenon
<1>5. taken.ok = TRUE /\ Taken(taken.value, n, bits, pos) /\ Reads(taken.pd, bytes, pos + n)
  BY <1>1, <1>2, <1>3, <1>4, FewRead, Zenon
<1>6. /\ got' = Append(got, [value |-> taken.value, width |-> n, first |-> pos])
      /\ stage' = "get"
  BY <1>1, <1>5, Zenon
<1>7. GotBack(got', bits) /\ EndOf(got', Len(got')) = pos + n
  <2>1. PICK x, h : x = taken.value /\ h = got'
    BY Zenon
  <2>2. OneMore(h, got, x, n, pos)
    BY <1>6, <2>1, Zenon DEF OneMore
  <2>3. pos = EndOf(got, Len(got)) /\ pos + n <= Len(bits) /\ Taken(x, n, bits, pos)
    BY <1>1, <1>5, <2>1, Zenon
  <2>4. GotBack(h, bits) /\ EndOf(h, Len(h)) = pos + n
    BY <1>2, <1>3, <1>4, <2>2, <2>3, OneMoreGot
  <2> QED
    BY <2>1, <2>4, Zenon
<1>8. /\ GotBack(got', bits') /\ Reads(pd', bytes', EndOf(got', Len(got')))
      /\ Written(po', bits') /\ Laid(fields', bits') /\ Shows(bytes', bits')
  BY <1>1, <1>2, <1>5, <1>7, Zenon
<1>9. stage' # "put"
  BY <1>6
<1> QED
  BY <1>6, <1>8, <1>9, Zenon DEF StreamInv

\* Every step keeps it.
LEMMA StreamKeeps == StreamInv /\ [StreamNext]_streamVars => StreamInv'
<1> SUFFICES ASSUME StreamInv, [StreamNext]_streamVars PROVE StreamInv'
  OBVIOUS
<1>1. CASE HandOn
  BY <1>1, HandOnKeeps, Zenon
<1>2. ASSUME NEW n \in Widths, Get(n) PROVE StreamInv'
  BY <1>2, GetKeeps, Zenon
<1>3. ASSUME NEW v \in Values, NEW n \in Widths, Put(v, n) PROVE StreamInv'
  BY <1>3, PutKeeps, Zenon
<1>4. CASE UNCHANGED streamVars
  <2>1. /\ po' = po /\ fields' = fields /\ bits' = bits /\ bytes' = bytes
        /\ pd' = pd /\ got' = got /\ stage' = stage
    BY <1>4 DEF streamVars
  <2> QED
    BY <2>1, Zenon DEF StreamInv
<1> QED
  BY <1>1, <1>2, <1>3, <1>4, Zenon DEF StreamNext

\* The invariant of the encoder and the decoder together.
THEOREM StreamInvariant == StreamSpec => []StreamInv
<1> QED
  BY InitStream, StreamKeeps, PTL DEF StreamSpec

\* The bytes that are handed on hold the bits of all fields, however many there
\* are, of whatever widths, and whatever tmpspace held.
THEOREM StreamIsPacked == StreamSpec => []Packed
<1>1. StreamInv => Packed
  <2> SUFFICES ASSUME StreamInv, stage = "get"
               PROVE  /\ Len(BitsIn(bytes)) \in Len(bits) .. Len(bits) + 7
                      /\ \A i \in DOMAIN BitsIn(bytes) :
                           BitsIn(bytes)[i] = IF i <= Len(bits) THEN bits[i] ELSE 0
    BY Zenon DEF Packed
  <2>1. Shows(bytes, bits) /\ bits \in Seq({0, 1})
    BY Zenon DEF StreamInv, Written
  <2> QED
    BY <2>1, ShownBits, Zenon
<1> QED
  BY <1>1, StreamInvariant, PTL

\* What was taken is the bits of its place.
LEMMA TakenBits ==
  ASSUME NEW b \in Seq({0, 1}), NEW n \in 0 .. 31, NEW pos \in Nat, pos + n <= Len(b),
         NEW x, Taken(x, n, b, pos)
  PROVE  x = Low(x, n) /\ BitsOf(x, n) = SubSeq(b, pos + 1, pos + n)
<1>1. /\ x \in Nat /\ x < 2 ^ n
      /\ \A t \in 1 .. n : Bit(x, n - t) = b[pos + t]
  BY Zenon DEF Taken
<1>2. x = Low(x, n)
  <2>1. StandAt(x, n, b, pos)
    BY <1>1, Zenon DEF StandAt
  <2> QED
    BY <1>1, <2>1, TakenLow
<1>3. PICK d : /\ d = BitsOf(x, n) /\ d \in Seq({0, 1}) /\ Len(d) = n
               /\ \A m \in 1 .. n : d[m] = Bit(x, n - m)
  <2>1. NumberBits(BitsOf(x, n), x, n)
    BY <1>1, BitsOfNumber, Zenon
  <2> QED
    BY <2>1, Zenon DEF NumberBits
<1>4. PICK e : /\ e = SubSeq(b, pos + 1, pos + n) /\ e \in Seq({0, 1}) /\ Len(e) = n
               /\ \A m \in 1 .. n : e[m] = b[pos + m]
  <2>1. /\ SubSeq(b, pos + 1, pos + n) \in Seq({0, 1})
        /\ Len(SubSeq(b, pos + 1, pos + n)) = n
        /\ \A m \in 1 .. n : SubSeq(b, pos + 1, pos + n)[m] = b[pos + m]
    OBVIOUS
  <2> QED
    BY <2>1, Zenon
<1>5. \A m \in 1 .. n : d[m] = e[m]
  BY <1>1, <1>3, <1>4, Zenon
<1>6. d = e
  BY <1>3, <1>4, <1>5, SeqEqual
<1> QED
  BY <1>2, <1>3, <1>4, <1>6, Zenon

\* The decoder takes out what the encoder was given, in whatever portions it
\* asks for it, and does not run out of bits.
THEOREM StreamIsReadBack == StreamSpec => []ReadBack
<1>1. StreamInv => ReadBack
  <2> SUFFICES ASSUME StreamInv PROVE ReadBack
    OBVIOUS
  <2>1. stage # "failed" /\ GotBack(got, bits) /\ Laid(fields, bits) /\ bits \in Seq({0, 1})
    <3>1. stage # "failed"
      BY DEF StreamInv
    <3> QED
      BY <3>1, Zenon DEF StreamInv, Written
  <2>2. got \in Seq(Number) /\ DOMAIN got = 1 .. Len(got)
    BY <2>1, LenProperties, Zenon DEF GotBack
  <2>3. fields \in Seq(Field) /\ DOMAIN fields = 1 .. Len(fields)
    BY <2>1, LenProperties, Zenon DEF Laid
  <2>4. ASSUME NEW i \in DOMAIN got, NEW g, g = got[i]
        PROVE  /\ g.value = Low(g.value, g.width)
               /\ BitsOf(g.value, g.width) = SubSeq(bits, g.first + 1, g.first + g.width)
               /\ \A j \in DOMAIN fields :
                    fields[j].first = g.first /\ fields[j].width = g.width
                      => g.value = Low(fields[j].value, fields[j].width)
    <3>1. g \in Number
      BY <2>2, <2>4, ElementOfSeq, Zenon
    <3>2. PICK x \in Nat, n \in 0 .. 31, pos \in Nat : x = g.value /\ n = g.width /\ pos = g.first
      <4>1. g.value \in Nat /\ g.width \in Widths /\ g.first \in Nat
        BY <3>1 DEF Number
      <4> QED
        BY <4>1, WidthBounds, Zenon
    <3>3. Taken(x, n, bits, pos) /\ pos + n <= Len(bits)
      BY <2>1, <2>2, <2>4, <3>2, Zenon DEF GotBack
    <3>4. x = Low(x, n) /\ BitsOf(x, n) = SubSeq(bits, pos + 1, pos + n)
      BY <2>1, <3>3, TakenBits, Zenon
    <3>5. ASSUME NEW j \in DOMAIN fields, fields[j].first = pos, fields[j].width = n
          PROVE  x = Low(fields[j].value, n)
      <4>1. PICK f \in Field : f = fields[j] /\ InPlace(f, bits)
        BY <2>1, <2>3, ElementOfSeq, Zenon DEF Laid
      <4>2. PICK v \in Nat : v = f.value /\ (n = 31 => v < 2 ^ n)
        BY <3>5, <4>1, FieldParts, FieldBounds, Zenon
      <4>3. StandAt(v, n, bits, pos)
        BY <3>5, <4>1, <4>2, Zenon DEF InPlace
      <4>4. x = Low(v, n)
        BY <3>3, <4>2, <4>3, TakenLow
      <4> QED
        BY <4>1, <4>2, <4>4, Zenon
    <3> QED
      BY <3>2, <3>4, <3>5, Zenon
  <2> QED
    BY <2>1, <2>4, Zenon DEF ReadBack
<1> QED
  BY <1>1, StreamInvariant, PTL
=============================================================================
