------------------------- MODULE SerialBits_proofs -------------------------
(***************************************************************************)
(* Proofs about SerialBits, for any EEPROM and PHYs.  What an exchange of  *)
(* bits computes is shown by induction over the bits.                      *)
(***************************************************************************)
EXTENDS SerialBits, SequenceTheorems, WellFoundedInduction, TLAPS

Bit == {0, 1}

(***************************************************************************)
(* Numbers and their bits.                                                 *)
(***************************************************************************)

\* Induction over the natural numbers, for a set.
LEMMA NatInd ==
    ASSUME NEW S, 0 \in S, \A n \in Nat : n \in S => n + 1 \in S
    PROVE  Nat \subseteq S
<1> DEFINE T == Nat \ S
           R == OpToRel(<, Nat)
<1> SUFFICES ASSUME T # {} PROVE FALSE
  OBVIOUS
<1>1. PICK x \in T : \A y \in T : ~ (<<y, x>> \in R)
  <2> HIDE DEF R
  <2>1. IsWellFoundedOn(R, Nat)
    BY NatLessThanWellFounded DEF R
  <2> QED BY <2>1, WFMin
<1>2. x # 0 /\ x - 1 \in Nat /\ x - 1 \in T
  OBVIOUS
<1>3. <<x - 1, x>> \in R
  BY <1>2 DEF OpToRel
<1> QED BY <1>1, <1>2, <1>3

\* The powers of two that occur.
Power == [k \in 0 .. 17 |-> 2 ^ k]

LEMMA Powers ==
    /\ Power[0] = 1 /\ Power[1] = 2 /\ Power[2] = 4 /\ Power[3] = 8 /\ Power[4] = 16
    /\ Power[5] = 32 /\ Power[6] = 64 /\ Power[7] = 128 /\ Power[8] = 256
    /\ Power[9] = 512 /\ Power[10] = 1024 /\ Power[11] = 2048 /\ Power[12] = 4096
    /\ Power[13] = 8192 /\ Power[14] = 16384 /\ Power[15] = 32768
    /\ Power[16] = 65536 /\ Power[17] = 131072
BY DEF Power

\* A power is twice the one before.
LEMMA PowerStep ==
    ASSUME NEW k \in 0 .. 16
    PROVE  Power[k] \in Nat \ {0} /\ Power[k + 1] = 2 * Power[k]
<1>1. ASSUME NEW m \in 1 .. 17, m = k + 1
      PROVE  Power[k] \in Nat \ {0} /\ Power[m] = 2 * Power[k]
  <2>1. CASE k < 8
    <3>1. \/ (k = 0 /\ m = 1) \/ (k = 1 /\ m = 2) \/ (k = 2 /\ m = 3) \/ (k = 3 /\ m = 4)
          \/ (k = 4 /\ m = 5) \/ (k = 5 /\ m = 6) \/ (k = 6 /\ m = 7) \/ (k = 7 /\ m = 8)
      BY <1>1, <2>1
    <3> QED BY <3>1, Powers
  <2>2. CASE ~ (k < 8)
    <3>1. \/ (k = 8 /\ m = 9) \/ (k = 9 /\ m = 10) \/ (k = 10 /\ m = 11)
          \/ (k = 11 /\ m = 12) \/ (k = 12 /\ m = 13) \/ (k = 13 /\ m = 14)
          \/ (k = 14 /\ m = 15) \/ (k = 15 /\ m = 16) \/ (k = 16 /\ m = 17)
      BY <1>1, <2>2
    <3> QED BY <3>1, Powers
  <2> QED BY <2>1, <2>2
<1> QED BY <1>1

\* Multiplication is monotonic.
LEMMA Monotonic ==
    ASSUME NEW q \in Nat, NEW a \in Int, NEW b \in Int, a <= b
    PROVE  q * a <= q * b
<1>1. b - a \in Nat /\ q * (b - a) >= 0
  OBVIOUS
<1>2. q * (b - a) = q * b - q * a /\ q * a \in Int /\ q * b \in Int
  OBVIOUS
<1> QED BY <1>1, <1>2

\* The quotient and the remainder are the only ones.
LEMMA DivUnique ==
    ASSUME NEW v \in Nat, NEW q \in Nat \ {0}, NEW e \in Int, NEW s \in 0 .. q - 1,
           v = q * e + s
    PROVE  v \div q = e
<1> DEFINE d == v \div q
           r == v % q
<1>1. d \in Int /\ r \in 0 .. q - 1 /\ v = q * d + r
  OBVIOUS
<1> HIDE DEF d, r
<1>2. \A x, y \in Int : x < y => q * x + q <= q * y
  <2> SUFFICES ASSUME NEW x \in Int, NEW y \in Int, x < y
               PROVE  q * x + q <= q * y
    OBVIOUS
  <2>1. q * (x + 1) <= q * y
    BY Monotonic
  <2>2. q * (x + 1) = q * x + q
    OBVIOUS
  <2> QED BY <2>1, <2>2
<1>3. q * d \in Int /\ q * e \in Int
  BY <1>1
<1>4. ~ (d < e)
  BY <1>1, <1>2, <1>3
<1>5. ~ (e < d)
  BY <1>1, <1>2, <1>3
<1>6. d = e
  BY <1>1, <1>4, <1>5
<1> QED BY <1>6 DEF d

\* Halving a quotient.
LEMMA Halved ==
    ASSUME NEW v \in Nat, NEW p \in Nat \ {0}
    PROVE  /\ v \div p \in Nat
           /\ v \div p = 2 * (v \div (2 * p)) + ((v \div p) % 2)
<1> DEFINE d == v \div p
           r == v % p
           e == d \div 2
           b == d % 2
           s == p * b + r
<1>1. d \in Int /\ r \in 0 .. p - 1 /\ v = p * d + r
  OBVIOUS
<1>2. e \in Int /\ b \in {0, 1} /\ d = 2 * e + b
  BY <1>1
<1>3. d \in Nat
  <2> HIDE DEF d, r
  <2> SUFFICES ASSUME d <= -1 PROVE FALSE
    BY <1>1
  <2>1. p * d <= p * (-1)
    BY <1>1, Monotonic
  <2> QED BY <1>1, <2>1
<1> HIDE DEF d, r, e, b
<1>4. v = (2 * p) * e + s
  BY <1>1, <1>2
<1>5. s \in 0 .. 2 * p - 1
  BY <1>1, <1>2
<1>6. v \div (2 * p) = e
  <2> HIDE DEF s
  <2> QED BY <1>2, <1>4, <1>5, DivUnique
<1>7. d = 2 * (v \div (2 * p)) + (d % 2)
  BY <1>2, <1>6 DEF b
<1> QED BY <1>3, <1>7 DEF d

\* The recursion that Number is given by.
LEMMA NumberDef ==
    ASSUME NEW n \in Nat, NEW bits \in [1 .. n -> Int]
    PROVE  \E f \in [0 .. n -> Int] :
              /\ f[0] = 0 /\ \A i \in 1 .. n : f[i] = 2 * f[i - 1] + bits[i]
              /\ Number(bits) = f[n]
<1> DEFINE Upto(m) == \E f \in [0 .. m -> Int] :
                         f[0] = 0 /\ \A i \in 1 .. m : f[i] = 2 * f[i - 1] + bits[i]
           S == {m \in Nat : m <= n => Upto(m)}
<1>1. 0 \in S
  <2>1. [i \in 0 .. 0 |-> 0] \in [0 .. 0 -> Int]
    OBVIOUS
  <2>2. [i \in 0 .. 0 |-> 0][0] = 0 /\ 1 .. 0 = {}
    OBVIOUS
  <2> QED BY <2>1, <2>2
<1>2. ASSUME NEW m \in Nat, m \in S PROVE m + 1 \in S
  <2>0. SUFFICES ASSUME m + 1 <= n PROVE Upto(m + 1)
    <3> HIDE DEF Upto
    <3> QED OBVIOUS
  <2>1. PICK f \in [0 .. m -> Int] :
           f[0] = 0 /\ \A i \in 1 .. m : f[i] = 2 * f[i - 1] + bits[i]
    BY <1>2, <2>0
  <2> DEFINE g == [i \in 0 .. m + 1 |-> IF i = m + 1 THEN 2 * f[m] + bits[m + 1] ELSE f[i]]
  <2>2. m + 1 \in 1 .. n /\ bits[m + 1] \in Int /\ f[m] \in Int
    BY <2>0
  <2>3. g \in [0 .. m + 1 -> Int]
    BY <2>2
  <2>4. g[0] = 0
    BY <2>1
  <2>5. ASSUME NEW i \in 1 .. m + 1 PROVE g[i] = 2 * g[i - 1] + bits[i]
    <3>1. CASE i = m + 1
      <4>1. g[i] = 2 * f[m] + bits[m + 1] /\ i - 1 = m /\ g[m] = f[m]
        BY <3>1
      <4> QED BY <3>1, <4>1
    <3>2. CASE i # m + 1
      <4>1. i \in 1 .. m /\ g[i] = f[i] /\ g[i - 1] = f[i - 1]
        BY <3>2
      <4> QED BY <2>1, <4>1
    <3> QED BY <3>1, <3>2
  <2> HIDE DEF g
  <2> QED BY <2>3, <2>4, <2>5
<1>3. n \in S
  <2> HIDE DEF S
  <2> QED BY <1>1, <1>2, NatInd
<1>4. PICK f \in [0 .. n -> Int] :
         f[0] = 0 /\ \A i \in 1 .. n : f[i] = 2 * f[i - 1] + bits[i]
  BY <1>3
<1> DEFINE shifted[i \in 0 .. Len(bits)] ==
              IF i = 0 THEN 0 ELSE 2 * shifted[i - 1] + bits[i]
<1>5. f = [i \in 0 .. Len(bits) |-> IF i = 0 THEN 0 ELSE 2 * f[i - 1] + bits[i]]
  <2>1. Len(bits) = n
    OBVIOUS
  <2>2. \A i \in 0 .. n : f[i] = IF i = 0 THEN 0 ELSE 2 * f[i - 1] + bits[i]
    BY <1>4
  <2> QED BY <2>1, <2>2
<1>6. shifted = [i \in 0 .. Len(bits) |->
                   IF i = 0 THEN 0 ELSE 2 * shifted[i - 1] + bits[i]]
  BY <1>5
<1>7. Number(bits) = shifted[n]
  BY DEF Number
<1> HIDE DEF shifted
<1>8. shifted[n] = f[n]
  <2> DEFINE E == {i \in Nat : i <= n => shifted[i] = f[i]}
  <2>1. /\ shifted[0] = 0
        /\ \A i \in 1 .. n : shifted[i] = 2 * shifted[i - 1] + bits[i]
    <3>1. Len(bits) = n
      OBVIOUS
    <3> QED BY <1>6, <3>1
  <2>2. 0 \in E
    BY <1>4, <2>1
  <2>3. ASSUME NEW i \in Nat, i \in E PROVE i + 1 \in E
    <3> SUFFICES ASSUME i + 1 <= n PROVE shifted[i + 1] = f[i + 1]
      OBVIOUS
    <3>1. i + 1 \in 1 .. n /\ (i + 1) - 1 = i /\ shifted[i] = f[i]
      BY <2>3
    <3> QED BY <1>4, <2>1, <3>1
  <2>4. n \in E
    <3> HIDE DEF E
    <3> QED BY <2>2, <2>3, NatInd
  <2> QED BY <2>4
<1> QED BY <1>4, <1>7, <1>8

\* A number of n bits is below the nth power of two.
LEMMA NumberRange ==
    ASSUME NEW n \in 0 .. 17, NEW bits \in [1 .. n -> Bit]
    PROVE  Number(bits) \in 0 .. Power[n] - 1
<1>1. bits \in [1 .. n -> Int] /\ n \in Nat /\ \A i \in 1 .. n : bits[i] \in {0, 1}
  BY DEF Bit
<1>2. PICK f \in [0 .. n -> Int] :
         /\ f[0] = 0 /\ \A i \in 1 .. n : f[i] = 2 * f[i - 1] + bits[i]
         /\ Number(bits) = f[n]
  BY <1>1, NumberDef
<1> DEFINE S == {i \in Nat : i <= n => f[i] \in 0 .. Power[i] - 1}
<1>3. 0 \in S
  BY <1>2, Powers
<1>4. ASSUME NEW i \in Nat, i \in S PROVE i + 1 \in S
  <2> SUFFICES ASSUME i + 1 <= n PROVE f[i + 1] \in 0 .. Power[i + 1] - 1
    OBVIOUS
  <2>1. i \in 0 .. 16 /\ i + 1 \in 1 .. n /\ (i + 1) - 1 = i /\ f[i] \in 0 .. Power[i] - 1
    BY <1>4
  <2>2. Power[i] \in Nat /\ Power[i + 1] = 2 * Power[i]
    BY <2>1, PowerStep
  <2>3. f[i + 1] = 2 * f[i] + bits[i + 1] /\ bits[i + 1] \in {0, 1}
    BY <1>1, <1>2, <2>1
  <2> QED BY <2>1, <2>2, <2>3
<1>5. n \in S
  <2> HIDE DEF S
  <2> QED BY <1>1, <1>3, <1>4, NatInd
<1> QED BY <1>2, <1>5

\* The bits of a number, one by one.
LEMMA BitsFun ==
    ASSUME NEW n \in 0 .. 17, NEW v \in Nat
    PROVE  /\ Bits(v, n) \in [1 .. n -> Bit]
           /\ Bits(v, n) \in Seq(Bit) /\ Len(Bits(v, n)) = n
           /\ \A i \in 1 .. n : Bits(v, n)[i] = (v \div Power[n - i]) % 2
<1>1. \A i \in 1 .. n : n - i \in 0 .. 16 /\ Power[n - i] = 2 ^ (n - i)
  BY DEF Power
<1>2. \A i \in 1 .. n : Bits(v, n)[i] = (v \div Power[n - i]) % 2
  BY <1>1 DEF Bits
<1>3. \A i \in 1 .. n : Bits(v, n)[i] \in Bit
  <2> SUFFICES ASSUME NEW i \in 1 .. n PROVE Bits(v, n)[i] \in Bit
    OBVIOUS
  <2>1. v \div Power[n - i] \in Nat
    BY <1>1, PowerStep, Halved
  <2>2. (v \div Power[n - i]) % 2 \in {0, 1}
    BY <2>1
  <2> QED BY <1>2, <2>2 DEF Bit
<1>4. Bits(v, n) = [i \in 1 .. n |-> Bits(v, n)[i]]
  BY DEF Bits
<1>5. Bits(v, n) \in [1 .. n -> Bit]
  BY <1>3, <1>4
<1> QED BY <1>2, <1>5

\* A number that has n bits is the number of these bits.
LEMMA NumberOfBits ==
    ASSUME NEW n \in 0 .. 17, NEW v \in Nat, v < Power[n]
    PROVE  Number(Bits(v, n)) = v
<1>1. Power[0] = 1 /\ Power[n] \in Nat \ {0} /\ n \in Nat
  <2>1. n \in 0 .. 16 \/ n = 17
    OBVIOUS
  <2> QED BY <2>1, PowerStep, Powers
<1>2. /\ Bits(v, n) \in [1 .. n -> Int]
      /\ \A i \in 1 .. n : Bits(v, n)[i] = (v \div Power[n - i]) % 2
  <2>1. Bits(v, n) \in [1 .. n -> Bit]
    BY BitsFun
  <2>2. Bits(v, n) \in [1 .. n -> Int]
    BY <2>1 DEF Bit
  <2>3. \A i \in 1 .. n : Bits(v, n)[i] = (v \div Power[n - i]) % 2
    BY BitsFun
  <2> QED BY <2>2, <2>3
<1>3. PICK f \in [0 .. n -> Int] :
         /\ f[0] = 0 /\ \A i \in 1 .. n : f[i] = 2 * f[i - 1] + Bits(v, n)[i]
         /\ Number(Bits(v, n)) = f[n]
  BY <1>1, <1>2, NumberDef
<1> DEFINE S == {i \in Nat : i <= n => f[i] = v \div Power[n - i]}
<1>4. 0 \in S
  <2>1. v \div Power[n] = 0
    BY <1>1, DivUnique
  <2>2. n - 0 = n
    BY <1>1
  <2> QED BY <1>3, <2>1, <2>2
<1>5. ASSUME NEW i \in Nat, i \in S PROVE i + 1 \in S
  <2> SUFFICES ASSUME i + 1 <= n PROVE f[i + 1] = v \div Power[n - (i + 1)]
    OBVIOUS
  <2> DEFINE k == n - (i + 1)
  <2>1. /\ k \in 0 .. 16 /\ k + 1 = n - i /\ i + 1 \in 1 .. n /\ (i + 1) - 1 = i
        /\ f[i] = v \div Power[k + 1]
    BY <1>5
  <2>2. Power[k] \in Nat \ {0} /\ Power[k + 1] = 2 * Power[k]
    BY <2>1, PowerStep
  <2>3. v \div Power[k] = 2 * (v \div Power[k + 1]) + ((v \div Power[k]) % 2)
    BY <1>1, <2>2, Halved
  <2>4. f[i + 1] = 2 * f[i] + ((v \div Power[k]) % 2)
    BY <1>2, <1>3, <2>1
  <2> QED BY <2>1, <2>3, <2>4
<1>6. n \in S
  <2> HIDE DEF S
  <2> QED BY <1>1, <1>4, <1>5, NatInd
<1>7. v \div Power[n - n] = v
  <2>1. n - n = 0 /\ v \div 1 = v
    BY <1>1
  <2> QED BY <1>1, <2>1
<1> QED BY <1>1, <1>3, <1>6, <1>7

\* An even multiple of q more does not change the bit.
LEMMA EvenMultiple ==
    ASSUME NEW v \in Nat, NEW q \in Nat \ {0}, NEW m \in Nat
    PROVE  ((2 * m * q + v) \div q) % 2 = (v \div q) % 2
<1> DEFINE d == v \div q
           r == v % q
<1>1. d \in Nat /\ r \in 0 .. q - 1 /\ v = q * d + r
  <2>1. d \in Nat
    BY Halved
  <2>2. r \in 0 .. q - 1 /\ v = q * d + r
    OBVIOUS
  <2> QED BY <2>1, <2>2
<1> HIDE DEF d, r
<1>2. 2 * m * q + v \in Nat /\ 2 * m + d \in Int /\ 2 * m * q + v = q * (2 * m + d) + r
  BY <1>1
<1>3. (2 * m * q + v) \div q = 2 * m + d
  BY <1>1, <1>2, DivUnique
<1>4. (2 * m + d) % 2 = d % 2
  BY <1>1
<1> QED BY <1>3, <1>4 DEF d

\* A power is the product of two.
LEMMA PowerSplit ==
    ASSUME NEW n \in 0 .. 17, NEW i \in 0 .. n
    PROVE  Power[n] = Power[i] * Power[n - i]
<1> DEFINE S == {k \in Nat : k <= n => Power[n] = Power[k] * Power[n - k]}
<1>1. 0 \in S
  <2>1. n - 0 = n /\ Power[0] = 1 /\ Power[n] \in Int
    <3>1. n \in 0 .. 16 \/ n = 17
      OBVIOUS
    <3> QED BY <3>1, Powers, PowerStep
  <2> QED BY <2>1
<1>2. ASSUME NEW k \in Nat, k \in S PROVE k + 1 \in S
  <2> SUFFICES ASSUME k + 1 <= n PROVE Power[n] = Power[k + 1] * Power[n - (k + 1)]
    OBVIOUS
  <2> DEFINE l == n - (k + 1)
  <2>1. k \in 0 .. 16 /\ l \in 0 .. 16 /\ l + 1 = n - k
    OBVIOUS
  <2> HIDE DEF l
  <2>2. /\ Power[k] \in Nat /\ Power[l] \in Nat
        /\ Power[k + 1] = 2 * Power[k] /\ Power[l + 1] = 2 * Power[l]
    BY <2>1, PowerStep
  <2>3. Power[n] = Power[k] * Power[l + 1]
    BY <1>2, <2>1
  <2>4. Power[n] = Power[k + 1] * Power[l]
    BY <2>2, <2>3
  <2> QED BY <2>4 DEF l
<1>3. Nat \subseteq S
  <2> HIDE DEF S
  <2> QED BY <1>1, <1>2, NatInd
<1> QED BY <1>3

(***************************************************************************)
(* Sequences.                                                              *)
(***************************************************************************)

\* Two sequences after one another.
LEMMA Concat ==
    ASSUME NEW S, NEW q \in Seq(S), NEW r \in Seq(S)
    PROVE  /\ q \o r \in Seq(S) /\ Len(q \o r) = Len(q) + Len(r)
           /\ \A i \in 1 .. Len(q) : (q \o r)[i] = q[i]
           /\ \A i \in 1 .. Len(r) : (q \o r)[Len(q) + i] = r[i]
<1>1. /\ q \o r \in Seq(S) /\ Len(q \o r) = Len(q) + Len(r)
      /\ \A i \in 1 .. Len(q) + Len(r) :
           (q \o r)[i] = IF i <= Len(q) THEN q[i] ELSE r[i - Len(q)]
  BY ConcatProperties
<1>2. Len(q) \in Nat /\ Len(r) \in Nat
  OBVIOUS
<1>3. \A i \in 1 .. Len(q) : i \in 1 .. Len(q) + Len(r) /\ i <= Len(q)
  BY <1>2
<1>4. \A i \in 1 .. Len(r) : /\ Len(q) + i \in 1 .. Len(q) + Len(r)
                             /\ ~ (Len(q) + i <= Len(q)) /\ (Len(q) + i) - Len(q) = i
  BY <1>2
<1> QED BY <1>1, <1>3, <1>4

\* A part of a sequence.
LEMMA PartFun ==
    ASSUME NEW S, NEW k \in Nat, NEW l \in Nat, NEW q, NEW r \in [1 .. l -> S],
           \A i \in 1 .. l : q[k + i] = r[i]
    PROVE  SubSeq(q, k + 1, k + l) = r
<1>1. \A j \in k + 1 .. k + l : q[j] \in S
  <2> SUFFICES ASSUME NEW j \in k + 1 .. k + l PROVE q[j] \in S
    OBVIOUS
  <2>1. j - k \in 1 .. l /\ k + (j - k) = j
    OBVIOUS
  <2> QED BY <2>1
<1> DEFINE p == SubSeq(q, k + 1, k + l)
<1>2. /\ p \in Seq(S)
      /\ Len(p) = IF k + 1 <= k + l THEN (k + l) - (k + 1) + 1 ELSE 0
      /\ \A i \in 1 .. (k + l) - (k + 1) + 1 : p[i] = q[(k + 1) + i - 1]
  <2>1. k + 1 \in Int /\ k + l \in Int
    OBVIOUS
  <2> QED BY <1>1, <2>1, SubSeqProperties
<1> HIDE DEF p
<1>3. Len(p) = l /\ r \in Seq(S) /\ Len(r) = l
  BY <1>2
<1>4. \A i \in 1 .. l : p[i] = r[i]
  <2>1. \A i \in 1 .. l : i \in 1 .. (k + l) - (k + 1) + 1 /\ (k + 1) + i - 1 = k + i
    OBVIOUS
  <2> QED BY <1>2, <2>1
<1>5. p = r
  BY <1>2, <1>3, <1>4, SeqEqual
<1> QED BY <1>5 DEF p

\* Three pairs after one another.
LEMMA ThreePairs ==
    ASSUME NEW S, NEW a \in S, NEW b \in S, NEW c \in S, NEW d \in S, NEW e \in S, NEW f \in S
    PROVE  /\ <<a, b>> \o <<c, d>> \o <<e, f>> = <<a, b, c, d, e, f>>
           /\ <<a, b, c, d, e, f>> \in [1 .. 6 -> S]
<1> DEFINE q == <<a, b>>
           r == <<c, d>>
           t == <<e, f>>
           u == <<a, b, c, d, e, f>>
<1>1. /\ q \in Seq(S) /\ r \in Seq(S) /\ t \in Seq(S) /\ u \in Seq(S)
      /\ Len(q) = 2 /\ Len(r) = 2 /\ Len(t) = 2 /\ Len(u) = 6
      /\ q[1] = a /\ q[2] = b /\ r[1] = c /\ r[2] = d /\ t[1] = e /\ t[2] = f
      /\ u[1] = a /\ u[2] = b /\ u[3] = c /\ u[4] = d /\ u[5] = e /\ u[6] = f
  OBVIOUS
<1>2. u \in [1 .. 6 -> S]
  OBVIOUS
<1> HIDE DEF q, r, t, u
<1>3. /\ q \o r \in Seq(S) /\ Len(q \o r) = Len(q) + Len(r)
      /\ \A i \in 1 .. Len(q) : (q \o r)[i] = q[i]
      /\ \A i \in 1 .. Len(r) : (q \o r)[Len(q) + i] = r[i]
  <2>1. q \in Seq(S) /\ r \in Seq(S)
    BY <1>1
  <2> QED BY <2>1, Concat
<1> DEFINE s == q \o r
<1> HIDE DEF s
<1>4. s \in Seq(S) /\ Len(s) = 4 /\ s[1] = a /\ s[2] = b /\ s[3] = c /\ s[4] = d
  BY <1>1, <1>3 DEF s
<1>5. /\ s \o t \in Seq(S) /\ Len(s \o t) = Len(s) + Len(t)
      /\ \A i \in 1 .. Len(s) : (s \o t)[i] = s[i]
      /\ \A i \in 1 .. Len(t) : (s \o t)[Len(s) + i] = t[i]
  <2>1. s \in Seq(S) /\ t \in Seq(S)
    BY <1>1, <1>4
  <2> QED BY <2>1, Concat
<1>6. /\ Len(s \o t) = 6 /\ (s \o t)[1] = a /\ (s \o t)[2] = b /\ (s \o t)[3] = c
      /\ (s \o t)[4] = d /\ (s \o t)[5] = e /\ (s \o t)[6] = f
  BY <1>1, <1>4, <1>5
<1>7. \A i \in 1 .. Len(s \o t) : (s \o t)[i] = u[i]
  BY <1>1, <1>6
<1>8. s \o t = u
  BY <1>1, <1>5, <1>6, <1>7, SeqEqual
<1> QED BY <1>2, <1>8 DEF s, q, r, t, u

(***************************************************************************)
(* The EEPROM.                                                             *)
(***************************************************************************)

\* What the driver clocks out to read a word: two zeros, the command, the
\* address.
LEMMA Command ==
    ASSUME NEW w \in 4 .. 12, NEW addr \in Nat, addr < Power[w]
    PROVE  LET c == Bits(READCMD * 2 ^ w + addr, w + 5)
           IN /\ c \in Seq(Bit) /\ Len(c) = w + 5
              /\ c[1] = 0 /\ c[2] = 0 /\ c[3] = 1
              /\ \A i \in 1 .. w : c[5 + i] = Bits(addr, w)[i]
<1> DEFINE p == Power[w]
           v == 6 * p + addr
<1>1. READCMD * 2 ^ w + addr = v
  BY DEF Power, READCMD
<1>2. /\ p \in Nat \ {0} /\ Power[w + 1] = 2 * p /\ Power[w + 2] = 4 * p
      /\ Power[w + 3] = 8 * p /\ Power[w + 4] = 16 * p
  <2>1. /\ w \in 0 .. 16 /\ w + 1 \in 0 .. 16 /\ w + 2 \in 0 .. 16 /\ w + 3 \in 0 .. 16
        /\ (w + 1) + 1 = w + 2 /\ (w + 2) + 1 = w + 3 /\ (w + 3) + 1 = w + 4
    OBVIOUS
  <2>2. p \in Nat \ {0} /\ Power[w + 1] = 2 * p
    BY <2>1, PowerStep
  <2>3. Power[w + 2] = 2 * Power[w + 1] /\ Power[w + 3] = 2 * Power[w + 2]
        /\ Power[w + 4] = 2 * Power[w + 3]
    BY <2>1, PowerStep
  <2> QED BY <2>2, <2>3
<1> HIDE DEF p
<1>3. v \in Nat /\ addr < p
  BY <1>2 DEF p
<1>4. v \div (16 * p) = 0 /\ v \div (8 * p) = 0 /\ v \div (4 * p) = 1
  <2>1. /\ 16 * p \in Nat \ {0} /\ v \in 0 .. 16 * p - 1 /\ v = (16 * p) * 0 + v
        /\ 8 * p \in Nat \ {0} /\ v \in 0 .. 8 * p - 1 /\ v = (8 * p) * 0 + v
    BY <1>2, <1>3
  <2>2. /\ 4 * p \in Nat \ {0} /\ 2 * p + addr \in 0 .. 4 * p - 1
        /\ v = (4 * p) * 1 + (2 * p + addr)
    BY <1>2, <1>3
  <2>3. v \div (16 * p) = 0 /\ v \div (8 * p) = 0
    <3> HIDE DEF v
    <3> QED BY <1>3, <2>1, DivUnique
  <2>4. v \div (4 * p) = 1
    <3> DEFINE rest == 2 * p + addr
    <3> HIDE DEF v, rest
    <3>1. /\ 4 * p \in Nat \ {0} /\ rest \in 0 .. 4 * p - 1 /\ v = (4 * p) * 1 + rest
      BY <2>2 DEF rest
    <3> QED BY <1>3, <3>1, DivUnique
  <2> QED BY <2>3, <2>4
<1> DEFINE c == Bits(v, w + 5)
<1>5. /\ c \in Seq(Bit) /\ Len(c) = w + 5
      /\ \A i \in 1 .. w + 5 : c[i] = (v \div Power[(w + 5) - i]) % 2
  <2>1. w + 5 \in 0 .. 17
    OBVIOUS
  <2> HIDE DEF v
  <2> QED BY <1>3, <2>1, BitsFun
<1>6. c[1] = 0 /\ c[2] = 0 /\ c[3] = 1
  <2>1. /\ 1 \in 1 .. w + 5 /\ 2 \in 1 .. w + 5 /\ 3 \in 1 .. w + 5
        /\ (w + 5) - 1 = w + 4 /\ (w + 5) - 2 = w + 3 /\ (w + 5) - 3 = w + 2
    OBVIOUS
  <2> HIDE DEF v, c
  <2>2. /\ c[1] = (v \div (16 * p)) % 2 /\ c[2] = (v \div (8 * p)) % 2
        /\ c[3] = (v \div (4 * p)) % 2
    BY <1>2, <1>5, <2>1
  <2> QED BY <1>4, <2>2
<1>7. ASSUME NEW i \in 1 .. w PROVE c[5 + i] = Bits(addr, w)[i]
  <2> DEFINE q == Power[w - i]
  <2>1. /\ w \in 0 .. 17 /\ i \in 0 .. w /\ i \in 1 .. 16 /\ w - i \in 0 .. 16
        /\ 5 + i \in 1 .. w + 5 /\ (w + 5) - (5 + i) = w - i
    OBVIOUS
  <2>2. q \in Nat \ {0} /\ Power[i] \in Nat /\ p = Power[i] * q
    <3>1. q \in Nat \ {0} /\ Power[i] \in Nat
      BY <2>1, PowerStep
    <3>2. Power[w] = Power[i] * Power[w - i]
      BY <2>1, PowerSplit
    <3> QED BY <3>1, <3>2 DEF p
  <2>3. c[5 + i] = (v \div q) % 2
    BY <1>5, <2>1
  <2>4. Bits(addr, w)[i] = (addr \div q) % 2
    BY <2>1, BitsFun
  <2> HIDE DEF q
  <2>5. 3 * Power[i] \in Nat /\ v = 2 * (3 * Power[i]) * q + addr
    BY <2>2
  <2>6. (v \div q) % 2 = (addr \div q) % 2
    <3> HIDE DEF v
    <3> QED BY <2>2, <2>5, EvenMultiple
  <2> QED BY <2>3, <2>4, <2>6
<1> QED BY <1>1, <1>5, <1>6, <1>7

\* The start bit is the first bit set.
LEMMA StartAt ==
    ASSUME NEW bits \in Seq(Bit), NEW i \in 1 .. Len(bits),
           bits[i] = 1, \A j \in 1 .. i - 1 : bits[j] = 0
    PROVE  Start(bits) = i
<1> DEFINE First(k) == bits[k] = 1 /\ \A j \in 1 .. k - 1 : bits[j] = 0
<1>1. DOMAIN bits = 1 .. Len(bits) /\ Len(bits) \in Nat /\ First(i)
  OBVIOUS
<1>2. ASSUME NEW k \in 1 .. Len(bits), First(k) PROVE k = i
  <2>1. ~ (k < i)
    <3>1. k < i => k \in 1 .. i - 1
      OBVIOUS
    <3> QED BY <1>2, <3>1
  <2>2. ~ (i < k)
    <3>1. i < k => i \in 1 .. k - 1
      OBVIOUS
    <3> QED BY <1>2, <3>1
  <2> QED BY <2>1, <2>2
<1>3. Start(bits) = CHOOSE k \in 1 .. Len(bits) : First(k)
  BY <1>1 DEF Start
<1> HIDE DEF First
<1> QED BY <1>1, <1>2, <1>3

\* The widths of the EEPROM.
LEMMA WidthRange == ASSUME NEW w \in Widths PROVE w \in 4 .. 12
BY SerialAssumption

\* The words of the EEPROM have 16 bits.
LEMMA WordRange ==
    ASSUME NEW w \in Widths, NEW a \in Nat, a < Power[w]
    PROVE  Word[a] \in Ushort
<1>1. \/ w = 4 \/ w = 5 \/ w = 6 \/ w = 7 \/ w = 8 \/ w = 9 \/ w = 10 \/ w = 11 \/ w = 12
  BY WidthRange
<1>2. Power[w] <= 4096
  BY <1>1, Powers
<1>3. a \in Addrs
  <2>1. w \in 0 .. 16
    BY <1>1
  <2>2. Power[w] \in Nat
    BY <2>1, PowerStep
  <2>3. a < 4096
    BY <1>2, <2>2
  <2> QED BY <2>3 DEF Addrs
<1> QED BY <1>3, SerialAssumption

\* What the EEPROM answers, by where the start bit is.
LEMMA DoutAt ==
    ASSUME NEW b, NEW s \in Nat, Start(b) = s, NEW n \in Nat, Len(b) = s + 2 + n,
           width \in Nat
    PROVE  /\ n < width => Dout(b) = 1
           /\ n = width => Dout(b) = 0
           /\ n > width =>
                Dout(b) = Bits(Word[Number(SubSeq(b, s + 3, s + 2 + width))], 16)
                              [1 + ((n - width - 1) % 16)]
<1> DEFINE addr == Number(SubSeq(b, s + 3, s + 2 + width))
<1>1. Len(b) - (s + 2) = n /\ (s + 2) + 1 = s + 3
  OBVIOUS
<1>2. Dout(b) = IF n < width THEN 1 ELSE IF n = width THEN 0
                ELSE Bits(Word[addr], 16)[1 + ((n - width - 1) % 16)]
  BY <1>1, Zenon DEF Dout
<1> QED BY <1>2

\* After 6 and zeros an EEPROM says 0 when it has as many bits as its width.
LEMMA WidthFound == width \in Widths => SromWidth = width
<1> SUFFICES ASSUME width \in Widths PROVE SromWidth = width
  OBVIOUS
<1>1. width \in 4 .. 12
  BY WidthRange
<1> DEFINE bits(n) == Bits(READCMD, 3) \o Zeros(n)
           low == {n \in 1 .. 12 : Dout(bits(n)) = 0}
<1>2. Bits(READCMD, 3) \in Seq(Bit) /\ Len(Bits(READCMD, 3)) = 3 /\ Bits(READCMD, 3)[1] = 1
  <2>1. 3 \in 0 .. 17 /\ 6 \in Nat /\ 1 \in 1 .. 3 /\ 3 - 1 = 2 /\ (6 \div 4) % 2 = 1
    OBVIOUS
  <2>2. /\ Bits(6, 3) \in Seq(Bit) /\ Len(Bits(6, 3)) = 3
        /\ Bits(6, 3)[1] = (6 \div Power[3 - 1]) % 2
    BY <2>1, BitsFun
  <2>3. Power[3 - 1] = 4
    BY <2>1, Powers
  <2>4. Bits(6, 3)[1] = 1
    BY <2>1, <2>2, <2>3
  <2> QED BY <2>2, <2>4, Zenon DEF READCMD
<1>3. ASSUME NEW n \in 1 .. 12
      PROVE  Start(bits(n)) = 1 /\ Len(bits(n)) = 1 + 2 + n
  <2> DEFINE c == Bits(READCMD, 3)
             z == Zeros(n)
             b == c \o z
  <2>1. z \in Seq(Bit) /\ Len(z) = n
    BY DEF Zeros, Bit
  <2>2. c \in Seq(Bit) /\ Len(c) = 3 /\ c[1] = 1
    BY <1>2
  <2> HIDE DEF c, z
  <2>3. b \in Seq(Bit) /\ Len(b) = 3 + n /\ \A i \in 1 .. Len(c) : b[i] = c[i]
    <3>1. c \in Seq(Bit) /\ z \in Seq(Bit)
      BY <2>1, <2>2
    <3>2. /\ b \in Seq(Bit) /\ Len(b) = Len(c) + Len(z)
          /\ \A i \in 1 .. Len(c) : b[i] = c[i]
      BY <3>1, Concat
    <3> HIDE DEF b
    <3> QED BY <2>1, <2>2, <3>2
  <2> HIDE DEF b
  <2>4. 1 \in 1 .. Len(b) /\ 1 \in 1 .. Len(c) /\ 1 .. 1 - 1 = {}
    BY <2>2, <2>3
  <2>5. b[1] = 1
    BY <2>2, <2>3, <2>4
  <2>6. Start(b) = 1
    BY <2>3, <2>4, <2>5, StartAt
  <2> QED BY <2>3, <2>6 DEF b, c, z
<1> HIDE DEF bits
<1>4. ASSUME NEW n \in 1 .. 12, n <= width
      PROVE  Dout(bits(n)) = IF n < width THEN 1 ELSE 0
  <2> DEFINE b == bits(n)
  <2>1. Start(b) = 1 /\ Len(b) = 1 + 2 + n
    BY <1>3
  <2> HIDE DEF b
  <2>2. 1 \in Nat /\ n \in Nat /\ width \in Nat
    BY <1>1
  <2>3. (n < width => Dout(b) = 1) /\ (n = width => Dout(b) = 0)
    BY <2>1, <2>2, DoutAt
  <2>4. n < width \/ n = width
    BY <1>1, <1>4
  <2> QED BY <1>1, <2>3, <2>4 DEF b
<1>5. width \in low /\ \A k \in low : width <= k
  <2> DEFINE d(n) == Dout(bits(n))
  <2>1. \A n \in 1 .. 12 : n <= width => d(n) = IF n < width THEN 1 ELSE 0
    BY <1>4
  <2>2. low = {n \in 1 .. 12 : d(n) = 0}
    OBVIOUS
  <2> HIDE DEF d, low
  <2> QED BY <1>1, <2>1, <2>2
<1>6. low # {} /\ low \subseteq 1 .. 12
  BY <1>5
<1> DEFINE Least(m) == \A k \in low : m <= k
           least == CHOOSE m \in low : Least(m)
<1>7. SromWidth = IF low = {} \/ least < 4 THEN 6 ELSE least
  BY DEF SromWidth, bits
<1>8. ASSUME NEW m \in low, Least(m) PROVE m = width
  <2> HIDE DEF low
  <2> QED BY <1>1, <1>5, <1>6, <1>8
<1>9. least = width
  <2> HIDE DEF low
  <2>1. width \in low /\ Least(width)
    BY <1>5
  <2> HIDE DEF Least
  <2> QED BY <1>8, <2>1
<1> HIDE DEF low, least
<1>10. ~ (least < 4)
  BY <1>1, <1>9
<1> QED BY <1>6, <1>7, <1>9, <1>10, Zenon

\* The word shifted in is the one at the address.
LEMMA WordReadIs ==
    ASSUME width \in Widths, NEW addr \in Nat, addr < Power[width]
    PROVE  WordRead(width, addr) = Word[addr] /\ Word[addr] \in Ushort
<1>1. width \in 4 .. 12
  BY WidthRange
<1>2. Word[addr] \in Nat /\ Word[addr] \in Ushort /\ Word[addr] < Power[16]
  BY WordRange, Powers DEF Ushort
<1> DEFINE c == Bits(READCMD * 2 ^ width + addr, width + 5)
           a == Bits(addr, width)
           answer == Bits(Word[addr], 16)
<1>3. /\ c \in Seq(Bit) /\ Len(c) = width + 5
      /\ c[1] = 0 /\ c[2] = 0 /\ c[3] = 1
      /\ \A i \in 1 .. width : c[5 + i] = a[i]
  BY <1>1, Command
<1>4. a \in [1 .. width -> Bit] /\ Number(a) = addr
  <2>1. width \in 0 .. 17
    BY <1>1
  <2>2. a \in [1 .. width -> Bit]
    BY <2>1, BitsFun
  <2>3. Number(a) = addr
    BY <2>1, NumberOfBits
  <2> QED BY <2>2, <2>3
<1> HIDE DEF c, a
<1>5. ASSUME NEW i \in 1 .. 16 PROVE Dout(c \o Zeros(i)) = answer[i]
  <2> DEFINE z == Zeros(i)
             b == c \o z
  <2>1. z \in Seq(Bit) /\ Len(z) = i
    BY DEF Zeros, Bit
  <2> HIDE DEF z
  <2>2. /\ b \in Seq(Bit) /\ Len(b) = Len(c) + Len(z)
        /\ \A j \in 1 .. Len(c) : b[j] = c[j]
    <3>1. c \in Seq(Bit) /\ z \in Seq(Bit)
      BY <1>3, <2>1
    <3> QED BY <3>1, Concat
  <2> HIDE DEF b
  <2>3. Len(b) = 3 + 2 + (width + i) /\ width + i \in Nat /\ width \in Nat
    BY <1>1, <1>3, <2>1, <2>2
  <2>4. Start(b) = 3
    <3>1. /\ 1 \in 1 .. Len(c) /\ 2 \in 1 .. Len(c) /\ 3 \in 1 .. Len(c)
          /\ 3 \in 1 .. Len(b)
      BY <1>1, <1>3, <2>3
    <3>2. b[1] = 0 /\ b[2] = 0 /\ b[3] = 1
      BY <1>3, <2>2, <3>1
    <3>3. \A j \in 1 .. 3 - 1 : b[j] = 0
      BY <3>2
    <3> QED BY <2>2, <3>1, <3>2, <3>3, StartAt
  <2>5. SubSeq(b, 3 + 3, 3 + 2 + width) = a
    <3>1. \A j \in 1 .. width : b[5 + j] = a[j]
      <4>1. \A j \in 1 .. width : 5 + j \in 1 .. Len(c)
        BY <1>1, <1>3
      <4> QED BY <1>3, <2>2, <4>1
    <3>2. SubSeq(b, 5 + 1, 5 + width) = a
      <4> DEFINE k == 5
      <4>1. k \in Nat /\ width \in Nat /\ \A j \in 1 .. width : b[k + j] = a[j]
        BY <2>3, <3>1
      <4> HIDE DEF k
      <4>2. SubSeq(b, k + 1, k + width) = a
        BY <1>4, <4>1, PartFun
      <4> QED BY <4>2 DEF k
    <3>3. 3 + 3 = 5 + 1 /\ 3 + 2 + width = 5 + width
      OBVIOUS
    <3> QED BY <3>2, <3>3
  <2>6. /\ width + i > width
        /\ 1 + (((width + i) - width - 1) % 16) = i
    BY <1>1
  <2>7. Dout(b) = answer[1 + (((width + i) - width - 1) % 16)]
    <3> DEFINE n == width + i
    <3>1. n \in Nat /\ Len(b) = 3 + 2 + n /\ n > width /\ 3 \in Nat
      BY <2>3, <2>6
    <3> HIDE DEF n
    <3>2. Dout(b) = Bits(Word[Number(SubSeq(b, 3 + 3, 3 + 2 + width))], 16)
                        [1 + ((n - width - 1) % 16)]
      BY <2>3, <2>4, <3>1, DoutAt
    <3> QED BY <1>4, <2>5, <3>2 DEF n
  <2> QED BY <2>6, <2>7 DEF b, z
<1>6. answer \in [1 .. 16 -> Bit] /\ Number(answer) = Word[addr]
  <2>1. 16 \in 0 .. 17
    OBVIOUS
  <2>2. answer \in [1 .. 16 -> Bit]
    BY <1>2, <2>1, BitsFun
  <2>3. Number(answer) = Word[addr]
    BY <1>2, <2>1, NumberOfBits
  <2> QED BY <2>2, <2>3
<1> DEFINE word == [i \in 1 .. 16 |-> Dout(c \o Zeros(i))]
<1>7. word = answer
  <2> HIDE DEF answer
  <2> QED BY <1>5, <1>6
<1>8. WordRead(width, addr) = Number(word)
  BY DEF WordRead, c
<1> HIDE DEF word, answer
<1> QED BY <1>2, <1>6, <1>7, <1>8

\* What afe_readsromword returns.
LEMMA ReadSromWordIs ==
    ASSUME width \in Widths, NEW addr \in Nat
    PROVE  ReadSromWord(width, addr) =
              IF addr < Power[width] THEN Fixed(Word[addr]) ELSE 0
<1>1. Power[width] = 2 ^ width /\ Power[width] \in Nat
  <2>1. width \in 0 .. 17 /\ width \in 0 .. 16
    BY WidthRange
  <2> QED BY <2>1, PowerStep DEF Power
<1>2. addr >= 2 ^ width <=> ~ (addr < Power[width])
  BY <1>1
<1>3. CASE addr < Power[width]
  <2>1. WordRead(width, addr) = Word[addr]
    BY <1>3, WordReadIs
  <2> QED BY <1>2, <1>3, <2>1, Zenon DEF ReadSromWord
<1>4. CASE ~ (addr < Power[width])
  BY <1>2, <1>4, Zenon DEF ReadSromWord
<1> QED BY <1>3, <1>4

\* Both byte orders of the host: the bytes of a word, and a second swap.
LEMMA WordBytes ==
    ASSUME NEW word \in Ushort
    PROVE  /\ Fixed(word) \in Ushort /\ Fixed(Fixed(word)) = word
           /\ Stored(word) \in [1 .. 2 -> 0 .. 255]
           /\ Stored(Fixed(word)) = <<word % 256, word \div 256>>
<1> DEFINE h == word \div 256
           l == word % 256
<1>1. /\ word \in Nat /\ h \in Nat /\ h < 256 /\ l \in Nat /\ l < 256
      /\ word = h * 256 + l
  BY DEF Ushort
<1>2. Swap(word) = l * 256 + h
  BY DEF Swap
<1> HIDE DEF h, l
<1>3. /\ (l * 256 + h) \div 256 = l /\ (l * 256 + h) % 256 = h
      /\ l * 256 + h \in Ushort
  BY <1>1 DEF Ushort
<1>4. Swap(Swap(word)) = word
  <2>1. Swap(l * 256 + h) = h * 256 + l
    BY <1>3 DEF Swap
  <2> QED BY <1>1, <1>2, <2>1
<1>5. Fixed(word) \in Ushort /\ Fixed(Fixed(word)) = word
  BY <1>2, <1>3, <1>4 DEF Fixed
<1>6. Stored(word) = IF host = "big" THEN <<h, l>> ELSE <<l, h>>
  BY DEF Stored, h, l
<1>7. Stored(word) \in [1 .. 2 -> 0 .. 255]
  <2>1. h \in 0 .. 255 /\ l \in 0 .. 255
    BY <1>1
  <2> QED BY <1>6, <2>1
<1>8. Stored(Fixed(word)) = <<l, h>>
  BY <1>2, <1>3, <1>6 DEF Stored, Fixed
<1> QED BY <1>5, <1>7, <1>8 DEF h, l

\* afe_readsrom of an address: six bytes, those of three words of the EEPROM
\* if it has them.
LEMMA ReadSromIs ==
    ASSUME width \in Widths, NEW addr \in Nat
    PROVE  /\ ReadSrom(width, addr) \in [1 .. 6 -> 0 .. 255]
           /\ addr + 2 < Power[width] => ReadSrom(width, addr) = BytesAt(addr)
<1> DEFINE p == Power[width]
           x(k) == ReadSromWord(width, addr + k)
           a == Stored(x(0))
           b == Stored(x(1))
           c == Stored(x(2))
<1>1. p \in Nat
  <2>1. width \in 0 .. 16
    BY WidthRange
  <2> QED BY <2>1, PowerStep
<1> HIDE DEF p
<1>2. ASSUME NEW k \in {0, 1, 2}
      PROVE  /\ x(k) \in Ushort
             /\ addr + k < p => x(k) = Fixed(Word[addr + k]) /\ Word[addr + k] \in Ushort
  <2>1. addr + k \in Nat
    OBVIOUS
  <2>2. x(k) = IF addr + k < p THEN Fixed(Word[addr + k]) ELSE 0
    BY <2>1, ReadSromWordIs DEF p
  <2>3. addr + k < p => Word[addr + k] \in Ushort /\ Fixed(Word[addr + k]) \in Ushort
    <3> SUFFICES ASSUME addr + k < p
                 PROVE  Word[addr + k] \in Ushort /\ Fixed(Word[addr + k]) \in Ushort
      OBVIOUS
    <3>1. Word[addr + k] \in Ushort
      BY <2>1, WordRange DEF p
    <3> QED BY <3>1, WordBytes
  <2>4. 0 \in Ushort
    BY DEF Ushort
  <2> QED BY <2>2, <2>3, <2>4
<1>3. x(0) \in Ushort /\ x(1) \in Ushort /\ x(2) \in Ushort
  BY <1>2
<1> HIDE DEF x
<1>4. /\ a \in [1 .. 2 -> 0 .. 255] /\ b \in [1 .. 2 -> 0 .. 255]
      /\ c \in [1 .. 2 -> 0 .. 255]
  BY <1>3, WordBytes
<1>5. ReadSrom(width, addr) = a \o b \o c
  <2>1. addr + 0 = addr
    OBVIOUS
  <2> QED BY <2>1, Zenon DEF ReadSrom, x
<1>6. a = <<a[1], a[2]>> /\ b = <<b[1], b[2]>> /\ c = <<c[1], c[2]>>
  BY <1>4
<1> HIDE DEF a, b, c
<1>7. /\ ReadSrom(width, addr) = <<a[1], a[2], b[1], b[2], c[1], c[2]>>
      /\ ReadSrom(width, addr) \in [1 .. 6 -> 0 .. 255]
  <2>1. a \o b \o c = <<a[1], a[2]>> \o <<b[1], b[2]>> \o <<c[1], c[2]>>
    BY <1>6, Zenon
  <2>2. /\ a[1] \in 0 .. 255 /\ a[2] \in 0 .. 255 /\ b[1] \in 0 .. 255
        /\ b[2] \in 0 .. 255 /\ c[1] \in 0 .. 255 /\ c[2] \in 0 .. 255
    BY <1>4
  <2> DEFINE six == <<a[1], a[2], b[1], b[2], c[1], c[2]>>
  <2>3. /\ <<a[1], a[2]>> \o <<b[1], b[2]>> \o <<c[1], c[2]>> = six
        /\ six \in [1 .. 6 -> 0 .. 255]
    BY <2>2, ThreePairs
  <2> QED BY <1>5, <2>1, <2>3, Zenon
<1>8. ReadSrom(width, addr) \in [1 .. 6 -> 0 .. 255]
  BY <1>7
<1>9. ASSUME addr + 2 < p PROVE ReadSrom(width, addr) = BytesAt(addr)
  <2> DEFINE w(k) == Word[addr + k]
  <2>1. addr + 0 < p /\ addr + 1 < p
    BY <1>1, <1>9
  <2>2. /\ x(0) = Fixed(w(0)) /\ w(0) \in Ushort /\ x(1) = Fixed(w(1)) /\ w(1) \in Ushort
        /\ x(2) = Fixed(w(2)) /\ w(2) \in Ushort
    BY <1>2, <1>9, <2>1 DEF x
  <2> HIDE DEF w
  <2>3. /\ a = <<w(0) % 256, w(0) \div 256>> /\ b = <<w(1) % 256, w(1) \div 256>>
        /\ c = <<w(2) % 256, w(2) \div 256>>
    BY <2>2, WordBytes DEF a, b, c
  <2>4. BytesAt(addr) = <<w(0) % 256, w(0) \div 256, w(1) % 256, w(1) \div 256,
                          w(2) % 256, w(2) \div 256>>
    BY DEF BytesAt, w
  <2> QED BY <1>7, <2>3, <2>4
<1> QED BY <1>8, <1>9 DEF p

(***************************************************************************)
(* The frames of the MII.                                                  *)
(***************************************************************************)
Line == Bit \cup {"z"}

\* f has the sequence part from position k on.
Holds(f, k, part) == \A i \in 1 .. Len(part) : f[k + i] = part[i]

\* What is appended is there, and what was there stays.
LEMMA Appended ==
    ASSUME NEW S, NEW q \in Seq(S), NEW r \in Seq(S)
    PROVE  /\ q \o r \in Seq(S) /\ Len(q \o r) = Len(q) + Len(r)
           /\ Holds(q \o r, Len(q), r)
           /\ \A k \in Nat, part \in Seq(S) :
                 k + Len(part) <= Len(q) /\ Holds(q, k, part) => Holds(q \o r, k, part)
<1> DEFINE c == q \o r
<1>1. /\ c \in Seq(S) /\ Len(c) = Len(q) + Len(r)
      /\ \A i \in 1 .. Len(q) : c[i] = q[i]
      /\ \A i \in 1 .. Len(r) : c[Len(q) + i] = r[i]
  BY Concat
<1> HIDE DEF c
<1>2. ASSUME NEW k \in Nat, NEW part \in Seq(S), k + Len(part) <= Len(q), Holds(q, k, part)
      PROVE  Holds(c, k, part)
  <2> SUFFICES ASSUME NEW i \in 1 .. Len(part) PROVE c[k + i] = part[i]
    BY DEF Holds
  <2>1. k + i \in 1 .. Len(q) /\ q[k + i] = part[i]
    BY <1>2 DEF Holds
  <2> QED BY <1>1, <2>1
<1>3. Holds(c, Len(q), r)
  BY <1>1 DEF Holds
<1> QED BY <1>1, <1>2, <1>3 DEF c

\* The five bits of an address are those of its remainder.
LEMMA LowFive ==
    ASSUME NEW v \in Nat
    PROVE  /\ Bits(v, 5) \in [1 .. 5 -> Bit] /\ Bits(v, 5) \in Seq(Line)
           /\ Len(Bits(v, 5)) = 5 /\ Number(Bits(v, 5)) = v % 32
<1> DEFINE d == v \div 32
           r == v % 32
<1>1. d \in Nat /\ r \in 0 .. 31 /\ v = 32 * d + r
  OBVIOUS
<1> HIDE DEF d, r
<1>2. 5 \in 0 .. 17 /\ r \in Nat /\ r < Power[5]
  BY <1>1, Powers
<1>3. ASSUME NEW i \in 1 .. 5 PROVE Bits(v, 5)[i] = Bits(r, 5)[i]
  <2> DEFINE q == Power[5 - i]
             p == Power[i - 1]
  <2>1. /\ i \in 0 .. 5 /\ i - 1 \in 0 .. 16 /\ (i - 1) + 1 = i
        /\ 5 - i \in 0 .. 16
    OBVIOUS
  <2>2. q \in Nat \ {0} /\ p \in Nat /\ Power[i] = 2 * p
    BY <2>1, PowerStep
  <2>3. 32 = Power[i] * q
    BY <1>2, <2>1, PowerSplit, Powers
  <2> HIDE DEF q, p
  <2>4. p * d \in Nat /\ v = 2 * (p * d) * q + r
    BY <1>1, <2>2, <2>3
  <2>5. (v \div q) % 2 = (r \div q) % 2
    BY <1>2, <2>2, <2>4, EvenMultiple
  <2>6. Bits(v, 5)[i] = (v \div q) % 2 /\ Bits(r, 5)[i] = (r \div q) % 2
    BY <1>2, BitsFun DEF q
  <2> QED BY <2>5, <2>6
<1>4. /\ Bits(v, 5) \in [1 .. 5 -> Bit] /\ Bits(r, 5) \in [1 .. 5 -> Bit]
      /\ Bits(v, 5) \in Seq(Bit) /\ Len(Bits(v, 5)) = 5
  BY <1>2, BitsFun
<1>5. Bits(v, 5) = Bits(r, 5)
  BY <1>3, <1>4
<1>6. Number(Bits(r, 5)) = r
  BY <1>2, NumberOfBits
<1>7. Bits(v, 5) \in Seq(Line)
  BY <1>4 DEF Line
<1> QED BY <1>4, <1>5, <1>6, <1>7 DEF r

\* The operations of a frame.
Ops == {<<1, 0>>, <<0, 1>>}

LEMMA OpRange ==
    ASSUME NEW op \in Ops
    PROVE  op \in [1 .. 2 -> Bit] /\ op \in Seq(Line) /\ Len(op) = 2
<1>1. op = <<1, 0>> \/ op = <<0, 1>>
  BY DEF Ops
<1>2. op \in [1 .. 2 -> Bit]
  BY <1>1 DEF Bit
<1>3. /\ <<1, 0>> \in Seq(Line) /\ Len(<<1, 0>>) = 2
      /\ <<0, 1>> \in Seq(Line) /\ Len(<<0, 1>>) = 2
  BY DEF Line, Bit
<1>4. op \in Seq(Line) /\ Len(op) = 2
  BY <1>1, <1>3
<1> QED BY <1>2, <1>4

\* The fields of a frame.
Fields(f, op, phy, reg) ==
    Holds(f, 34, op) /\ Holds(f, 36, Bits(phy, 5)) /\ Holds(f, 41, Bits(reg, 5))

\* The header of a frame, with what follows it.
LEMMA HeaderIs ==
    ASSUME NEW op \in Ops, NEW phy \in Nat, NEW reg \in Nat
    PROVE  /\ Header(op, phy, reg) \in Seq(Line) /\ Len(Header(op, phy, reg)) = 48
           /\ \A x \in Seq(Line) : Fields(Header(op, phy, reg) \o x, op, phy, reg)
<1> DEFINE p == Bits(phy, 5)
           r == Bits(reg, 5)
           start == <<0, 1>>
           turn == <<"z", 0>>
           h1 == Preamble \o start
           h2 == h1 \o op
           h3 == h2 \o p
           h4 == h3 \o r
           h5 == h4 \o turn
<1>1. /\ Preamble \in Seq(Line) /\ Len(Preamble) = 32
      /\ start \in Seq(Line) /\ Len(start) = 2 /\ turn \in Seq(Line) /\ Len(turn) = 2
  BY DEF Preamble, Line, Bit
<1>2. op \in Seq(Line) /\ Len(op) = 2
  BY OpRange
<1>3. p \in Seq(Line) /\ Len(p) = 5 /\ r \in Seq(Line) /\ Len(r) = 5
  BY LowFive
<1>4. Header(op, phy, reg) = h5
  BY Zenon DEF Header
<1> HIDE DEF p, r, start, turn
<1>5. /\ h1 \in Seq(Line) /\ Len(h1) = 34
  <2>1. Preamble \in Seq(Line) /\ start \in Seq(Line)
    BY <1>1
  <2>2. /\ h1 \in Seq(Line) /\ Len(h1) = Len(Preamble) + Len(start)
        /\ Holds(h1, Len(Preamble), start)
        /\ \A k \in Nat, part \in Seq(Line) :
              k + Len(part) <= Len(Preamble) /\ Holds(Preamble, k, part) => Holds(h1, k, part)
    BY <2>1, Appended
  <2> HIDE DEF h1
  <2> QED BY <1>1, <2>2
<1> HIDE DEF h1
<1>6. /\ h2 \in Seq(Line) /\ Len(h2) = 36
      /\ Holds(h2, 34, op)
  <2>1. h1 \in Seq(Line) /\ op \in Seq(Line)
    BY <1>2, <1>5
  <2>2. /\ h2 \in Seq(Line) /\ Len(h2) = Len(h1) + Len(op)
        /\ Holds(h2, Len(h1), op)
        /\ \A k \in Nat, part \in Seq(Line) :
              k + Len(part) <= Len(h1) /\ Holds(h1, k, part) => Holds(h2, k, part)
    BY <2>1, Appended
  <2> HIDE DEF h2
  <2> QED BY <1>2, <1>5, <2>2
<1> HIDE DEF h2
<1>7. /\ h3 \in Seq(Line) /\ Len(h3) = 41
      /\ Holds(h3, 34, op)
      /\ Holds(h3, 36, p)
  <2>1. h2 \in Seq(Line) /\ p \in Seq(Line)
    BY <1>2, <1>3, <1>6
  <2>2. /\ h3 \in Seq(Line) /\ Len(h3) = Len(h2) + Len(p)
        /\ Holds(h3, Len(h2), p)
        /\ \A k \in Nat, part \in Seq(Line) :
              k + Len(part) <= Len(h2) /\ Holds(h2, k, part) => Holds(h3, k, part)
    BY <2>1, Appended
  <2> HIDE DEF h3
  <2>3. /\ 34 \in Nat /\ 34 + Len(op) <= Len(h2)
    BY <1>2, <1>3, <1>6
  <2>4. Holds(h3, 34, op)
    BY <1>2, <1>3, <1>6, <2>2, <2>3, Zenon
  <2>5. h3 \in Seq(Line) /\ Len(h3) = 41 /\ Holds(h3, 36, p)
    BY <1>2, <1>3, <1>6, <2>2
  <2> QED BY <2>4, <2>5
<1> HIDE DEF h3
<1>8. /\ h4 \in Seq(Line) /\ Len(h4) = 46
      /\ Holds(h4, 34, op)
      /\ Holds(h4, 36, p)
      /\ Holds(h4, 41, r)
  <2>1. h3 \in Seq(Line) /\ r \in Seq(Line)
    BY <1>2, <1>3, <1>7
  <2>2. /\ h4 \in Seq(Line) /\ Len(h4) = Len(h3) + Len(r)
        /\ Holds(h4, Len(h3), r)
        /\ \A k \in Nat, part \in Seq(Line) :
              k + Len(part) <= Len(h3) /\ Holds(h3, k, part) => Holds(h4, k, part)
    BY <2>1, Appended
  <2> HIDE DEF h4
  <2>3. /\ 34 \in Nat /\ 34 + Len(op) <= Len(h3)
        /\ 36 \in Nat /\ 36 + Len(p) <= Len(h3)
    BY <1>2, <1>3, <1>7
  <2>4. Holds(h4, 34, op) /\ Holds(h4, 36, p)
    BY <1>2, <1>3, <1>7, <2>2, <2>3, Zenon
  <2>5. h4 \in Seq(Line) /\ Len(h4) = 46 /\ Holds(h4, 41, r)
    BY <1>2, <1>3, <1>7, <2>2
  <2> QED BY <2>4, <2>5
<1> HIDE DEF h4
<1>9. /\ h5 \in Seq(Line) /\ Len(h5) = 48
      /\ Holds(h5, 34, op)
      /\ Holds(h5, 36, p)
      /\ Holds(h5, 41, r)
  <2>1. h4 \in Seq(Line) /\ turn \in Seq(Line)
    BY <1>1, <1>2, <1>3, <1>8
  <2>2. /\ h5 \in Seq(Line) /\ Len(h5) = Len(h4) + Len(turn)
        /\ Holds(h5, Len(h4), turn)
        /\ \A k \in Nat, part \in Seq(Line) :
              k + Len(part) <= Len(h4) /\ Holds(h4, k, part) => Holds(h5, k, part)
    BY <2>1, Appended
  <2> HIDE DEF h5
  <2>3. /\ 34 \in Nat /\ 34 + Len(op) <= Len(h4)
        /\ 36 \in Nat /\ 36 + Len(p) <= Len(h4)
        /\ 41 \in Nat /\ 41 + Len(r) <= Len(h4)
    BY <1>1, <1>2, <1>3, <1>8
  <2>4. Holds(h5, 34, op) /\ Holds(h5, 36, p) /\ Holds(h5, 41, r)
    BY <1>1, <1>2, <1>3, <1>8, <2>2, <2>3, Zenon
  <2>5. h5 \in Seq(Line) /\ Len(h5) = 48 /\ Holds(h5, 46, turn)
    BY <1>1, <1>2, <1>3, <1>8, <2>2
  <2> QED BY <2>4, <2>5
<1> HIDE DEF h5
<1>10. ASSUME NEW x \in Seq(Line) PROVE Fields(h5 \o x, op, phy, reg)
  <2>1. h5 \in Seq(Line)
    BY <1>9
  <2>2. \A k \in Nat, part \in Seq(Line) :
          k + Len(part) <= Len(h5) /\ Holds(h5, k, part) => Holds(h5 \o x, k, part)
    BY <2>1, Appended
  <2>3. /\ 34 \in Nat /\ 34 + Len(op) <= Len(h5)
        /\ 36 \in Nat /\ 36 + Len(p) <= Len(h5)
        /\ 41 \in Nat /\ 41 + Len(r) <= Len(h5)
    BY <1>2, <1>3, <1>9
  <2>4. Holds(h5 \o x, 34, op) /\ Holds(h5 \o x, 36, p) /\ Holds(h5 \o x, 41, r)
    BY <1>2, <1>3, <1>9, <2>2, <2>3, Zenon
  <2> QED BY <2>4 DEF Fields, p, r
<1> QED BY <1>4, <1>9, <1>10

\* A PHY reads the operation, the five low bits of the address of the PHY, and
\* the register.
LEMMA FieldsRead ==
    ASSUME NEW f, NEW op \in Ops, NEW phy \in Nat, NEW reg \in 0 .. 31,
           Fields(f, op, phy, reg)
    PROVE  FrameOp(f) = op /\ FramePhy(f) = phy % 32 /\ FrameReg(f) = reg
<1>1. FrameOp(f) = op
  <2>1. SubSeq(f, 34 + 1, 34 + 2) = op
    <3> DEFINE k == 34
    <3>1. op \in [1 .. 2 -> Bit] /\ \A i \in 1 .. 2 : f[k + i] = op[i]
      BY OpRange DEF Fields, Holds
    <3>2. k \in Nat
      OBVIOUS
    <3> HIDE DEF k
    <3>3. SubSeq(f, k + 1, k + 2) = op
      <4> DEFINE l == 2
      <4>1. l \in Nat /\ op \in [1 .. l -> Bit] /\ \A i \in 1 .. l : f[k + i] = op[i]
        BY <3>1
      <4> HIDE DEF l
      <4>2. SubSeq(f, k + 1, k + l) = op
        BY <3>2, <4>1, PartFun
      <4> QED BY <4>2 DEF l
    <3> QED BY <3>3 DEF k
  <2> QED BY <2>1 DEF FrameOp
<1>2. ASSUME NEW k \in Nat, NEW v \in Nat, Holds(f, k, Bits(v, 5))
      PROVE  Number(SubSeq(f, k + 1, k + 5)) = v % 32
  <2> DEFINE l == 5
             b == Bits(v, 5)
  <2>1. l \in Nat /\ b \in [1 .. l -> Bit] /\ Len(b) = l /\ Number(b) = v % 32
    BY LowFive
  <2>2. Holds(f, k, b)
    BY <1>2
  <2> HIDE DEF l, b
  <2>3. \A i \in 1 .. l : f[k + i] = b[i]
    BY <2>1, <2>2 DEF Holds
  <2>4. SubSeq(f, k + 1, k + l) = b
    BY <2>1, <2>3, PartFun
  <2> QED BY <2>1, <2>4 DEF l
<1>3. /\ Number(SubSeq(f, 36 + 1, 36 + 5)) = phy % 32
      /\ Number(SubSeq(f, 41 + 1, 41 + 5)) = reg % 32
  BY <1>2 DEF Fields
<1>4. reg % 32 = reg
  OBVIOUS
<1> QED BY <1>1, <1>3, <1>4 DEF FramePhy, FrameReg

\* Sixteen ones.
LEMMA AllOnes ==
    ASSUME NEW bits \in [1 .. 16 -> {1}]
    PROVE  Number(bits) = 65535
<1>1. bits \in [1 .. 16 -> Int] /\ 16 \in Nat /\ \A i \in 1 .. 16 : bits[i] = 1
  OBVIOUS
<1> DEFINE n == 16
<1>2. n \in Nat /\ n = 16 /\ bits \in [1 .. n -> Int] /\ \A i \in 1 .. n : bits[i] = 1
  BY <1>1
<1> HIDE DEF n
<1>3. PICK f \in [0 .. n -> Int] :
         /\ f[0] = 0 /\ \A i \in 1 .. n : f[i] = 2 * f[i - 1] + bits[i]
         /\ Number(bits) = f[n]
  BY <1>2, NumberDef
<1> DEFINE S == {i \in Nat : i <= n => f[i] = Power[i] - 1}
<1>4. 0 \in S
  BY <1>3, Powers
<1>5. ASSUME NEW i \in Nat, i \in S PROVE i + 1 \in S
  <2> SUFFICES ASSUME i + 1 <= n PROVE f[i + 1] = Power[i + 1] - 1
    OBVIOUS
  <2>1. i \in 0 .. 16 /\ i + 1 \in 1 .. n /\ (i + 1) - 1 = i /\ f[i] = Power[i] - 1
    BY <1>2, <1>5
  <2>2. Power[i] \in Nat /\ Power[i + 1] = 2 * Power[i]
    BY <2>1, PowerStep
  <2>3. f[i + 1] = 2 * f[i] + 1
    BY <1>2, <1>3, <2>1
  <2> DEFINE a == f[i]
             b == f[i + 1]
             p == Power[i]
             q == Power[i + 1]
  <2>4. a = p - 1 /\ p \in Nat /\ q = 2 * p /\ b = 2 * a + 1
    BY <2>1, <2>2, <2>3
  <2> HIDE DEF a, b, p, q
  <2>5. b = q - 1
    BY <2>4
  <2> QED BY <2>5 DEF b, q
<1>6. n \in S
  <2> HIDE DEF S
  <2> QED BY <1>2, <1>4, <1>5, NatInd
<1>7. f[n] = Power[n] - 1
  BY <1>2, <1>6
<1> QED BY <1>2, <1>3, <1>7, Powers

PhyRegs == [Phys \X Regs -> Ushort]

\* afe_miireadgeneral.
LEMMA MiiReadIs ==
    ASSUME NEW phy \in PhyAddrs, NEW reg \in Regs, phyreg \in PhyRegs
    PROVE  /\ MiiReadGeneral(phy, reg) =
                IF phy % 32 \in Phys THEN phyreg[<<phy % 32, reg>>] ELSE 65535
           /\ MiiReadGeneral(phy, reg) \in Ushort
<1>1. phy \in Nat /\ reg \in Nat /\ reg \in 0 .. 31
  BY SerialAssumption
<1> DEFINE op == <<1, 0>>
           header == Header(op, phy, reg)
           f(i) == header \o [j \in 1 .. i - 1 |-> "z"]
           answer == [i \in 1 .. 16 |-> Mdio(f(i))]
           cell == phyreg[<<phy % 32, reg>>]
<1>2. op \in Ops
  BY DEF Ops
<1>3. MiiReadGeneral(phy, reg) = Number(answer)
  BY DEF MiiReadGeneral
<1> HIDE DEF op
<1>4. ASSUME NEW i \in 1 .. 16
      PROVE  /\ FrameOp(f(i)) = <<1, 0>> /\ FramePhy(f(i)) = phy % 32
             /\ FrameReg(f(i)) = reg /\ Len(f(i)) - 47 = i
  <2> DEFINE z == [j \in 1 .. i - 1 |-> "z"]
  <2>1. z \in Seq(Line) /\ Len(z) = i - 1
    BY DEF Line
  <2>2. header \in Seq(Line) /\ Len(header) = 48 /\ \A x \in Seq(Line) : Fields(header \o x, op, phy, reg)
    BY <1>1, <1>2, HeaderIs
  <2> HIDE DEF z, header
  <2>3. Fields(header \o z, op, phy, reg)
    BY <2>1, <2>2
  <2>4. Len(header \o z) = Len(header) + Len(z)
    <3>1. header \in Seq(Line) /\ z \in Seq(Line)
      BY <2>1, <2>2
    <3> QED BY <3>1, Concat
  <2>5. /\ FrameOp(header \o z) = op /\ FramePhy(header \o z) = phy % 32
        /\ FrameReg(header \o z) = reg
    BY <1>1, <1>2, <2>3, FieldsRead
  <2>6. Len(header \o z) - 47 = i
    BY <2>1, <2>2, <2>4
  <2> QED BY <2>5, <2>6 DEF z, op
<1> HIDE DEF f
<1>5. CASE phy % 32 \in Phys
  <2>1. cell \in Ushort
    BY <1>5 DEF PhyRegs
  <2>2. cell \in Nat /\ cell < Power[16]
    BY <2>1, Powers DEF Ushort
  <2>3. ASSUME NEW i \in 1 .. 16 PROVE Mdio(f(i)) = Bits(cell, 16)[i]
    BY <1>4, <1>5, Zenon DEF Mdio
  <2> HIDE DEF cell
  <2>4. Bits(cell, 16) \in [1 .. 16 -> Bit] /\ Number(Bits(cell, 16)) = cell
    <3> DEFINE n == 16
    <3>1. n \in 0 .. 17 /\ cell < Power[n]
      BY <2>2
    <3> HIDE DEF n
    <3>2. Bits(cell, n) \in [1 .. n -> Bit] /\ Number(Bits(cell, n)) = cell
      BY <2>2, <3>1, BitsFun, NumberOfBits
    <3> QED BY <3>2 DEF n
  <2> DEFINE bits == Bits(cell, 16)
             d(i) == Mdio(f(i))
  <2>5. bits \in [1 .. 16 -> Bit] /\ \A i \in 1 .. 16 : d(i) = bits[i]
    BY <2>3, <2>4
  <2>6. answer = [i \in 1 .. 16 |-> d(i)]
    OBVIOUS
  <2> HIDE DEF bits, d, answer
  <2>7. answer = bits
    BY <2>5, <2>6
  <2>8. MiiReadGeneral(phy, reg) = cell
    BY <1>3, <2>4, <2>7 DEF bits
  <2> QED BY <1>5, <2>1, <2>8 DEF cell
<1>6. CASE phy % 32 \notin Phys
  <2>1. ASSUME NEW i \in 1 .. 16 PROVE Mdio(f(i)) = 1
    BY <1>4, <1>6, Zenon DEF Mdio
  <2>2. answer \in [1 .. 16 -> {1}]
    BY <2>1
  <2> HIDE DEF answer
  <2>3. MiiReadGeneral(phy, reg) = 65535
    BY <1>3, <2>2, AllOnes
  <2> QED BY <1>6, <2>3 DEF Ushort
<1> QED BY <1>5, <1>6

\* afe_miiwritegeneral.
LEMMA MiiWriteIs ==
    ASSUME NEW phy \in PhyAddrs, NEW reg \in Regs, NEW v \in Values,
           phyreg \in PhyRegs, MiiWriteGeneral(phy, reg, v)
    PROVE  /\ phyreg' = [k \in Phys \X Regs |->
                           IF phy % 32 \in Phys /\ k = <<phy % 32, reg>>
                           THEN v ELSE phyreg[k]]
           /\ phyreg' \in PhyRegs
<1>1. phy \in Nat /\ reg \in Nat /\ reg \in 0 .. 31 /\ v \in Ushort
  BY SerialAssumption
<1> DEFINE op == <<0, 1>>
           header == Header(op, phy, reg)
           data == Bits(v, 16)
           release == <<"z">>
           f == header \o data \o release
<1>2. op \in Ops
  BY DEF Ops
<1>3. v \in Nat /\ v < Power[16]
  BY <1>1, Powers DEF Ushort
<1>4. /\ data \in [1 .. 16 -> Bit] /\ data \in Seq(Line) /\ Len(data) = 16
      /\ Number(data) = v
  <2> DEFINE n == 16
  <2>1. n \in 0 .. 17 /\ v < Power[n]
    BY <1>3
  <2> HIDE DEF n
  <2>2. /\ Bits(v, n) \in [1 .. n -> Bit] /\ Number(Bits(v, n)) = v
        /\ Bits(v, n) \in Seq(Bit) /\ Len(Bits(v, n)) = n
    BY <1>3, <2>1, BitsFun, NumberOfBits
  <2> QED BY <2>2 DEF n, Line
<1>5. release \in Seq(Line)
  BY DEF Line
<1>6. phyreg' = IF FramePhy(f) \in Phys /\ FrameOp(f) = <<0, 1>>
                THEN [phyreg EXCEPT ![<<FramePhy(f), FrameReg(f)>>] =
                         Number(SubSeq(f, 49, 64))]
                ELSE phyreg
  BY Zenon DEF MiiWriteGeneral
<1> HIDE DEF op, data, release
<1>7. /\ header \in Seq(Line) /\ Len(header) = 48
      /\ \A x \in Seq(Line) : Fields(header \o x, op, phy, reg)
  BY <1>1, <1>2, HeaderIs
<1> HIDE DEF header
<1> DEFINE g == header \o data
<1>8. g \in Seq(Line) /\ Len(g) = 64 /\ Holds(g, 48, data)
  <2>1. header \in Seq(Line) /\ data \in Seq(Line)
    BY <1>4, <1>7
  <2>2. g \in Seq(Line) /\ Len(g) = Len(header) + Len(data) /\ Holds(g, Len(header), data)
    BY <2>1, Appended
  <2> QED BY <1>4, <1>7, <2>2
<1>9. Holds(f, 48, data)
  <2> HIDE DEF g
  <2>1. g \in Seq(Line) /\ release \in Seq(Line)
    BY <1>5, <1>8
  <2>2. \A k \in Nat, part \in Seq(Line) :
          k + Len(part) <= Len(g) /\ Holds(g, k, part) => Holds(g \o release, k, part)
    BY <2>1, Appended
  <2>3. 48 \in Nat /\ data \in Seq(Line) /\ 48 + Len(data) <= Len(g)
    BY <1>4, <1>8
  <2>4. Holds(g \o release, 48, data)
    BY <1>8, <2>2, <2>3, Zenon
  <2> QED BY <2>4 DEF g
<1>10. Fields(f, op, phy, reg)
  <2>1. header \in Seq(Line) /\ data \in Seq(Line) /\ release \in Seq(Line)
    BY <1>4, <1>5, <1>7
  <2>2. data \o release \in Seq(Line)
    BY <2>1, Concat
  <2>3. f = header \o (data \o release)
    BY <2>1, ConcatAssociative
  <2> HIDE DEF f
  <2> QED BY <1>7, <2>2, <2>3
<1> HIDE DEF f
<1>11. FrameOp(f) = <<0, 1>> /\ FramePhy(f) = phy % 32 /\ FrameReg(f) = reg
  <2>1. FrameOp(f) = op /\ FramePhy(f) = phy % 32 /\ FrameReg(f) = reg
    BY <1>1, <1>2, <1>10, FieldsRead
  <2> QED BY <2>1 DEF op
<1>12. Number(SubSeq(f, 49, 64)) = v
  <2> DEFINE k == 48
             l == 16
  <2>1. /\ k \in Nat /\ l \in Nat /\ data \in [1 .. l -> Bit] /\ Len(data) = l
        /\ Holds(f, k, data) /\ k + 1 = 49 /\ k + l = 64
    BY <1>4, <1>9
  <2> HIDE DEF k, l
  <2>2. \A i \in 1 .. l : f[k + i] = data[i]
    BY <2>1 DEF Holds
  <2>3. SubSeq(f, k + 1, k + l) = data
    BY <2>1, <2>2, PartFun
  <2> QED BY <1>4, <2>1, <2>3
<1>13. phyreg' = IF phy % 32 \in Phys THEN [phyreg EXCEPT ![<<phy % 32, reg>>] = v]
                 ELSE phyreg
  BY <1>6, <1>11, <1>12, Zenon
<1>14. phyreg' = [k \in Phys \X Regs |->
                    IF phy % 32 \in Phys /\ k = <<phy % 32, reg>> THEN v ELSE phyreg[k]]
  BY <1>13 DEF PhyRegs
<1>15. phyreg' \in PhyRegs
  BY <1>1, <1>13 DEF PhyRegs
<1> QED BY <1>14, <1>15

(***************************************************************************)
(* The invariant and the theorems.                                         *)
(***************************************************************************)

\* The pointer of the mxfe driver is a word of the EEPROM, and so is each of
\* the three words it points at; the afe address is in every EEPROM.
PointsInside ==
    driver = "mxfe" => /\ MxfeEnAddr \div 2 < 2 ^ width
                       /\ Word[MxfeEnAddr \div 2] \div 2 + 2 < 2 ^ width

SerialInv ==
    /\ driver \in {"afe", "mxfe"} /\ host \in {"big", "little"} /\ width \in Widths
    /\ romwidth \in {0, width}
    /\ factaddr = <<>> \/ factaddr \in [1 .. 6 -> 0 .. 255]
    /\ PointsInside => FactAddrRead
    /\ phyreg \in PhyRegs
    /\ value \in Ushort

\* No address is read when a driver starts.
LEMMA SerialStart == SerialInit => SerialInv
<1> SUFFICES ASSUME SerialInit PROVE SerialInv
  OBVIOUS
<1>1. 0 \in Ushort
  BY DEF Ushort
<1>2. phyreg \in PhyRegs /\ value \in Ushort
  BY <1>1 DEF SerialInit, PhyRegs
<1>3. FactAddrRead
  BY DEF SerialInit, FactAddrRead
<1> QED BY <1>2, <1>3 DEF SerialInit, SerialInv

\* The pointer is swapped twice, which is not at all.
LEMMA PointerIs ==
    ASSUME width \in Widths
    PROVE  LET pointer == Fixed(MxfeReadSromWord(width, MxfeEnAddr \div 2))
           IN /\ pointer \in Nat
              /\ PointsInside /\ driver = "mxfe" =>
                   pointer = Word[MxfeEnAddr \div 2] /\ pointer \div 2 + 2 < Power[width]
<1> DEFINE word == MxfeReadSromWord(width, 56)
           pointer == Fixed(word)
<1>1. MxfeEnAddr \div 2 = 56
  BY DEF MxfeEnAddr
<1>2. word = IF 56 < Power[width] THEN Fixed(Word[56]) ELSE 0
  BY ReadSromWordIs DEF MxfeReadSromWord
<1> HIDE DEF word
<1>3. CASE 56 < Power[width]
  <2>1. Word[56] \in Ushort
    BY <1>3, WordRange
  <2>2. pointer = Word[56]
    BY <1>2, <1>3, <2>1, WordBytes
  <2>3. width \in 0 .. 17
    BY WidthRange
  <2>4. Power[width] = 2 ^ width
    BY <2>3 DEF Power
  <2> HIDE DEF pointer
  <2>5. PointsInside /\ driver = "mxfe" => pointer \div 2 + 2 < Power[width]
    BY <1>1, <2>2, <2>4, Zenon DEF PointsInside
  <2>6. pointer \in Nat
    BY <2>1, <2>2 DEF Ushort
  <2> QED BY <1>1, <2>2, <2>5, <2>6 DEF pointer, word
<1>4. CASE ~ (56 < Power[width])
  <2>1. pointer = Fixed(0) /\ 0 \in Ushort
    BY <1>2, <1>4 DEF Ushort
  <2>2. pointer \in Nat
    BY <2>1, WordBytes DEF Ushort
  <2>3. width \in 0 .. 17
    BY WidthRange
  <2>4. Power[width] = 2 ^ width
    BY <2>3 DEF Power
  <2> HIDE DEF pointer
  <2>5. ~ (PointsInside /\ driver = "mxfe")
    BY <1>1, <1>4, <2>4, Zenon DEF PointsInside
  <2> QED BY <1>1, <2>2, <2>5 DEF pointer, word
<1> QED BY <1>3, <1>4

\* The width is found.
LEMMA FindWidthKeeps == ASSUME SerialInv, FindWidth PROVE SerialInv'
<1>1. romwidth' = width
  BY WidthFound DEF SerialInv, FindWidth, MxfeSromWidth
<1>2. UNCHANGED <<driver, host, width, factaddr, phyreg, value>>
  BY DEF FindWidth, card
<1>3. UNCHANGED <<PointsInside, FactAddrRead>>
  BY <1>2 DEF PointsInside, FactAddrRead
<1> QED BY <1>1, <1>2, <1>3, Zenon DEF SerialInv, PhyRegs

\* The address that is read is the one in the EEPROM.
LEMMA GetFactAddrKeeps == ASSUME SerialInv, GetFactAddr PROVE SerialInv'
<1>1. width \in Widths /\ romwidth = width /\ driver \in {"afe", "mxfe"}
  <2>1. width \in Widths /\ romwidth \in {0, width} /\ romwidth # 0
    BY DEF SerialInv, GetFactAddr
  <2> QED BY <2>1 DEF SerialInv
<1>2. UNCHANGED <<driver, host, width, romwidth, phyreg, value>>
  BY DEF GetFactAddr, card
<1>3. PointsInside' = PointsInside
  BY <1>2 DEF PointsInside
<1>4. CASE driver = "afe"
  <2>1. factaddr' = ReadSrom(width, 4)
    BY <1>1, <1>4 DEF GetFactAddr, AfeGetFactAddr, AfeEnAddr
  <2>2. 4 + 2 < Power[width]
    <3>1. \/ width = 4 \/ width = 5 \/ width = 6 \/ width = 7 \/ width = 8
          \/ width = 9 \/ width = 10 \/ width = 11 \/ width = 12
      BY <1>1, WidthRange
    <3> QED BY <3>1, Powers
  <2>3. factaddr' \in [1 .. 6 -> 0 .. 255] /\ factaddr' = BytesAt(4)
    BY <1>1, <2>1, <2>2, ReadSromIs
  <2>4. FactAddrRead'
    BY <1>2, <1>4, <2>3, Zenon DEF FactAddrRead, AfeEnAddr, BytesAt
  <2> QED BY <1>2, <2>3, <2>4, Zenon DEF SerialInv, PhyRegs
<1>5. CASE driver = "mxfe"
  <2> DEFINE pointer == Fixed(MxfeReadSromWord(width, MxfeEnAddr \div 2))
  <2>1. factaddr' = ReadSrom(width, pointer \div 2)
    BY <1>1, <1>5 DEF GetFactAddr, MxfeGetFactAddr, MxfeReadSrom
  <2>2. /\ pointer \in Nat
        /\ PointsInside => /\ pointer = Word[MxfeEnAddr \div 2]
                           /\ pointer \div 2 + 2 < Power[width]
    BY <1>1, <1>5, PointerIs, Zenon
  <2> HIDE DEF pointer
  <2>3. pointer \div 2 \in Nat
    BY <2>2
  <2>4. /\ factaddr' \in [1 .. 6 -> 0 .. 255]
        /\ pointer \div 2 + 2 < Power[width] => factaddr' = BytesAt(pointer \div 2)
    BY <1>1, <2>1, <2>3, ReadSromIs
  <2>5. PointsInside => FactAddrRead'
    <3> SUFFICES ASSUME PointsInside PROVE FactAddrRead'
      OBVIOUS
    <3>1. factaddr' = BytesAt(Word[MxfeEnAddr \div 2] \div 2)
      BY <2>2, <2>4
    <3>2. driver' # "afe"
      BY <1>2, <1>5
    <3> QED BY <3>1, <3>2, Zenon DEF FactAddrRead, BytesAt
  <2> QED BY <1>2, <1>3, <2>4, <2>5, Zenon DEF SerialInv, PhyRegs
<1> QED BY <1>1, <1>4, <1>5

\* What a read of a register returns, and the registers after a write.
ReadOf(phy, reg) == IF Reached(phy) THEN phyreg[<<phy % 32, reg>>] ELSE 65535

WrittenTo(phy, reg, v) ==
    [k \in Phys \X Regs |->
       IF Reached(phy) /\ k = <<phy % 32, reg>> THEN v ELSE phyreg[k]]

\* Neither a read nor a write of a PHY touches the address.
LEMMA MiiReadKeeps ==
    ASSUME SerialInv, NEW phy \in PhyAddrs, NEW reg \in Regs, MiiRead(phy, reg)
    PROVE  SerialInv' /\ value' = ReadOf(phy, reg)
<1>1. phyreg \in PhyRegs /\ driver \in {"afe", "mxfe"}
  BY DEF SerialInv
<1>2. UNCHANGED <<driver, host, width, romwidth, factaddr, phyreg>>
  BY DEF MiiRead, card
<1> DEFINE r == MiiReadGeneral(phy, reg)
<1>3. /\ phy % 32 \in Phys => r = phyreg[<<phy % 32, reg>>]
      /\ phy % 32 \notin Phys => r = 65535
      /\ r \in Ushort
  BY <1>1, MiiReadIs
<1>4. value' = IF driver = "mxfe" \/ phy = 1 THEN r ELSE 65535
  BY <1>1 DEF MiiRead, AfeMiiRead, MxfeMiiReadGeneral
<1> HIDE DEF r
<1>5. value' = ReadOf(phy, reg)
  BY <1>3, <1>4 DEF ReadOf, Reached
<1>6. value' \in Ushort
  BY <1>3, <1>4 DEF Ushort
<1>7. UNCHANGED <<PointsInside, FactAddrRead>>
  BY <1>2 DEF PointsInside, FactAddrRead
<1>8. SerialInv'
  BY <1>2, <1>6, <1>7, Zenon DEF SerialInv, PhyRegs
<1> QED BY <1>5, <1>8

LEMMA MiiWriteKeeps ==
    ASSUME SerialInv, NEW phy \in PhyAddrs, NEW reg \in Regs, NEW v \in Values,
           MiiWrite(phy, reg, v)
    PROVE  SerialInv' /\ phyreg' = WrittenTo(phy, reg, v)
<1>1. phyreg \in PhyRegs /\ driver \in {"afe", "mxfe"}
  BY DEF SerialInv
<1>2. UNCHANGED <<driver, host, width, romwidth, factaddr, value>>
  BY DEF MiiWrite, card
<1>3. /\ phyreg' \in PhyRegs
      /\ phyreg' = [k \in Phys \X Regs |->
                      IF Reached(phy) /\ k = <<phy % 32, reg>> THEN v ELSE phyreg[k]]
  <2>1. CASE driver = "mxfe" \/ phy = 1
    <3>1. MiiWriteGeneral(phy, reg, v)
      BY <1>1, <2>1 DEF MiiWrite, AfeMiiWrite, MxfeMiiWriteGeneral
    <3>2. /\ phyreg' = [k \in Phys \X Regs |->
                          IF phy % 32 \in Phys /\ k = <<phy % 32, reg>>
                          THEN v ELSE phyreg[k]]
          /\ phyreg' \in PhyRegs
      BY <1>1, <3>1, MiiWriteIs
    <3>3. Reached(phy) <=> phy % 32 \in Phys
      BY <2>1 DEF Reached
    <3> QED BY <3>2, <3>3
  <2>2. CASE ~ (driver = "mxfe" \/ phy = 1)
    <3>1. phyreg' = phyreg
      BY <1>1, <2>2 DEF MiiWrite, AfeMiiWrite
    <3>2. ~ Reached(phy)
      BY <2>2 DEF Reached
    <3> QED BY <1>1, <3>1, <3>2 DEF PhyRegs
  <2> QED BY <2>1, <2>2
<1>4. UNCHANGED <<PointsInside, FactAddrRead>>
  BY <1>2 DEF PointsInside, FactAddrRead
<1>5. SerialInv'
  BY <1>2, <1>3, <1>4, Zenon DEF SerialInv, PhyRegs
<1> QED BY <1>3, <1>5, Zenon DEF WrittenTo

\* Every step keeps the invariant.
LEMMA SerialStep == SerialInv /\ [SerialNext]_serialVars => SerialInv'
<1> SUFFICES ASSUME SerialInv, [SerialNext]_serialVars PROVE SerialInv'
  OBVIOUS
<1>1. CASE FindWidth
  BY <1>1, FindWidthKeeps
<1>2. CASE GetFactAddr
  BY <1>2, GetFactAddrKeeps
<1>3. ASSUME NEW p \in PhyAddrs, NEW r \in Regs, MiiRead(p, r) PROVE SerialInv'
  BY <1>3, MiiReadKeeps, Zenon
<1>4. ASSUME NEW p \in PhyAddrs, NEW r \in Regs, NEW v \in Values, MiiWrite(p, r, v)
      PROVE  SerialInv'
  BY <1>4, MiiWriteKeeps, Zenon
<1>5. CASE UNCHANGED serialVars
  BY <1>5 DEF serialVars, card, SerialInv, PointsInside, FactAddrRead, PhyRegs, BytesAt
<1> QED BY <1>1, <1>2, <1>3, <1>4, <1>5, Zenon DEF SerialNext

\* What the driver knows of the card is so: the width is the one the EEPROM
\* has, and the address is there whatever the byte order of the host.
THEOREM SerialInvariant == SerialSpec => []SerialInv
<1>1. SerialInit => SerialInv
  BY SerialStart
<1>2. SerialInv /\ [SerialNext]_serialVars => SerialInv'
  BY SerialStep
<1> QED BY <1>1, <1>2, PTL DEF SerialSpec

\* What is assembled bit by bit has the bits of its type.
THEOREM SerialTypeCorrect == SerialSpec => []SerialTypeOK
<1>1. SerialInv => SerialTypeOK
  <2> SUFFICES ASSUME SerialInv PROVE SerialTypeOK
    OBVIOUS
  <2>1. romwidth \in 0 .. 12
    BY WidthRange DEF SerialInv
  <2>2. factaddr = <<>> \/ (Len(factaddr) = 6 /\ \A i \in 1 .. 6 : factaddr[i] \in 0 .. 255)
    <3>1. \A x \in [1 .. 6 -> 0 .. 255] : Len(x) = 6 /\ \A i \in 1 .. 6 : x[i] \in 0 .. 255
      OBVIOUS
    <3> QED BY <3>1, Zenon DEF SerialInv
  <2>3. (\A k \in Phys \X Regs : phyreg[k] \in Ushort) /\ value \in Ushort
    BY DEF SerialInv, PhyRegs
  <2> QED BY <2>1, <2>2, <2>3, Zenon DEF SerialTypeOK
<1> QED BY <1>1, SerialInvariant, PTL

\* The factory address is the one in the EEPROM, on hosts of both byte orders
\* and for every width afe_sromwidth accepts, as long as it is inside the
\* EEPROM.
THEOREM FactAddressIsRead == SerialSpec => [](PointsInside => FactAddrRead)
<1>1. SerialInv => (PointsInside => FactAddrRead)
  BY DEF SerialInv
<1> QED BY <1>1, SerialInvariant, PTL

\* A read returns the register of the PHY at the low five bits, a write changes
\* that one, and the afe driver reaches no PHY but the one at 1: afe_miiread,
\* afe_miiwrite and the functions below them.
THEOREM RegistersReached == SerialSpec => PhyRegisters
<1>1. ASSUME SerialInv, NEW p \in PhyAddrs, NEW r \in Regs
      PROVE  /\ MiiRead(p, r) => value' = ReadOf(p, r)
             /\ \A v \in Values : MiiWrite(p, r, v) => phyreg' = WrittenTo(p, r, v)
  <2>1. ASSUME MiiRead(p, r) PROVE value' = ReadOf(p, r)
    BY <1>1, <2>1, MiiReadKeeps, Zenon
  <2>2. ASSUME NEW v \in Values, MiiWrite(p, r, v) PROVE phyreg' = WrittenTo(p, r, v)
    BY <1>1, <2>2, MiiWriteKeeps, Zenon
  <2> QED BY <2>1, <2>2, Zenon
<1>2. SerialInv /\ [SerialNext]_serialVars =>
        [\A p \in PhyAddrs, r \in Regs :
           /\ MiiRead(p, r) => value' = ReadOf(p, r)
           /\ \A v \in Values : MiiWrite(p, r, v) => phyreg' = WrittenTo(p, r, v)
        ]_serialVars
  BY <1>1, Zenon
<1> QED BY <1>2, SerialInvariant, PTL
        DEF SerialSpec, PhyRegisters, ReadOf, WrittenTo
=============================================================================
