-------------------------- MODULE AddressMapProofs --------------------------
(***************************************************************************)
(* When the two interconnects decode a region alike, for every address     *)
(* width.  The argument is about bits: the mask of a power of two keeps    *)
(* the bits from its exponent upwards, two addresses agree in those when   *)
(* their quotients by the power agree, and the quotients agree inside an   *)
(* aligned block.                                                          *)
(***************************************************************************)
EXTENDS AddressMap, Basics

-----------------------------------------------------------------------------
(* Powers of two.                                                           *)
LEMMA Pow2Equation == Pow2 = [k \in Nat |-> IF k = 0 THEN 1 ELSE 2 * Pow2[k - 1]]
<1> DEFINE step == [p \in Nat \X Nat |-> 2 * p[2]]
<1>1. step \in [Nat \X Nat -> Nat]
  OBVIOUS
<1>2. PICK f \in [Nat -> Nat] :
        /\ f[0] = 1
        /\ \A n \in Nat : f[n + 1] = step[<<n, f[n]>>]
  <2> HIDE DEF step
  <2>1. Recursion(Nat, 1, step) # {}
    BY <1>1, RecursionExists
  <2> QED BY <2>1 DEF Recursion
<1>3. ASSUME NEW n \in Nat PROVE f[n + 1] = 2 * f[n]
  <2>1. <<n, f[n]>> \in Nat \X Nat
    OBVIOUS
  <2> QED BY <1>2, <2>1
<1>4. f = [k \in Nat |-> IF k = 0 THEN 1 ELSE 2 * f[k - 1]]
  <2>1. ASSUME NEW k \in Nat PROVE f[k] = IF k = 0 THEN 1 ELSE 2 * f[k - 1]
    <3>1. CASE k = 0
      BY <1>2, <3>1
    <3>2. CASE k # 0
      <4>1. k - 1 \in Nat /\ (k - 1) + 1 = k
        BY <3>2
      <4> QED BY <3>2, <4>1, <1>3
    <3> QED BY <3>1, <3>2
  <2> QED BY <2>1
<1> QED BY <1>4 DEF Pow2

LEMMA Pow2Facts ==
  /\ Pow2[0] = 1
  /\ \A k \in Nat : Pow2[k] \in Nat \ {0} /\ Pow2[k + 1] = 2 * Pow2[k]
<1>1. Pow2[0] = 1
  BY Pow2Equation
<1>2. ASSUME NEW k \in Nat PROVE Pow2[k + 1] = 2 * Pow2[k]
  BY Pow2Equation
<1> DEFINE S == {k \in Nat : Pow2[k] \in Nat \ {0}}
<1>3. 0 \in S
  BY <1>1
<1>4. ASSUME NEW k \in Nat, k \in S PROVE k + 1 \in S
  BY <1>2, <1>4
<1>5. \A k \in Nat : k \in S
  <2> HIDE DEF S
  <2> QED BY <1>3, <1>4, SetInduction
<1> QED BY <1>1, <1>2, <1>5

LEMMA Pow2Sum ==
  ASSUME NEW j \in Nat, NEW k \in Nat
  PROVE  Pow2[j + k] = Pow2[j] * Pow2[k]
<1> DEFINE S == {n \in Nat : Pow2[j + n] = Pow2[j] * Pow2[n]}
<1>1. 0 \in S
  BY Pow2Facts
<1>2. ASSUME NEW n \in Nat, n \in S PROVE n + 1 \in S
  <2>1. /\ Pow2[j + n] = Pow2[j] * Pow2[n]
        /\ Pow2[n + 1] = 2 * Pow2[n] /\ Pow2[j + (n + 1)] = 2 * Pow2[j + n]
        /\ Pow2[j] \in Nat /\ Pow2[n] \in Nat
    <3>1. (j + n) + 1 = j + (n + 1) /\ j + n \in Nat
      OBVIOUS
    <3> QED BY <1>2, <3>1, Pow2Facts
  <2> QED BY <2>1
<1>3. \A n \in Nat : n \in S
  <2> HIDE DEF S
  <2> QED BY <1>1, <1>2, SetInduction
<1> QED BY <1>3

LEMMA Pow2Grows ==
  ASSUME NEW j \in Nat, NEW k \in Nat, j < k
  PROVE  2 * Pow2[j] <= Pow2[k]
<1>1. k - j - 1 \in Nat /\ k = (j + 1) + (k - j - 1)
  OBVIOUS
<1>2. Pow2[k] = Pow2[j + 1] * Pow2[k - j - 1]
  BY <1>1, Pow2Sum
<1>3. Pow2[j + 1] = 2 * Pow2[j] /\ Pow2[j] \in Nat /\ Pow2[k - j - 1] \in Nat \ {0}
  BY <1>1, Pow2Facts
<1> QED BY <1>2, <1>3

LEMMA SpaceFacts == Space \in Nat \ {0} /\ Width \in Nat \ {0}
BY WidthAssumption, Pow2Facts DEF Space

-----------------------------------------------------------------------------
(* Bits and quotients.                                                      *)
LEMMA QuotientByBit ==
  ASSUME NEW a \in Int, NEW k \in Nat
  PROVE  /\ a \div Pow2[k] \in Int /\ a \div Pow2[k + 1] \in Int
         /\ Bit(a, k) \in {0, 1}
         /\ a \div Pow2[k] = 2 * (a \div Pow2[k + 1]) + Bit(a, k)
<1> DEFINE p == Pow2[k]  q == a \div p  r == a % p  u == q \div 2  v == q % 2
<1>1. p \in Nat \ {0} /\ Pow2[k + 1] = 2 * p
  BY Pow2Facts
<1>2. q \in Int /\ r \in 0 .. p - 1 /\ a = p * q + r
  <2> HIDE DEF p
  <2> QED BY <1>1, DivMod
<1>3. u \in Int /\ v \in 0 .. 1 /\ q = 2 * u + v
  <2> HIDE DEF q
  <2> QED BY <1>2, DivMod
<1>4. a \div (2 * p) = u
  <2>1. a = (2 * p) * u + (p * v + r) /\ 0 <= p * v + r /\ p * v + r < 2 * p
    <3> HIDE DEF p, q, r, u, v
    <3> QED BY <1>1, <1>2, <1>3
  <2>2. 2 * p \in Nat \ {0} /\ p * v + r \in Int
    <3> HIDE DEF p, q, r, u, v
    <3> QED BY <1>1, <1>2, <1>3
  <2> HIDE DEF p, q, r, u, v
  <2> QED BY <1>3, <2>1, <2>2, DivModUnique
<1>5. Bit(a, k) = v
  BY DEF Bit
<1> QED BY <1>1, <1>2, <1>3, <1>4, <1>5

(* Two addresses that agree in the bits from j upwards are in the same block *)
(* of 2 to the power j addresses.                                            *)
SameBits(a, b, j) == \A k \in j .. Width - 1 : Bit(a, k) = Bit(b, k)

LEMMA SameBlock ==
  ASSUME NEW a \in Addresses, NEW b \in Addresses, NEW j \in 0 .. Width
  PROVE  SameBits(a, b, j) <=> a \div Pow2[j] = b \div Pow2[j]
<1> DEFINE S == {i \in Nat : i <= Width =>
                   (SameBits(a, b, Width - i) <=>
                      a \div Pow2[Width - i] = b \div Pow2[Width - i])}
<1> USE SpaceFacts
<1>1. a \in Int /\ b \in Int /\ a \in 0 .. Space - 1 /\ b \in 0 .. Space - 1
  BY DEF Addresses
<1>2. 0 \in S
  <2>1. a \div Space = 0 /\ b \div Space = 0
    <3>1. a = Space * 0 + a /\ b = Space * 0 + b
      BY <1>1
    <3> QED BY <1>1, <3>1, DivModUnique
  <2>2. SameBits(a, b, Width)
    BY DEF SameBits
  <2> QED BY <2>1, <2>2 DEF Space
<1>3. ASSUME NEW i \in Nat, i \in S PROVE i + 1 \in S
  <2>1. SUFFICES ASSUME i + 1 <= Width
        PROVE  SameBits(a, b, Width - (i + 1)) <=>
                 a \div Pow2[Width - (i + 1)] = b \div Pow2[Width - (i + 1)]
    OBVIOUS
  <2> DEFINE k == Width - (i + 1)
  <2>2. k \in 0 .. Width - 1 /\ k \in Nat /\ k + 1 = Width - i
    BY <2>1
  <2> HIDE DEF k
  <2>3. SameBits(a, b, k + 1) <=> a \div Pow2[k + 1] = b \div Pow2[k + 1]
    BY <1>3, <2>1, <2>2
  <2>4. SameBits(a, b, k) <=> SameBits(a, b, k + 1) /\ Bit(a, k) = Bit(b, k)
    BY <2>2 DEF SameBits
  <2>5. /\ a \div Pow2[k] = 2 * (a \div Pow2[k + 1]) + Bit(a, k)
        /\ a \div Pow2[k + 1] \in Int /\ Bit(a, k) \in {0, 1}
        /\ b \div Pow2[k] = 2 * (b \div Pow2[k + 1]) + Bit(b, k)
        /\ b \div Pow2[k + 1] \in Int /\ Bit(b, k) \in {0, 1}
    BY <1>1, <2>2, QuotientByBit
  <2>6. a \div Pow2[k] = b \div Pow2[k] <=>
          a \div Pow2[k + 1] = b \div Pow2[k + 1] /\ Bit(a, k) = Bit(b, k)
    BY <2>5
  <2> QED BY <2>3, <2>4, <2>6 DEF k
<1>4. \A i \in Nat : i \in S
  <2> HIDE DEF S
  <2> QED BY <1>2, <1>3, SetInduction
<1>5. Width - j \in Nat /\ Width - j <= Width /\ Width - (Width - j) = j
  OBVIOUS
<1> QED BY <1>4, <1>5

LEMMA BitOfComplement ==
  ASSUME NEW x \in Addresses, NEW k \in 0 .. Width - 1
  PROVE  Bit(Space - 1 - x, k) = 1 - Bit(x, k)
<1> USE SpaceFacts
<1> DEFINE p == Pow2[k]  t == Pow2[Width - k - 1]  q == x \div p  r == x % p
<1>1. p \in Nat \ {0} /\ t \in Nat \ {0} /\ Space = p * (2 * t)
  <2>1. k \in Nat /\ Width - k \in Nat /\ Width - k - 1 \in Nat
        /\ (Width - k - 1) + 1 = Width - k /\ k + (Width - k) = Width
    OBVIOUS
  <2>2. Space = Pow2[k] * Pow2[Width - k]
    BY <2>1, Pow2Sum DEF Space
  <2>3. Pow2[Width - k] = 2 * t
    BY <2>1, Pow2Facts
  <2> QED BY <2>1, <2>2, <2>3, Pow2Facts
<1>2. x \in Int /\ q \in Int /\ r \in 0 .. p - 1 /\ x = p * q + r
  <2>1. x \in Int
    BY DEF Addresses
  <2> HIDE DEF p
  <2> QED BY <1>1, <2>1, DivMod
<1> HIDE DEF p, t, q, r
<1>3. Space - 1 - x = p * (2 * t - 1 - q) + (p - 1 - r)
  BY <1>1, <1>2
<1>4. (Space - 1 - x) \div p = 2 * t - 1 - q
  BY <1>1, <1>2, <1>3, DivModUnique
<1>5. q % 2 \in 0 .. 1 /\ q \div 2 \in Int /\ q = 2 * (q \div 2) + (q % 2)
  BY <1>2, DivMod
<1>6. (2 * t - 1 - q) % 2 = 1 - (q % 2)
  <2>1. 2 * t - 1 - q = 2 * (t - 1 - (q \div 2)) + (1 - (q % 2))
    BY <1>1, <1>2, <1>5
  <2> HIDE DEF q
  <2> QED BY <1>1, <1>2, <1>5, <2>1, DivModUnique
<1> QED BY <1>4, <1>6 DEF Bit, p, q

(* The low bits of 2 ^ n - 1 are set and the others clear.                  *)
LEMMA BitOfOnes ==
  ASSUME NEW n \in Nat, NEW k \in Nat
  PROVE  Bit(Pow2[n] - 1, k) = IF k < n THEN 1 ELSE 0
<1> DEFINE p == Pow2[k]
<1>1. p \in Nat \ {0} /\ Pow2[n] \in Nat \ {0}
  BY Pow2Facts
<1>2. CASE k < n
  <2> DEFINE t == Pow2[n - k - 1]
  <2>1. t \in Nat \ {0} /\ Pow2[n] = p * (2 * t)
    <3>1. n - k \in Nat /\ n - k - 1 \in Nat /\ (n - k - 1) + 1 = n - k /\ k + (n - k) = n
      BY <1>2
    <3>2. Pow2[n] = Pow2[k] * Pow2[n - k]
      BY <3>1, Pow2Sum
    <3> QED BY <3>1, <3>2, Pow2Facts
  <2> HIDE DEF t, p
  <2>2. Pow2[n] - 1 = p * (2 * t - 1) + (p - 1)
    BY <1>1, <2>1
  <2>3. (Pow2[n] - 1) \div p = 2 * t - 1
    BY <1>1, <2>1, <2>2, DivModUnique, SMTT(30)
  <2>4. (2 * t - 1) % 2 = 1
    <3>1. 2 * t - 1 = 2 * (t - 1) + 1
      BY <2>1
    <3> QED BY <2>1, <3>1, DivModUnique
  <2> QED BY <1>2, <2>3, <2>4 DEF Bit, p
<1>3. CASE ~(k < n)
  <2>1. Pow2[n] <= p
    <3>1. CASE k = n
      BY <1>1, <3>1
    <3>2. CASE n < k
      BY <1>1, <3>2, Pow2Grows
    <3> QED BY <1>3, <3>1, <3>2
  <2> HIDE DEF p
  <2>2. Pow2[n] - 1 = p * 0 + (Pow2[n] - 1)
    BY <1>1
  <2>3. (Pow2[n] - 1) \div p = 0
    BY <1>1, <2>1, <2>2, DivModUnique
  <2> QED BY <1>3, <2>3 DEF Bit, p
<1> QED BY <1>2, <1>3

-----------------------------------------------------------------------------
(* The mask of a region.                                                    *)
LEMMA BitOfMask ==
  ASSUME NEW z \in Addresses, NEW k \in 0 .. Width - 1
  PROVE  Bit(MaskOf(z), k) = IF z = 0 THEN 0 ELSE 1 - Bit(z - 1, k)
<1> USE SpaceFacts
<1>1. z \in Int /\ 0 <= z /\ z < Space
  BY DEF Addresses
<1>2. CASE z = 0
  <2>1. (z - 1) % Space = Space - 1
    <3>1. z - 1 = Space * (0 - 1) + (Space - 1)
      BY <1>2
    <3> QED BY <1>1, <3>1, DivModUnique
  <2>2. MaskOf(z) = 0
    BY <2>1 DEF MaskOf
  <2>3. Bit(0, k) = 0
    <3>1. k \in Nat /\ Pow2[0] = 1
      BY Pow2Facts
    <3>2. Bit(Pow2[0] - 1, k) = 0
      <4>1. 0 \in Nat /\ ~(k < 0)
        BY <3>1
      <4> QED BY <3>1, <4>1, BitOfOnes
    <3> QED BY <3>1, <3>2
  <2> QED BY <1>2, <2>2, <2>3
<1>3. CASE z # 0
  <2>1. z - 1 \in Addresses
    BY <1>1, <1>3 DEF Addresses
  <2>2. (z - 1) % Space = z - 1
    <3>1. z - 1 = Space * 0 + (z - 1)
      BY <1>1
    <3> QED BY <1>1, <1>3, <3>1, DivModUnique
  <2> QED BY <1>3, <2>1, <2>2, BitOfComplement DEF MaskOf
<1> QED BY <1>2, <1>3

(* A power of two keeps the bits that number its blocks.                    *)
LEMMA MaskHitOfPower ==
  ASSUME NEW b \in Addresses, NEW a \in Addresses, NEW n \in 0 .. Width - 1
  PROVE  MaskHit(b, Pow2[n], a) <=> a \div Pow2[n] = b \div Pow2[n]
<1> USE SpaceFacts
<1>1. Pow2[n] \in Addresses /\ Pow2[n] # 0
  <2>1. n \in Nat /\ n < Width
    OBVIOUS
  <2>2. Pow2[n] \in Nat \ {0} /\ 2 * Pow2[n] <= Space
    BY <2>1, Pow2Facts, Pow2Grows DEF Space
  <2> QED BY <2>2 DEF Addresses
<1>2. \A k \in 0 .. Width - 1 : Bit(MaskOf(Pow2[n]), k) = IF k < n THEN 0 ELSE 1
  <2>1. SUFFICES ASSUME NEW k \in 0 .. Width - 1
                 PROVE  Bit(MaskOf(Pow2[n]), k) = IF k < n THEN 0 ELSE 1
    OBVIOUS
  <2>2. Bit(MaskOf(Pow2[n]), k) = 1 - Bit(Pow2[n] - 1, k)
    BY <1>1, BitOfMask
  <2>3. Bit(Pow2[n] - 1, k) = IF k < n THEN 1 ELSE 0
    <3>1. n \in Nat /\ k \in Nat
      OBVIOUS
    <3> QED BY <3>1, BitOfOnes
  <2> QED BY <2>2, <2>3
<1>3. MaskHit(b, Pow2[n], a) <=> SameBits(a, b, n)
  BY <1>2 DEF MaskHit, SameBits
<1>4. n \in 0 .. Width
  OBVIOUS
<1> QED BY <1>3, <1>4, SameBlock

(* A size that is no power of two has a zero below its leading one.         *)
LEMMA HoleInSize ==
  ASSUME NEW z \in Addresses, z # 0, \A k \in 0 .. Width - 1 : z # Pow2[k]
  PROVE  \E j \in 0 .. Width - 1 : Pow2[j] <= z - 1 /\ Bit(z - 1, j) = 0
<1> USE SpaceFacts
<1>1. z \in Int /\ 0 < z /\ z < Space
  BY DEF Addresses
<1>2. PICK n \in 0 .. Width - 1 : Pow2[n] <= z /\ z < Pow2[n + 1]
  <2>1. SUFFICES ASSUME \A n \in 0 .. Width - 1 : Pow2[n] <= z => Pow2[n + 1] <= z
                 PROVE  FALSE
    <3>1. \A n \in 0 .. Width - 1 : Pow2[n + 1] \in Int /\ Pow2[n] \in Int
      BY Pow2Facts
    <3> QED BY <1>1, <3>1
  <2> DEFINE S == {n \in Nat : n <= Width => Pow2[n] <= z}
  <2>2. 0 \in S
    BY <1>1, Pow2Facts
  <2>3. ASSUME NEW n \in Nat, n \in S PROVE n + 1 \in S
    <3>1. SUFFICES ASSUME n + 1 <= Width PROVE Pow2[n + 1] <= z
      OBVIOUS
    <3>2. n \in 0 .. Width - 1 /\ Pow2[n] <= z
      BY <2>3, <3>1
    <3> QED BY <2>1, <3>2
  <2>4. \A n \in Nat : n \in S
    <3> HIDE DEF S
    <3> QED BY <2>2, <2>3, SetInduction
  <2>5. Pow2[Width] <= z
    BY <2>4
  <2> QED BY <1>1, <2>5 DEF Space
<1>3. n \in Nat /\ n + 1 \in 0 .. Width /\ Pow2[n] \in Nat \ {0} /\ Pow2[n + 1] \in Nat \ {0}
  BY Pow2Facts
<1>4. Pow2[n] <= z - 1 /\ z - 1 # Pow2[n + 1] - 1 /\ z - 1 \in Addresses
  BY <1>1, <1>2, <1>3 DEF Addresses
<1>5. Pow2[n + 1] - 1 \in Addresses /\ Pow2[n + 1] <= Space
  <2>1. Pow2[n + 1] <= Space
    <3>1. CASE n + 1 = Width
      BY <3>1 DEF Space
    <3>2. CASE n + 1 < Width
      <4>1. 2 * Pow2[n + 1] <= Space
        BY <1>3, <3>2, Pow2Grows DEF Space
      <4> QED BY <1>3, <4>1
    <3> QED BY <1>3, <3>1, <3>2
  <2> QED BY <1>3, <2>1 DEF Addresses
<1>6. PICK k \in 0 .. Width - 1 : Bit(z - 1, k) # Bit(Pow2[n + 1] - 1, k)
  <2>1. SUFFICES ASSUME SameBits(z - 1, Pow2[n + 1] - 1, 0) PROVE FALSE
    BY DEF SameBits
  <2>2. (z - 1) \div Pow2[0] = (Pow2[n + 1] - 1) \div Pow2[0]
    <3>1. 0 \in 0 .. Width
      OBVIOUS
    <3> QED BY <1>4, <1>5, <2>1, <3>1, SameBlock
  <2>3. \A x \in Int : x \div 1 = x
    BY SMT
  <2> QED BY <1>1, <1>3, <1>4, <2>2, <2>3, Pow2Facts
<1>7. Bit(Pow2[n + 1] - 1, k) = IF k < n + 1 THEN 1 ELSE 0
  <2>1. n + 1 \in Nat /\ k \in Nat
    BY <1>3
  <2> QED BY <2>1, BitOfOnes
<1>8. k < n + 1
  <2>1. SUFFICES ASSUME ~(k < n + 1) PROVE FALSE
    OBVIOUS
  <2>2. Pow2[k] \in Nat \ {0} /\ z - 1 < Pow2[k]
    <3>1. CASE k = n + 1
      BY <1>1, <1>2, <1>3, <3>1
    <3>2. CASE n + 1 < k
      <4>1. Pow2[k] \in Nat \ {0} /\ 2 * Pow2[n + 1] <= Pow2[k]
        BY <1>3, <3>2, Pow2Grows, Pow2Facts
      <4> QED BY <1>1, <1>2, <1>3, <4>1
    <3> QED BY <1>3, <2>1, <3>1, <3>2
  <2>3. (z - 1) \div Pow2[k] = 0
    <3>1. z - 1 = Pow2[k] * 0 + (z - 1)
      BY <1>1, <2>2
    <3> QED BY <1>1, <2>2, <3>1, DivModUnique
  <2>4. Bit(z - 1, k) = 0
    BY <2>3 DEF Bit
  <2> QED BY <1>6, <1>7, <2>1, <2>4
<1>9. Bit(z - 1, k) = 0
  <2>1. Bit(z - 1, k) \in {0, 1}
    BY <1>1, QuotientByBit
  <2> QED BY <1>6, <1>7, <1>8, <2>1
<1>10. Pow2[k] <= z - 1
  <2>1. CASE k = n
    BY <1>4, <2>1
  <2>2. CASE k < n
    <3>1. Pow2[k] \in Nat /\ 2 * Pow2[k] <= Pow2[n]
      BY <1>3, <2>2, Pow2Grows, Pow2Facts
    <3> QED BY <1>1, <1>3, <1>4, <3>1
  <2> QED BY <1>3, <1>8, <2>1, <2>2
<1> QED BY <1>9, <1>10

-----------------------------------------------------------------------------
(* The four kinds of region.                                                *)
LEMMA SumInSpace ==
  ASSUME NEW b \in Addresses, NEW z \in Addresses
  PROVE  (b + z) % Space = IF b + z < Space THEN b + z ELSE b + z - Space
<1> USE SpaceFacts
<1>1. b \in Int /\ 0 <= b /\ b < Space /\ z \in Int /\ 0 <= z /\ z < Space
  BY DEF Addresses
<1>2. CASE b + z < Space
  <2>1. b + z = Space * 0 + (b + z)
    BY <1>1
  <2> QED BY <1>1, <1>2, <2>1, DivModUnique
<1>3. CASE ~(b + z < Space)
  <2> DEFINE s == b + z - Space
  <2>1. s \in Int /\ 0 <= s /\ s < Space /\ b + z \in Int /\ b + z = Space * 1 + s
    BY <1>1, <1>3
  <2> HIDE DEF s
  <2>2. (b + z) % Space = s
    BY <2>1, DivModUnique, SMTT(30)
  <2> QED BY <1>3, <2>2 DEF s
<1> QED BY <1>2, <1>3

LEMMA PlainRegion ==
  ASSUME NEW b \in Addresses, NEW z \in Addresses, NEW a \in Addresses, Plain(b, z)
  PROVE  RangeHit(b, z, a, Space) <=> MaskHit(b, z, a)
<1> USE SpaceFacts
<1>1. PICK n \in 0 .. Width - 1 : z = Pow2[n]
  BY DEF Plain
<1>2. /\ b % z = 0 /\ b + z < Space /\ z \in Nat \ {0}
      /\ b \in Int /\ a \in Int /\ 0 <= a /\ 0 <= b
  BY <1>1, Pow2Facts DEF Plain, Addresses
<1> DEFINE q == b \div z  u == a \div z  r == a % z
<1>3. q \in Int /\ b = z * q /\ u \in Int /\ r \in 0 .. z - 1 /\ a = z * u + r
  <2>1. q \in Int /\ b = z * q + (b % z)
    BY <1>2, DivMod
  <2>2. b = z * q
    <3> HIDE DEF q
    <3> QED BY <1>2, <2>1
  <2>3. u \in Int /\ r \in 0 .. z - 1 /\ a = z * u + r
    BY <1>2, DivMod
  <2> QED BY <2>1, <2>2, <2>3
<1>4. RangeHit(b, z, a, Space) <=> b <= a /\ a < b + z
  BY <1>2, SumInSpace DEF RangeHit
<1>5. MaskHit(b, z, a) <=> u = q
  BY <1>1, MaskHitOfPower
<1> HIDE DEF q, u, r
<1>6. b <= a /\ a < b + z => u = q
  <2>1. SUFFICES ASSUME b <= a, a < b + z PROVE u = q
    OBVIOUS
  <2>2. a - b \in 0 .. z - 1 /\ a = z * q + (a - b)
    BY <1>2, <1>3, <2>1
  <2>3. z * q + (a - b) = z * u + r
    BY <1>3, <2>2
  <2> QED BY <1>2, <1>3, <2>2, <2>3, QuotientUnique
<1>7. u = q => b <= a /\ a < b + z
  BY <1>2, <1>3
<1> QED BY <1>4, <1>5, <1>6, <1>7

(* No address is in the range of an empty region or of one that wraps, and  *)
(* its own base hits its mask.                                              *)
LEMMA UnreachableRegion ==
  ASSUME NEW b \in Addresses, NEW z \in Addresses, z = 0 \/ ~(b + z < Space)
  PROVE  ~RangeHit(b, z, b, Space) /\ MaskHit(b, z, b)
<1> USE SpaceFacts
<1>1. b \in Int /\ z \in Int /\ b < Space /\ z < Space
  BY DEF Addresses
<1>2. (b + z) % Space = IF b + z < Space THEN b + z ELSE b + z - Space
  BY SumInSpace
<1>3. (b + z) % Space \in Int /\ (b + z) % Space <= b
  BY <1>1, <1>2
<1> QED BY <1>1, <1>2, <1>3 DEF RangeHit, MaskHit

LEMMA OddRegion ==
  ASSUME NEW b \in Addresses, NEW z \in Addresses, z # 0, b + z < Space,
         \A k \in 0 .. Width - 1 : z # Pow2[k]
  PROVE  \E a \in Addresses : RangeHit(b, z, a, Space) /\ ~MaskHit(b, z, a)
<1> USE SpaceFacts
<1>1. b \in Int /\ z \in Int /\ 0 <= b /\ 0 <= z
  BY DEF Addresses
<1>2. PICK j \in 0 .. Width - 1 : Pow2[j] <= z - 1 /\ Bit(z - 1, j) = 0
  BY HoleInSize
<1> DEFINE p == Pow2[j]  a == b + p
<1>3. p \in Nat \ {0} /\ a \in Addresses
  <2>1. p \in Nat \ {0}
    BY Pow2Facts
  <2> HIDE DEF p
  <2>2. p <= z - 1
    BY <1>2 DEF p
  <2> QED BY <1>1, <2>1, <2>2 DEF Addresses
<1>4. RangeHit(b, z, a, Space)
  BY <1>1, <1>2, <1>3, SumInSpace DEF RangeHit
<1>5. Bit(MaskOf(z), j) = 1
  BY <1>2, BitOfMask
<1>6. Bit(a, j) # Bit(b, j)
  <2> DEFINE q == b \div p  r == b % p
  <2>1. q \in Int /\ r \in 0 .. p - 1 /\ b = p * q + r
    <3> HIDE DEF p
    <3> QED BY <1>1, <1>3, DivMod
  <2>2. a \div p = q + 1
    <3> HIDE DEF q, r, p
    <3>1. b + p = p * (q + 1) + r /\ b + p \in Int /\ q + 1 \in Int /\ r \in Int
          /\ 0 <= r /\ r < p
      BY <1>1, <1>3, <2>1
    <3> QED BY <1>3, <3>1, DivModUnique
  <2>3. q % 2 # (q + 1) % 2
    <3> HIDE DEF q
    <3> QED BY <2>1
  <2> QED BY <2>2, <2>3 DEF Bit
<1>7. ~MaskHit(b, z, a)
  <2> HIDE DEF a
  <2> QED BY <1>5, <1>6 DEF MaskHit
<1> QED BY <1>3, <1>4, <1>7

LEMMA MisalignedRegion ==
  ASSUME NEW b \in Addresses, NEW n \in 0 .. Width - 1, NEW z \in Addresses, z = Pow2[n],
         b + z < Space, b % z # 0
  PROVE  \E a \in Addresses : RangeHit(b, z, a, Space) /\ ~MaskHit(b, z, a)
<1> USE SpaceFacts
<1>1. b \in Int /\ 0 <= b /\ z \in Nat \ {0}
  BY Pow2Facts DEF Addresses
<1> DEFINE q == b \div z  r == b % z  a == z * (q + 1)
<1>2. q \in Int /\ r \in 0 .. z - 1 /\ b = z * q + r /\ r # 0
  BY <1>1, DivMod
<1>3. a \in Int /\ b < a /\ a < b + z
  <2> HIDE DEF q, r
  <2> QED BY <1>1, <1>2
<1>4. a \in Addresses /\ RangeHit(b, z, a, Space)
  <2>1. (b + z) % Space = b + z
    BY SumInSpace
  <2> HIDE DEF a
  <2>2. a \in Addresses
    BY <1>1, <1>3 DEF Addresses
  <2>3. b <= a
    BY <1>1, <1>3
  <2> QED BY <1>3, <2>1, <2>2, <2>3 DEF RangeHit
<1>5. a \div z = q + 1
  <2>1. a = z * (q + 1) + 0
    <3> HIDE DEF q
    <3> QED BY <1>1, <1>2
  <2> HIDE DEF a, q
  <2> QED BY <1>1, <1>2, <1>3, <2>1, DivModUnique
<1>6. ~MaskHit(b, z, a)
  <2>1. a \div z # b \div z
    BY <1>2, <1>5
  <2> HIDE DEF a
  <2> QED BY <1>4, <2>1, MaskHitOfPower
<1> QED BY <1>4, <1>6

(* The two interconnects of ibex_soc agree on a region exactly if it is     *)
(* plain, whatever the width of an address (wb_interconnect_sharedbus.sv:92 *)
(* against the mask of wb_interconnect_xbar.sv).                            *)
LEMMA RegionsCompared ==
  ASSUME base_addr \in Addresses, size \in Addresses, adr \in Addresses
  PROVE  InterchangeableIffPlain
<1>1. CASE Plain(base_addr, size)
  BY <1>1, PlainRegion DEF InterchangeableIffPlain, ss, request
<1>2. CASE ~Plain(base_addr, size)
  <2>1. SUFFICES \E a \in Addresses :
                   RangeHit(base_addr, size, a, Space) # MaskHit(base_addr, size, a)
    BY <1>2 DEF InterchangeableIffPlain
  <2>2. \A b, z, a : RangeHit(b, z, a, Space) \in BOOLEAN /\ MaskHit(b, z, a) \in BOOLEAN
    BY DEF RangeHit, MaskHit
  <2>3. CASE size = 0 \/ ~(base_addr + size < Space)
    BY <2>2, <2>3, UnreachableRegion
  <2>4. CASE size # 0 /\ base_addr + size < Space
              /\ \A k \in 0 .. Width - 1 : size # Pow2[k]
    BY <2>2, <2>4, OddRegion
  <2>5. CASE size # 0 /\ base_addr + size < Space
              /\ \E k \in 0 .. Width - 1 : size = Pow2[k]
    <3>1. PICK n \in 0 .. Width - 1 : size = Pow2[n]
      BY <2>5
    <3>2. base_addr % size # 0
      BY <1>2, <2>5, <3>1 DEF Plain
    <3> QED BY <2>2, <2>5, <3>1, <3>2, MisalignedRegion
  <2> QED BY <2>3, <2>4, <2>5
<1> QED BY <1>1, <1>2

THEOREM AlwaysInterchangeableIffPlain == Spec => []InterchangeableIffPlain
<1> DEFINE Typed == base_addr \in Addresses /\ size \in Addresses /\ adr \in Addresses
<1>1. Init => Typed
  BY DEF Init
<1>2. Typed /\ [Next]_vars => Typed'
  BY DEF Next, vars
<1>3. Typed => InterchangeableIffPlain
  BY RegionsCompared
<1> QED BY <1>1, <1>2, <1>3, PTL DEF Spec
=============================================================================
