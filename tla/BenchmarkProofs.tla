--------------------------- MODULE BenchmarkProofs ---------------------------
(***************************************************************************)
(* Proofs about the benchmarks Crc32 and Aes: that crc_32 computes the     *)
(* checksum of the serial register; that for every key, key size and       *)
(* length key expansion, word tables and inverted subkeys are the ciphers  *)
(* of FIPS 197, decryption gives the plaintext back, and no array is left; *)
(* that both verify what they computed; on their own and composed with the *)
(* start-up code and the other programs (Programs).                        *)
(***************************************************************************)
EXTENDS Programs, Basics

-----------------------------------------------------------------------------
(* Crc32. *)

LEMMA ShiftDownBits ==
  ASSUME NEW a \in SUBSET Nat, NEW k \in Nat
  PROVE  /\ \A x : x \in ShiftDown(a, k) <=> x \in Nat /\ x + k \in a
         /\ ShiftDown(a, k) \in SUBSET Nat
  <1>1. ASSUME NEW x, x \in Nat, x + k \in a
        PROVE  x \in ShiftDown(a, k)
    BY <1>1 DEF ShiftDown
  <1>2. ASSUME NEW x, x \in ShiftDown(a, k)
        PROVE  x \in Nat /\ x + k \in a
    BY <1>2 DEF ShiftDown
  <1> QED BY <1>1, <1>2

LEMMA XorBits ==
  ASSUME NEW a, NEW b
  PROVE  \A x : x \in Xor(a, b) <=> (x \in a /\ x \notin b) \/ (x \in b /\ x \notin a)
  BY DEF Xor

LEMMA WordsAreBits == Word \subseteq SUBSET Nat /\ Octet \subseteq Word
  BY DEF Word, Octet

LEMMA ClosedWords ==
  ASSUME NEW a \in Word, NEW b \in Word, NEW k \in Nat
  PROVE  Xor(a, b) \in Word /\ ShiftDown(a, k) \in Word
  <1>1. Xor(a, b) \in Word
    BY DEF Word, Xor
  <1>2. ASSUME NEW x \in ShiftDown(a, k)
        PROVE  x \in 0 .. 31
    BY <1>2 DEF Word, ShiftDown
  <1> QED BY <1>1, <1>2 DEF Word

LEMMA XorAssociates ==
  ASSUME NEW a, NEW b, NEW c
  PROVE  /\ Xor(Xor(a, b), c) = Xor(a, Xor(b, c))
         /\ Xor(a, b) = Xor(b, a)
         /\ Xor(a, {}) = a
         /\ Xor(a, a) = {}
  BY Zenon DEF Xor

(* The right shift is linear. *)
LEMMA ShiftDownXor ==
  ASSUME NEW a \in SUBSET Nat, NEW b \in SUBSET Nat, NEW k \in Nat
  PROVE  ShiftDown(Xor(a, b), k) = Xor(ShiftDown(a, k), ShiftDown(b, k))
  <1>1. Xor(a, b) \in SUBSET Nat
    BY DEF Xor
  <1>2. ASSUME NEW x
        PROVE  x \in ShiftDown(Xor(a, b), k) <=> x \in Xor(ShiftDown(a, k), ShiftDown(b, k))
    <2>1. x \in ShiftDown(Xor(a, b), k) <=> x \in Nat /\ x + k \in Xor(a, b)
      BY <1>1, ShiftDownBits
    <2>2. /\ x \in ShiftDown(a, k) <=> x \in Nat /\ x + k \in a
          /\ x \in ShiftDown(b, k) <=> x \in Nat /\ x + k \in b
      BY ShiftDownBits
    <2> QED BY <2>1, <2>2 DEF Xor
  <1> QED BY <1>2

LEMMA ShiftDownTwice ==
  ASSUME NEW a \in SUBSET Nat, NEW k \in Nat
  PROVE  ShiftDown(ShiftDown(a, k), 1) = ShiftDown(a, k + 1)
  <1>1. ShiftDown(a, k) \in SUBSET Nat
    BY ShiftDownBits
  <1>2. ASSUME NEW x
        PROVE  x \in ShiftDown(ShiftDown(a, k), 1) <=> x \in ShiftDown(a, k + 1)
    <2>1. x \in ShiftDown(ShiftDown(a, k), 1) <=> x \in Nat /\ x + 1 \in ShiftDown(a, k)
      BY <1>1, ShiftDownBits
    <2>2. x + 1 \in ShiftDown(a, k) <=> x + 1 \in Nat /\ (x + 1) + k \in a
      BY ShiftDownBits
    <2>3. x \in ShiftDown(a, k + 1) <=> x \in Nat /\ x + (k + 1) \in a
      BY ShiftDownBits
    <2>4. x \in Nat => (x + 1) + k = x + (k + 1) /\ x + 1 \in Nat
      OBVIOUS
    <2> QED BY <2>1, <2>2, <2>3, <2>4
  <1> QED BY <1>2

LEMMA ShiftDownNone ==
  ASSUME NEW a \in SUBSET Nat
  PROVE  ShiftDown(a, 0) = a
  <1>1. ASSUME NEW x
        PROVE  x \in ShiftDown(a, 0) <=> x \in a
    <2>1. x \in ShiftDown(a, 0) <=> x \in Nat /\ x + 0 \in a
      BY ShiftDownBits
    <2>2. x \in Nat => x + 0 = x
      OBVIOUS
    <2>3. x \in a => x \in Nat
      OBVIOUS
    <2> QED BY <2>1, <2>2, <2>3
  <1> QED BY <1>1

LEMMA XorRegroups ==
  ASSUME NEW a, NEW b, NEW c, NEW d
  PROVE  Xor(Xor(a, b), Xor(c, d)) = Xor(Xor(a, c), Xor(b, d))
  BY XorAssociates

(* One shift/xor operation is linear. *)
LEMMA Shift1Xor ==
  ASSUME NEW a \in Word, NEW b \in Word
  PROVE  Shift1(Xor(a, b)) = Xor(Shift1(a), Shift1(b))
  <1> DEFINE term(c) == IF 0 \in c THEN Poly ELSE {}
  <1>1. term(Xor(a, b)) = Xor(term(a), term(b))
    <2>1. 0 \in Xor(a, b) <=> ((0 \in a) # (0 \in b))
      BY DEF Xor
    <2>2. Xor(Poly, {}) = Poly /\ Xor({}, Poly) = Poly /\ Xor({}, {}) = {} /\ Xor(Poly, Poly) = {}
      BY XorAssociates
    <2>3. \A c : /\ 0 \in c => term(c) = Poly
                 /\ 0 \notin c => term(c) = {}
      OBVIOUS
    <2> HIDE DEF term
    <2>4. CASE 0 \in a /\ 0 \in b
      BY <2>1, <2>2, <2>3, <2>4
    <2>5. CASE 0 \in a /\ 0 \notin b
      BY <2>1, <2>2, <2>3, <2>5
    <2>6. CASE 0 \notin a /\ 0 \in b
      BY <2>1, <2>2, <2>3, <2>6
    <2>7. CASE 0 \notin a /\ 0 \notin b
      BY <2>1, <2>2, <2>3, <2>7
    <2> QED BY <2>4, <2>5, <2>6, <2>7
  <1>2. ShiftDown(Xor(a, b), 1) = Xor(ShiftDown(a, 1), ShiftDown(b, 1))
    BY ShiftDownXor, WordsAreBits
  <1>3. \A c : Shift1(c) = Xor(ShiftDown(c, 1), term(c))
    BY DEF Shift1
  <1> HIDE DEF term
  <1> QED BY <1>1, <1>2, <1>3, XorRegroups

LEMMA PolyIsWord == Poly \in Word
  BY DEF Poly, Word

LEMMA Shift1Word ==
  ASSUME NEW c \in Word
  PROVE  Shift1(c) \in Word
  <1>1. ShiftDown(c, 1) \in Word /\ {} \in Word
    BY ClosedWords DEF Word
  <1> QED BY <1>1, PolyIsWord, ClosedWords DEF Shift1

LEMMA Shift8Xor ==
  ASSUME NEW a \in Word, NEW b \in Word
  PROVE  Shift8(Xor(a, b)) = Xor(Shift8(a), Shift8(b))
  BY Shift1Xor, Shift1Word DEF Shift8

(* Feeding a bit, and then the rest of the octet, is shifting their xor.    *)
LEMMA FeedIsShift ==
  ASSUME NEW c \in Word, NEW o \in Word, NEW b \in Nat, b \in o <=> 0 \in ShiftDown(o, b)
  PROVE  /\ Feed(c, b \in o) \in Word
         /\ Shift1(Xor(c, ShiftDown(o, b))) = Xor(Feed(c, b \in o), ShiftDown(o, b + 1))
  <1> DEFINE p == ShiftDown(o, b)
  <1> DEFINE term == IF (0 \in c) # (b \in o) THEN Poly ELSE {}
  <1>1. p \in Word /\ ShiftDown(c, 1) \in Word /\ term \in Word
    BY ClosedWords, PolyIsWord DEF Word
  <1>2. Feed(c, b \in o) = Xor(ShiftDown(c, 1), term)
    BY DEF Feed
  <1>3. 0 \in Xor(c, p) <=> ((0 \in c) # (b \in o))
    BY DEF Xor
  <1>4. Shift1(Xor(c, p)) = Xor(ShiftDown(Xor(c, p), 1), term)
    BY <1>3 DEF Shift1
  <1>5. ShiftDown(Xor(c, p), 1) = Xor(ShiftDown(c, 1), ShiftDown(o, b + 1))
    BY <1>1, ShiftDownXor, ShiftDownTwice, WordsAreBits
  <1> HIDE DEF term, p
  <1>6. Shift1(Xor(c, p)) = Xor(Xor(ShiftDown(c, 1), term), ShiftDown(o, b + 1))
    BY <1>4, <1>5, XorAssociates
  <1> QED BY <1>1, <1>2, <1>6, ClosedWords DEF p

LEMMA OctetShifted ==
  ASSUME NEW o \in Octet
  PROVE  /\ o \in Word
         /\ ShiftDown(o, 0) = o /\ ShiftDown(o, 8) = {}
         /\ \A b \in 0 .. 7 : b \in o <=> 0 \in ShiftDown(o, b)
  <1>1. o \in SUBSET Nat /\ o \in Word
    BY WordsAreBits
  <1>2. \A k \in Nat : \A x : x \in ShiftDown(o, k) <=> x \in Nat /\ x + k \in o
    BY <1>1, ShiftDownBits
  <1>3. ShiftDown(o, 0) = o
    BY <1>1, ShiftDownNone
  <1>4. \A x : x \notin ShiftDown(o, 8)
    BY <1>2 DEF Octet
  <1>5. \A b \in 0 .. 7 : b \in o <=> 0 \in ShiftDown(o, b)
    BY <1>2
  <1> QED BY <1>1, <1>3, <1>4, <1>5

(* Eight shift/xor operations after the xor with an octet are the eight     *)
(* shifts of the serial register.                                           *)
LEMMA ShiftInIsShift8 ==
  ASSUME NEW c \in Word, NEW o \in Octet
  PROVE  ShiftIn(c, o) = Shift8(Xor(c, o)) /\ ShiftIn(c, o) \in Word
  <1> DEFINE c1 == Feed(c, 0 \in o)   c2 == Feed(c1, 1 \in o)
             c3 == Feed(c2, 2 \in o)  c4 == Feed(c3, 3 \in o)
             c5 == Feed(c4, 4 \in o)  c6 == Feed(c5, 5 \in o)
             c7 == Feed(c6, 6 \in o)  c8 == Feed(c7, 7 \in o)
  <1>1. ShiftIn(c, o) = c8
    BY DEF ShiftIn
  <1>2. \A d \in Word, b \in 0 .. 7 :
          /\ Feed(d, b \in o) \in Word
          /\ Shift1(Xor(d, ShiftDown(o, b))) = Xor(Feed(d, b \in o), ShiftDown(o, b + 1))
    <2> TAKE d \in Word, b \in 0 .. 7
    <2>1. o \in Word /\ b \in Nat /\ (b \in o <=> 0 \in ShiftDown(o, b))
      BY OctetShifted
    <2> QED BY <2>1, FeedIsShift, Zenon
  <1>3. /\ c1 \in Word /\ c2 \in Word /\ c3 \in Word /\ c4 \in Word
        /\ c5 \in Word /\ c6 \in Word /\ c7 \in Word /\ c8 \in Word
    BY <1>2
  <1>4. /\ Shift1(Xor(c,  ShiftDown(o, 0))) = Xor(c1, ShiftDown(o, 1))
        /\ Shift1(Xor(c1, ShiftDown(o, 1))) = Xor(c2, ShiftDown(o, 2))
        /\ Shift1(Xor(c2, ShiftDown(o, 2))) = Xor(c3, ShiftDown(o, 3))
        /\ Shift1(Xor(c3, ShiftDown(o, 3))) = Xor(c4, ShiftDown(o, 4))
        /\ Shift1(Xor(c4, ShiftDown(o, 4))) = Xor(c5, ShiftDown(o, 5))
        /\ Shift1(Xor(c5, ShiftDown(o, 5))) = Xor(c6, ShiftDown(o, 6))
        /\ Shift1(Xor(c6, ShiftDown(o, 6))) = Xor(c7, ShiftDown(o, 7))
        /\ Shift1(Xor(c7, ShiftDown(o, 7))) = Xor(c8, ShiftDown(o, 8))
    BY <1>2, <1>3
  <1> HIDE DEF c1, c2, c3, c4, c5, c6, c7, c8
  <1>5. Xor(c, ShiftDown(o, 0)) = Xor(c, o) /\ Xor(c8, ShiftDown(o, 8)) = c8
    BY OctetShifted, XorAssociates
  <1>6. Shift8(Xor(c, o)) = c8
    BY <1>4, <1>5 DEF Shift8
  <1> QED BY <1>1, <1>3, <1>6

(* Eight operations only shift a word whose lowest octet is zero.           *)
LEMMA Shift8High ==
  ASSUME NEW h \in Word, \A b \in 0 .. 7 : b \notin h
  PROVE  Shift8(h) = ShiftDown(h, 8)
  <1>0. /\ h \in SUBSET Nat
        /\ \A k \in Nat : \A x : x \in ShiftDown(h, k) <=> x \in Nat /\ x + k \in h
    BY ShiftDownBits, WordsAreBits
  <1>1. \A k \in 0 .. 7 : Shift1(ShiftDown(h, k)) = ShiftDown(h, k + 1)
    <2> TAKE k \in 0 .. 7
    <2>1. 0 \notin ShiftDown(h, k)
      <3>1. k \in Nat /\ 0 + k = k /\ k \notin h
        OBVIOUS
      <3> QED BY <1>0, <3>1
    <2>2. ShiftDown(ShiftDown(h, k), 1) = ShiftDown(h, k + 1)
      BY ShiftDownTwice, WordsAreBits
    <2> QED BY <2>1, <2>2, XorAssociates DEF Shift1
  <1>3. ShiftDown(h, 0) = h
    BY <1>0, ShiftDownNone
  <1> QED BY <1>1, <1>3 DEF Shift8

(* UPDC32 is eight shifts of the serial register.                           *)
LEMMA UpdateIsShiftIn ==
  ASSUME NEW c \in Word, NEW o \in Octet
  PROVE  UPDC32(o, c) = ShiftIn(c, o)
  <1> DEFINE x == Xor(c, o)  l == OctetAt(x, 0)  h == x \ (0 .. 7)
  <1>1. x \in Word /\ o \in Word
    BY OctetShifted, ClosedWords
  <1>2. l \in Octet /\ l \in Word /\ h \in Word /\ x = Xor(h, l)
    <2>1. l = x \cap (0 .. 7)
      BY DEF OctetAt
    <2> HIDE DEF x, l
    <2>2. x = Xor(h, l)
      BY <2>1 DEF Xor
    <2> QED BY <1>1, <2>1, <2>2 DEF Octet, Word
  <1>3. Shift8(x) = Xor(Shift8(h), Shift8(l))
    BY <1>2, Shift8Xor
  <1>4. Shift8(h) = ShiftDown(h, 8)
    BY <1>2, Shift8High
  <1>5. ShiftDown(h, 8) = ShiftDown(c, 8)
    <2>1. \A b : b \in h <=> b \in x /\ b \notin 0 .. 7
      OBVIOUS
    <2>2. \A b : b \in Nat /\ b >= 8 => (b \in x <=> b \in c)
      BY DEF Xor, Octet
    <2>3. \A b : b \in ShiftDown(h, 8) <=> b \in Nat /\ b + 8 \in h
      BY <1>2, ShiftDownBits, WordsAreBits
    <2>4. \A b : b \in ShiftDown(c, 8) <=> b \in Nat /\ b + 8 \in c
      BY ShiftDownBits, WordsAreBits
    <2>5. ASSUME NEW b
          PROVE  b \in ShiftDown(h, 8) <=> b \in ShiftDown(c, 8)
      <3>1. b \in Nat => b + 8 \in Nat /\ b + 8 >= 8 /\ b + 8 \notin 0 .. 7
        OBVIOUS
      <3> HIDE DEF x, h
      <3> QED BY <2>1, <2>2, <2>3, <2>4, <3>1
    <2> QED BY <2>5
  <1>6. crc_32_tab[l] = Shift8(l)
    BY <1>2, TableIsPolynomial
  <1>7. UPDC32(o, c) = Xor(crc_32_tab[l], ShiftDown(c, 8))
    BY DEF UPDC32
  <1> HIDE DEF x, l, h
  <1>8. UPDC32(o, c) = Shift8(x)
    BY <1>3, <1>4, <1>5, <1>6, <1>7, XorAssociates
  <1> QED BY <1>8, ShiftInIsShift8 DEF x

-----------------------------------------------------------------------------
(* The checksum and the register are one word after every octet: nothing    *)
(* else is needed to take the next octet.                                   *)
ChecksumInv == oldcrc32 \in Word /\ oldcrc32 = register

LEMMA AllOnes == 0 .. 31 \in Word
  BY DEF Word

LEMMA RandIsOctet ==
  ASSUME NEW s
  PROVE  RandOctet(s) \in Octet
  BY DEF RandOctet, BitsOf, Octet

LEMMA ChecksumStep == ChecksumInv /\ [CrcNext]_crcVars => ChecksumInv'
  <1> SUFFICES ASSUME ChecksumInv, [CrcNext]_crcVars
               PROVE  ChecksumInv'
    OBVIOUS
  <1>1. CASE Begin
    BY <1>1, AllOnes DEF Begin, ChecksumInv
  <1>2. CASE Update
    <2>1. RandOctet(seed') \in Octet
      BY RandIsOctet
    <2>2. UPDC32(RandOctet(seed'), oldcrc32) = ShiftIn(oldcrc32, RandOctet(seed'))
      BY <2>1, UpdateIsShiftIn DEF ChecksumInv
    <2>3. ShiftIn(oldcrc32, RandOctet(seed')) \in Word
      BY <2>1, ShiftInIsShift8 DEF ChecksumInv
    <2> QED BY <1>2, <2>2, <2>3 DEF Update, ChecksumInv
  <1>3. CASE UNCHANGED <<oldcrc32, register>>
    BY <1>3 DEF ChecksumInv
  <1> QED BY <1>1, <1>2, <1>3 DEF CrcNext, End, Return, VerifyCrc, crcVars

(* For every table of feedback terms and every number of warm-up runs, the  *)
(* checksum made octet by octet is the one of the serial shift register     *)
(* (crc_32.c:49, 151-165).                                                  *)
THEOREM TableDrivenCrc == CrcSpec => []CrcIsShiftRegister
  <1>1. CrcInit => ChecksumInv
    BY AllOnes DEF CrcInit, ChecksumInv
  <1>2. ChecksumInv => CrcIsShiftRegister
    BY DEF ChecksumInv, CrcIsShiftRegister
  <1> QED BY <1>1, <1>2, ChecksumStep, PTL DEF CrcSpec

-----------------------------------------------------------------------------
(* The benchmark computes what it expects.  Fed[n] is what n random octets  *)
(* make of the seed and the register.                                       *)
FedWord == [p \in Nat \X Word |-> Fed(p)]

LEMMA SeedIsNat ==
  ASSUME NEW s \in Nat
  PROVE  NextSeed(s) \in Nat
  <1>1. s % 65536 \in Nat /\ s \div 65536 \in Nat
    BY DivMod
  <1> DEFINE lo == (s % 65536) * 20077 + 12345
             up == lo \div 65536 + (s % 65536) * 16838 + (s \div 65536) * 20077
  <1>2. lo \in Nat
    BY <1>1
  <1>3. lo % 65536 \in Nat /\ lo \div 65536 \in Nat
    <2> HIDE DEF lo
    <2> QED BY <1>2, DivMod
  <1>4. up \in Nat
    <2> HIDE DEF lo
    <2> QED BY <1>1, <1>3
  <1>5. up % 32768 \in Nat
    <2> HIDE DEF up
    <2> QED BY <1>4, DivMod
  <1>6. NextSeed(s) = (up % 32768) * 65536 + (lo % 65536)
    BY DEF NextSeed
  <1> HIDE DEF lo, up
  <1> QED BY <1>3, <1>5, <1>6

LEMMA FedIsWord == FedWord \in [Nat \X Word -> Nat \X Word]
  <1>1. ASSUME NEW p \in Nat \X Word
        PROVE  Fed(p) \in Nat \X Word
    <2>1. p[1] \in Nat /\ p[2] \in Word
      OBVIOUS
    <2>2. NextSeed(p[1]) \in Nat
      BY <2>1, SeedIsNat
    <2>3. ShiftIn(p[2], RandOctet(NextSeed(p[1]))) \in Word
      BY <2>1, ShiftInIsShift8, RandIsOctet
    <2> QED BY <2>2, <2>3 DEF Fed
  <1> QED BY <1>1 DEF FedWord

LEMMA FedTimesEquation ==
  FedTimes = [k \in 0 .. 10 |->
    [p \in Nat \X Word |-> IF k = 0 THEN Fed(p) ELSE FedTimes[k - 1][FedTimes[k - 1][p]]]]
  <1> DEFINE S    == [Nat \X Word -> Nat \X Word]
             rule == [a \in Nat \X S |-> [p \in Nat \X Word |-> a[2][a[2][p]]]]
  <1>1. rule \in [Nat \X S -> S]
    <2>1. ASSUME NEW a \in Nat \X S
          PROVE  [p \in Nat \X Word |-> a[2][a[2][p]]] \in S
      <3>1. a[2] \in S
        OBVIOUS
      <3> QED BY <3>1
    <2> QED BY <2>1
  <1> HIDE DEF rule
  <1>2. PICK f \in [0 .. 10 -> S] :
          f[0] = FedWord /\ \A k \in 0 .. 10 - 1 : f[k + 1] = rule[<<k, f[k]>>]
    <2> HIDE DEF S
    <2>1. FedWord \in S
      BY FedIsWord DEF S
    <2>2. \E f : f \in Approximations(S, FedWord, rule, 10)
      BY <1>1, <2>1, ApproximationExists
    <2> QED BY <2>2 DEF Approximations
  <1>3. ASSUME NEW k \in 0 .. 10
        PROVE  f[k] = [p \in Nat \X Word |-> IF k = 0 THEN Fed(p) ELSE f[k - 1][f[k - 1][p]]]
    <2>1. CASE k = 0
      <3>1. f[k] = FedWord
        BY <1>2, <2>1
      <3> QED BY <2>1, <3>1 DEF FedWord
    <2>2. CASE k # 0
      <3>1. k - 1 \in 0 .. 10 - 1 /\ k - 1 \in Nat /\ (k - 1) + 1 = k
        BY <2>2
      <3>2. <<k - 1, f[k - 1]>> \in Nat \X S
        BY <1>2, <3>1
      <3>3. rule[<<k - 1, f[k - 1]>>] = [p \in Nat \X Word |-> f[k - 1][f[k - 1][p]]]
        BY <3>2 DEF rule
      <3>4. f[k] = rule[<<k - 1, f[k - 1]>>]
        BY <1>2, <3>1
      <3> QED BY <2>2, <3>3, <3>4
    <2> QED BY <2>1, <2>2
  <1>4. f = [k \in 0 .. 10 |-> [p \in Nat \X Word |-> IF k = 0 THEN Fed(p) ELSE f[k - 1][f[k - 1][p]]]]
    <2>1. f = [k \in 0 .. 10 |-> f[k]]
      BY <1>2
    <2> QED BY <1>3, <2>1, Zenon
  <1> QED BY <1>4 DEF FedTimes

(* What the seed and the register are after n octets.                       *)
After == CHOOSE f : f \in Recursion(Nat \X Word, <<0, 0 .. 31>>, [a \in Nat \X (Nat \X Word) |-> Fed(a[2])])

LEMMA AfterFacts ==
  /\ After \in [Nat -> Nat \X Word]
  /\ After[0] = <<0, 0 .. 31>>
  /\ \A z \in Nat : After[z + 1] = Fed(After[z])
  <1> DEFINE S    == Nat \X Word
             rule == [a \in Nat \X S |-> Fed(a[2])]
  <1>1. rule \in [Nat \X S -> S]
    <2>1. ASSUME NEW a \in Nat \X S
          PROVE  Fed(a[2]) \in S
      <3>1. a[2] \in S
        OBVIOUS
      <3> QED BY <3>1, FedIsWord DEF FedWord
    <2> QED BY <2>1
  <1>2. <<0, 0 .. 31>> \in S
    BY AllOnes
  <1>3. After \in Recursion(S, <<0, 0 .. 31>>, rule)
    <2>1. Recursion(S, <<0, 0 .. 31>>, rule) # {}
      <3> HIDE DEF S, rule
      <3> QED BY <1>1, <1>2, RecursionExists
    <2> QED BY <2>1 DEF After
  <1>4. /\ After \in [Nat -> S] /\ After[0] = <<0, 0 .. 31>>
        /\ \A z \in Nat : After[z + 1] = rule[<<z, After[z]>>]
    <2> HIDE DEF S, rule
    <2> QED BY <1>3 DEF Recursion
  <1>5. ASSUME NEW z \in Nat PROVE After[z + 1] = Fed(After[z])
    <2>1. <<z, After[z]>> \in Nat \X S /\ <<z, After[z]>>[2] = After[z]
      BY <1>4
    <2>2. rule[<<z, After[z]>>] = Fed(After[z])
      BY <2>1
    <2> QED BY <1>4, <2>2
  <1> QED BY <1>4, <1>5

(* Doing twice what m octets do is what 2m octets do.                       *)
Jumps(k, m) == \A z \in Nat : FedTimes[k][After[z]] = After[z + m]

LEMMA JumpDoubles ==
  ASSUME NEW k \in 0 .. 9, NEW m \in Nat, Jumps(k, m)
  PROVE  Jumps(k + 1, 2 * m)
  <1>1. k + 1 \in 0 .. 10 /\ k + 1 # 0 /\ (k + 1) - 1 = k
    OBVIOUS
  <1>2. ASSUME NEW z \in Nat PROVE FedTimes[k + 1][After[z]] = After[z + 2 * m]
    <2>1. After[z] \in Nat \X Word /\ z + m \in Nat /\ (z + m) + m = z + 2 * m
      <3>1. z + m \in Nat /\ (z + m) + m = z + 2 * m
        OBVIOUS
      <3> QED BY <3>1, AfterFacts
    <2>2. FedTimes[k + 1] = [p \in Nat \X Word |-> FedTimes[k][FedTimes[k][p]]]
      <3>1. \A d \in 0 .. 10 :
              FedTimes[d] = [p \in Nat \X Word |-> IF d = 0 THEN Fed(p) ELSE FedTimes[d - 1][FedTimes[d - 1][p]]]
        BY FedTimesEquation
      <3>2. FedTimes[k + 1] = [p \in Nat \X Word |-> IF k + 1 = 0 THEN Fed(p)
                                                    ELSE FedTimes[(k + 1) - 1][FedTimes[(k + 1) - 1][p]]]
        BY <1>1, <3>1
      <3> QED BY <1>1, <3>2
    <2>3. FedTimes[k + 1][After[z]] = FedTimes[k][FedTimes[k][After[z]]]
      BY <2>1, <2>2
    <2>4. FedTimes[k][After[z]] = After[z + m] /\ FedTimes[k][After[z + m]] = After[(z + m) + m]
      BY <2>1 DEF Jumps
    <2> QED BY <2>1, <2>3, <2>4
  <1> QED BY <1>2 DEF Jumps

LEMMA AfterAll == FedTimes[10][<<0, 0 .. 31>>] = After[1024]
  <1>1. Jumps(0, 1)
    <2>1. ASSUME NEW z \in Nat PROVE FedTimes[0][After[z]] = After[z + 1]
      <3>1. FedTimes[0] = [p \in Nat \X Word |-> Fed(p)]
        BY FedTimesEquation
      <3>2. After[z] \in Nat \X Word
        BY AfterFacts
      <3> QED BY <3>1, <3>2, AfterFacts
    <2> QED BY <2>1 DEF Jumps
  <1>2. Jumps(1, 2)
    BY <1>1, JumpDoubles
  <1>3. Jumps(2, 4)
    BY <1>2, JumpDoubles
  <1>4. Jumps(3, 8)
    BY <1>3, JumpDoubles
  <1>5. Jumps(4, 16)
    BY <1>4, JumpDoubles
  <1>6. Jumps(5, 32)
    BY <1>5, JumpDoubles
  <1>7. Jumps(6, 64)
    BY <1>6, JumpDoubles
  <1>8. Jumps(7, 128)
    BY <1>7, JumpDoubles
  <1>9. Jumps(8, 256)
    BY <1>8, JumpDoubles
  <1>10. Jumps(9, 512)
    BY <1>9, JumpDoubles
  <1>11. Jumps(10, 1024)
    BY <1>10, JumpDoubles
  <1>12. FedTimes[10][After[0]] = After[0 + 1024] /\ 0 + 1024 = 1024
    BY <1>11 DEF Jumps
  <1> QED BY <1>12, AfterFacts

(* In an iteration the seed and the register are those after n octets, and  *)
(* so r is the checksum that is known; and main verifies only what an       *)
(* iteration has left.                                                      *)
KnownResult == (0 .. 31) \ After[1024][2]

VerifiedInv ==
  /\ ChecksumInv
  /\ busy => n \in 0 .. 1024 /\ <<seed, register>> = After[n]
  /\ InBody \/ ~busy
  /\ at = "benchmark" => /\ rpt \in {0, 1}
                         /\ rpt = 0 => ~busy /\ r = KnownResult
  /\ at = "verify_benchmark" => result = Low15(KnownResult)
  /\ BenchmarkVerifies

LEMMA VerifiedInit == CrcInit => VerifiedInv
  BY AllOnes DEF CrcInit, MainInit, VerifiedInv, ChecksumInv, BenchmarkVerifies

LEMMA KnownIsExpected == Low15(KnownResult) = BitsOf(11433, 15)
  BY KnownChecksum, AfterAll DEF KnownResult

LEMMA VerifiedStep == VerifiedInv /\ [CrcNext]_crcVars => VerifiedInv'
  <1> SUFFICES ASSUME VerifiedInv, [CrcNext]_crcVars
               PROVE  VerifiedInv'
    OBVIOUS
  <1>0. ChecksumInv'
    BY ChecksumStep DEF VerifiedInv
  <1> HIDE DEF KnownResult
  <1>1. CASE WarmCaches /\ UNCHANGED <<seed, oldcrc32, n, r, register>>
    BY <1>0, <1>1 DEF WarmCaches, VerifiedInv, InBody, BenchmarkVerifies
  <1>2. CASE Begin
    <2>1. /\ InBody /\ ~busy /\ rpt > 0 /\ UNCHANGED <<at, rpt, result, correct>>
          /\ seed' = 0 /\ register' = 0 .. 31 /\ n' = 0
      BY <1>2 DEF Begin, BeginBody, Srand
    <2>2. <<seed', register'>> = After[n'] /\ n' \in 0 .. 1024
      BY <2>1, AfterFacts
    <2>3. at = "benchmark" => rpt = 1
      BY <2>1 DEF VerifiedInv
    <2> QED BY <1>0, <2>1, <2>2, <2>3 DEF VerifiedInv, InBody, BenchmarkVerifies
  <1>3. CASE Update
    <2>1. /\ busy /\ n < 1024 /\ UNCHANGED <<mainVars, r>> /\ n' = n + 1
          /\ seed' = NextSeed(seed) /\ register' = ShiftIn(register, RandOctet(seed'))
      BY <1>3 DEF Update
    <2>2. n \in Nat /\ n + 1 \in 0 .. 1024 /\ <<seed, register>> = After[n]
      BY <2>1 DEF VerifiedInv
    <2>3. <<seed', register'>> = Fed(<<seed, register>>)
      BY <2>1 DEF Fed
    <2>4. <<seed', register'>> = After[n']
      BY <2>1, <2>2, <2>3, AfterFacts, ZenonT(60)
    <2> QED BY <1>0, <2>1, <2>2, <2>4 DEF VerifiedInv, mainVars, InBody, BenchmarkVerifies
  <1>4. CASE End
    <2>1. /\ n = 1024 /\ InBody /\ busy /\ ~busy' /\ rpt' = rpt - 1 /\ UNCHANGED <<at, result, correct>>
          /\ r' = (0 .. 31) \ oldcrc32
      BY <1>4 DEF End, EndBody
    <2>2. r' = KnownResult
      <3>1. <<seed, register>> = After[1024] /\ oldcrc32 = register
        BY <2>1 DEF VerifiedInv, ChecksumInv
      <3>2. register = After[1024][2]
        BY <3>1
      <3> QED BY <2>1, <3>1, <3>2 DEF KnownResult
    <2>3. at = "benchmark" => rpt' = 0
      BY <2>1 DEF VerifiedInv
    <2> QED BY <1>0, <2>1, <2>2, <2>3 DEF VerifiedInv, InBody, BenchmarkVerifies
  <1>5. CASE Return
    <2>1. /\ InBody /\ ~busy /\ rpt = 0 /\ UNCHANGED <<busy, correct, seed, n, r, register>>
          /\ at = "warm_caches" => at' = "benchmark" /\ rpt' = 1 /\ UNCHANGED result
          /\ at = "benchmark" => at' = "verify_benchmark" /\ result' = Low15(r) /\ UNCHANGED rpt
      BY <1>5 DEF Return, ReturnToMain, LOCAL_SCALE_FACTOR, CPU_MHZ, InBody
    <2>2. CASE at = "warm_caches"
      BY <1>0, <2>1, <2>2 DEF VerifiedInv, InBody, BenchmarkVerifies
    <2>3. CASE at = "benchmark"
      BY <1>0, <2>1, <2>3 DEF VerifiedInv, InBody, BenchmarkVerifies
    <2> QED BY <2>1, <2>2, <2>3 DEF InBody
  <1>6. CASE VerifyCrc
    <2>1. /\ at = "verify_benchmark" /\ at' = "wfi" /\ correct' = (result = BitsOf(11433, 15))
          /\ UNCHANGED <<rpt, busy, result, seed, n, r, register>>
      BY <1>6 DEF VerifyCrc, Verify
    <2>2. result = BitsOf(11433, 15)
      BY <2>1, KnownIsExpected DEF VerifiedInv
    <2>3. correct'
      <3> DEFINE known == BitsOf(11433, 15)
      <3>1. correct' = (result = known) /\ result = known
        BY <2>1, <2>2
      <3> HIDE DEF known
      <3> QED BY ONLY <3>1
    <2>4. ~busy'
      BY <2>1 DEF VerifiedInv, InBody
    <2> QED BY <1>0, <2>1, <2>3, <2>4 DEF VerifiedInv, InBody, BenchmarkVerifies
  <1>7. CASE UNCHANGED crcVars
    BY <1>0, <1>7 DEF crcVars, mainVars, VerifiedInv, InBody, BenchmarkVerifies
  <1> QED BY <1>1, <1>2, <1>3, <1>4, <1>5, <1>6, <1>7 DEF CrcNext

(* However often the caches are warmed, crc_32 computes the checksum that   *)
(* its verify_benchmark expects (main.c:27-37, crc_32.c:168-211).           *)
THEOREM ChecksumVerifies == CrcSpec => []BenchmarkVerifies
  <1>1. VerifiedInv => BenchmarkVerifies
    BY DEF VerifiedInv
  <1> QED BY <1>1, VerifiedInit, VerifiedStep, PTL DEF CrcSpec

-----------------------------------------------------------------------------
(* Octets and words. *)

LEMMA Powers ==
  2 ^ 0 = 1 /\ 2 ^ 1 = 2 /\ 2 ^ 2 = 4 /\ 2 ^ 3 = 8 /\ 2 ^ 4 = 16 /\ 2 ^ 5 = 32 /\ 2 ^ 6 = 64 /\ 2 ^ 7 = 128
  BY SMT

LEMMA NumberInRange ==
  ASSUME NEW o \in Octet
  PROVE  Number(o) \in 0 .. 255
  BY Powers DEF Octet, Number, Bit

LEMMA BitsOfOctet ==
  ASSUME NEW k
  PROVE  BitsOf(k, 8) \in Octet
  BY DEF BitsOf, Octet

LEMMA BitsOfNumber ==
  ASSUME NEW o \in Octet
  PROVE  BitsOf(Number(o), 8) = o
  <1> DEFINE has(b) == IF b \in o THEN 1 ELSE 0
             s == Number(o)
  <1>1. s = has(0) + 2 * has(1) + 4 * has(2) + 8 * has(3) + 16 * has(4) + 32 * has(5) + 64 * has(6) + 128 * has(7)
    BY Powers DEF Number, Bit
  <1>2. \A b : has(b) \in {0, 1} /\ (has(b) = 1 <=> b \in o)
    OBVIOUS
  <1> HIDE DEF has, s
  <1>3. /\ (s \div 1) % 2 = has(0)  /\ (s \div 2) % 2 = has(1)
        /\ (s \div 4) % 2 = has(2)  /\ (s \div 8) % 2 = has(3)
        /\ (s \div 16) % 2 = has(4) /\ (s \div 32) % 2 = has(5)
        /\ (s \div 64) % 2 = has(6) /\ (s \div 128) % 2 = has(7)
    <2>1. PICK b0 \in {0, 1} : b0 = has(0)
      BY <1>2
    <2>2. PICK b1 \in {0, 1} : b1 = has(1)
      BY <1>2
    <2>3. PICK b2 \in {0, 1} : b2 = has(2)
      BY <1>2
    <2>4. PICK b3 \in {0, 1} : b3 = has(3)
      BY <1>2
    <2>5. PICK b4 \in {0, 1} : b4 = has(4)
      BY <1>2
    <2>6. PICK b5 \in {0, 1} : b5 = has(5)
      BY <1>2
    <2>7. PICK b6 \in {0, 1} : b6 = has(6)
      BY <1>2
    <2>8. PICK b7 \in {0, 1} : b7 = has(7)
      BY <1>2
    <2>9. s = b0 + 2 * b1 + 4 * b2 + 8 * b3 + 16 * b4 + 32 * b5 + 64 * b6 + 128 * b7
      BY <1>1, <2>1, <2>2, <2>3, <2>4, <2>5, <2>6, <2>7, <2>8
    <2>10. (s \div 1) % 2 = b0 /\ (s \div 2) % 2 = b1
      BY <2>9
    <2>11. (s \div 4) % 2 = b2 /\ (s \div 8) % 2 = b3
      BY <2>9
    <2>12. (s \div 16) % 2 = b4 /\ (s \div 32) % 2 = b5
      BY <2>9
    <2>13. (s \div 64) % 2 = b6 /\ (s \div 128) % 2 = b7
      BY <2>9
    <2> QED BY <2>1, <2>2, <2>3, <2>4, <2>5, <2>6, <2>7, <2>8, <2>10, <2>11, <2>12, <2>13
  <1>4. \A b \in 0 .. 7 : (s \div 2 ^ b) % 2 = has(b)
    <2> TAKE b \in 0 .. 7
    <2>1. b = 0 \/ b = 1 \/ b = 2 \/ b = 3 \/ b = 4 \/ b = 5 \/ b = 6 \/ b = 7
      OBVIOUS
    <2>2. CASE b = 0
      BY <1>3, <2>2, Powers
    <2>3. CASE b = 1
      BY <1>3, <2>3, Powers
    <2>4. CASE b = 2
      BY <1>3, <2>4, Powers
    <2>5. CASE b = 3
      BY <1>3, <2>5, Powers
    <2>6. CASE b = 4
      BY <1>3, <2>6, Powers
    <2>7. CASE b = 5
      BY <1>3, <2>7, Powers
    <2>8. CASE b = 6
      BY <1>3, <2>8, Powers
    <2>9. CASE b = 7
      BY <1>3, <2>9, Powers
    <2> QED BY <2>1, <2>2, <2>3, <2>4, <2>5, <2>6, <2>7, <2>8, <2>9
  <1>5. \A b : b \in BitsOf(s, 8) <=> b \in 0 .. 7 /\ (s \div 2 ^ b) % 2 = 1
    BY DEF BitsOf
  <1>6. \A b : b \in o => b \in 0 .. 7
    BY DEF Octet
  <1> QED BY <1>2, <1>4, <1>5, <1>6 DEF s

(* Xor is the sum of an Abelian group in which every element is its own     *)
(* opposite.                                                                *)
LEMMA XorSums ==
  ASSUME NEW a, NEW b, NEW c
  PROVE  /\ Xor(Xor(a, b), c) = Xor(a, Xor(b, c))
         /\ Xor(a, b) = Xor(b, a)
         /\ Xor(a, {}) = a /\ Xor({}, a) = a
         /\ Xor(a, a) = {}
  BY Zenon DEF Xor

LEMMA XorPairs ==
  ASSUME NEW a, NEW b, NEW c, NEW d
  PROVE  Xor(Xor(a, b), Xor(c, d)) = Xor(Xor(a, c), Xor(b, d))
  BY XorSums

LEMMA XorClosed ==
  /\ \A a, b \in Octet : Xor(a, b) \in Octet
  /\ \A a, b \in Word : Xor(a, b) \in Word
  /\ {} \in Octet
  BY DEF Xor, Octet, Word

LEMMA OctetAtOctet ==
  ASSUME NEW a, NEW k
  PROVE  OctetAt(a, k) \in Octet
  BY DEF OctetAt, Octet

LEMMA OctetAtXor ==
  \A k : \A a, b : OctetAt(Xor(a, b), k) = Xor(OctetAt(a, k), OctetAt(b, k))
  BY DEF OctetAt, Xor

LEMMA JoinedWord ==
  ASSUME NEW f
  PROVE  Joined(f) \in Word
  BY DEF Joined, Word

LEMMA OctetAtJoined ==
  ASSUME NEW f, NEW k \in 0 .. 3, f[k] \in Octet
  PROVE  OctetAt(Joined(f), k) = f[k]
  <1>1. ASSUME NEW b \in 0 .. 7
        PROVE  b + 8 * k \in 0 .. 31 /\ (b + 8 * k) % 8 = b /\ (b + 8 * k) \div 8 = k
    <2>1. k = 0 \/ k = 1 \/ k = 2 \/ k = 3
      OBVIOUS
    <2> QED BY <2>1
  <1>2. \A b : b \in OctetAt(Joined(f), k) <=> b \in 0 .. 7 /\ b + 8 * k \in Joined(f)
    BY DEF OctetAt
  <1>3. \A c : c \in Joined(f) <=> c \in 0 .. 31 /\ c % 8 \in f[c \div 8]
    BY DEF Joined
  <1>4. \A b \in 0 .. 7 : b \in OctetAt(Joined(f), k) <=> b \in f[k]
    BY <1>1, <1>2, <1>3
  <1>5. \A b \in f[k] : b \in 0 .. 7
    BY DEF Octet
  <1> QED BY <1>2, <1>4, <1>5

(* A rotation by m octets moves octet r - m to octet r. *)
LEMMA RotatedWord ==
  ASSUME NEW a \in Word, NEW k \in Nat
  PROVE  Rotated(k, a) \in Word
  <1>1. \A b \in 0 .. 31 : (b + k) % 32 \in 0 .. 31
    OBVIOUS
  <1> QED BY <1>1 DEF Rotated, Word

LEMMA OctetAtRotated ==
  ASSUME NEW a \in Word, NEW m \in 0 .. 3, NEW k \in 0 .. 3
  PROVE  OctetAt(Rotated(8 * m, a), k) = OctetAt(a, (k - m) % 4)
  <1> DEFINE q == (k - m) % 4
  <1>1. q \in 0 .. 3
    OBVIOUS
  <1>2. ASSUME NEW b \in 0 .. 7, NEW c \in 0 .. 31
        PROVE  (c + 8 * m) % 32 = b + 8 * k <=> c = b + 8 * q
    <2>1. (k = 0 \/ k = 1 \/ k = 2 \/ k = 3) /\ (m = 0 \/ m = 1 \/ m = 2 \/ m = 3)
      OBVIOUS
    <2> QED BY <2>1
  <1>3. \A b : b \in OctetAt(Rotated(8 * m, a), k) <=> b \in 0 .. 7 /\ b + 8 * k \in Rotated(8 * m, a)
    BY DEF OctetAt
  <1>4. \A e : e \in Rotated(8 * m, a) <=> \E c \in a : e = (c + 8 * m) % 32
    BY DEF Rotated
  <1>5. \A b : b \in OctetAt(a, q) <=> b \in 0 .. 7 /\ b + 8 * q \in a
    BY DEF OctetAt
  <1>6. \A c \in a : c \in 0 .. 31
    BY DEF Word
  <1> HIDE DEF q
  <1>7. \A b \in 0 .. 7 : b + 8 * q \in 0 .. 31
    BY <1>1
  <1>8. \A b \in 0 .. 7 : b + 8 * k \in Rotated(8 * m, a) <=> b + 8 * q \in a
    BY <1>2, <1>4, <1>6, <1>7
  <1>9. OctetAt(Rotated(8 * m, a), k) = OctetAt(a, q)
    BY <1>3, <1>5, <1>8
  <1> QED BY <1>9 DEF q

(* A word is its octets. *)
LEMMA WordByOctets ==
  ASSUME NEW a \in Word, NEW b \in Word, \A k \in 0 .. 3 : OctetAt(a, k) = OctetAt(b, k)
  PROVE  a = b
  <1>1. \A x \in 0 .. 31 : x \div 8 \in 0 .. 3 /\ x % 8 \in 0 .. 7 /\ (x % 8) + 8 * (x \div 8) = x
    OBVIOUS
  <1>2. \A c : \A k : \A e : e \in OctetAt(c, k) <=> e \in 0 .. 7 /\ e + 8 * k \in c
    BY DEF OctetAt
  <1>3. ASSUME NEW x \in 0 .. 31
        PROVE  x \in a <=> x \in b
    <2> DEFINE k == x \div 8  e == x % 8
    <2>1. k \in 0 .. 3 /\ e \in 0 .. 7 /\ e + 8 * k = x
      BY <1>1
    <2> HIDE DEF k, e
    <2>2. OctetAt(a, k) = OctetAt(b, k)
      BY <2>1
    <2> QED BY <1>2, <2>1, <2>2
  <1> QED BY <1>3 DEF Word

-----------------------------------------------------------------------------
(* Products of octets. *)

LEMMA XTimesBits ==
  ASSUME NEW a \in Octet
  PROVE  /\ XTimes(a) \in Octet
         /\ \A x : x \in XTimes(a) <=> ((x \in 1 .. 7 /\ x - 1 \in a) # (7 \in a /\ x \in {0, 1, 3, 4}))
  <1> DEFINE up == {b + 1 : b \in a \ {7}}
             fold == IF 7 \in a THEN {0, 1, 3, 4} ELSE {}
  <1>1. ASSUME NEW x, x \in up
        PROVE  x \in 1 .. 7 /\ x - 1 \in a
    <2>1. PICK b \in a \ {7} : x = b + 1
      BY <1>1
    <2>2. b \in 0 .. 6
      BY DEF Octet
    <2> QED BY <2>1, <2>2
  <1>2. ASSUME NEW x \in 1 .. 7, x - 1 \in a
        PROVE  x \in up
    <2>1. x - 1 \in a \ {7} /\ x = (x - 1) + 1
      BY <1>2
    <2> QED BY <2>1
  <1>3. \A x : x \in fold <=> 7 \in a /\ x \in {0, 1, 3, 4}
    OBVIOUS
  <1>4. XTimes(a) = Xor(up, fold)
    BY DEF XTimes
  <1> HIDE DEF up, fold
  <1>5. \A x : x \in XTimes(a) <=> ((x \in up) # (x \in fold))
    BY <1>4 DEF Xor
  <1>6. \A x : x \in up <=> x \in 1 .. 7 /\ x - 1 \in a
    BY <1>1, <1>2
  <1>7. \A x : x \in XTimes(a) => x \in 0 .. 7
    BY <1>3, <1>5, <1>6
  <1> QED BY <1>3, <1>5, <1>6, <1>7 DEF Octet

LEMMA XTimesXor ==
  ASSUME NEW a \in Octet, NEW b \in Octet
  PROVE  XTimes(Xor(a, b)) = Xor(XTimes(a), XTimes(b))
  <1>1. Xor(a, b) \in Octet
    BY XorClosed
  <1>2. ASSUME NEW x
        PROVE  x \in XTimes(Xor(a, b)) <=> ((x \in XTimes(a)) # (x \in XTimes(b)))
    <2>1. /\ x \in XTimes(Xor(a, b)) <=>
               ((x \in 1 .. 7 /\ x - 1 \in Xor(a, b)) # (7 \in Xor(a, b) /\ x \in {0, 1, 3, 4}))
          /\ x \in XTimes(a) <=> ((x \in 1 .. 7 /\ x - 1 \in a) # (7 \in a /\ x \in {0, 1, 3, 4}))
          /\ x \in XTimes(b) <=> ((x \in 1 .. 7 /\ x - 1 \in b) # (7 \in b /\ x \in {0, 1, 3, 4}))
      BY <1>1, XTimesBits
    <2>2. \A y : y \in Xor(a, b) <=> ((y \in a) # (y \in b))
      BY DEF Xor
    <2> QED BY <2>1, <2>2
  <1>3. \A x : x \in Xor(XTimes(a), XTimes(b)) <=> ((x \in XTimes(a)) # (x \in XTimes(b)))
    BY DEF Xor
  <1> QED BY <1>2, <1>3

LEMMA TermXor ==
  ASSUME NEW p, NEW b, NEW x, NEW y
  PROVE  Term(p, b, Xor(x, y)) = Xor(Term(p, b, x), Term(p, b, y))
  BY XorSums DEF Term

LEMMA TermOctet ==
  ASSUME NEW p, NEW b, NEW x \in Octet
  PROVE  Term(p, b, x) \in Octet
  BY XorClosed DEF Term

LEMMA TimesOctet ==
  ASSUME NEW a \in Octet, NEW p
  PROVE  Times(a, p) \in Octet
  <1> DEFINE x1 == XTimes(a)   x2 == XTimes(x1)  x3 == XTimes(x2)  x4 == XTimes(x3)
             x5 == XTimes(x4)  x6 == XTimes(x5)  x7 == XTimes(x6)
  <1>1. /\ x1 \in Octet /\ x2 \in Octet /\ x3 \in Octet /\ x4 \in Octet
        /\ x5 \in Octet /\ x6 \in Octet /\ x7 \in Octet
    BY XTimesBits
  <1>2. Times(a, p) =
          Xor(Xor(Xor(Term(p, 0, a),  Term(p, 1, x1)), Xor(Term(p, 2, x2), Term(p, 3, x3))),
              Xor(Xor(Term(p, 4, x4), Term(p, 5, x5)), Xor(Term(p, 6, x6), Term(p, 7, x7))))
    BY DEF Times
  <1> HIDE DEF x1, x2, x3, x4, x5, x6, x7
  <1> QED BY <1>1, <1>2, TermOctet, XorClosed

(* Multiplication distributes over Xor. *)
LEMMA TimesXor ==
  ASSUME NEW a \in Octet, NEW b \in Octet, NEW p
  PROVE  Times(Xor(a, b), p) = Xor(Times(a, p), Times(b, p))
  <1> DEFINE c == Xor(a, b)
             a1 == XTimes(a)   a2 == XTimes(a1)  a3 == XTimes(a2)  a4 == XTimes(a3)
             a5 == XTimes(a4)  a6 == XTimes(a5)  a7 == XTimes(a6)
             b1 == XTimes(b)   b2 == XTimes(b1)  b3 == XTimes(b2)  b4 == XTimes(b3)
             b5 == XTimes(b4)  b6 == XTimes(b5)  b7 == XTimes(b6)
             c1 == XTimes(c)   c2 == XTimes(c1)  c3 == XTimes(c2)  c4 == XTimes(c3)
             c5 == XTimes(c4)  c6 == XTimes(c5)  c7 == XTimes(c6)
  <1>1. /\ a1 \in Octet /\ a2 \in Octet /\ a3 \in Octet /\ a4 \in Octet
        /\ a5 \in Octet /\ a6 \in Octet /\ a7 \in Octet
        /\ b1 \in Octet /\ b2 \in Octet /\ b3 \in Octet /\ b4 \in Octet
        /\ b5 \in Octet /\ b6 \in Octet /\ b7 \in Octet
    BY XTimesBits
  <1>2. c1 = Xor(a1, b1)
    BY XTimesXor
  <1>3. /\ Times(a, p) =
             Xor(Xor(Xor(Term(p, 0, a),  Term(p, 1, a1)), Xor(Term(p, 2, a2), Term(p, 3, a3))),
                 Xor(Xor(Term(p, 4, a4), Term(p, 5, a5)), Xor(Term(p, 6, a6), Term(p, 7, a7))))
        /\ Times(b, p) =
             Xor(Xor(Xor(Term(p, 0, b),  Term(p, 1, b1)), Xor(Term(p, 2, b2), Term(p, 3, b3))),
                 Xor(Xor(Term(p, 4, b4), Term(p, 5, b5)), Xor(Term(p, 6, b6), Term(p, 7, b7))))
        /\ Times(c, p) =
             Xor(Xor(Xor(Term(p, 0, c),  Term(p, 1, c1)), Xor(Term(p, 2, c2), Term(p, 3, c3))),
                 Xor(Xor(Term(p, 4, c4), Term(p, 5, c5)), Xor(Term(p, 6, c6), Term(p, 7, c7))))
    BY DEF Times
  <1>4. \A x, y \in Octet : XTimes(Xor(x, y)) = Xor(XTimes(x), XTimes(y))
    BY XTimesXor
  <1>5. c2 = Xor(a2, b2)
    <2>1. c2 = XTimes(c1) /\ a2 = XTimes(a1) /\ b2 = XTimes(b1)
      OBVIOUS
    <2> HIDE DEF a2, b2, c2, a1, b1, c1
    <2> QED BY <1>1, <1>2, <1>4, <2>1
  <1>6. c3 = Xor(a3, b3)
    <2>1. c3 = XTimes(c2) /\ a3 = XTimes(a2) /\ b3 = XTimes(b2)
      OBVIOUS
    <2> HIDE DEF a3, b3, c3, a2, b2, c2
    <2> QED BY <1>1, <1>5, <1>4, <2>1
  <1>7. c4 = Xor(a4, b4)
    <2>1. c4 = XTimes(c3) /\ a4 = XTimes(a3) /\ b4 = XTimes(b3)
      OBVIOUS
    <2> HIDE DEF a4, b4, c4, a3, b3, c3
    <2> QED BY <1>1, <1>6, <1>4, <2>1
  <1>8. c5 = Xor(a5, b5)
    <2>1. c5 = XTimes(c4) /\ a5 = XTimes(a4) /\ b5 = XTimes(b4)
      OBVIOUS
    <2> HIDE DEF a5, b5, c5, a4, b4, c4
    <2> QED BY <1>1, <1>7, <1>4, <2>1
  <1>9. c6 = Xor(a6, b6)
    <2>1. c6 = XTimes(c5) /\ a6 = XTimes(a5) /\ b6 = XTimes(b5)
      OBVIOUS
    <2> HIDE DEF a6, b6, c6, a5, b5, c5
    <2> QED BY <1>1, <1>8, <1>4, <2>1
  <1>10. c7 = Xor(a7, b7)
    <2>1. c7 = XTimes(c6) /\ a7 = XTimes(a6) /\ b7 = XTimes(b6)
      OBVIOUS
    <2> HIDE DEF a7, b7, c7, a6, b6, c6
    <2> QED BY <1>1, <1>9, <1>4, <2>1
  <1> HIDE DEF a1, a2, a3, a4, a5, a6, a7, b1, b2, b3, b4, b5, b6, b7, c1, c2, c3, c4, c5, c6, c7
  <1> DEFINE t(k, x) == Term(p, k, x)
  <1>11. /\ t(0, c) = Xor(t(0, a), t(0, b))    /\ t(1, c1) = Xor(t(1, a1), t(1, b1))
         /\ t(2, c2) = Xor(t(2, a2), t(2, b2)) /\ t(3, c3) = Xor(t(3, a3), t(3, b3))
         /\ t(4, c4) = Xor(t(4, a4), t(4, b4)) /\ t(5, c5) = Xor(t(5, a5), t(5, b5))
         /\ t(6, c6) = Xor(t(6, a6), t(6, b6)) /\ t(7, c7) = Xor(t(7, a7), t(7, b7))
    BY <1>2, <1>5, <1>6, <1>7, <1>8, <1>9, <1>10, TermXor
  <1> QED BY <1>3, <1>11, XorPairs

LEMMA ProductOfOctets ==
  ASSUME NEW p \in DOMAIN Product, NEW a \in Octet, NEW b \in Octet
  PROVE  /\ Product[p][Number(a)] = Times(a, p)
         /\ Product[p][Number(a)] \in Octet
         /\ Product[p][Number(Xor(a, b))] = Xor(Product[p][Number(a)], Product[p][Number(b)])
  <1>1. \A o \in Octet : Product[p][Number(o)] = Times(o, p)
    BY NumberInRange, BitsOfNumber DEF Product
  <1>2. Xor(a, b) \in Octet /\ Times(a, p) \in Octet /\ Times(Xor(a, b), p) = Xor(Times(a, p), Times(b, p))
    BY TimesOctet, TimesXor, XorClosed
  <1>3. Product[p][Number(Xor(a, b))] = Times(Xor(a, b), p)
    BY <1>1, <1>2
  <1> QED BY <1>1, <1>2, <1>3

-----------------------------------------------------------------------------
(* Columns: what the terms give for one octet of a column, and for the      *)
(* octet in row rr of a mixed column.                                       *)

Column == [0 .. 3 -> Octet]

Multiple(terms, rr, k, a) == Product[terms[((rr - k) % 4) + 1]][Number(a)]

MixedOctet(terms, f, rr) ==
  Xor(Xor(Multiple(terms, rr, 0, f[0]), Multiple(terms, rr, 1, f[1])),
      Xor(Multiple(terms, rr, 2, f[2]), Multiple(terms, rr, 3, f[3])))

LEMMA Coefficients ==
  ASSUME NEW terms \in {MixTerms, InvMixTerms}, NEW x \in 1 .. 4
  PROVE  terms[x] \in DOMAIN Product
  BY DEF MixTerms, InvMixTerms, Product

LEMMA MultipleXor ==
  ASSUME NEW terms \in {MixTerms, InvMixTerms}, NEW rr \in 0 .. 3, NEW k \in 0 .. 3,
         NEW a \in Octet, NEW b \in Octet
  PROVE  /\ Multiple(terms, rr, k, a) \in Octet
         /\ Multiple(terms, rr, k, Xor(a, b)) = Xor(Multiple(terms, rr, k, a), Multiple(terms, rr, k, b))
  <1>1. ((rr - k) % 4) + 1 \in 1 .. 4
    OBVIOUS
  <1>2. terms[((rr - k) % 4) + 1] \in DOMAIN Product
    BY <1>1, Coefficients
  <1> QED BY <1>2, ProductOfOctets DEF Multiple

LEMMA MixedOctetXor ==
  ASSUME NEW terms \in {MixTerms, InvMixTerms}, NEW rr \in 0 .. 3,
         NEW f \in Column, NEW g \in Column, NEW h \in Column,
         \A k \in 0 .. 3 : h[k] = Xor(f[k], g[k])
  PROVE  /\ MixedOctet(terms, f, rr) \in Octet
         /\ MixedOctet(terms, h, rr) = Xor(MixedOctet(terms, f, rr), MixedOctet(terms, g, rr))
  <1> DEFINE m(k, a) == Multiple(terms, rr, k, a)
  <1>1. \A k \in 0 .. 3 : /\ f[k] \in Octet /\ g[k] \in Octet
                          /\ m(k, f[k]) \in Octet /\ m(k, g[k]) \in Octet
                          /\ m(k, h[k]) = Xor(m(k, f[k]), m(k, g[k]))
    BY MultipleXor DEF Column
  <1>2. \A o : MixedOctet(terms, o, rr) = Xor(Xor(m(0, o[0]), m(1, o[1])), Xor(m(2, o[2]), m(3, o[3])))
    BY DEF MixedOctet
  <1> HIDE DEF m
  <1>3. MixedOctet(terms, f, rr) \in Octet
    BY <1>1, <1>2, XorClosed
  <1>4. MixedOctet(terms, h, rr) =
          Xor(Xor(Xor(m(0, f[0]), m(0, g[0])), Xor(m(1, f[1]), m(1, g[1]))),
              Xor(Xor(m(2, f[2]), m(2, g[2])), Xor(m(3, f[3]), m(3, g[3]))))
    BY <1>1, <1>2
  <1>5. MixedOctet(terms, h, rr) = Xor(MixedOctet(terms, f, rr), MixedOctet(terms, g, rr))
    BY <1>2, <1>4, XorPairs, SMTT(30)
  <1> QED BY <1>3, <1>5

(* A word that joins the multiples of an octet, rotated.                    *)
LEMMA RotatedMultiples ==
  ASSUME NEW terms \in {MixTerms, InvMixTerms}, NEW a \in Octet, NEW m \in 0 .. 3, NEW rr \in 0 .. 3
  PROVE  OctetAt(Rotated(8 * m, Joined(Multiples(a, terms))), rr) = Multiple(terms, rr, m, a)
  <1> DEFINE q == (rr - m) % 4
  <1>1. q \in 0 .. 3 /\ q + 1 \in 1 .. 4
    OBVIOUS
  <1>2. OctetAt(Rotated(8 * m, Joined(Multiples(a, terms))), rr) = OctetAt(Joined(Multiples(a, terms)), q)
    BY OctetAtRotated, JoinedWord
  <1> HIDE DEF q
  <1>3. Multiples(a, terms)[q] = Product[terms[q + 1]][Number(a)]
    BY <1>1 DEF Multiples
  <1>4. Product[terms[q + 1]][Number(a)] \in Octet
    BY <1>1, Coefficients, ProductOfOctets
  <1>5. OctetAt(Joined(Multiples(a, terms)), q) = Product[terms[q + 1]][Number(a)]
    BY <1>1, <1>3, <1>4, OctetAtJoined
  <1> QED BY <1>2, <1>5 DEF Multiple, q

LEMMA RotatedNone ==
  ASSUME NEW a \in Word
  PROVE  Rotated(0, a) = a
  <1>1. \A b \in a : (b + 0) % 32 = b
    BY DEF Word
  <1> QED BY <1>1 DEF Rotated

(* What the word tables of the program hold.                                *)
Tabulates(T, terms, box) ==
  \A m \in 0 .. 3, k \in 0 .. 255 :
    T[m][k] \in Word /\ \A rr \in 0 .. 3 : OctetAt(T[m][k], rr) = Multiple(terms, rr, m, box[k])

LEMMA TablesOfWords ==
  /\ Tabulates(encrypt_table, MixTerms, encrypt_sbox)
  /\ Tabulates(decrypt_table, InvMixTerms, decrypt_sbox)
  <1>1. ASSUME NEW k \in 0 .. 255, NEW m \in 0 .. 3
        PROVE  /\ encrypt_table[m][k] = Rotated(8 * m, Joined(Multiples(encrypt_sbox[k], MixTerms)))
               /\ decrypt_table[m][k] = Rotated(8 * m, Joined(Multiples(decrypt_sbox[k], InvMixTerms)))
    <2>1. /\ encrypt_table0[k] = Joined(Multiples(encrypt_sbox[k], MixTerms))
          /\ decrypt_table0[k] = Joined(Multiples(decrypt_sbox[k], InvMixTerms))
      BY DEF encrypt_table0, decrypt_table0
    <2>2. CASE m = 0
      BY <2>1, <2>2, RotatedNone, JoinedWord DEF encrypt_table, decrypt_table
    <2>3. CASE m = 1
      BY <2>1, <2>3 DEF encrypt_table, decrypt_table, encrypt_table1, decrypt_table1
    <2>4. CASE m = 2
      BY <2>1, <2>4 DEF encrypt_table, decrypt_table, encrypt_table2, decrypt_table2
    <2>5. CASE m = 3
      BY <2>1, <2>5 DEF encrypt_table, decrypt_table, encrypt_table3, decrypt_table3
    <2> QED BY <2>2, <2>3, <2>4, <2>5
  <1>2. \A k \in 0 .. 255 : encrypt_sbox[k] \in Octet /\ decrypt_sbox[k] \in Octet
    BY DataAssumption
  <1> HIDE DEF encrypt_table, decrypt_table, encrypt_sbox, decrypt_sbox
  <1>3. ASSUME NEW terms \in {MixTerms, InvMixTerms}, NEW T, NEW box,
               \A k \in 0 .. 255 : box[k] \in Octet,
               \A m \in 0 .. 3, k \in 0 .. 255 : T[m][k] = Rotated(8 * m, Joined(Multiples(box[k], terms)))
        PROVE  Tabulates(T, terms, box)
    <2> SUFFICES ASSUME NEW m \in 0 .. 3, NEW k \in 0 .. 255
                 PROVE  /\ T[m][k] \in Word
                        /\ \A rr \in 0 .. 3 : OctetAt(T[m][k], rr) = Multiple(terms, rr, m, box[k])
      BY DEF Tabulates
    <2>1. box[k] \in Octet /\ T[m][k] = Rotated(8 * m, Joined(Multiples(box[k], terms)))
      BY <1>3
    <2>2. 8 * m \in Nat
      OBVIOUS
    <2>3. T[m][k] \in Word
      BY <2>1, <2>2, RotatedWord, JoinedWord
    <2> QED BY <2>1, <2>3, RotatedMultiples
  <1> QED BY <1>1, <1>2, <1>3

LEMMA TabulatesXor ==
  ASSUME NEW T, NEW terms \in {MixTerms, InvMixTerms}, NEW box, Tabulates(T, terms, box),
         NEW ws, NEW k \in Word,
         NEW f, \A m \in 0 .. 3 : f[m] = box[Number(OctetAt(ws[m], m))]
  PROVE  /\ AES_ROUND(T, ws, k) \in Word
         /\ \A rr \in 0 .. 3 :
              OctetAt(AES_ROUND(T, ws, k), rr) = Xor(MixedOctet(terms, f, rr), OctetAt(k, rr))
  <1> DEFINE v(m) == T[m][Number(OctetAt(ws[m], m))]
             u(m) == box[Number(OctetAt(ws[m], m))]
  <1>1. \A m \in 0 .. 3 : v(m) \in Word /\ \A rr \in 0 .. 3 : OctetAt(v(m), rr) = Multiple(terms, rr, m, u(m))
    BY NumberInRange, OctetAtOctet DEF Tabulates
  <1>2. AES_ROUND(T, ws, k) = Xor(Xor(Xor(v(0), v(1)), Xor(v(2), v(3))), k)
    BY DEF AES_ROUND, Xor4
  <1>3. \A rr : MixedOctet(terms, f, rr) =
                  Xor(Xor(Multiple(terms, rr, 0, u(0)), Multiple(terms, rr, 1, u(1))),
                      Xor(Multiple(terms, rr, 2, u(2)), Multiple(terms, rr, 3, u(3))))
    BY DEF MixedOctet
  <1> HIDE DEF v, u
  <1>4. AES_ROUND(T, ws, k) \in Word
    BY <1>1, <1>2, XorClosed
  <1>5. ASSUME NEW rr \in 0 .. 3
        PROVE  OctetAt(AES_ROUND(T, ws, k), rr) =
                 Xor(Xor(Xor(OctetAt(v(0), rr), OctetAt(v(1), rr)),
                         Xor(OctetAt(v(2), rr), OctetAt(v(3), rr))), OctetAt(k, rr))
    <2>1. \A a, b : OctetAt(Xor(a, b), rr) = Xor(OctetAt(a, rr), OctetAt(b, rr))
      BY OctetAtXor, Zenon
    <2> QED BY <1>2, <2>1
  <1>6. \A rr \in 0 .. 3 : OctetAt(AES_ROUND(T, ws, k), rr) =
                             Xor(MixedOctet(terms, f, rr), OctetAt(k, rr))
    BY <1>1, <1>3, <1>5
  <1> QED BY <1>4, <1>6

LEMMA MixColumnOctets ==
  ASSUME NEW k \in Word
  PROVE  /\ MIX_COLUMN(k) \in Word
         /\ \A rr \in 0 .. 3 : OctetAt(MIX_COLUMN(k), rr) = MixedOctet(InvMixTerms, ColumnOf(k), rr)
  <1> DEFINE v(m) == Rotated(8 * m, mtable[Number(OctetAt(k, m))])
  <1>1. ASSUME NEW m \in 0 .. 3
        PROVE  v(m) \in Word /\ \A rr \in 0 .. 3 : OctetAt(v(m), rr) = Multiple(InvMixTerms, rr, m, OctetAt(k, m))
    <2>1. OctetAt(k, m) \in Octet /\ Number(OctetAt(k, m)) \in 0 .. 255
      BY OctetAtOctet, NumberInRange
    <2>2. mtable[Number(OctetAt(k, m))] = Joined(Multiples(OctetAt(k, m), InvMixTerms))
      BY <2>1, BitsOfNumber DEF mtable
    <2>3. 8 * m \in Nat
      OBVIOUS
    <2> QED BY <2>1, <2>2, <2>3, RotatedMultiples, RotatedWord, JoinedWord, SMTT(30)
  <1>2. MIX_COLUMN(k) = Xor(Xor(v(0), v(1)), Xor(v(2), v(3)))
    <2>1. mtable[Number(OctetAt(k, 0))] \in Word
      BY OctetAtOctet, NumberInRange, TablesAssumption
    <2>2. v(0) = mtable[Number(OctetAt(k, 0))]
      BY <2>1, RotatedNone
    <2> QED BY <2>2 DEF MIX_COLUMN, Xor4
  <1> HIDE DEF v
  <1>3. MIX_COLUMN(k) \in Word
    BY <1>1, <1>2, XorClosed
  <1>4. ASSUME NEW rr \in 0 .. 3
        PROVE  OctetAt(MIX_COLUMN(k), rr) =
                 Xor(Xor(OctetAt(v(0), rr), OctetAt(v(1), rr)), Xor(OctetAt(v(2), rr), OctetAt(v(3), rr)))
    <2>1. \A a, b : OctetAt(Xor(a, b), rr) = Xor(OctetAt(a, rr), OctetAt(b, rr))
      BY OctetAtXor, Zenon
    <2> QED BY <1>2, <2>1
  <1>5. \A m \in 0 .. 3 : ColumnOf(k)[m] = OctetAt(k, m)
    BY DEF ColumnOf
  <1> QED BY <1>1, <1>3, <1>4, <1>5 DEF MixedOctet

LEMMA SubstitutedOctets ==
  ASSUME NEW box, \A k \in 0 .. 255 : box[k] \in Octet, NEW x
  PROVE  /\ SUBBYTE(x, box) \in Word
         /\ \A rr \in 0 .. 3 : OctetAt(SUBBYTE(x, box), rr) = box[Number(OctetAt(x, rr))]
  <1>1. \A rr : box[Number(OctetAt(x, rr))] \in Octet
    BY OctetAtOctet, NumberInRange
  <1> QED BY <1>1, OctetAtJoined, JoinedWord DEF SUBBYTE

LEMMA FinalRoundOctets ==
  ASSUME NEW box, \A k \in 0 .. 255 : box[k] \in Octet, NEW ws, NEW k \in Word
  PROVE  /\ AES_FINAL_ROUND(box, ws, k) \in Word
         /\ \A rr \in 0 .. 3 : OctetAt(AES_FINAL_ROUND(box, ws, k), rr) =
                                 Xor(box[Number(OctetAt(ws[rr], rr))], OctetAt(k, rr))
  <1> DEFINE f == [m \in 0 .. 3 |-> box[Number(OctetAt(ws[m], m))]]
  <1>1. \A a, rr : box[Number(OctetAt(a, rr))] \in Octet
    BY OctetAtOctet, NumberInRange
  <1>2. \A rr \in 0 .. 3 : OctetAt(Joined(f), rr) = box[Number(OctetAt(ws[rr], rr))]
    BY <1>1, OctetAtJoined
  <1>3. AES_FINAL_ROUND(box, ws, k) = Xor(Joined(f), k)
    BY DEF AES_FINAL_ROUND
  <1> HIDE DEF f
  <1>4. \A rr : OctetAt(Xor(Joined(f), k), rr) = Xor(OctetAt(Joined(f), rr), OctetAt(k, rr))
    BY OctetAtXor, Zenon
  <1> QED BY <1>2, <1>3, <1>4, JoinedWord, XorClosed

-----------------------------------------------------------------------------
(* FIPS 197 on the mapped state. *)

LEMMA FipsWords ==
  /\ \A a, b : Fips!Xor(a, b) = Xor(a, b)
  /\ \A o : Fips!Number(o) = Number(o)
  /\ Fips!Octet = Octet
  BY DEF Fips!Xor, Xor, Fips!Number, Number, Fips!Bit, Bit, Fips!Octet, Octet

LEMMA FipsMixColumns ==
  ASSUME NEW s, NEW terms
  PROVE  Fips!MixColumns(s, terms) = [c \in 0 .. 3 |-> [rr \in 0 .. 3 |-> MixedOctet(terms, s[c], rr)]]
  <1>1. \A c, rr, k : Fips!Times(s[c][k], terms[((rr - k) % 4) + 1]) = Multiple(terms, rr, k, s[c][k])
    BY FipsWords DEF Fips!Times, Multiple
  <1> QED BY <1>1, FipsWords DEF Fips!MixColumns, Fips!EachOctet, MixedOctet

LEMMA FipsSubBytes ==
  ASSUME NEW s, NEW box
  PROVE  /\ Fips!ShiftRows(Fips!SubBytes(s, box)) =
              [c \in 0 .. 3 |-> [rr \in 0 .. 3 |-> box[Number(s[(c + rr) % 4][rr])]]]
         /\ Fips!SubBytes(Fips!InvShiftRows(s), box) =
              [c \in 0 .. 3 |-> [rr \in 0 .. 3 |-> box[Number(s[(c - rr) % 4][rr])]]]
  <1>1. \A c, rr \in 0 .. 3 : (c + rr) % 4 \in 0 .. 3 /\ (c - rr) % 4 \in 0 .. 3
    OBVIOUS
  <1>2. Fips!SubBytes(s, box) = [c \in 0 .. 3 |-> [rr \in 0 .. 3 |-> box[Number(s[c][rr])]]]
    BY FipsWords DEF Fips!SubBytes, Fips!EachOctet
  <1>3. Fips!InvShiftRows(s) = [c \in 0 .. 3 |-> [rr \in 0 .. 3 |-> s[(c - rr) % 4][rr]]]
    BY DEF Fips!InvShiftRows, Fips!EachOctet
  <1>4. \A t : Fips!ShiftRows(t) = [c \in 0 .. 3 |-> [rr \in 0 .. 3 |-> t[(c + rr) % 4][rr]]]
    BY DEF Fips!ShiftRows, Fips!EachOctet
  <1>5. \A t : Fips!SubBytes(t, box) = [c \in 0 .. 3 |-> [rr \in 0 .. 3 |-> box[Number(t[c][rr])]]]
    BY FipsWords DEF Fips!SubBytes, Fips!EachOctet
  <1>6. Fips!ShiftRows(Fips!SubBytes(s, box)) =
          [c \in 0 .. 3 |-> [rr \in 0 .. 3 |-> box[Number(s[(c + rr) % 4][rr])]]]
    BY <1>1, <1>2, <1>4
  <1>7. Fips!SubBytes(Fips!InvShiftRows(s), box) =
          [c \in 0 .. 3 |-> [rr \in 0 .. 3 |-> box[Number(s[(c - rr) % 4][rr])]]]
    BY <1>1, <1>3, <1>5
  <1> QED BY <1>6, <1>7

(* The words of the subkey q, and the state that they are added to.         *)
WordsOfKey(q) == [z \in 0 .. 3 |-> expanded[4 * q + z + 1]]
KeyAdded(s, ks) == [c \in 0 .. 3 |-> [rr \in 0 .. 3 |-> Xor(s[c][rr], OctetAt(ks[c], rr))]]

LEMMA FipsAddRoundKey ==
  ASSUME NEW s, NEW q \in Nat, expanded \in Seq(Word), 4 * q + 4 <= Len(expanded)
  PROVE  Fips!AddRoundKey(s, q) = KeyAdded(s, WordsOfKey(q))
  <1> DEFINE sched == [z \in 1 .. Len(expanded) |-> ColumnOf(expanded[z])]
  <1>1. \A c, rr \in 0 .. 3 : sched[4 * q + c + 1][rr] = OctetAt(expanded[4 * q + c + 1], rr)
    <2> TAKE c, rr \in 0 .. 3
    <2>1. 4 * q + c + 1 \in 1 .. Len(expanded)
      OBVIOUS
    <2> QED BY <2>1 DEF ColumnOf
  <1>2. Fips!AddRoundKey(s, q) = [c \in 0 .. 3 |-> [rr \in 0 .. 3 |-> Xor(s[c][rr], sched[4 * q + c + 1][rr])]]
    <2>1. Fips!AddRoundKey(s, q) =
            [c \in 0 .. 3 |-> [rr \in 0 .. 3 |-> Fips!Xor(s[c][rr], sched[4 * q + c + 1][rr])]]
      BY DEF Fips!AddRoundKey, Fips!EachOctet, Fips!Nb
    <2> HIDE DEF sched
    <2> QED BY <2>1, FipsWords
  <1> HIDE DEF sched
  <1>3. \A c \in 0 .. 3 : WordsOfKey(q)[c] = expanded[4 * q + c + 1]
    BY DEF WordsOfKey
  <1> QED BY <1>1, <1>2, <1>3 DEF KeyAdded

StateOf(ws) == [c \in 0 .. 3 |-> ColumnOf(ws[c])]

(* The words after a round of the program with the subkey of the words ks.  *)
EncryptedWords(ws, ks) ==
  [z \in 0 .. 3 |-> AES_ROUND(encrypt_table, [m \in 0 .. 3 |-> ws[(z + m) % 4]], ks[z])]
DecryptedWords(ws, ks) ==
  [z \in 0 .. 3 |-> AES_ROUND(decrypt_table, [m \in 0 .. 3 |-> ws[(z - m) % 4]], MIX_COLUMN(ks[z]))]

(* A round of the program is a round of the cipher ...                      *)
LEMMA EncryptionRound ==
  ASSUME NEW ws, NEW ks \in [0 .. 3 -> Word]
  PROVE  /\ EncryptedWords(ws, ks) \in [0 .. 3 -> Word]
         /\ StateOf(EncryptedWords(ws, ks)) =
              KeyAdded(Fips!MixColumns(Fips!ShiftRows(Fips!SubBytes(StateOf(ws), SubByte)), MixTerms), ks)
  <1> DEFINE into(z) == [m \in 0 .. 3 |-> ws[(z + m) % 4]]
             subst(z) == [m \in 0 .. 3 |-> encrypt_sbox[Number(OctetAt(into(z)[m], m))]]
             new == EncryptedWords(ws, ks)
             mixed == Fips!MixColumns(Fips!ShiftRows(Fips!SubBytes(StateOf(ws), SubByte)), MixTerms)
             shifted == Fips!ShiftRows(Fips!SubBytes(StateOf(ws), SubByte))
  <1>1. \A z \in 0 .. 3 :
          /\ AES_ROUND(encrypt_table, into(z), ks[z]) \in Word
          /\ \A rr \in 0 .. 3 : OctetAt(AES_ROUND(encrypt_table, into(z), ks[z]), rr) =
                                  Xor(MixedOctet(MixTerms, subst(z), rr), OctetAt(ks[z], rr))
    <2> TAKE z \in 0 .. 3
    <2>1. MixTerms \in {MixTerms, InvMixTerms} /\ ks[z] \in Word
      OBVIOUS
    <2>2. \A m \in 0 .. 3 : subst(z)[m] = encrypt_sbox[Number(OctetAt(into(z)[m], m))]
      OBVIOUS
    <2> HIDE DEF into, subst
    <2> QED BY <2>1, <2>2, TablesOfWords, TabulatesXor, SMTT(30)
  <1>2. \A z \in 0 .. 3 : shifted[z] = subst(z)
    <2>1. shifted = [c \in 0 .. 3 |-> [rr \in 0 .. 3 |-> SubByte[Number(StateOf(ws)[(c + rr) % 4][rr])]]]
      BY FipsSubBytes
    <2>2. \A c, rr \in 0 .. 3 : (c + rr) % 4 \in 0 .. 3
      OBVIOUS
    <2>3. \A c, rr \in 0 .. 3 : StateOf(ws)[(c + rr) % 4][rr] = OctetAt(into(c)[rr], rr)
      BY <2>2 DEF StateOf, ColumnOf
    <2>4. encrypt_sbox = SubByte
      BY TablesAssumption
    <2> HIDE DEF into, shifted
    <2> QED BY <2>1, <2>3, <2>4
  <1>3. mixed = [c \in 0 .. 3 |-> [rr \in 0 .. 3 |-> MixedOctet(MixTerms, shifted[c], rr)]]
    BY FipsMixColumns
  <1>4. \A z \in 0 .. 3 : new[z] = AES_ROUND(encrypt_table, into(z), ks[z])
    BY DEF EncryptedWords
  <1>5. new = [z \in 0 .. 3 |-> new[z]]
    BY DEF EncryptedWords
  <1> HIDE DEF into, subst, shifted, new, mixed
  <1>6. \A c, rr \in 0 .. 3 : OctetAt(new[c], rr) = Xor(mixed[c][rr], OctetAt(ks[c], rr))
    BY <1>1, <1>2, <1>3, <1>4
  <1>7. new \in [0 .. 3 -> Word]
    BY <1>1, <1>4, <1>5
  <1>8. StateOf(new) = KeyAdded(mixed, ks)
    BY <1>6 DEF StateOf, ColumnOf, KeyAdded
  <1> QED BY <1>7, <1>8 DEF new, mixed

(* ... and, because MixColumns is linear and the subkey was multiplied, of  *)
(* the inverse cipher.                                                      *)
LEMMA DecryptionRound ==
  ASSUME NEW ws, NEW ks \in [0 .. 3 -> Word]
  PROVE  /\ DecryptedWords(ws, ks) \in [0 .. 3 -> Word]
         /\ StateOf(DecryptedWords(ws, ks)) =
              Fips!MixColumns(KeyAdded(Fips!SubBytes(Fips!InvShiftRows(StateOf(ws)), InvSubByte), ks), InvMixTerms)
  <1> DEFINE into(z) == [m \in 0 .. 3 |-> ws[(z - m) % 4]]
             subst(z) == [m \in 0 .. 3 |-> decrypt_sbox[Number(OctetAt(into(z)[m], m))]]
             new == DecryptedWords(ws, ks)
             shifted == Fips!SubBytes(Fips!InvShiftRows(StateOf(ws)), InvSubByte)
  <1> DEFINE added == KeyAdded(shifted, ks)
  <1>0. \A z \in 0 .. 3 :
          /\ MIX_COLUMN(ks[z]) \in Word
          /\ \A rr \in 0 .. 3 : OctetAt(MIX_COLUMN(ks[z]), rr) = MixedOctet(InvMixTerms, ColumnOf(ks[z]), rr)
    BY MixColumnOctets
  <1>1. \A z \in 0 .. 3 :
          /\ AES_ROUND(decrypt_table, into(z), MIX_COLUMN(ks[z])) \in Word
          /\ \A rr \in 0 .. 3 : OctetAt(AES_ROUND(decrypt_table, into(z), MIX_COLUMN(ks[z])), rr) =
                                  Xor(MixedOctet(InvMixTerms, subst(z), rr), MixedOctet(InvMixTerms, ColumnOf(ks[z]), rr))
    <2> TAKE z \in 0 .. 3
    <2>1. InvMixTerms \in {MixTerms, InvMixTerms} /\ MIX_COLUMN(ks[z]) \in Word
      BY <1>0
    <2>2. \A m \in 0 .. 3 : subst(z)[m] = decrypt_sbox[Number(OctetAt(into(z)[m], m))]
      OBVIOUS
    <2> HIDE DEF into, subst
    <2>3. /\ AES_ROUND(decrypt_table, into(z), MIX_COLUMN(ks[z])) \in Word
          /\ \A rr \in 0 .. 3 : OctetAt(AES_ROUND(decrypt_table, into(z), MIX_COLUMN(ks[z])), rr) =
                                  Xor(MixedOctet(InvMixTerms, subst(z), rr), OctetAt(MIX_COLUMN(ks[z]), rr))
      BY <2>1, <2>2, TablesOfWords, TabulatesXor
    <2> QED BY <1>0, <2>3
  <1>2. \A z \in 0 .. 3 : shifted[z] = subst(z) /\ subst(z) \in Column
    <2>1. shifted = [c \in 0 .. 3 |-> [rr \in 0 .. 3 |-> InvSubByte[Number(StateOf(ws)[(c - rr) % 4][rr])]]]
      BY FipsSubBytes
    <2>2. \A c, rr \in 0 .. 3 : (c - rr) % 4 \in 0 .. 3
      OBVIOUS
    <2>3. \A c, rr \in 0 .. 3 : StateOf(ws)[(c - rr) % 4][rr] = OctetAt(into(c)[rr], rr)
      BY <2>2 DEF StateOf, ColumnOf
    <2>4. decrypt_sbox = InvSubByte
      BY TablesAssumption
    <2>5. \A x, rr : decrypt_sbox[Number(OctetAt(x, rr))] \in Octet
      BY DataAssumption, NumberInRange, OctetAtOctet
    <2> HIDE DEF into, shifted
    <2>6. \A z \in 0 .. 3 : subst(z) \in Column
      BY <2>5 DEF Column
    <2> QED BY <2>1, <2>3, <2>4, <2>6
  <1>3. \A c, rr \in 0 .. 3 : added[c][rr] = Xor(shifted[c][rr], ColumnOf(ks[c])[rr])
    BY DEF ColumnOf, KeyAdded
  <1>4. \A z \in 0 .. 3 : new[z] = AES_ROUND(decrypt_table, into(z), MIX_COLUMN(ks[z]))
    BY DEF DecryptedWords
  <1>5. new = [z \in 0 .. 3 |-> new[z]] /\ added = [z \in 0 .. 3 |-> [rr \in 0 .. 3 |-> added[z][rr]]]
    BY DEF DecryptedWords, KeyAdded
  <1>6. \A c \in 0 .. 3 : ColumnOf(ks[c]) \in Column
    BY OctetAtOctet DEF ColumnOf, Column
  <1> HIDE DEF into, subst, shifted, new, added
  <1>7. \A c \in 0 .. 3 : added[c] \in Column
    BY <1>2, <1>3, <1>5, <1>6, XorClosed DEF Column
  <1>8. \A c, rr \in 0 .. 3 : MixedOctet(InvMixTerms, added[c], rr) =
          Xor(MixedOctet(InvMixTerms, subst(c), rr), MixedOctet(InvMixTerms, ColumnOf(ks[c]), rr))
    <2> TAKE c, rr \in 0 .. 3
    <2>1. /\ added[c] \in Column /\ subst(c) \in Column /\ ColumnOf(ks[c]) \in Column
          /\ \A k \in 0 .. 3 : added[c][k] = Xor(subst(c)[k], ColumnOf(ks[c])[k])
      BY <1>2, <1>3, <1>6, <1>7
    <2> QED BY <2>1, MixedOctetXor
  <1>9. Fips!MixColumns(added, InvMixTerms) = [c \in 0 .. 3 |-> [rr \in 0 .. 3 |-> MixedOctet(InvMixTerms, added[c], rr)]]
    BY FipsMixColumns
  <1>10. \A c, rr \in 0 .. 3 : OctetAt(new[c], rr) = MixedOctet(InvMixTerms, added[c], rr)
    BY <1>1, <1>4, <1>8
  <1>11. new \in [0 .. 3 -> Word]
    BY <1>1, <1>4, <1>5
  <1>12. StateOf(new) = Fips!MixColumns(added, InvMixTerms)
    BY <1>9, <1>10 DEF StateOf, ColumnOf
  <1> QED BY <1>11, <1>12 DEF new, added, shifted

-----------------------------------------------------------------------------
(* Key expansion. *)

LEMMA RconIsPower ==
  \A z \in 0 .. 9 : Fips!Power[z] = rcon[z]
  <1> DEFINE isPower(g) == g = [z \in 0 .. 9 |-> IF z = 0 THEN {0} ELSE Fips!Times(g[z - 1], {1})]
  <1>0. /\ rcon \in [0 .. 9 -> Octet] /\ rcon[0] = {0}
        /\ \A z \in 1 .. 9 : rcon[z] = Product[{1}][Number(rcon[z - 1])]
    BY DataAssumption
  <1>1. \A a : Fips!Times(a, {1}) = Product[{1}][Number(a)]
    BY FipsWords DEF Fips!Times
  <1>2. isPower(rcon)
    <2>1. rcon = [z \in 0 .. 9 |-> rcon[z]]
      BY <1>0
    <2>2. \A z \in 0 .. 9 : z # 0 => z \in 1 .. 9
      OBVIOUS
    <2>3. \A z \in 0 .. 9 : rcon[z] = IF z = 0 THEN {0} ELSE Fips!Times(rcon[z - 1], {1})
      BY <1>0, <1>1, <2>2
    <2> QED BY <2>1, <2>3
  <1>3. Fips!Power = CHOOSE g : isPower(g)
    BY DEF Fips!Power
  <1>4. isPower(Fips!Power)
    <2> HIDE DEF isPower
    <2> QED BY <1>2, <1>3, Zenon
  <1> DEFINE same(z) == Fips!Power[z] = rcon[z]
  <1>5. same(0)
    <2>1. Fips!Power[0] = {0}
      BY <1>4
    <2> QED BY <1>0, <2>1
  <1>6. ASSUME NEW z \in 1 .. 9, same(z - 1)
        PROVE  same(z)
    <2>1. z - 1 \in 0 .. 9 /\ z \in 0 .. 9 /\ z # 0
      OBVIOUS
    <2>2. Fips!Power[z] = Fips!Times(Fips!Power[z - 1], {1})
      BY <1>4, <2>1
    <2>3. rcon[z] = Product[{1}][Number(rcon[z - 1])]
      BY <1>0
    <2> QED BY <1>1, <1>6, <2>2, <2>3
  <1> HIDE DEF same
  <1>7. same(1) /\ same(2) /\ same(3) /\ same(4) /\ same(5) /\ same(6) /\ same(7) /\ same(8) /\ same(9)
    BY <1>5, <1>6
  <1>8. ASSUME NEW z \in 0 .. 9
        PROVE  same(z)
    <2>1. z = 0 \/ z = 1 \/ z = 2 \/ z = 3 \/ z = 4 \/ z = 5 \/ z = 6 \/ z = 7 \/ z = 8 \/ z = 9
      OBVIOUS
    <2> QED BY <1>5, <1>7, <2>1
  <1> QED BY <1>8 DEF same

LEMMA OctetAsWord ==
  ASSUME NEW o \in Octet
  PROVE  /\ o \in Word
         /\ \A rr \in 0 .. 3 : OctetAt(o, rr) = IF rr = 0 THEN o ELSE {}
  <1>1. \A b \in o : b \in 0 .. 7
    BY DEF Octet
  <1>2. OctetAt(o, 0) = o
    BY <1>1 DEF OctetAt
  <1>3. \A rr \in 1 .. 3, b \in 0 .. 7 : b + 8 * rr \notin 0 .. 7
    OBVIOUS
  <1>4. \A rr \in 1 .. 3 : OctetAt(o, rr) = {}
    BY <1>1, <1>3 DEF OctetAt
  <1> QED BY <1>1, <1>2, <1>4 DEF Word

(* The key words of the program's three key sizes.                          *)
LEMMA KeyWordCounts ==
  ASSUME NEW keysize \in Nat
  PROVE  NkOf(keysize) \in {4, 6, 8} /\ NrOf(keysize) = NkOf(keysize) + 6
  BY DEF NkOf, NrOf

(* What the program adds is what FIPS 197 adds.                             *)
LEMMA SubkeyTermOctets ==
  ASSUME NEW t \in Word, NEW nk \in {4, 6, 8}, NEW z \in nk .. 4 * (nk + 7) - 1, rp = (z - 1) \div nk
  PROVE  /\ z % nk = 0 => rp \in 0 .. 9 /\ z \div nk - 1 = rp
         /\ SubkeyTerm(t, z, nk) \in Word
         /\ \A rr \in 0 .. 3 :
              OctetAt(SubkeyTerm(t, z, nk), rr) =
                IF z % nk = 0
                THEN Xor(SubByte[Number(OctetAt(t, (rr + 1) % 4))], IF rr = 0 THEN Fips!Power[z \div nk - 1] ELSE {})
                ELSE IF nk > 6 /\ z % nk = 4 THEN SubByte[Number(OctetAt(t, rr))] ELSE OctetAt(t, rr)
  <1>1. z % nk = 0 => rp \in 0 .. 9 /\ z \div nk - 1 = rp
    <2>1. CASE nk = 4
      BY <2>1
    <2>2. CASE nk = 6
      BY <2>2
    <2>3. CASE nk = 8
      BY <2>3
    <2> QED BY <2>1, <2>2, <2>3
  <1>2. encrypt_sbox = SubByte /\ \A k \in 0 .. 255 : encrypt_sbox[k] \in Octet
    BY TablesAssumption, DataAssumption
  <1>3. \A x : /\ SUBBYTE(x, encrypt_sbox) \in Word
               /\ \A rr \in 0 .. 3 : OctetAt(SUBBYTE(x, encrypt_sbox), rr) = SubByte[Number(OctetAt(x, rr))]
    <2> TAKE x
    <2>1. /\ SUBBYTE(x, encrypt_sbox) \in Word
          /\ \A rr \in 0 .. 3 : OctetAt(SUBBYTE(x, encrypt_sbox), rr) = encrypt_sbox[Number(OctetAt(x, rr))]
      BY <1>2, SubstitutedOctets
    <2> QED BY <1>2, <2>1
  <1>4. CASE z % nk = 0
    <2>1. SubkeyTerm(t, z, nk) = Xor(SUBBYTE(Rotated(24, t), encrypt_sbox), rcon[rp])
      BY <1>4 DEF SubkeyTerm
    <2>2. rcon[rp] \in Octet /\ rcon[rp] = Fips!Power[z \div nk - 1]
      BY <1>1, <1>4, DataAssumption, RconIsPower, ZenonT(60)
    <2>3. \A rr \in 0 .. 3 : OctetAt(Rotated(24, t), rr) = OctetAt(t, (rr + 1) % 4)
      <3>1. \A rr \in 0 .. 3 : (rr - 3) % 4 = (rr + 1) % 4
        OBVIOUS
      <3>2. 24 = 8 * 3
        OBVIOUS
      <3> QED BY <3>1, <3>2, OctetAtRotated
    <2>4. \A rr \in 0 .. 3 : OctetAt(rcon[rp], rr) = IF rr = 0 THEN Fips!Power[z \div nk - 1] ELSE {}
      BY <2>2, OctetAsWord
    <2>5. SubkeyTerm(t, z, nk) \in Word
      BY <1>3, <2>1, <2>2, OctetAsWord, XorClosed
    <2>6. \A rr \in 0 .. 3 : OctetAt(SubkeyTerm(t, z, nk), rr) =
            Xor(SubByte[Number(OctetAt(t, (rr + 1) % 4))], IF rr = 0 THEN Fips!Power[z \div nk - 1] ELSE {})
      <3>1. \A rr : OctetAt(SubkeyTerm(t, z, nk), rr) =
                      Xor(OctetAt(SUBBYTE(Rotated(24, t), encrypt_sbox), rr), OctetAt(rcon[rp], rr))
        BY <2>1, OctetAtXor, Zenon
      <3>2. \A rr \in 0 .. 3 : OctetAt(SUBBYTE(Rotated(24, t), encrypt_sbox), rr) = SubByte[Number(OctetAt(t, (rr + 1) % 4))]
        BY <1>3, <2>3
      <3> QED BY <2>4, <3>1, <3>2
    <2> QED BY <1>1, <1>4, <2>5, <2>6
  <1>5. CASE z % nk # 0 /\ nk > 6 /\ z % nk = 4
    BY <1>3, <1>5 DEF SubkeyTerm
  <1>6. CASE z % nk # 0 /\ ~(nk > 6 /\ z % nk = 4)
    BY <1>6 DEF SubkeyTerm
  <1> QED BY <1>1, <1>4, <1>5, <1>6

(* The schedule of FIPS 197 is the sequence of subkeys.                     *)
LEMMA MappedSequence ==
  ASSUME NEW s \in Seq(Word)
  PROVE  LET mapped == [z \in 1 .. Len(s) |-> ColumnOf(s[z])]
         IN  /\ mapped \in Seq(Column) /\ Len(mapped) = Len(s)
             /\ \A z \in 1 .. Len(s) : s[z] \in Word /\ mapped[z] = ColumnOf(s[z])
  <1>1. \A z \in 1 .. Len(s) : ColumnOf(s[z]) \in Column
    BY OctetAtOctet DEF ColumnOf, Column
  <1> QED BY <1>1

LEMMA MappedAppend ==
  ASSUME NEW s \in Seq(Word), NEW x \in Word
  PROVE  [z \in 1 .. Len(Append(s, x)) |-> ColumnOf(Append(s, x)[z])] =
           Append([z \in 1 .. Len(s) |-> ColumnOf(s[z])], ColumnOf(x))
  <1> DEFINE a == [z \in 1 .. Len(s) |-> ColumnOf(s[z])]
             b == [z \in 1 .. Len(Append(s, x)) |-> ColumnOf(Append(s, x)[z])]
  <1>1. ColumnOf(x) \in Column
    BY OctetAtOctet DEF ColumnOf, Column
  <1>2. a \in Seq(Column) /\ Len(a) = Len(s) /\ \A z \in 1 .. Len(s) : a[z] = ColumnOf(s[z])
    BY MappedSequence
  <1>3. Append(s, x) \in Seq(Word) /\ Len(Append(s, x)) = Len(s) + 1
    OBVIOUS
  <1>4. b \in Seq(Column) /\ Len(b) = Len(s) + 1 /\ \A z \in 1 .. Len(s) + 1 : b[z] = ColumnOf(Append(s, x)[z])
    BY <1>3, MappedSequence
  <1>5. /\ \A z \in 1 .. Len(s) : Append(s, x)[z] = s[z]
        /\ Append(s, x)[Len(s) + 1] = x
    OBVIOUS
  <1> HIDE DEF a, b
  <1>6. Append(a, ColumnOf(x)) \in Seq(Column) /\ Len(Append(a, ColumnOf(x))) = Len(s) + 1
    BY <1>1, <1>2
  <1>7. ASSUME NEW z \in 1 .. Len(s) + 1
        PROVE  b[z] = Append(a, ColumnOf(x))[z]
    <2>1. CASE z \in 1 .. Len(s)
      BY <1>1, <1>2, <1>4, <1>5, <2>1
    <2>2. CASE z = Len(s) + 1
      BY <1>1, <1>2, <1>4, <1>5, <2>2
    <2>3. z \in 1 .. Len(s) \/ z = Len(s) + 1
      <3>1. Len(s) \in Nat
        OBVIOUS
      <3> QED BY <3>1
    <2> QED BY <2>1, <2>2, <2>3
  <1>8. b = Append(a, ColumnOf(x))
    BY <1>4, <1>6, <1>7
  <1> QED BY <1>8 DEF a, b

LEMMA NextSubkey ==
  ASSUME NEW nk \in {4, 6, 8}, nk = NkOf(call.keysize), expanded \in Seq(Word), i = Len(expanded),
         i \in nk .. 4 * (nk + 7) - 1, rp = (i - 1) \div nk,
         NEW subkey, subkey = Xor(expanded[i + 1 - nk], SubkeyTerm(expanded[i], i, nk))
  PROVE  subkey \in Word /\ Fips!NextWord = ColumnOf(subkey)
  <1> DEFINE sched == [z \in 1 .. Len(expanded) |-> ColumnOf(expanded[z])]
             power == Fips!Power[i \div nk - 1]
             temp(rr) == IF i % nk = 0
                         THEN Xor(SubByte[Number(OctetAt(expanded[i], (rr + 1) % 4))], IF rr = 0 THEN power ELSE {})
                         ELSE IF nk > 6 /\ i % nk = 4 THEN SubByte[Number(OctetAt(expanded[i], rr))]
                         ELSE OctetAt(expanded[i], rr)
             ftemp == CASE i % nk = 0            -> Fips!ColumnXor(Fips!SubWord(Fips!RotWord(sched[i])), Fips!Rcon(i \div nk))
                        [] nk > 6 /\ i % nk = 4  -> Fips!SubWord(sched[i])
                        [] OTHER                 -> sched[i]
  <1>1. /\ i \in 1 .. Len(expanded) /\ i + 1 - nk \in 1 .. Len(expanded)
        /\ expanded[i] \in Word /\ expanded[i + 1 - nk] \in Word
    BY SMTT(30)
  <1>2. /\ SubkeyTerm(expanded[i], i, nk) \in Word
        /\ \A rr \in 0 .. 3 : OctetAt(SubkeyTerm(expanded[i], i, nk), rr) = temp(rr)
    BY <1>1, SubkeyTermOctets
  <1>3. Len(sched) = Len(expanded) /\ \A z \in 1 .. Len(expanded) : sched[z] = ColumnOf(expanded[z])
    BY MappedSequence
  <1>4. Fips!NextWord = Fips!ColumnXor(sched[i + 1 - nk], ftemp)
    BY <1>3 DEF Fips!NextWord
  <1>5. \A a, b : Fips!ColumnXor(a, b) = [rr \in 0 .. 3 |-> Xor(a[rr], b[rr])]
    BY FipsWords DEF Fips!ColumnXor
  <1>6. \A a : Fips!SubWord(a) = [rr \in 0 .. 3 |-> SubByte[Number(a[rr])]]
    BY FipsWords DEF Fips!SubWord
  <1>7. \A a : Fips!RotWord(a) = [rr \in 0 .. 3 |-> a[(rr + 1) % 4]]
    BY DEF Fips!RotWord
  <1>8. Fips!Rcon(i \div nk) = [rr \in 0 .. 3 |-> IF rr = 0 THEN power ELSE {}]
    BY DEF Fips!Rcon
  <1>9. \A rr \in 0 .. 3 : sched[i][rr] = OctetAt(expanded[i], rr) /\ sched[i + 1 - nk][rr] = OctetAt(expanded[i + 1 - nk], rr)
    BY <1>1, <1>3 DEF ColumnOf
  <1>10. \A rr \in 0 .. 3 : (rr + 1) % 4 \in 0 .. 3
    OBVIOUS
  <1> HIDE DEF sched, power
  <1>11. \A rr \in 0 .. 3 : ftemp[rr] = temp(rr)
    <2>1. CASE i % nk = 0
      <3>1. ftemp = Fips!ColumnXor(Fips!SubWord(Fips!RotWord(sched[i])), Fips!Rcon(i \div nk))
        BY <2>1
      <3>2. \A rr \in 0 .. 3 : Fips!SubWord(Fips!RotWord(sched[i]))[rr] = SubByte[Number(OctetAt(expanded[i], (rr + 1) % 4))]
        BY <1>6, <1>7, <1>9, <1>10
      <3>3. \A rr \in 0 .. 3 : ftemp[rr] = Xor(Fips!SubWord(Fips!RotWord(sched[i]))[rr], Fips!Rcon(i \div nk)[rr])
        <4> HIDE DEF ftemp
        <4> QED BY <3>1, <1>5
      <3>4. \A rr \in 0 .. 3 : Fips!Rcon(i \div nk)[rr] = IF rr = 0 THEN power ELSE {}
        BY <1>8
      <3> DEFINE term(rr) == IF rr = 0 THEN power ELSE {}
      <3>5. \A rr \in 0 .. 3 : temp(rr) = Xor(SubByte[Number(OctetAt(expanded[i], (rr + 1) % 4))], term(rr))
        BY <2>1
      <3>6. \A rr \in 0 .. 3 : Fips!Rcon(i \div nk)[rr] = term(rr)
        BY <3>4
      <3> HIDE DEF ftemp, temp, term
      <3> QED BY <3>2, <3>3, <3>5, <3>6
    <2>2. CASE i % nk # 0 /\ nk > 6 /\ i % nk = 4
      <3>1. ftemp = Fips!SubWord(sched[i])
        BY <2>2
      <3> QED BY <2>2, <3>1, <1>6, <1>9
    <2>3. CASE i % nk # 0 /\ ~(nk > 6 /\ i % nk = 4)
      <3>1. ftemp = sched[i]
        BY <2>3
      <3> QED BY <2>3, <3>1, <1>9
    <2> QED BY <2>1, <2>2, <2>3
  <1> HIDE DEF temp, ftemp
  <1>12. \A rr : OctetAt(subkey, rr) =
                   Xor(OctetAt(expanded[i + 1 - nk], rr), OctetAt(SubkeyTerm(expanded[i], i, nk), rr))
    BY OctetAtXor, Zenon
  <1>13. Fips!NextWord = [rr \in 0 .. 3 |-> Xor(sched[i + 1 - nk][rr], ftemp[rr])]
    BY <1>4, <1>5
  <1>14. \A rr \in 0 .. 3 : OctetAt(subkey, rr) = Xor(sched[i + 1 - nk][rr], ftemp[rr])
    BY <1>2, <1>9, <1>11, <1>12, SMTT(30)
  <1> QED BY <1>1, <1>2, <1>13, <1>14, XorClosed DEF ColumnOf

-----------------------------------------------------------------------------
(* The inductive invariant.  The subkeys of a context are those that were   *)
(* made, in the order that the step has reached.                            *)

CallNk == NkOf(call.keysize)
CallNr == CallNk + 6

Subkey(m) == expanded[m + 1]

Contexts == [rounds : Nat, keys : [0 .. KeyWords - 1 -> Word]]

AesTypes ==
  /\ call \in AesCalls
  /\ step \in {"start", "set_encrypt_key", "expand_encrypt_key", "encrypt", "set_decrypt_key",
               "expand_decrypt_key", "invert", "mix", "decrypt", "done", "exited"}
  /\ busy \in BOOLEAN /\ (busy <=> step \notin {"start", "done"})
  /\ enc \in Contexts /\ dec \in Contexts
  /\ i \in Nat /\ j \in Int /\ rp \in Nat /\ block \in Nat /\ round \in Nat
  /\ w \in [0 .. 3 -> Word]
  /\ encrypted \in [0 .. 255 -> Octet] /\ decrypted \in [0 .. 255 -> Octet]
  /\ expanded \in Seq(Word)

ExpandInv ==
  Expanding =>
    /\ KeysizeOk(call.keysize)
    /\ i \in CallNk .. 4 * (CallNr + 1) /\ Len(expanded) = i
    /\ rp = (i - 1) \div CallNk
    /\ Ctx.rounds = CallNr
    /\ \A m \in 0 .. i - 1 : Ctx.keys[m] = Subkey(m)

ScheduleInv ==
  step \in {"encrypt", "invert", "mix", "decrypt"} => Len(expanded) = 4 * (CallNr + 1) /\ Ctx.rounds = CallNr

EncryptInv == step = "encrypt" => \A m \in 0 .. 4 * CallNr + 3 : enc.keys[m] = Subkey(m)

InvertInv ==
  step = "invert" =>
    /\ i \in 0 .. 2 * CallNr /\ i % 4 = 0 /\ j = 4 * CallNr - i
    /\ \A g \in 0 .. CallNr, k \in 0 .. 3 :
         dec.keys[4 * g + k] = Subkey(IF 4 * g < i \/ 4 * g > j THEN 4 * (CallNr - g) + k ELSE 4 * g + k)

MixInv ==
  step \in {"mix", "decrypt"} =>
    /\ i \in 4 .. 4 * CallNr /\ (step = "decrypt" => i = 4 * CallNr)
    /\ \A g \in 0 .. CallNr, k \in 0 .. 3 :
         dec.keys[4 * g + k] = IF 4 * g + k \in 4 .. i - 1 THEN MIX_COLUMN(Subkey(4 * (CallNr - g) + k))
                                                           ELSE Subkey(4 * (CallNr - g) + k)

BlockInv ==
  Ciphering => block <= Blocks /\ round <= CallNr /\ (round > 0 => block < Blocks)

AesInv ==
  /\ AesTypes
  /\ ExpandInv /\ ScheduleInv /\ EncryptInv /\ InvertInv /\ MixInv
  /\ BlockInv

LEMMA CallFacts ==
  ASSUME call \in AesCalls
  PROVE  /\ call.keysize \in Nat /\ call.length \in 0 .. 256
         /\ CallNk \in {4, 6, 8} /\ NrOf(call.keysize) = CallNr
         /\ Blocks \in 0 .. 16 /\ 16 * Blocks <= call.length
         /\ (call.length % 16 = 0 => call.length = 16 * Blocks)
         /\ KeyWords = 60 /\ 4 * (CallNr + 1) <= KeyWords
  <1>1. call.keysize \in Nat /\ call.length \in 0 .. 256
    BY CallAssumption
  <1>2. CallNk \in {4, 6, 8} /\ NrOf(call.keysize) = CallNr
    BY <1>1, KeyWordCounts DEF CallNk, CallNr
  <1>3. Blocks \in 0 .. 16 /\ 16 * Blocks <= call.length /\ (call.length % 16 = 0 => call.length = 16 * Blocks)
    BY <1>1 DEF Blocks
  <1> QED BY <1>1, <1>2, <1>3 DEF KeyWords, CallNr

LEMMA RoundCounts ==
  ASSUME AesTypes
  PROVE  /\ CallNk \in {4, 6, 8} /\ CallNr = CallNk + 6 /\ CallNr \in {10, 12, 14}
         /\ NrOf(call.keysize) = CallNr /\ KeyWords = 60 /\ Blocks \in 0 .. 16
  <1>1. CallNk \in {4, 6, 8} /\ NrOf(call.keysize) = CallNr /\ KeyWords = 60 /\ Blocks \in 0 .. 16
    BY CallFacts DEF AesTypes
  <1>2. CallNr = CallNk + 6
    BY DEF CallNr
  <1> QED BY <1>1, <1>2

LEMMA ReadWords ==
  ASSUME NEW p, NEW a \in Nat
  PROVE  LE_READ_UINT32(p, a) \in Word
  BY JoinedWord DEF LE_READ_UINT32

LEMMA AesInitInv == MainInit /\ AesInit => AesInv
  <1> SUFFICES ASSUME MainInit, AesInit
               PROVE  AesInv
    OBVIOUS
  <1>1. {} \in Word /\ {} \in Octet
    BY DEF Word, Octet
  <1>2. enc \in Contexts /\ dec \in Contexts /\ w \in [0 .. 3 -> Word]
    BY <1>1 DEF AesInit, Contexts
  <1>3. encrypted \in [0 .. 255 -> Octet] /\ decrypted \in [0 .. 255 -> Octet] /\ expanded \in Seq(Word)
    BY <1>1 DEF AesInit
  <1>4. /\ step = "start" /\ busy = FALSE /\ call \in AesCalls
        /\ i = 0 /\ j = 0 /\ rp = 0 /\ block = 0 /\ round = 0
    BY DEF AesInit, MainInit
  <1>5. AesTypes
    <2>1. busy \in BOOLEAN /\ (busy <=> step \notin {"start", "done"})
      BY <1>4
    <2>2. i \in Nat /\ j \in Int /\ rp \in Nat /\ block \in Nat /\ round \in Nat
      BY <1>4
    <2>3. step \in {"start", "set_encrypt_key", "expand_encrypt_key", "encrypt", "set_decrypt_key",
                    "expand_decrypt_key", "invert", "mix", "decrypt", "done", "exited"}
      BY <1>4
    <2> QED BY <1>2, <1>3, <1>4, <2>1, <2>2, <2>3, Zenon DEF AesTypes
  <1> QED BY <1>4, <1>5 DEF AesInv, ExpandInv, ScheduleInv, EncryptInv, InvertInv, MixInv, BlockInv,
                            Expanding, Ciphering

LEMMA SetKeyInv == AesInv /\ SetKey => AesInv'
  <1> SUFFICES ASSUME AesInv, SetKey
               PROVE  AesInv'
    OBVIOUS
  <1>1. AesTypes
    BY DEF AesInv
  <1>2. /\ CallNk \in {4, 6, 8} /\ NrOf(call.keysize) = CallNr /\ CallNr = CallNk + 6 /\ KeyWords = 60
    BY <1>1, RoundCounts
  <1>3. PICK first : first = [z \in 0 .. CallNk - 1 |-> LE_READ_UINT32(key, 4 * z)]
    OBVIOUS
  <1>4. PICK ctx : ctx = [rounds |-> CallNr,
                          keys   |-> [z \in 0 .. KeyWords - 1 |-> IF z < CallNk THEN first[z] ELSE Ctx.keys[z]]]
    OBVIOUS
  <1>5. /\ SetCtx(ctx) /\ expanded' = [z \in 1 .. CallNk |-> first[z - 1]] /\ i' = CallNk /\ rp' = 0
        /\ step' = IF Encrypting THEN "expand_encrypt_key" ELSE "expand_decrypt_key"
        /\ step \in {"set_encrypt_key", "set_decrypt_key"} /\ KeysizeOk(call.keysize)
        /\ UNCHANGED <<mainVars, call, j, blockVars, textVars>>
    BY <1>2, <1>3, <1>4 DEF SetKey, CallNk
  <1>6. \A z \in 0 .. CallNk - 1 : first[z] \in Word
    <2>1. \A z \in 0 .. CallNk - 1 : 4 * z \in Nat
      BY <1>2
    <2> QED BY <1>3, <2>1, ReadWords
  <1>7. ctx \in Contexts /\ ctx.rounds = CallNr /\ \A m \in 0 .. CallNk - 1 : ctx.keys[m] = first[m]
    <2>1. Ctx.keys \in [0 .. KeyWords - 1 -> Word]
      BY <1>1 DEF AesTypes, Ctx, Contexts
    <2>2. \A z \in 0 .. KeyWords - 1 : z < CallNk => z \in 0 .. CallNk - 1
      BY <1>2
    <2>3. ctx.keys \in [0 .. KeyWords - 1 -> Word]
      BY <1>4, <1>6, <2>1, <2>2
    <2>4. ctx.rounds = CallNr /\ CallNr \in Nat
      BY <1>2, <1>4
    <2>5. \A m \in 0 .. CallNk - 1 : m \in 0 .. KeyWords - 1 /\ m < CallNk
      BY <1>2
    <2> QED BY <1>4, <2>3, <2>4, <2>5 DEF Contexts
  <1>8. (Encrypting' <=> Encrypting) /\ Expanding'
    BY <1>5 DEF Encrypting, Expanding
  <1>9. Ctx' = ctx /\ enc' \in Contexts /\ dec' \in Contexts
    BY <1>1, <1>5, <1>7, <1>8 DEF SetCtx, Ctx, AesTypes
  <1>10. expanded' \in Seq(Word) /\ Len(expanded') = CallNk /\ \A m \in 0 .. CallNk - 1 : expanded'[m + 1] = first[m]
    <2>1. \A z \in 1 .. CallNk : z - 1 \in 0 .. CallNk - 1
      BY <1>2
    <2>2. \A z \in 1 .. CallNk : first[z - 1] \in Word
      BY <1>6, <2>1
    <2>3. \A m \in 0 .. CallNk - 1 : m + 1 \in 1 .. CallNk /\ (m + 1) - 1 = m
      BY <1>2
    <2>4. CallNk \in Nat
      BY <1>2
    <2>5. expanded' = [z \in 1 .. CallNk |-> first[z - 1]]
      BY <1>5
    <2> QED BY <2>2, <2>3, <2>4, <2>5
  <1>11. CallNk' = CallNk /\ CallNr' = CallNr /\ call' = call
    BY <1>5 DEF CallNk, CallNr
  <1>12. AesTypes'
    <2>1. step' \in {"expand_encrypt_key", "expand_decrypt_key"} /\ i' \in Nat /\ rp' \in Nat
      BY <1>2, <1>5
    <2> QED BY <1>1, <1>5, <1>9, <1>10, <2>1 DEF AesTypes, mainVars, blockVars, textVars
  <1>13. ExpandInv'
    <2>1. 0 = (CallNk - 1) \div CallNk /\ CallNk \in CallNk .. 4 * (CallNr + 1)
      BY <1>2
    <2> QED BY <1>5, <1>7, <1>9, <1>10, <1>11, <2>1 DEF ExpandInv, Subkey
  <1> QED BY <1>5, <1>12, <1>13 DEF AesInv, ScheduleInv, EncryptInv, InvertInv, MixInv, BlockInv, Ciphering

(* The subkey that is made is the next word of FIPS 197.                    *)
LEMMA ExpandKeyStep ==
  ASSUME AesInv, ExpandKey
  PROVE  \E subkey \in Word :
           /\ Fips!NextWord = ColumnOf(subkey)
           /\ SetCtx([Ctx EXCEPT !.keys[i] = subkey])
           /\ expanded' = Append(expanded, subkey)
           /\ i \in CallNk .. 4 * (CallNr + 1) - 1
           /\ rp' = (i' - 1) \div CallNk
  <1>1. AesTypes /\ ExpandInv /\ Expanding /\ i < lastkey
    BY DEF AesInv, ExpandKey
  <1>2. CallNk \in {4, 6, 8} /\ CallNr = CallNk + 6
    BY <1>1, RoundCounts
  <1>3. /\ i \in CallNk .. 4 * (CallNr + 1) /\ Len(expanded) = i /\ rp = (i - 1) \div CallNk
        /\ Ctx.rounds = CallNr /\ \A m \in 0 .. i - 1 : Ctx.keys[m] = expanded[m + 1]
    BY <1>1 DEF ExpandInv, Subkey
  <1>4. i \in CallNk .. 4 * (CallNr + 1) - 1 /\ i \in CallNk .. 4 * (CallNk + 7) - 1
    BY <1>1, <1>2, <1>3 DEF lastkey
  <1>5. Ctx.keys[i - CallNk] = expanded[i + 1 - CallNk] /\ Ctx.keys[i - 1] = expanded[i]
    <2>1. /\ i - CallNk \in 0 .. i - 1 /\ (i - CallNk) + 1 = i + 1 - CallNk
          /\ i - 1 \in 0 .. i - 1 /\ (i - 1) + 1 = i
      BY <1>2, <1>4
    <2> QED BY <1>3, <2>1
  <1>6. PICK subkey : subkey = Xor(expanded[i + 1 - CallNk], SubkeyTerm(expanded[i], i, CallNk))
    OBVIOUS
  <1>7. /\ SetCtx([Ctx EXCEPT !.keys[i] = subkey]) /\ expanded' = Append(expanded, subkey) /\ i' = i + 1
        /\ rp' = IF i % CallNk = 0 THEN rp + 1 ELSE rp
    BY <1>5, <1>6 DEF ExpandKey, CallNk
  <1>8. subkey \in Word /\ Fips!NextWord = ColumnOf(subkey)
    <2>1. expanded \in Seq(Word) /\ i = Len(expanded) /\ CallNk = NkOf(call.keysize)
      BY <1>1, <1>3 DEF AesTypes, CallNk
    <2> QED BY <2>1, <1>2, <1>3, <1>4, <1>6, NextSubkey
  <1>9. rp' = (i' - 1) \div CallNk
    <2>1. CASE CallNk = 4
      BY <1>3, <1>4, <1>7, <2>1
    <2>2. CASE CallNk = 6
      BY <1>3, <1>4, <1>7, <2>2
    <2>3. CASE CallNk = 8
      BY <1>3, <1>4, <1>7, <2>3
    <2> QED BY <1>2, <2>1, <2>2, <2>3
  <1> QED BY <1>4, <1>7, <1>8, <1>9

LEMMA ExpandKeyInv == AesInv /\ ExpandKey => AesInv'
  <1> SUFFICES ASSUME AesInv, ExpandKey
               PROVE  AesInv'
    OBVIOUS
  <1>1. PICK subkey \in Word :
           /\ SetCtx([Ctx EXCEPT !.keys[i] = subkey])
           /\ expanded' = Append(expanded, subkey)
           /\ i \in CallNk .. 4 * (CallNr + 1) - 1
           /\ rp' = (i' - 1) \div CallNk
    BY ExpandKeyStep, Zenon
  <1>2. /\ AesTypes /\ ExpandInv /\ Expanding /\ i' = i + 1
        /\ UNCHANGED <<mainVars, call, step, j, blockVars, textVars>>
    BY DEF AesInv, ExpandKey
  <1>3. CallNk \in {4, 6, 8} /\ CallNr = CallNk + 6 /\ KeyWords = 60
    BY <1>2, RoundCounts
  <1>4. PICK ctx : ctx = [Ctx EXCEPT !.keys[i] = subkey]
    OBVIOUS
  <1>5. i \in 0 .. KeyWords - 1
    <2>1. CallNk \in 4 .. 8 /\ CallNr \in 10 .. 14
      BY <1>3
    <2>2. i \in CallNk .. 4 * (CallNr + 1) - 1
      BY <1>1
    <2>3. KeyWords - 1 = 59
      BY <1>3
    <2> QED BY <2>1, <2>2, <2>3
  <1>6. Ctx \in Contexts
    BY <1>2 DEF AesTypes, Ctx
  <1>7. /\ ctx \in Contexts /\ ctx.rounds = Ctx.rounds /\ ctx.keys[i] = subkey
        /\ \A m \in 0 .. i - 1 : ctx.keys[m] = Ctx.keys[m]
    <2>1. \A m \in 0 .. i - 1 : m \in 0 .. KeyWords - 1 /\ m # i
      BY <1>3, <1>5
    <2> QED BY <1>4, <1>5, <1>6, <2>1 DEF Contexts
  <1>8. (Encrypting' <=> Encrypting) /\ Expanding' /\ call' = call /\ CallNk' = CallNk /\ CallNr' = CallNr
    BY <1>2 DEF Encrypting, Expanding, CallNk, CallNr
  <1>9. Ctx' = ctx /\ enc' \in Contexts /\ dec' \in Contexts
    BY <1>1, <1>2, <1>4, <1>7, <1>8, ZenonT(60) DEF SetCtx, Ctx, AesTypes
  <1>10. /\ Len(expanded) = i /\ expanded \in Seq(Word) /\ Ctx.rounds = CallNr /\ KeysizeOk(call.keysize)
         /\ \A m \in 0 .. i - 1 : Ctx.keys[m] = expanded[m + 1]
    BY <1>2 DEF ExpandInv, AesTypes, Subkey
  <1>11. /\ expanded' \in Seq(Word) /\ Len(expanded') = i' /\ expanded'[i + 1] = subkey
         /\ \A m \in 0 .. i - 1 : expanded'[m + 1] = expanded[m + 1]
    BY <1>1, <1>2, <1>10
  <1>12. AesTypes'
    <2>1. i' \in Nat /\ rp' \in Nat
      <3>1. CASE CallNk = 4
        BY <1>1, <1>2, <3>1
      <3>2. CASE CallNk = 6
        BY <1>1, <1>2, <3>2
      <3>3. CASE CallNk = 8
        BY <1>1, <1>2, <3>3
      <3> QED BY <1>3, <3>1, <3>2, <3>3
    <2> QED BY <1>2, <1>9, <1>11, <2>1 DEF AesTypes, mainVars, blockVars, textVars
  <1>13. ExpandInv'
    <2>1. i' \in CallNk .. 4 * (CallNr + 1) /\ \A m \in 0 .. i' - 1 : m \in 0 .. i - 1 \/ m = i
      BY <1>1, <1>2, <1>3
    <2>2. \A m \in 0 .. i' - 1 : ctx.keys[m] = expanded'[m + 1]
      BY <1>7, <1>10, <1>11, <2>1
    <2> QED BY <1>1, <1>2, <1>7, <1>8, <1>9, <1>10, <1>11, <2>1, <2>2 DEF ExpandInv, Subkey
  <1> QED BY <1>8, <1>12, <1>13 DEF AesInv, ScheduleInv, EncryptInv, InvertInv, MixInv, BlockInv, Ciphering, Expanding

LEMMA KeyExpandedInv == AesInv /\ KeyExpanded => AesInv'
  <1> SUFFICES ASSUME AesInv, KeyExpanded
               PROVE  AesInv'
    OBVIOUS
  <1>1. AesTypes /\ ExpandInv /\ Expanding /\ i = lastkey
    BY DEF AesInv, KeyExpanded
  <1>2. CallNk \in {4, 6, 8} /\ CallNr = CallNk + 6 /\ Blocks \in 0 .. 16
    BY <1>1, RoundCounts
  <1>3. /\ Len(expanded) = 4 * (CallNr + 1) /\ Ctx.rounds = CallNr
        /\ \A m \in 0 .. 4 * CallNr + 3 : Ctx.keys[m] = Subkey(m)
    <2>1. i = 4 * (CallNr + 1)
      BY <1>1 DEF lastkey, ExpandInv
    <2>2. i - 1 = 4 * CallNr + 3
      BY <1>2, <2>1
    <2> QED BY <1>1, <2>1, <2>2 DEF ExpandInv
  <1>4. call' = call /\ expanded' = expanded /\ enc' = enc /\ dec' = dec /\ w' = w /\ rp' = rp
    BY DEF KeyExpanded, keyVars, blockVars, Exit
  <1>5. CallNk' = CallNk /\ CallNr' = CallNr /\ Blocks' = Blocks
    BY <1>4 DEF CallNk, CallNr, Blocks
  <1>6. CASE Encrypting /\ LengthOk(call.length)
    <2>1. step' = "encrypt" /\ block' = 0 /\ round' = 0 /\ UNCHANGED <<mainVars, keyVars, textVars>>
      BY <1>6 DEF KeyExpanded
    <2>2. Encrypting'
      BY <2>1 DEF Encrypting
    <2>3. Ctx = enc /\ Ctx' = enc
      BY <1>4, <1>6, <2>2 DEF Ctx
    <2>4. AesTypes'
      BY <1>1, <1>4, <2>1 DEF AesTypes, mainVars, keyVars, textVars, Expanding
    <2>5. ScheduleInv' /\ EncryptInv'
      BY <1>3, <1>4, <1>5, <2>3 DEF ScheduleInv, EncryptInv, Subkey
    <2>6. BlockInv'
      BY <1>2, <1>5, <2>1 DEF BlockInv, CallNr
    <2> QED BY <2>1, <2>4, <2>5, <2>6 DEF AesInv, ExpandInv, InvertInv, MixInv, Expanding
  <1>7. CASE Encrypting /\ ~LengthOk(call.length)
    <2>1. step' = "exited" /\ UNCHANGED <<busy, call, keyVars, blockVars, textVars>>
      BY <1>7 DEF KeyExpanded, Exit
    <2>2. AesTypes'
      BY <1>1, <2>1 DEF AesTypes, keyVars, textVars, blockVars, Expanding
    <2> QED BY <2>1, <2>2 DEF AesInv, ExpandInv, ScheduleInv, EncryptInv, InvertInv, MixInv, BlockInv,
                              Expanding, Ciphering
  <1>8. CASE ~Encrypting
    <2>1. step' = "invert" /\ i' = 0 /\ j' = dec.rounds * 4 /\ UNCHANGED <<mainVars, blockVars, textVars>>
      BY <1>8 DEF KeyExpanded
    <2>2. ~Encrypting'
      BY <2>1 DEF Encrypting
    <2>3. Ctx = dec /\ Ctx' = dec
      BY <1>4, <1>8, <2>2 DEF Ctx
    <2>4. j' = 4 * CallNr /\ CallNr \in Nat
      BY <1>2, <1>3, <2>1, <2>3
    <2>5. AesTypes'
      <3>1. i' \in Nat /\ j' \in Int
        BY <2>1, <2>4
      <3>2. busy' = busy /\ block' = block /\ round' = round /\ encrypted' = encrypted /\ decrypted' = decrypted
        BY <2>1 DEF mainVars, blockVars, textVars
      <3> QED BY <1>1, <1>4, <2>1, <3>1, <3>2 DEF AesTypes, Expanding
    <2>6. \A g \in 0 .. CallNr, k \in 0 .. 3 : 4 * g + k \in 0 .. 4 * CallNr + 3 /\ ~(4 * g < 0 \/ 4 * g > 4 * CallNr)
      BY <2>4
    <2>7. ScheduleInv'
      BY <1>3, <1>4, <1>5, <2>3 DEF ScheduleInv
    <2>8. InvertInv'
      <3>1. i' \in 0 .. 2 * CallNr /\ i' % 4 = 0 /\ j' = 4 * CallNr - i'
        BY <2>1, <2>4
      <3>2. \A g \in 0 .. CallNr, k \in 0 .. 3 : dec.keys[4 * g + k] = Subkey(4 * g + k) /\ ~(4 * g < i' \/ 4 * g > j')
        BY <1>3, <2>1, <2>3, <2>4, <2>6
      <3> QED BY <1>4, <1>5, <3>1, <3>2 DEF InvertInv, Subkey
    <2> QED BY <2>1, <2>5, <2>7, <2>8 DEF AesInv, ExpandInv, EncryptInv, MixInv, BlockInv, Expanding, Ciphering
  <1> QED BY <1>6, <1>7, <1>8

LEMMA InvertKeysInv == AesInv /\ InvertKeys => AesInv'
  <1> SUFFICES ASSUME AesInv, InvertKeys
               PROVE  AesInv'
    OBVIOUS
  <1>1. /\ AesTypes /\ step = "invert" /\ i < j
        /\ dec' = [dec EXCEPT !.keys = Reversal!Swapped(@, i, j)] /\ i' = i + 4 /\ j' = j - 4
        /\ UNCHANGED <<mainVars, call, step, enc, rp, expanded, blockVars, textVars>>
    BY DEF AesInv, InvertKeys, MoreGroups
  <1>2. /\ i \in 0 .. 2 * CallNr /\ i % 4 = 0 /\ j = 4 * CallNr - i
        /\ \A g \in 0 .. CallNr, k \in 0 .. 3 :
             dec.keys[4 * g + k] = Subkey(IF 4 * g < i \/ 4 * g > j THEN 4 * (CallNr - g) + k ELSE 4 * g + k)
    BY <1>1 DEF AesInv, InvertInv
  <1>3. CallNr \in {10, 12, 14} /\ KeyWords = 60
    BY <1>1, RoundCounts
  <1>4. PICK gi \in Nat : i = 4 * gi /\ j = 4 * (CallNr - gi) /\ 2 * gi + 2 <= CallNr
    <2>1. i \div 4 \in Nat /\ i = 4 * (i \div 4)
      BY <1>2, <1>3
    <2>2. 2 * (i \div 4) < CallNr
      BY <1>1, <1>2, <1>3, <2>1
    <2>3. 2 * (i \div 4) + 2 <= CallNr
      BY <1>3, <2>1, <2>2
    <2> QED BY <1>2, <1>3, <2>1, <2>3
  <1>5. dec \in Contexts /\ dec.keys \in [0 .. 59 -> Word]
    BY <1>1, <1>3 DEF AesTypes, Contexts
  <1>6. PICK new : new = Reversal!Swapped(dec.keys, i, j)
    OBVIOUS
  <1>7. new = [x \in 0 .. 59 |-> IF x \in i .. i + 3 THEN dec.keys[j + (x - i)]
                                 ELSE IF x \in j .. j + 3 THEN dec.keys[i + (x - j)] ELSE dec.keys[x]]
    BY <1>3, <1>6 DEF Reversal!Swapped
  <1>8. new \in [0 .. 59 -> Word]
    <2>1. \A x \in 0 .. 59 : /\ x \in i .. i + 3 => j + (x - i) \in 0 .. 59
                             /\ x \in j .. j + 3 => i + (x - j) \in 0 .. 59
      BY <1>3, <1>4
    <2> QED BY <1>5, <1>7, <2>1
  <1>9. dec' = [dec EXCEPT !.keys = new] /\ dec' \in Contexts /\ dec'.keys = new /\ dec'.rounds = dec.rounds
    BY <1>1, <1>3, <1>5, <1>6, <1>8 DEF Contexts
  <1>10. ASSUME NEW g \in 0 .. CallNr, NEW k \in 0 .. 3
         PROVE  new[4 * g + k] = Subkey(IF 4 * g < i + 4 \/ 4 * g > j - 4 THEN 4 * (CallNr - g) + k ELSE 4 * g + k)
    <2>1. 4 * g + k \in 0 .. 59
      BY <1>3
    <2>2. CASE g = gi
      <3>1. 4 * g + k \in i .. i + 3 /\ j + ((4 * g + k) - i) = 4 * (CallNr - gi) + k /\ CallNr - gi \in 0 .. CallNr
        BY <1>3, <1>4, <2>2
      <3>2. new[4 * g + k] = dec.keys[4 * (CallNr - gi) + k]
        BY <1>7, <2>1, <3>1
      <3>3. ~(4 * (CallNr - gi) < i \/ 4 * (CallNr - gi) > j) /\ 4 * g < i + 4
        BY <1>3, <1>4, <2>2
      <3>4. dec.keys[4 * (CallNr - gi) + k] = Subkey(4 * (CallNr - gi) + k)
        BY <1>2, <3>1, <3>3
      <3> QED BY <2>2, <3>2, <3>3, <3>4
    <2>3. CASE g = CallNr - gi
      <3>1. /\ 4 * g + k \notin i .. i + 3 /\ 4 * g + k \in j .. j + 3
            /\ i + ((4 * g + k) - j) = 4 * gi + k /\ gi \in 0 .. CallNr /\ 4 * (CallNr - g) + k = 4 * gi + k
        BY <1>3, <1>4, <2>3
      <3>2. new[4 * g + k] = dec.keys[4 * gi + k]
        BY <1>7, <2>1, <3>1
      <3>3. ~(4 * gi < i \/ 4 * gi > j) /\ 4 * g > j - 4
        BY <1>3, <1>4, <2>3
      <3>4. dec.keys[4 * gi + k] = Subkey(4 * gi + k)
        BY <1>2, <3>1, <3>3
      <3> QED BY <3>1, <3>2, <3>3, <3>4
    <2>4. CASE g # gi /\ g # CallNr - gi
      <3>1. /\ 4 * g + k \notin i .. i + 3 /\ 4 * g + k \notin j .. j + 3
            /\ (4 * g < i + 4 <=> 4 * g < i) /\ (4 * g > j - 4 <=> 4 * g > j)
        BY <1>3, <1>4, <2>4
      <3>2. new[4 * g + k] = dec.keys[4 * g + k]
        BY <1>7, <2>1, <3>1
      <3> QED BY <1>2, <3>1, <3>2
    <2> QED BY <2>2, <2>3, <2>4
  <1>11. CallNr' = CallNr /\ call' = call /\ step' = "invert" /\ expanded' = expanded
    BY <1>1 DEF CallNk, CallNr
  <1>12. i' \in Nat /\ j' \in Int /\ i' \in 0 .. 2 * CallNr /\ i' % 4 = 0 /\ j' = 4 * CallNr - i'
    BY <1>1, <1>3, <1>4
  <1>13. AesTypes'
    BY <1>1, <1>9, <1>12 DEF AesTypes, mainVars, blockVars, textVars
  <1>14. ScheduleInv'
    <2>1. ~Encrypting /\ ~Encrypting'
      BY <1>1, <1>11 DEF Encrypting
    <2> QED BY <1>1, <1>9, <1>11, <2>1 DEF AesInv, ScheduleInv, Ctx
  <1>15. InvertInv'
    BY <1>1, <1>9, <1>10, <1>11, <1>12 DEF InvertInv, Subkey
  <1> QED BY <1>11, <1>13, <1>14, <1>15 DEF AesInv, ExpandInv, EncryptInv, MixInv, BlockInv, Expanding, Ciphering

LEMMA KeysInvertedInv == AesInv /\ KeysInverted => AesInv'
  <1> SUFFICES ASSUME AesInv, KeysInverted
               PROVE  AesInv'
    OBVIOUS
  <1>1. /\ AesTypes /\ step = "invert" /\ ~(i < j) /\ step' = "mix" /\ i' = 4
        /\ UNCHANGED <<mainVars, call, enc, dec, j, rp, expanded, blockVars, textVars>>
    BY DEF AesInv, KeysInverted, MoreGroups
  <1>2. /\ i \in 0 .. 2 * CallNr /\ j = 4 * CallNr - i
        /\ \A g \in 0 .. CallNr, k \in 0 .. 3 :
             dec.keys[4 * g + k] = Subkey(IF 4 * g < i \/ 4 * g > j THEN 4 * (CallNr - g) + k ELSE 4 * g + k)
    BY <1>1 DEF AesInv, InvertInv
  <1>3. CallNr \in {10, 12, 14}
    BY <1>1, RoundCounts
  <1>4. i = 2 * CallNr /\ j = i
    BY <1>1, <1>2, <1>3
  <1>5. ASSUME NEW g \in 0 .. CallNr, NEW k \in 0 .. 3
        PROVE  dec.keys[4 * g + k] = Subkey(4 * (CallNr - g) + k) /\ 4 * g + k \notin 4 .. 4 - 1
    <2>1. ~(4 * g < i \/ 4 * g > j) => 4 * (CallNr - g) + k = 4 * g + k
      BY <1>3, <1>4
    <2> QED BY <1>2, <2>1
  <1>6. CallNr' = CallNr /\ expanded' = expanded /\ dec' = dec
    BY <1>1 DEF CallNk, CallNr
  <1>7. AesTypes'
    BY <1>1 DEF AesTypes, mainVars, blockVars, textVars
  <1>8. ScheduleInv'
    <2>1. ~Encrypting /\ ~Encrypting'
      BY <1>1 DEF Encrypting
    <2> QED BY <1>1, <1>6, <2>1 DEF AesInv, ScheduleInv, Ctx
  <1>9. MixInv'
    <2>1. 4 \in 4 .. 4 * CallNr
      BY <1>3
    <2> QED BY <1>1, <1>5, <1>6, <2>1 DEF MixInv, Subkey
  <1> QED BY <1>1, <1>7, <1>8, <1>9 DEF AesInv, ExpandInv, EncryptInv, InvertInv, BlockInv, Expanding, Ciphering

LEMMA MixKeyInv == AesInv /\ MixKey => AesInv'
  <1> SUFFICES ASSUME AesInv, MixKey
               PROVE  AesInv'
    OBVIOUS
  <1>1. /\ AesTypes /\ step = "mix" /\ i < 4 * dec.rounds
        /\ dec' = [dec EXCEPT !.keys[i] = MIX_COLUMN(@)] /\ i' = i + 1
        /\ UNCHANGED <<mainVars, call, step, enc, j, rp, expanded, blockVars, textVars>>
    BY DEF AesInv, MixKey
  <1>2. ~Encrypting /\ ~Encrypting'
    BY <1>1 DEF Encrypting
  <1>3. CallNr \in {10, 12, 14} /\ KeyWords = 60
    BY <1>1, RoundCounts
  <1>4. Len(expanded) = 4 * (CallNr + 1) /\ dec.rounds = CallNr
    BY <1>1, <1>2 DEF AesInv, ScheduleInv, Ctx
  <1>5. /\ i \in 4 .. 4 * CallNr
        /\ \A g \in 0 .. CallNr, k \in 0 .. 3 :
             dec.keys[4 * g + k] = IF 4 * g + k \in 4 .. i - 1 THEN MIX_COLUMN(Subkey(4 * (CallNr - g) + k))
                                                               ELSE Subkey(4 * (CallNr - g) + k)
    BY <1>1 DEF AesInv, MixInv
  <1>6. dec \in Contexts /\ dec.keys \in [0 .. 59 -> Word] /\ i \in 0 .. 59 /\ i' \in 4 .. 4 * CallNr
    <2>1. i \in 4 .. 4 * CallNr - 1
      BY <1>1, <1>3, <1>4, <1>5
    <2>2. i \in 0 .. 59 /\ i' \in 4 .. 4 * CallNr
      BY <1>1, <1>3, <2>1
    <2>3. dec \in Contexts
      BY <1>1 DEF AesTypes
    <2>4. dec.keys \in [0 .. 59 -> Word]
      BY <1>3, <2>3 DEF Contexts
    <2> QED BY <2>2, <2>3, <2>4
  <1>7. MIX_COLUMN(dec.keys[i]) \in Word
    BY <1>6, MixColumnOctets
  <1>8. /\ dec' \in Contexts /\ dec'.rounds = dec.rounds
        /\ \A x \in 0 .. 59 : dec'.keys[x] = IF x = i THEN MIX_COLUMN(dec.keys[i]) ELSE dec.keys[x]
    BY <1>1, <1>3, <1>6, <1>7 DEF Contexts
  <1>9. ASSUME NEW g \in 0 .. CallNr, NEW k \in 0 .. 3
        PROVE  dec'.keys[4 * g + k] = IF 4 * g + k \in 4 .. i' - 1 THEN MIX_COLUMN(Subkey(4 * (CallNr - g) + k))
                                                                   ELSE Subkey(4 * (CallNr - g) + k)
    <2>1. 4 * g + k \in 0 .. 59
      BY <1>3
    <2>2. CASE 4 * g + k = i
      <3>1. 4 * g + k \notin 4 .. i - 1 /\ 4 * g + k \in 4 .. i' - 1
        BY <1>1, <1>5, <2>2
      <3>2. dec.keys[4 * g + k] = Subkey(4 * (CallNr - g) + k)
        BY <1>5, <3>1
      <3> QED BY <1>8, <2>1, <2>2, <3>1, <3>2
    <2>3. CASE 4 * g + k # i
      <3>1. 4 * g + k \in 4 .. i - 1 <=> 4 * g + k \in 4 .. i' - 1
        BY <1>1, <1>5, <2>3
      <3>2. dec'.keys[4 * g + k] = dec.keys[4 * g + k]
        BY <1>8, <2>1, <2>3
      <3> QED BY <1>5, <3>1, <3>2
    <2> QED BY <2>2, <2>3
  <1>10. CallNr' = CallNr /\ expanded' = expanded
    BY <1>1 DEF CallNk, CallNr
  <1>11. AesTypes'
    <2>1. i' \in Nat
      BY <1>6
    <2> QED BY <1>1, <1>8, <2>1 DEF AesTypes, mainVars, blockVars, textVars
  <1>12. ScheduleInv'
    BY <1>1, <1>2, <1>4, <1>8, <1>10 DEF ScheduleInv, Ctx
  <1>13. MixInv'
    BY <1>1, <1>6, <1>9, <1>10 DEF MixInv, Subkey
  <1> QED BY <1>1, <1>11, <1>12, <1>13 DEF AesInv, ExpandInv, EncryptInv, InvertInv, BlockInv, Expanding, Ciphering

LEMMA KeysMixedInv == AesInv /\ KeysMixed => AesInv'
  <1> SUFFICES ASSUME AesInv, KeysMixed
               PROVE  AesInv'
    OBVIOUS
  <1>1. /\ AesTypes /\ step = "mix" /\ i = 4 * dec.rounds /\ step' = "decrypt" /\ block' = 0 /\ round' = 0
        /\ UNCHANGED <<mainVars, call, keyVars, w, textVars>>
    BY DEF AesInv, KeysMixed
  <1>2. ~Encrypting /\ ~Encrypting'
    BY <1>1 DEF Encrypting
  <1>3. CallNr \in {10, 12, 14} /\ Blocks \in 0 .. 16
    BY <1>1, RoundCounts
  <1>4. Len(expanded) = 4 * (CallNr + 1) /\ dec.rounds = CallNr
    BY <1>1, <1>2 DEF AesInv, ScheduleInv, Ctx
  <1>5. CallNr' = CallNr /\ Blocks' = Blocks /\ expanded' = expanded /\ dec' = dec /\ i' = i
    BY <1>1 DEF CallNk, CallNr, Blocks, keyVars
  <1>6. AesTypes'
    BY <1>1 DEF AesTypes, mainVars, keyVars, textVars
  <1>7. ScheduleInv'
    BY <1>2, <1>4, <1>5 DEF ScheduleInv, Ctx
  <1>8. MixInv'
    BY <1>1, <1>4, <1>5 DEF AesInv, MixInv, Subkey
  <1>9. BlockInv'
    BY <1>1, <1>3, <1>5 DEF BlockInv
  <1> QED BY <1>1, <1>6, <1>7, <1>8, <1>9 DEF AesInv, ExpandInv, EncryptInv, InvertInv, Expanding

-----------------------------------------------------------------------------
(* Rounds. *)

(* The subkeys that a round uses.                                           *)
LEMMA KeysInUse ==
  ASSUME AesInv, Ciphering, NEW q \in 0 .. CallNr, NEW z \in 0 .. 3
  PROVE  /\ expanded \in Seq(Word) /\ Ctx.rounds = CallNr
         /\ 4 * q + 4 <= Len(expanded) /\ 4 * (CallNr - q) + 4 <= Len(expanded)
         /\ Ctx.keys[4 * q + z] \in Word
         /\ expanded[4 * q + z + 1] \in Word /\ expanded[4 * (CallNr - q) + z + 1] \in Word
         /\ step = "encrypt" => Ctx.keys[4 * q + z] = expanded[4 * q + z + 1]
         /\ step = "decrypt" => Ctx.keys[4 * q + z] =
              IF q \in 1 .. CallNr - 1 THEN MIX_COLUMN(expanded[4 * (CallNr - q) + z + 1])
                                       ELSE expanded[4 * (CallNr - q) + z + 1]
  <1>1. AesTypes /\ CallNr \in {10, 12, 14} /\ KeyWords = 60
    BY RoundCounts DEF AesInv
  <1>2. Len(expanded) = 4 * (CallNr + 1) /\ Ctx.rounds = CallNr /\ expanded \in Seq(Word)
    BY <1>1 DEF AesInv, ScheduleInv, AesTypes, Ciphering
  <1>3. Ctx.keys[4 * q + z] \in Word
    <2>1. Ctx \in Contexts
      BY <1>1 DEF AesTypes, Ctx
    <2>2. Ctx.keys \in [0 .. 59 -> Word]
      BY <1>1, <2>1 DEF Contexts
    <2>3. 4 * q + z \in 0 .. 59
      BY <1>1
    <2> QED BY <2>2, <2>3
  <1>4. 4 * q + z + 1 \in 1 .. Len(expanded) /\ 4 * (CallNr - q) + z + 1 \in 1 .. Len(expanded)
    BY <1>1, <1>2
  <1>5. 4 * q + 4 <= Len(expanded) /\ 4 * (CallNr - q) + 4 <= Len(expanded)
    BY <1>1, <1>2
  <1>6. expanded[4 * q + z + 1] \in Word /\ expanded[4 * (CallNr - q) + z + 1] \in Word
    BY <1>2, <1>4
  <1>7. ASSUME step = "encrypt"
        PROVE  Ctx.keys[4 * q + z] = expanded[4 * q + z + 1]
    <2>1. Ctx = enc
      BY <1>7 DEF Ctx, Encrypting
    <2>2. 4 * q + z \in 0 .. 4 * CallNr + 3
      BY <1>1
    <2>3. enc.keys[4 * q + z] = Subkey(4 * q + z)
      BY <1>7, <2>2 DEF AesInv, EncryptInv
    <2> QED BY <2>1, <2>3 DEF Subkey
  <1>8. ASSUME step = "decrypt"
        PROVE  Ctx.keys[4 * q + z] =
                 IF q \in 1 .. CallNr - 1 THEN MIX_COLUMN(expanded[4 * (CallNr - q) + z + 1])
                                          ELSE expanded[4 * (CallNr - q) + z + 1]
    <2>1. Ctx = dec
      BY <1>8 DEF Ctx, Encrypting
    <2>2. dec.keys[4 * q + z] = IF 4 * q + z \in 4 .. i - 1 THEN MIX_COLUMN(Subkey(4 * (CallNr - q) + z))
                                                            ELSE Subkey(4 * (CallNr - q) + z)
      BY <1>8 DEF AesInv, MixInv
    <2>3. 4 * q + z \in 4 .. i - 1 <=> q \in 1 .. CallNr - 1
      <3>1. i = 4 * CallNr
        BY <1>8 DEF AesInv, MixInv
      <3> QED BY <1>1, <3>1
    <2> QED BY <2>1, <2>2, <2>3 DEF Subkey
  <1> QED BY <1>2, <1>3, <1>5, <1>6, <1>7, <1>8

(* What a round of FIPS 197 makes of a state, for the subkey q.             *)
SpecRound(s, q) ==
  IF step = "encrypt"
  THEN Fips!AddRoundKey(Fips!MixColumns(Fips!ShiftRows(Fips!SubBytes(s, SubByte)), MixTerms), q)
  ELSE Fips!MixColumns(Fips!AddRoundKey(Fips!SubBytes(Fips!InvShiftRows(s), InvSubByte), CallNr - q), InvMixTerms)

SpecFinalRound(s, q) ==
  IF step = "encrypt"
  THEN Fips!AddRoundKey(Fips!ShiftRows(Fips!SubBytes(s, SubByte)), q)
  ELSE Fips!AddRoundKey(Fips!SubBytes(Fips!InvShiftRows(s), InvSubByte), CallNr - q)

LEMMA AesRoundStep ==
  ASSUME AesInv, AesRound
  PROVE  /\ round \in 1 .. CallNr - 1 /\ w' \in [0 .. 3 -> Word]
         /\ StateOf(w') = SpecRound(StateOf(w), round)
  <1>1. Ciphering /\ round \in 1 .. Ctx.rounds - 1 /\ AesTypes /\ CallNr \in {10, 12, 14}
    BY RoundCounts DEF AesRound, AesInv
  <1>2. Ctx.rounds = CallNr
    BY <1>1 DEF AesInv, ScheduleInv, Ciphering
  <1>3. round \in 1 .. CallNr - 1 /\ round \in 0 .. CallNr /\ CallNr - round \in 0 .. CallNr
    BY <1>1, <1>2
  <1>4. CASE step = "encrypt"
    <2> DEFINE ks == WordsOfKey(round)
               mixed == Fips!MixColumns(Fips!ShiftRows(Fips!SubBytes(StateOf(w), SubByte)), MixTerms)
    <2>1. \A z \in 0 .. 3 : ks[z] \in Word /\ ks[z] = Ctx.keys[4 * round + z]
      BY <1>1, <1>3, <1>4, KeysInUse DEF WordsOfKey
    <2>2. ks \in [0 .. 3 -> Word]
      BY <2>1 DEF WordsOfKey
    <2>3. expanded \in Seq(Word) /\ 4 * round + 4 <= Len(expanded) /\ round \in Nat
      BY <1>1, <1>3, KeysInUse
    <2>4. w' = EncryptedWords(w, ks)
      <3>1. w' = [z \in 0 .. 3 |-> AES_ROUND(encrypt_table, Into(z), Ctx.keys[4 * round + z])]
        BY <1>4 DEF AesRound, Encrypting
      <3>2. \A z : Into(z) = [m \in 0 .. 3 |-> w[(z + m) % 4]]
        BY <1>4 DEF Into, Encrypting
      <3> HIDE DEF ks
      <3>3. \A z \in 0 .. 3 : AES_ROUND(encrypt_table, Into(z), Ctx.keys[4 * round + z]) =
                                AES_ROUND(encrypt_table, [m \in 0 .. 3 |-> w[(z + m) % 4]], ks[z])
        BY <2>1, <3>2
      <3> QED BY <3>1, <3>3 DEF EncryptedWords
    <2> HIDE DEF ks
    <2>5. w' \in [0 .. 3 -> Word] /\ StateOf(w') = KeyAdded(mixed, ks)
      BY <2>2, <2>4, EncryptionRound
    <2> HIDE DEF mixed
    <2>6. Fips!AddRoundKey(mixed, round) = KeyAdded(mixed, ks)
      BY <2>3, FipsAddRoundKey DEF ks
    <2> QED BY <1>3, <1>4, <2>5, <2>6 DEF SpecRound, mixed
  <1>5. CASE step = "decrypt"
    <2> DEFINE ks == WordsOfKey(CallNr - round)
               shifted == Fips!SubBytes(Fips!InvShiftRows(StateOf(w)), InvSubByte)
    <2>1. \A z \in 0 .. 3 : ks[z] \in Word /\ Ctx.keys[4 * round + z] = MIX_COLUMN(ks[z])
      BY <1>1, <1>3, <1>5, KeysInUse DEF WordsOfKey
    <2>2. ks \in [0 .. 3 -> Word]
      BY <2>1 DEF WordsOfKey
    <2>3. expanded \in Seq(Word) /\ 4 * (CallNr - round) + 4 <= Len(expanded) /\ CallNr - round \in Nat
      BY <1>1, <1>3, KeysInUse
    <2>4. w' = DecryptedWords(w, ks)
      <3>1. w' = [z \in 0 .. 3 |-> AES_ROUND(decrypt_table, Into(z), Ctx.keys[4 * round + z])]
        BY <1>5 DEF AesRound, Encrypting
      <3>2. \A z : Into(z) = [m \in 0 .. 3 |-> w[(z - m) % 4]]
        BY <1>5 DEF Into, Encrypting
      <3> HIDE DEF ks
      <3>3. \A z \in 0 .. 3 : AES_ROUND(decrypt_table, Into(z), Ctx.keys[4 * round + z]) =
                                AES_ROUND(decrypt_table, [m \in 0 .. 3 |-> w[(z - m) % 4]], MIX_COLUMN(ks[z]))
        BY <2>1, <3>2
      <3> QED BY <3>1, <3>3 DEF DecryptedWords
    <2> HIDE DEF ks
    <2>5. w' \in [0 .. 3 -> Word] /\ StateOf(w') = Fips!MixColumns(KeyAdded(shifted, ks), InvMixTerms)
      BY <2>2, <2>4, DecryptionRound
    <2> HIDE DEF shifted
    <2>6. Fips!AddRoundKey(shifted, CallNr - round) = KeyAdded(shifted, ks)
      BY <2>3, FipsAddRoundKey DEF ks
    <2> QED BY <1>3, <1>5, <2>5, <2>6 DEF SpecRound, shifted
  <1> QED BY <1>1, <1>4, <1>5 DEF Ciphering

LEMMA FinalRoundStep ==
  ASSUME AesInv, AesFinalRound
  PROVE  \E t \in [0 .. 3 -> Word] :
           /\ StateOf(t) = SpecFinalRound(StateOf(w), CallNr)
           /\ round = CallNr
           /\ step = "encrypt" => encrypted' = Written(encrypted, 16 * block, t) /\ UNCHANGED decrypted
           /\ step = "decrypt" => decrypted' = Written(decrypted, 16 * block, t) /\ UNCHANGED encrypted
  <1>1. Ciphering /\ round = Ctx.rounds /\ AesTypes /\ CallNr \in {10, 12, 14}
    BY RoundCounts DEF AesFinalRound, AesInv
  <1>2. round = CallNr /\ CallNr \in 0 .. CallNr /\ CallNr - CallNr = 0 /\ CallNr \notin 1 .. CallNr - 1
    BY <1>1 DEF AesInv, ScheduleInv, Ciphering
  <1>3. \A x, rr : encrypt_sbox[Number(OctetAt(x, rr))] \in Octet /\ decrypt_sbox[Number(OctetAt(x, rr))] \in Octet
    BY DataAssumption, NumberInRange, OctetAtOctet
  <1>4. /\ encrypt_sbox = SubByte /\ decrypt_sbox = InvSubByte
        /\ \A k \in 0 .. 255 : encrypt_sbox[k] \in Octet /\ decrypt_sbox[k] \in Octet
    BY TablesAssumption, DataAssumption, ZenonT(60)
  <1>5. \A c, rr \in 0 .. 3 : (c + rr) % 4 \in 0 .. 3 /\ (c - rr) % 4 \in 0 .. 3
    OBVIOUS
  <1>6. CASE step = "encrypt"
    <2>1. \A z \in 0 .. 3 : Ctx.keys[4 * round + z] \in Word /\ Ctx.keys[4 * round + z] = expanded[4 * round + z + 1]
      <3> TAKE z \in 0 .. 3
      <3>1. round \in 0 .. CallNr
        BY <1>2
      <3> QED BY <1>1, <1>6, <3>1, KeysInUse
    <2>2. expanded \in Seq(Word) /\ 4 * round + 4 <= Len(expanded) /\ round \in Nat
      BY <1>1, <1>2, KeysInUse
    <2>3. PICK t : t = [z \in 0 .. 3 |-> AES_FINAL_ROUND(encrypt_sbox, Into(z), Ctx.keys[4 * round + z])]
      OBVIOUS
    <2>4. \A z \in 0 .. 3 :
            /\ t[z] \in Word
            /\ \A rr \in 0 .. 3 : OctetAt(t[z], rr) =
                 Xor(SubByte[Number(OctetAt(Into(z)[rr], rr))], OctetAt(expanded[4 * round + z + 1], rr))
      <3> TAKE z \in 0 .. 3
      <3>1. /\ AES_FINAL_ROUND(encrypt_sbox, Into(z), Ctx.keys[4 * round + z]) \in Word
            /\ \A rr \in 0 .. 3 : OctetAt(AES_FINAL_ROUND(encrypt_sbox, Into(z), Ctx.keys[4 * round + z]), rr) =
                 Xor(encrypt_sbox[Number(OctetAt(Into(z)[rr], rr))], OctetAt(Ctx.keys[4 * round + z], rr))
        BY <1>4, <2>1, FinalRoundOctets
      <3> QED BY <1>4, <2>1, <2>3, <3>1
    <2>5. \A c, rr \in 0 .. 3 : OctetAt(Into(c)[rr], rr) = StateOf(w)[(c + rr) % 4][rr]
      BY <1>5, <1>6 DEF Into, Encrypting, StateOf, ColumnOf
    <2>6. PICK shifted : shifted = Fips!ShiftRows(Fips!SubBytes(StateOf(w), SubByte))
      OBVIOUS
    <2>7. shifted = [c \in 0 .. 3 |-> [rr \in 0 .. 3 |-> SubByte[Number(StateOf(w)[(c + rr) % 4][rr])]]]
      BY <2>6, FipsSubBytes
    <2>8. Fips!AddRoundKey(shifted, round) =
            [c \in 0 .. 3 |-> [rr \in 0 .. 3 |-> Xor(shifted[c][rr], OctetAt(expanded[4 * round + c + 1], rr))]]
      <3>1. Fips!AddRoundKey(shifted, round) = KeyAdded(shifted, WordsOfKey(round))
        BY <2>2, FipsAddRoundKey
      <3> QED BY <3>1 DEF KeyAdded, WordsOfKey
    <2>9. StateOf(t) = [c \in 0 .. 3 |-> [rr \in 0 .. 3 |-> OctetAt(t[c], rr)]]
      BY DEF StateOf, ColumnOf
    <2>10. StateOf(t) = Fips!AddRoundKey(shifted, round)
      BY <2>4, <2>5, <2>7, <2>8, <2>9
    <2>11. t \in [0 .. 3 -> Word]
      BY <2>3, <2>4
    <2>12. encrypted' = Written(encrypted, 16 * block, t) /\ UNCHANGED decrypted
      BY <1>6, <2>3 DEF AesFinalRound, Encrypting
    <2>13. StateOf(t) = SpecFinalRound(StateOf(w), CallNr)
      BY <1>2, <1>6, <2>6, <2>10 DEF SpecFinalRound
    <2> QED BY <1>2, <1>6, <2>11, <2>12, <2>13
  <1>7. CASE step = "decrypt"
    <2>1. \A z \in 0 .. 3 : Ctx.keys[4 * round + z] \in Word /\ Ctx.keys[4 * round + z] = expanded[4 * (CallNr - round) + z + 1]
      <3> TAKE z \in 0 .. 3
      <3>1. round \in 0 .. CallNr /\ round \notin 1 .. CallNr - 1
        BY <1>2
      <3> QED BY <1>1, <1>7, <3>1, KeysInUse
    <2>2. expanded \in Seq(Word) /\ 4 * (CallNr - round) + 4 <= Len(expanded) /\ CallNr - round \in Nat
      <3>1. round \in 0 .. CallNr /\ 0 \in 0 .. 3
        BY <1>2
      <3>2. CallNr - round \in Nat
        BY <1>1, <1>2
      <3> QED BY <1>1, <3>1, <3>2, KeysInUse
    <2>3. PICK t : t = [z \in 0 .. 3 |-> AES_FINAL_ROUND(decrypt_sbox, Into(z), Ctx.keys[4 * round + z])]
      OBVIOUS
    <2>4. \A z \in 0 .. 3 :
            /\ t[z] \in Word
            /\ \A rr \in 0 .. 3 : OctetAt(t[z], rr) =
                 Xor(InvSubByte[Number(OctetAt(Into(z)[rr], rr))], OctetAt(expanded[4 * (CallNr - round) + z + 1], rr))
      <3> TAKE z \in 0 .. 3
      <3>1. /\ AES_FINAL_ROUND(decrypt_sbox, Into(z), Ctx.keys[4 * round + z]) \in Word
            /\ \A rr \in 0 .. 3 : OctetAt(AES_FINAL_ROUND(decrypt_sbox, Into(z), Ctx.keys[4 * round + z]), rr) =
                 Xor(decrypt_sbox[Number(OctetAt(Into(z)[rr], rr))], OctetAt(Ctx.keys[4 * round + z], rr))
        BY <1>4, <2>1, FinalRoundOctets
      <3> QED BY <1>4, <2>1, <2>3, <3>1
    <2>5. \A c, rr \in 0 .. 3 : OctetAt(Into(c)[rr], rr) = StateOf(w)[(c - rr) % 4][rr]
      BY <1>5, <1>7 DEF Into, Encrypting, StateOf, ColumnOf
    <2>6. PICK shifted : shifted = Fips!SubBytes(Fips!InvShiftRows(StateOf(w)), InvSubByte)
      OBVIOUS
    <2>7. shifted = [c \in 0 .. 3 |-> [rr \in 0 .. 3 |-> InvSubByte[Number(StateOf(w)[(c - rr) % 4][rr])]]]
      BY <2>6, FipsSubBytes
    <2>8. Fips!AddRoundKey(shifted, CallNr - round) =
            [c \in 0 .. 3 |-> [rr \in 0 .. 3 |-> Xor(shifted[c][rr], OctetAt(expanded[4 * (CallNr - round) + c + 1], rr))]]
      <3>1. Fips!AddRoundKey(shifted, CallNr - round) = KeyAdded(shifted, WordsOfKey(CallNr - round))
        BY <2>2, FipsAddRoundKey
      <3> QED BY <3>1 DEF KeyAdded, WordsOfKey
    <2>9. StateOf(t) = [c \in 0 .. 3 |-> [rr \in 0 .. 3 |-> OctetAt(t[c], rr)]]
      BY DEF StateOf, ColumnOf
    <2>10. StateOf(t) = Fips!AddRoundKey(shifted, CallNr - round)
      BY <2>4, <2>5, <2>7, <2>8, <2>9
    <2>11. t \in [0 .. 3 -> Word]
      BY <2>3, <2>4
    <2>12. decrypted' = Written(decrypted, 16 * block, t) /\ UNCHANGED encrypted
      BY <1>7, <2>3 DEF AesFinalRound, Encrypting
    <2>13. StateOf(t) = SpecFinalRound(StateOf(w), CallNr)
      BY <1>2, <1>7, <2>6, <2>10 DEF SpecFinalRound
    <2> QED BY <1>2, <1>7, <2>11, <2>12, <2>13
  <1> QED BY <1>1, <1>6, <1>7 DEF Ciphering

-----------------------------------------------------------------------------
(* Blocks. *)

BlockState == [0 .. 3 -> Column]

BlockAt(p, b) == [c \in 0 .. 3 |-> [rr \in 0 .. 3 |-> p[16 * b + 4 * c + rr]]]

LEMMA BlocksOfTexts ==
  ASSUME NEW p \in [0 .. 255 -> Octet], NEW z \in 0 .. 16
  PROVE  /\ BlocksOf(p, z) \in Seq(BlockState) /\ Len(BlocksOf(p, z)) = z
         /\ \A b \in 0 .. z - 1 : BlocksOf(p, z)[b + 1] = BlockAt(p, b) /\ BlockAt(p, b) \in BlockState
  <1>1. \A b \in 1 .. z, c, rr \in 0 .. 3 : 16 * (b - 1) + 4 * c + rr \in 0 .. 255
    OBVIOUS
  <1>2. \A b \in 1 .. z : BlockAt(p, b - 1) \in BlockState
    BY <1>1 DEF BlockAt, BlockState, Column
  <1>3. BlocksOf(p, z) = [b \in 1 .. z |-> BlockAt(p, b - 1)]
    BY DEF BlocksOf, BlockAt
  <1>4. \A b \in 0 .. z - 1 : b + 1 \in 1 .. z /\ (b + 1) - 1 = b
    OBVIOUS
  <1>5. BlocksOf(p, z) \in Seq(BlockState) /\ Len(BlocksOf(p, z)) = z
    BY <1>2, <1>3
  <1>6. ASSUME NEW b \in 0 .. z - 1
        PROVE  BlocksOf(p, z)[b + 1] = BlockAt(p, b) /\ BlockAt(p, b) \in BlockState
    BY <1>2, <1>3, <1>4
  <1> QED BY <1>5, <1>6

LEMMA AppendedSequence ==
  ASSUME NEW S, NEW s \in Seq(S), NEW x \in S, NEW u \in Seq(S),
         Len(u) = Len(s) + 1, u[Len(s) + 1] = x, \A z \in 1 .. Len(s) : u[z] = s[z]
  PROVE  u = Append(s, x)
  <1>1. Append(s, x) \in Seq(S) /\ Len(Append(s, x)) = Len(s) + 1 /\ Len(s) \in Nat
    OBVIOUS
  <1>2. \A z \in 1 .. Len(s) + 1 : z \in 1 .. Len(s) \/ z = Len(s) + 1
    BY <1>1
  <1>3. Append(s, x)[Len(s) + 1] = x /\ \A z \in 1 .. Len(s) : Append(s, x)[z] = s[z]
    OBVIOUS
  <1>4. \A z \in 1 .. Len(s) + 1 : u[z] = Append(s, x)[z]
    BY <1>2, <1>3
  <1> QED BY <1>1, <1>4

LEMMA WrittenBlock ==
  ASSUME NEW p \in [0 .. 255 -> Octet], NEW b \in 0 .. 15, NEW t \in [0 .. 3 -> Word]
  PROVE  /\ Written(p, 16 * b, t) \in [0 .. 255 -> Octet]
         /\ \A a \in 0 .. b - 1 : BlockAt(Written(p, 16 * b, t), a) = BlockAt(p, a)
         /\ BlockAt(Written(p, 16 * b, t), b) = StateOf(t)
         /\ BlocksOf(Written(p, 16 * b, t), b + 1) = Append(BlocksOf(p, b), StateOf(t))
  <1> DEFINE new == Written(p, 16 * b, t)
  <1>1. new = [o \in 0 .. 255 |-> IF o \in 16 * b .. 16 * b + 15
                                  THEN OctetAt(t[(o - 16 * b) \div 4], (o - 16 * b) % 4) ELSE p[o]]
    BY DEF Written
  <1> HIDE DEF new
  <1>2. new \in [0 .. 255 -> Octet]
    BY <1>1, OctetAtOctet
  <1>3. \A o \in 0 .. 255 : o < 16 * b => new[o] = p[o]
    <2>1. \A o \in 0 .. 255 : o < 16 * b => o \notin 16 * b .. 16 * b + 15
      OBVIOUS
    <2> QED BY <1>1, <2>1, Zenon
  <1>4. ASSUME NEW a \in 0 .. b - 1
        PROVE  BlockAt(new, a) = BlockAt(p, a)
    <2>1. \A c, rr \in 0 .. 3 : 16 * a + 4 * c + rr \in 0 .. 255 /\ 16 * a + 4 * c + rr < 16 * b
      OBVIOUS
    <2> QED BY <1>3, <2>1 DEF BlockAt
  <1>5. BlockAt(new, b) = StateOf(t)
    <2>1. \A c, rr \in 0 .. 3 :
            LET o == 16 * b + 4 * c + rr
            IN  /\ o \in 0 .. 255 /\ o \in 16 * b .. 16 * b + 15
                /\ (o - 16 * b) \div 4 = c /\ (o - 16 * b) % 4 = rr
      <3> TAKE c, rr \in 0 .. 3
      <3>1. (16 * b + 4 * c + rr) - 16 * b = 4 * c + rr
        OBVIOUS
      <3>2. (4 * c + rr) \div 4 = c /\ (4 * c + rr) % 4 = rr
        OBVIOUS
      <3> QED BY <3>1, <3>2
    <2>2. \A c, rr \in 0 .. 3 : new[16 * b + 4 * c + rr] = OctetAt(t[c], rr)
      BY <1>1, <2>1
    <2> QED BY <2>2 DEF BlockAt, StateOf, ColumnOf
  <1>6. /\ BlocksOf(new, b + 1) \in Seq(BlockState) /\ Len(BlocksOf(new, b + 1)) = b + 1
        /\ \A a \in 0 .. b : BlocksOf(new, b + 1)[a + 1] = BlockAt(new, a)
    <2>1. b + 1 \in 0 .. 16 /\ (b + 1) - 1 = b
      OBVIOUS
    <2> QED BY <1>2, <2>1, BlocksOfTexts
  <1>7. /\ BlocksOf(p, b) \in Seq(BlockState) /\ Len(BlocksOf(p, b)) = b
        /\ \A a \in 0 .. b - 1 : BlocksOf(p, b)[a + 1] = BlockAt(p, a)
    <2>1. b \in 0 .. 16
      OBVIOUS
    <2> QED BY <2>1, BlocksOfTexts
  <1>8. StateOf(t) \in BlockState
    BY OctetAtOctet DEF StateOf, ColumnOf, BlockState, Column
  <1>9. BlocksOf(new, b + 1) = Append(BlocksOf(p, b), StateOf(t))
    <2> DEFINE u == BlocksOf(new, b + 1)
               v == BlocksOf(p, b)
    <2>1. u[Len(v) + 1] = StateOf(t)
      <3>1. b \in 0 .. b
        OBVIOUS
      <3>2. u[b + 1] = BlockAt(new, b)
        BY <1>6, <3>1
      <3> QED BY <1>5, <1>7, <3>2
    <2>2. ASSUME NEW z \in 1 .. Len(v)
          PROVE  u[z] = v[z]
      <3>1. z - 1 \in 0 .. b /\ z - 1 \in 0 .. b - 1 /\ (z - 1) + 1 = z
        BY <1>7
      <3> QED BY <1>4, <1>6, <1>7, <3>1
    <2>3. u \in Seq(BlockState) /\ v \in Seq(BlockState) /\ Len(u) = Len(v) + 1
      BY <1>6, <1>7
    <2> HIDE DEF u, v
    <2>4. u = Append(v, StateOf(t))
      BY <1>8, <2>1, <2>2, <2>3, AppendedSequence
    <2> QED BY <2>4 DEF u, v
  <1> QED BY <1>2, <1>4, <1>5, <1>9 DEF new

LEMMA FirstSubkeysStep ==
  ASSUME AesInv, FirstSubkeys
  PROVE  /\ block \in 0 .. 15 /\ block < Blocks /\ w' \in [0 .. 3 -> Word]
         /\ StateOf(w') = Fips!AddRoundKey(BlockAt(Source, block), IF step = "encrypt" THEN 0 ELSE CallNr)
  <1> DEFINE q == IF step = "encrypt" THEN 0 ELSE CallNr
  <1>1. /\ Ciphering /\ block < Blocks /\ AesTypes
        /\ w' = [z \in 0 .. 3 |-> Xor(LE_READ_UINT32(Source, 16 * block + 4 * z), Ctx.keys[z])]
    BY DEF FirstSubkeys, AesInv
  <1>2. CallNr \in {10, 12, 14} /\ Blocks \in 0 .. 16
    BY <1>1, RoundCounts
  <1>3. block \in 0 .. 15
    <2>1. block \in Nat
      BY <1>1 DEF AesTypes
    <2> QED BY <1>1, <1>2, <2>1
  <1>4. Source \in [0 .. 255 -> Octet]
    BY <1>1, DataAssumption DEF Source, AesTypes
  <1>5. /\ \A z \in 0 .. 3 : Ctx.keys[z] \in Word /\ Ctx.keys[z] = WordsOfKey(q)[z]
        /\ expanded \in Seq(Word) /\ 4 * q + 4 <= Len(expanded) /\ q \in Nat
    <2>1. 0 \in 0 .. CallNr /\ 0 \notin 1 .. CallNr - 1 /\ CallNr - 0 = CallNr
      BY <1>2
    <2>2. CASE step = "encrypt"
      <3>1. \A z \in 0 .. 3 : /\ Ctx.keys[4 * 0 + z] \in Word /\ Ctx.keys[4 * 0 + z] = expanded[4 * 0 + z + 1]
                              /\ expanded \in Seq(Word) /\ 4 * 0 + 4 <= Len(expanded)
        BY <1>1, <2>1, <2>2, KeysInUse
      <3>2. \A z \in 0 .. 3 : 4 * 0 + z = z
        OBVIOUS
      <3> QED BY <2>2, <3>1, <3>2 DEF WordsOfKey
    <2>3. CASE step = "decrypt"
      <3>1. \A z \in 0 .. 3 : /\ Ctx.keys[4 * 0 + z] \in Word /\ Ctx.keys[4 * 0 + z] = expanded[4 * (CallNr - 0) + z + 1]
                              /\ expanded \in Seq(Word) /\ 4 * (CallNr - 0) + 4 <= Len(expanded)
        BY <1>1, <2>1, <2>3, KeysInUse
      <3>2. \A z \in 0 .. 3 : 4 * 0 + z = z
        OBVIOUS
      <3> QED BY <1>2, <2>1, <2>3, <3>1, <3>2 DEF WordsOfKey
    <2> QED BY <1>1, <2>2, <2>3 DEF Ciphering
  <1>6. ASSUME NEW z \in 0 .. 3
        PROVE  /\ w'[z] \in Word
               /\ \A rr \in 0 .. 3 : OctetAt(w'[z], rr) = Xor(BlockAt(Source, block)[z][rr], OctetAt(WordsOfKey(q)[z], rr))
    <2> DEFINE f == [k \in 0 .. 3 |-> Source[16 * block + 4 * z + k]]
    <2>1. w'[z] = Xor(Joined(f), Ctx.keys[z])
      BY <1>1 DEF LE_READ_UINT32
    <2>2. \A rr \in 0 .. 3 : f[rr] = BlockAt(Source, block)[z][rr]
      BY DEF BlockAt
    <2>3. \A rr \in 0 .. 3 : f[rr] \in Octet
      <3>1. \A rr \in 0 .. 3 : 16 * block + 4 * z + rr \in 0 .. 255
        BY <1>3
      <3> QED BY <1>4, <3>1
    <2> HIDE DEF f, q
    <2>4. \A rr \in 0 .. 3 : OctetAt(Joined(f), rr) = BlockAt(Source, block)[z][rr]
      BY <2>2, <2>3, OctetAtJoined
    <2>5. \A rr : OctetAt(Xor(Joined(f), Ctx.keys[z]), rr) = Xor(OctetAt(Joined(f), rr), OctetAt(Ctx.keys[z], rr))
      BY OctetAtXor, Zenon
    <2>6. w'[z] \in Word
      BY <1>5, <2>1, JoinedWord, XorClosed
    <2> QED BY <1>5, <2>1, <2>4, <2>5, <2>6
  <1> HIDE DEF q
  <1>7. Fips!AddRoundKey(BlockAt(Source, block), q) = KeyAdded(BlockAt(Source, block), WordsOfKey(q))
    BY <1>5, FipsAddRoundKey
  <1>8. StateOf(w') = KeyAdded(BlockAt(Source, block), WordsOfKey(q))
    BY <1>6 DEF StateOf, ColumnOf, KeyAdded
  <1>9. w' \in [0 .. 3 -> Word]
    BY <1>1, <1>6
  <1> QED BY <1>1, <1>3, <1>7, <1>8, <1>9 DEF q

-----------------------------------------------------------------------------
(* The invariant is kept. *)

(* What depends on nothing but the subkeys and the step.                    *)
LEMMA KeysKept ==
  ASSUME AesInv, UNCHANGED <<call, step, keyVars>>, AesTypes', BlockInv'
  PROVE  AesInv'
  <1>1. UNCHANGED <<call, step, enc, dec, i, j, rp, expanded>>
    BY DEF keyVars
  <1>2. /\ Ctx' = Ctx /\ CallNk' = CallNk /\ CallNr' = CallNr
        /\ (Expanding' <=> Expanding) /\ (Encrypting' <=> Encrypting)
    BY <1>1 DEF Ctx, CallNk, CallNr, Expanding, Encrypting
  <1>3. ExpandInv' /\ ScheduleInv'
    BY <1>1, <1>2 DEF AesInv, ExpandInv, ScheduleInv, Subkey
  <1>4. EncryptInv' /\ InvertInv' /\ MixInv'
    BY <1>1, <1>2 DEF AesInv, EncryptInv, InvertInv, MixInv, Subkey
  <1> QED BY <1>3, <1>4 DEF AesInv

(* Nothing but the step is known of a step without keys or blocks.          *)
LEMMA NoKeysNeeded ==
  ASSUME AesTypes', step' \in {"start", "set_encrypt_key", "set_decrypt_key", "done", "exited"}
  PROVE  AesInv'
  BY DEF AesInv, ExpandInv, ScheduleInv, EncryptInv, InvertInv, MixInv, BlockInv, Expanding, Ciphering

LEMMA FirstSubkeysInv == AesInv /\ FirstSubkeys => AesInv'
  <1> SUFFICES ASSUME AesInv, FirstSubkeys
               PROVE  AesInv'
    OBVIOUS
  <1>1. w' \in [0 .. 3 -> Word] /\ block < Blocks
    BY FirstSubkeysStep
  <1>2. AesTypes /\ round' = 1 /\ UNCHANGED <<mainVars, call, step, keyVars, block, textVars>>
    BY DEF FirstSubkeys, AesInv
  <1>3. CallNr \in {10, 12, 14} /\ CallNr' = CallNr /\ Blocks' = Blocks /\ (Ciphering' <=> Ciphering)
    BY <1>2, RoundCounts DEF CallNk, CallNr, Blocks, Ciphering
  <1>4. AesTypes'
    BY <1>1, <1>2 DEF AesTypes, mainVars, keyVars, textVars
  <1>5. BlockInv'
    BY <1>1, <1>2, <1>3 DEF AesInv, BlockInv
  <1> QED BY <1>2, <1>4, <1>5, KeysKept

LEMMA AesRoundInv == AesInv /\ AesRound => AesInv'
  <1> SUFFICES ASSUME AesInv, AesRound
               PROVE  AesInv'
    OBVIOUS
  <1>1. w' \in [0 .. 3 -> Word] /\ round \in 1 .. CallNr - 1
    BY AesRoundStep
  <1>2. AesTypes /\ round' = round + 1 /\ UNCHANGED <<mainVars, call, step, keyVars, block, textVars>>
    BY DEF AesRound, AesInv
  <1>3. CallNr \in {10, 12, 14} /\ CallNr' = CallNr /\ Blocks' = Blocks /\ (Ciphering' <=> Ciphering)
    BY <1>2, RoundCounts DEF CallNk, CallNr, Blocks, Ciphering
  <1>4. AesTypes'
    BY <1>1, <1>2 DEF AesTypes, mainVars, keyVars, textVars
  <1>5. BlockInv'
    BY <1>1, <1>2, <1>3 DEF AesInv, BlockInv
  <1> QED BY <1>2, <1>4, <1>5, KeysKept

LEMMA AesFinalRoundInv == AesInv /\ AesFinalRound => AesInv'
  <1> SUFFICES ASSUME AesInv, AesFinalRound
               PROVE  AesInv'
    OBVIOUS
  <1>1. PICK t \in [0 .. 3 -> Word] :
           /\ round = CallNr
           /\ step = "encrypt" => encrypted' = Written(encrypted, 16 * block, t) /\ UNCHANGED decrypted
           /\ step = "decrypt" => decrypted' = Written(decrypted, 16 * block, t) /\ UNCHANGED encrypted
    BY FinalRoundStep, Zenon
  <1>2. /\ AesTypes /\ Ciphering /\ block' = block + 1 /\ round' = 0
        /\ UNCHANGED <<mainVars, call, step, keyVars, w>>
    BY DEF AesFinalRound, AesInv
  <1>3. /\ CallNr \in {10, 12, 14} /\ Blocks \in 0 .. 16
        /\ CallNr' = CallNr /\ Blocks' = Blocks /\ (Ciphering' <=> Ciphering)
    BY <1>2, RoundCounts DEF CallNk, CallNr, Blocks, Ciphering
  <1>4. block \in Nat /\ block < Blocks /\ block \in 0 .. 15
    <2>1. block \in Nat
      BY <1>2 DEF AesTypes
    <2>2. round > 0
      BY <1>1, <1>3
    <2>3. block < Blocks
      BY <1>2, <2>2 DEF AesInv, BlockInv
    <2> QED BY <1>3, <2>1, <2>3
  <1>5. encrypted' \in [0 .. 255 -> Octet] /\ decrypted' \in [0 .. 255 -> Octet]
    <2>1. encrypted \in [0 .. 255 -> Octet] /\ decrypted \in [0 .. 255 -> Octet]
      BY <1>2 DEF AesTypes
    <2>2. Written(encrypted, 16 * block, t) \in [0 .. 255 -> Octet] /\ Written(decrypted, 16 * block, t) \in [0 .. 255 -> Octet]
      BY <1>4, <2>1, WrittenBlock
    <2> QED BY <1>1, <1>2, <2>1, <2>2 DEF Ciphering
  <1>6. AesTypes'
    <2>1. block' \in Nat
      BY <1>2, <1>4
    <2> QED BY <1>2, <1>5, <2>1 DEF AesTypes, mainVars, keyVars
  <1>7. BlockInv'
    BY <1>2, <1>3, <1>4 DEF BlockInv
  <1> QED BY <1>2, <1>6, <1>7, KeysKept

LEMMA BlocksDoneInv == AesInv /\ BlocksDone => AesInv'
  <1> SUFFICES ASSUME AesInv, BlocksDone
               PROVE  AesInv'
    OBVIOUS
  <1>1. AesTypes /\ Ciphering /\ UNCHANGED <<call, keyVars, blockVars, textVars>>
    BY DEF BlocksDone, AesInv
  <1>2. \/ step' = "set_decrypt_key" /\ busy' = busy
        \/ step' = "done" /\ busy' = FALSE
    BY DEF BlocksDone, EndBody, mainVars
  <1>3. AesTypes'
    BY <1>1, <1>2 DEF AesTypes, keyVars, blockVars, textVars, Ciphering
  <1> QED BY <1>2, <1>3, NoKeysNeeded

LEMMA OtherStepsInv ==
  ASSUME AesInv,
         \/ (WarmCaches \/ ReturnAes \/ VerifyAes \/ UNCHANGED mainVars) /\ UNCHANGED aesVars
         \/ BeginAes \/ SetKeyExits
  PROVE  AesInv'
  <1>1. AesTypes
    BY DEF AesInv
  <1>2. CASE (WarmCaches \/ ReturnAes \/ VerifyAes \/ UNCHANGED mainVars) /\ UNCHANGED aesVars
    <2>1. busy' = busy
      BY <1>2 DEF WarmCaches, ReturnAes, ReturnToMain, VerifyAes, Verify, mainVars
    <2>2. UNCHANGED <<call, step, keyVars, blockVars, textVars>>
      BY <1>2 DEF aesVars
    <2>3. AesTypes'
      BY <1>1, <2>1, <2>2 DEF AesTypes, keyVars, blockVars, textVars
    <2>4. BlockInv'
      BY <2>2 DEF AesInv, BlockInv, CallNr, CallNk, Blocks, Ciphering, blockVars
    <2> QED BY <2>2, <2>3, <2>4, KeysKept
  <1>3. CASE BeginAes
    <2>1. busy' = TRUE /\ step' = "set_encrypt_key" /\ UNCHANGED <<call, keyVars, blockVars, textVars>>
      BY <1>3 DEF BeginAes, BeginBody
    <2>2. AesTypes'
      BY <1>1, <2>1 DEF AesTypes, keyVars, blockVars, textVars
    <2> QED BY <2>1, <2>2, NoKeysNeeded
  <1>4. CASE SetKeyExits
    <2>1. /\ busy' = busy /\ step' = "exited" /\ UNCHANGED <<call, keyVars, blockVars, textVars>>
          /\ step \in {"set_encrypt_key", "set_decrypt_key"}
      BY <1>4 DEF SetKeyExits, Exit
    <2>2. AesTypes'
      BY <1>1, <2>1 DEF AesTypes, keyVars, blockVars, textVars
    <2> QED BY <2>1, <2>2, NoKeysNeeded
  <1> QED BY <1>2, <1>3, <1>4

LEMMA AesInvStep == AesInv /\ [AesNext]_<<mainVars, aesVars>> => AesInv'
  <1> SUFFICES ASSUME AesInv, [AesNext]_<<mainVars, aesVars>>
               PROVE  AesInv'
    OBVIOUS
  <1>1. CASE WarmCaches /\ UNCHANGED aesVars
    BY <1>1, OtherStepsInv
  <1>2. CASE BeginAes \/ SetKeyExits
    BY <1>2, OtherStepsInv
  <1>3. CASE SetKey
    BY <1>3, SetKeyInv
  <1>4. CASE ExpandKey
    BY <1>4, ExpandKeyInv
  <1>5. CASE KeyExpanded
    BY <1>5, KeyExpandedInv
  <1>6. CASE InvertKeys
    BY <1>6, InvertKeysInv
  <1>7. CASE KeysInverted
    BY <1>7, KeysInvertedInv
  <1>8. CASE MixKey
    BY <1>8, MixKeyInv
  <1>9. CASE KeysMixed
    BY <1>9, KeysMixedInv
  <1>10. CASE FirstSubkeys
    BY <1>10, FirstSubkeysInv
  <1>11. CASE AesRound
    BY <1>11, AesRoundInv
  <1>12. CASE AesFinalRound
    BY <1>12, AesFinalRoundInv
  <1>13. CASE BlocksDone
    BY <1>13, BlocksDoneInv
  <1>14. CASE ReturnAes \/ VerifyAes
    BY <1>14, OtherStepsInv DEF ReturnAes, VerifyAes
  <1>15. CASE UNCHANGED <<mainVars, aesVars>>
    BY <1>15, OtherStepsInv
  <1> QED BY <1>1, <1>2, <1>3, <1>4, <1>5, <1>6, <1>7, <1>8, <1>9, <1>10, <1>11, <1>12, <1>13, <1>14, <1>15
        DEF AesNext

(* The subkeys of both contexts are those of the schedule, in the order     *)
(* that the step has reached (nettle-aes.c:723-898).                        *)
THEOREM AesInvariant == AesSpec => []AesInv
  BY AesInitInv, AesInvStep, PTL DEF AesSpec

LEMMA BoundsKept == AesInv => KeysInBounds
  <1> SUFFICES ASSUME AesInv, Expanding
               PROVE  /\ 4 * NkOf(call.keysize) <= call.keysize
                      /\ i < lastkey => i < KeyWords /\ (i % NkOf(call.keysize) = 0 => rp \in DOMAIN rcon)
    BY DEF KeysInBounds
  <1>1. /\ AesTypes /\ KeysizeOk(call.keysize) /\ i \in CallNk .. 4 * (CallNr + 1)
        /\ rp = (i - 1) \div CallNk /\ Ctx.rounds = CallNr
    BY DEF AesInv, ExpandInv
  <1>2. CallNk \in {4, 6, 8} /\ CallNr = CallNk + 6 /\ KeyWords = 60 /\ call.keysize \in Nat
    BY <1>1, RoundCounts, CallAssumption DEF AesTypes
  <1>3. 4 * NkOf(call.keysize) <= call.keysize
    BY <1>1, <1>2 DEF NkOf, KeysizeOk
  <1>4. DOMAIN rcon = 0 .. 9
    BY DataAssumption
  <1>5. ASSUME i < lastkey
        PROVE  i < KeyWords /\ (i % CallNk = 0 => rp \in 0 .. 9)
    <2>1. i < 4 * (CallNk + 7)
      BY <1>1, <1>2, <1>5 DEF lastkey
    <2>2. CASE CallNk = 4
      BY <1>1, <1>2, <2>1, <2>2
    <2>3. CASE CallNk = 6
      BY <1>1, <1>2, <2>1, <2>3
    <2>4. CASE CallNk = 8
      BY <1>1, <1>2, <2>1, <2>4
    <2> QED BY <1>2, <2>2, <2>3, <2>4
  <1> QED BY <1>3, <1>4, <1>5 DEF CallNk

(* For every key size and length the functions read no octet after the key  *)
(* and no entry after the last rcon, and write no subkey after the last of  *)
(* struct aes_ctx (nettle-aes.c:714-751, 756-783).                          *)
THEOREM KeysStayInBounds == AesSpec => []KeysInBounds
  BY BoundsKept, AesInvariant, PTL

-----------------------------------------------------------------------------
(* The refinement.  The variables of FIPS 197, as Fips maps them.           *)

FipsSchedule == [z \in 1 .. Len(expanded) |-> ColumnOf(expanded[z])]
FipsMode     == IF Ciphering THEN step ELSE "key"
FipsIn       == IF Ciphering THEN BlocksOf(Source, Blocks) ELSE <<>>
FipsOut      == IF step = "encrypt" THEN BlocksOf(encrypted, block)
                ELSE IF step = "decrypt" THEN BlocksOf(decrypted, block) ELSE <<>>
FipsRound    == IF Ciphering THEN round ELSE 0

LEMMA FipsBlock == Fips!Block = BlockState
  BY DEF Fips!Block, Fips!Octet, BlockState, Column, Octet

LEMMA StateInBlock ==
  ASSUME NEW ws
  PROVE  StateOf(ws) \in BlockState
  BY OctetAtOctet DEF StateOf, ColumnOf, BlockState, Column

LEMMA NotCiphering ==
  ASSUME ~Ciphering
  PROVE  FipsMode = "key" /\ FipsIn = <<>> /\ FipsOut = <<>> /\ FipsRound = 0
  BY DEF Ciphering, FipsMode, FipsIn, FipsOut, FipsRound

LEMMA NotCipheringNext ==
  ASSUME ~Ciphering'
  PROVE  FipsMode' = "key" /\ FipsIn' = <<>> /\ FipsOut' = <<>> /\ FipsRound' = 0
  BY DEF Ciphering, FipsMode, FipsIn, FipsOut, FipsRound

LEMMA FipsUnchanged ==
  ASSUME UNCHANGED <<CallNk, FipsSchedule, FipsMode, FipsIn, FipsOut, FipsRound, w>>
  PROVE  UNCHANGED Fips!vars
  BY DEF Fips!vars, CallNk, FipsSchedule, FipsMode, FipsIn, FipsOut, FipsRound

(* Steps that FIPS 197 does not see.                                        *)
LEMMA HiddenStep ==
  ASSUME ~Ciphering, ~Ciphering', UNCHANGED <<call, expanded, w>>
  PROVE  UNCHANGED Fips!vars
  BY NotCiphering, NotCipheringNext, FipsUnchanged DEF CallNk, FipsSchedule

LEMMA HiddenSteps ==
  ASSUME AesInv,
         \/ BeginAes \/ SetKeyExits \/ InvertKeys \/ KeysInverted \/ MixKey
         \/ KeyExpanded /\ ~(Encrypting /\ LengthOk(call.length))
  PROVE  UNCHANGED Fips!vars
  <1>1. CASE BeginAes
    <2>1. busy = FALSE /\ step' = "set_encrypt_key" /\ UNCHANGED <<call, expanded, w>>
      BY <1>1 DEF BeginAes, BeginBody, keyVars, blockVars, AesInv, AesTypes
    <2>2. ~Ciphering /\ ~Ciphering'
      BY <2>1 DEF Ciphering, AesInv, AesTypes
    <2> QED BY <2>1, <2>2, HiddenStep
  <1>2. CASE SetKeyExits
    <2>1. ~Ciphering /\ ~Ciphering' /\ UNCHANGED <<call, expanded, w>>
      BY <1>2 DEF SetKeyExits, Exit, Ciphering, keyVars, blockVars
    <2> QED BY <2>1, HiddenStep
  <1>3. CASE InvertKeys \/ KeysInverted \/ MixKey
    <2>1. ~Ciphering /\ ~Ciphering' /\ UNCHANGED <<call, expanded, w>>
      BY <1>3 DEF InvertKeys, KeysInverted, MixKey, Ciphering, keyVars, blockVars
    <2> QED BY <2>1, HiddenStep
  <1>4. CASE KeyExpanded /\ ~(Encrypting /\ LengthOk(call.length))
    <2>1. ~Ciphering /\ ~Ciphering' /\ UNCHANGED <<call, expanded, w>>
      BY <1>4 DEF KeyExpanded, Expanding, Exit, Ciphering, keyVars, blockVars
    <2> QED BY <2>1, HiddenStep
  <1> QED BY <1>1, <1>2, <1>3, <1>4

LEMMA UnchangedStep ==
  ASSUME UNCHANGED aesVars
  PROVE  UNCHANGED Fips!vars
  <1>1. UNCHANGED <<call, step, expanded, block, w, round, encrypted, decrypted>>
    BY DEF aesVars, keyVars, blockVars, textVars
  <1>2. (Ciphering' <=> Ciphering) /\ Source' = Source /\ Blocks' = Blocks
    BY <1>1 DEF Ciphering, Source, Encrypting, Blocks
  <1>3. UNCHANGED <<CallNk, FipsSchedule>>
    BY <1>1 DEF CallNk, FipsSchedule
  <1>4. UNCHANGED <<FipsMode, FipsIn, FipsOut, FipsRound>>
    BY <1>1, <1>2 DEF FipsMode, FipsIn, FipsOut, FipsRound, BlocksOf
  <1> QED BY <1>1, <1>3, <1>4, FipsUnchanged

(* Steps of the key.                                                        *)
LEMMA FipsSetKey ==
  ASSUME AesInv, AesInv', SetKey
  PROVE  Fips!SetKey
  <1>1. /\ ~Ciphering /\ ~Ciphering' /\ Expanding' /\ i' = CallNk
        /\ UNCHANGED <<call, w>>
    BY DEF SetKey, Ciphering, Expanding, Encrypting, blockVars, CallNk
  <1>2. CallNk \in {4, 6, 8} /\ CallNk' = CallNk
    BY <1>1, RoundCounts DEF AesInv, CallNk
  <1>3. expanded' \in Seq(Word) /\ Len(expanded') = CallNk
    BY <1>1 DEF AesInv, AesTypes, ExpandInv
  <1>4. Len(FipsSchedule') = CallNk
    <2>1. FipsSchedule' = [z \in 1 .. Len(expanded') |-> ColumnOf(expanded'[z])]
      BY DEF FipsSchedule, ColumnOf, OctetAt
    <2> QED BY <1>3, <2>1, MappedSequence
  <1>5. /\ FipsMode = "key" /\ FipsMode' = "key" /\ CallNk' \in {4, 6, 8} /\ Len(FipsSchedule') = CallNk'
        /\ UNCHANGED <<FipsIn, FipsOut, FipsRound, w>>
    BY <1>1, <1>2, <1>4, NotCiphering, NotCipheringNext
  <1> QED BY <1>5 DEF Fips!SetKey, CallNk, FipsSchedule, FipsMode, FipsIn, FipsOut, FipsRound

LEMMA FipsExpandKey ==
  ASSUME AesInv, ExpandKey
  PROVE  Fips!ExpandKey
  <1>1. PICK subkey \in Word :
          /\ Fips!NextWord = ColumnOf(subkey)
          /\ expanded' = Append(expanded, subkey)
          /\ i \in CallNk .. 4 * (CallNr + 1) - 1
    BY ExpandKeyStep, Zenon
  <1>2. ~Ciphering /\ ~Ciphering' /\ Expanding /\ UNCHANGED <<call, w>>
    BY DEF ExpandKey, Ciphering, Expanding, blockVars
  <1>3. expanded \in Seq(Word) /\ Len(expanded) = i /\ CallNk \in {4, 6, 8} /\ CallNr = CallNk + 6
    BY <1>2, RoundCounts DEF AesInv, AesTypes, ExpandInv
  <1>4. Len(FipsSchedule) = i
    BY <1>3, MappedSequence DEF FipsSchedule
  <1>5. FipsSchedule' = Append(FipsSchedule, Fips!NextWord)
    <2>1. FipsSchedule' = [z \in 1 .. Len(expanded') |-> ColumnOf(expanded'[z])]
      BY DEF FipsSchedule, ColumnOf, OctetAt
    <2>2. FipsSchedule' = Append([z \in 1 .. Len(expanded) |-> ColumnOf(expanded[z])], ColumnOf(subkey))
      BY <1>1, <1>3, <2>1, MappedAppend
    <2> QED BY <1>1, <2>2 DEF FipsSchedule
  <1>6. Len(FipsSchedule) >= CallNk /\ Len(FipsSchedule) # 4 * (CallNk + 6 + 1)
    BY <1>1, <1>3, <1>4
  <1>7. /\ FipsMode = "key"
        /\ UNCHANGED <<CallNk, FipsMode, FipsIn, FipsOut, FipsRound, w>>
    BY <1>2, NotCiphering, NotCipheringNext DEF CallNk
  <1> QED BY <1>5, <1>6, <1>7
        DEF Fips!ExpandKey, Fips!Full, Fips!Nb, Fips!Nr, CallNk, FipsSchedule, FipsMode, FipsIn, FipsOut, FipsRound


(* Steps of the blocks.                                                     *)
LEMMA FipsStart ==
  ASSUME AesInv, AesInv',
         KeysMixed \/ (KeyExpanded /\ Encrypting /\ LengthOk(call.length))
  PROVE  Fips!Start
  <1>1. /\ ~Ciphering /\ step' \in {"encrypt", "decrypt"} /\ block' = 0 /\ round' = 0
        /\ UNCHANGED <<call, expanded, w>>
    BY DEF KeysMixed, KeyExpanded, Expanding, Ciphering, keyVars
  <1>2. Ciphering' /\ CallNk' = CallNk /\ CallNr' = CallNr /\ Blocks' = Blocks
    BY <1>1 DEF Ciphering, CallNk, CallNr, Blocks
  <1>3. CallNk \in {4, 6, 8} /\ CallNr = CallNk + 6 /\ Blocks \in 0 .. 16
    BY RoundCounts DEF AesInv
  <1>4. expanded \in Seq(Word) /\ Len(expanded) = 4 * (CallNk + 6 + 1)
    <2>1. expanded \in Seq(Word)
      BY DEF AesInv, AesTypes
    <2>2. Len(expanded) = 4 * (CallNr + 1)
      BY <1>1, <1>2 DEF AesInv, ScheduleInv
    <2> QED BY <1>3, <2>1, <2>2
  <1>5. Len(FipsSchedule) = 4 * (CallNk + 6 + 1)
    BY <1>4, MappedSequence DEF FipsSchedule
  <1>6. encrypted' \in [0 .. 255 -> Octet] /\ decrypted' \in [0 .. 255 -> Octet] /\ Source' \in [0 .. 255 -> Octet]
    BY DataAssumption DEF AesInv, AesTypes, Source
  <1>7. FipsIn' \in Seq(BlockState)
    <2>1. BlocksOf(Source', Blocks) \in Seq(BlockState)
      BY <1>3, <1>6, BlocksOfTexts
    <2>2. FipsIn' = BlocksOf(Source', Blocks)
      BY <1>2 DEF FipsIn, BlocksOf
    <2> QED BY <2>1, <2>2
  <1>8. FipsOut' = <<>>
    <2>1. \A p \in [0 .. 255 -> Octet] : BlocksOf(p, 0) = <<>>
      <3> TAKE p \in [0 .. 255 -> Octet]
      <3>1. BlocksOf(p, 0) \in Seq(BlockState) /\ Len(BlocksOf(p, 0)) = 0
        BY BlocksOfTexts
      <3> QED BY <3>1
    <2>2. BlocksOf(encrypted', 0) = <<>> /\ BlocksOf(decrypted', 0) = <<>>
      BY <1>6, <2>1
    <2>3. FipsOut' = BlocksOf(encrypted', 0) \/ FipsOut' = BlocksOf(decrypted', 0)
      BY <1>1 DEF FipsOut, BlocksOf
    <2> QED BY <2>2, <2>3
  <1>9. FipsMode = "key" /\ FipsMode' \in {"encrypt", "decrypt"} /\ FipsRound' = 0
    BY <1>1, <1>2, NotCiphering DEF FipsMode, FipsRound
  <1> QED BY <1>1, <1>2, <1>5, <1>7, <1>8, <1>9, FipsBlock
        DEF Fips!Start, Fips!Full, Fips!Nb, Fips!Nr, CallNk, FipsSchedule, FipsMode, FipsIn, FipsOut, FipsRound

(* What a step within a block leaves as it is.                              *)
LEMMA BlockUnchanged ==
  ASSUME AesInv, Ciphering, UNCHANGED <<call, step, expanded>>, UNCHANGED Source
  PROVE  UNCHANGED <<CallNk, FipsSchedule, FipsMode, FipsIn>> /\ Ciphering'
  <1>1. Ciphering' /\ Blocks' = Blocks /\ CallNk' = CallNk
    BY DEF Ciphering, Blocks, CallNk
  <1> QED BY <1>1 DEF FipsSchedule, FipsMode, FipsIn, BlocksOf, ColumnOf, OctetAt

LEMMA BlockFacts ==
  ASSUME AesInv, Ciphering
  PROVE  /\ FipsMode = step /\ FipsRound = round /\ CallNr = CallNk + 6 /\ CallNr \in {10, 12, 14}
         /\ Blocks \in 0 .. 16 /\ block \in 0 .. Blocks /\ Source \in [0 .. 255 -> Octet]
         /\ Len(FipsIn) = Blocks /\ \A b \in 0 .. Blocks - 1 : FipsIn[b + 1] = BlockAt(Source, b)
         /\ Len(FipsOut) = block
  <1>1. CallNr = CallNk + 6 /\ CallNr \in {10, 12, 14} /\ Blocks \in 0 .. 16
    BY RoundCounts DEF AesInv
  <1>2. block \in 0 .. Blocks
    <2>1. block \in Nat /\ block <= Blocks
      BY DEF AesInv, AesTypes, BlockInv
    <2> QED BY <1>1, <2>1
  <1>3. encrypted \in [0 .. 255 -> Octet] /\ decrypted \in [0 .. 255 -> Octet] /\ Source \in [0 .. 255 -> Octet]
    BY DataAssumption DEF AesInv, AesTypes, Source
  <1>4. FipsIn = BlocksOf(Source, Blocks) /\ FipsMode = step /\ FipsRound = round
    BY DEF FipsIn, FipsMode, FipsRound
  <1>5. Len(FipsIn) = Blocks /\ \A b \in 0 .. Blocks - 1 : FipsIn[b + 1] = BlockAt(Source, b)
    BY <1>1, <1>3, <1>4, BlocksOfTexts
  <1>6. Len(FipsOut) = block
    <2>1. block \in 0 .. 16
      BY <1>1, <1>2
    <2>2. Len(BlocksOf(encrypted, block)) = block /\ Len(BlocksOf(decrypted, block)) = block
      BY <1>3, <2>1, BlocksOfTexts
    <2> QED BY <2>2 DEF FipsOut, Ciphering
  <1> QED BY <1>1, <1>2, <1>3, <1>4, <1>5, <1>6

LEMMA FipsKeyOf ==
  ASSUME AesInv, Ciphering, NEW q
  PROVE  Fips!KeyOf(q) = IF step = "encrypt" THEN q ELSE CallNr - q
  <1>1. FipsMode = step /\ CallNr = CallNk + 6
    BY BlockFacts
  <1>2. Fips!Nr = CallNr
    BY <1>1 DEF Fips!Nr, CallNk
  <1>3. Fips!KeyOf(q) = IF FipsMode = "decrypt" THEN Fips!Nr - q ELSE q
    BY Zenon DEF Fips!KeyOf, FipsMode
  <1>4. Fips!KeyOf(q) = IF step = "decrypt" THEN CallNr - q ELSE q
    BY <1>1, <1>2, <1>3
  <1>5. step = "encrypt" \/ step = "decrypt"
    BY DEF Ciphering
  <1> QED BY <1>4, <1>5

LEMMA FipsFirstKey ==
  ASSUME AesInv, FirstSubkeys
  PROVE  Fips!FirstKey
  <1>1. Ciphering /\ round = 0 /\ round' = 1 /\ UNCHANGED <<call, step, expanded, block, encrypted, decrypted>>
    BY DEF FirstSubkeys, keyVars, textVars
  <1>2. /\ block \in 0 .. 15 /\ block < Blocks
        /\ StateOf(w') = Fips!AddRoundKey(BlockAt(Source, block), IF step = "encrypt" THEN 0 ELSE CallNr)
    BY FirstSubkeysStep
  <1>3. Source' = Source
    BY <1>1 DEF Source, Encrypting
  <1>4. UNCHANGED <<CallNk, FipsSchedule, FipsMode, FipsIn, FipsOut>> /\ Ciphering'
    BY <1>1, <1>3, BlockUnchanged DEF FipsOut, BlocksOf
  <1>5. /\ FipsMode = step /\ CallNr = CallNk + 6 /\ FipsRound = round /\ Len(FipsIn) = Blocks /\ Len(FipsOut) = block
        /\ FipsIn[block + 1] = BlockAt(Source, block)
    <2>1. block \in 0 .. Blocks - 1
      <3>1. Blocks \in 0 .. 16
        BY <1>1, BlockFacts
      <3> QED BY <1>2, <3>1
    <2> QED BY <1>1, <2>1, BlockFacts
  <1>6. Fips!KeyOf(0) = IF step = "encrypt" THEN 0 ELSE CallNr
    <2>1. Fips!KeyOf(0) = IF step = "encrypt" THEN 0 ELSE CallNr - 0
      BY <1>1, FipsKeyOf
    <2>2. CallNr - 0 = CallNr
      <3>1. CallNr \in {10, 12, 14}
        BY <1>1, BlockFacts
      <3> QED BY <3>1
    <2> QED BY <2>1, <2>2
  <1>7. StateOf(w') = Fips!AddRoundKey(FipsIn[Len(FipsOut) + 1], Fips!KeyOf(0))
    BY <1>2, <1>5, <1>6
  <1>8. FipsMode # "key" /\ FipsRound = 0 /\ Len(FipsOut) < Len(FipsIn) /\ FipsRound' = 1
    BY <1>1, <1>2, <1>4, <1>5 DEF Ciphering, FipsRound
  <1> QED BY <1>4, <1>7, <1>8
        DEF Fips!FirstKey, CallNk, FipsSchedule, FipsMode, FipsIn, FipsOut, FipsRound, StateOf

LEMMA FipsRoundStep ==
  ASSUME AesInv, AesRound
  PROVE  Fips!Round
  <1>1. Ciphering /\ round' = round + 1 /\ UNCHANGED <<call, step, expanded, block, encrypted, decrypted>>
    BY DEF AesRound, keyVars, textVars
  <1>2. round \in 1 .. CallNr - 1 /\ StateOf(w') = SpecRound(StateOf(w), round)
    BY AesRoundStep
  <1>3. Source' = Source
    BY <1>1 DEF Source, Encrypting
  <1>4. UNCHANGED <<CallNk, FipsSchedule, FipsMode, FipsIn, FipsOut>> /\ Ciphering'
    BY <1>1, <1>3, BlockUnchanged DEF FipsOut, BlocksOf
  <1>5. FipsMode = step /\ CallNr = CallNk + 6 /\ FipsRound = round
    BY <1>1, BlockFacts
  <1>6. Fips!KeyOf(round) = IF step = "encrypt" THEN round ELSE CallNr - round
    BY <1>1, FipsKeyOf
  <1>7. StateOf(w') =
          IF FipsMode = "encrypt"
          THEN Fips!AddRoundKey(Fips!MixColumns(Fips!ShiftRows(Fips!SubBytes(StateOf(w), SubByte)), MixTerms),
                                Fips!KeyOf(FipsRound))
          ELSE Fips!MixColumns(Fips!AddRoundKey(Fips!SubBytes(Fips!InvShiftRows(StateOf(w)), InvSubByte),
                                                Fips!KeyOf(FipsRound)), InvMixTerms)
    BY <1>2, <1>5, <1>6 DEF SpecRound
  <1>8. FipsRound \in 1 .. Fips!Nr - 1 /\ FipsRound' = FipsRound + 1
    <2>1. FipsRound' = round' /\ FipsRound = round
      BY <1>1, <1>4 DEF FipsRound
    <2>2. Fips!Nr = CallNr
      BY <1>5 DEF Fips!Nr, CallNk
    <2> QED BY <1>1, <1>2, <2>1, <2>2
  <1>9. StateOf(w)' = StateOf(w')
    BY DEF StateOf, ColumnOf, OctetAt
  <1> QED BY <1>4, <1>7, <1>8, <1>9, Zenon
        DEF Fips!Round, CallNk, FipsSchedule, FipsMode, FipsIn, FipsOut, FipsRound, StateOf

LEMMA FipsFinalRound ==
  ASSUME AesInv, AesFinalRound
  PROVE  Fips!FinalRound
  <1>1. Ciphering /\ round' = 0 /\ block' = block + 1 /\ UNCHANGED <<call, step, expanded, w>>
    BY DEF AesFinalRound, keyVars
  <1>2. PICK t \in [0 .. 3 -> Word] :
          /\ StateOf(t) = SpecFinalRound(StateOf(w), CallNr)
          /\ round = CallNr
          /\ step = "encrypt" => encrypted' = Written(encrypted, 16 * block, t) /\ UNCHANGED decrypted
          /\ step = "decrypt" => decrypted' = Written(decrypted, 16 * block, t) /\ UNCHANGED encrypted
    BY FinalRoundStep, Zenon
  <1>3. Source' = Source
    BY <1>1, <1>2 DEF Source, Encrypting, Ciphering
  <1>4. UNCHANGED <<CallNk, FipsSchedule, FipsMode, FipsIn>> /\ Ciphering'
    BY <1>1, <1>3, BlockUnchanged
  <1>5. /\ FipsMode = step /\ CallNr = CallNk + 6 /\ FipsRound = round /\ CallNr \in {10, 12, 14}
        /\ Blocks \in 0 .. 16 /\ block \in 0 .. Blocks
    BY <1>1, BlockFacts
  <1>6. block \in 0 .. 15
    <2>1. block < Blocks
      BY <1>1, <1>2, <1>5 DEF AesInv, BlockInv
    <2> QED BY <1>5, <2>1
  <1>7. Fips!KeyOf(CallNk + 6) = IF step = "encrypt" THEN CallNr ELSE CallNr - CallNr
    <2>1. Fips!KeyOf(CallNr) = IF step = "encrypt" THEN CallNr ELSE CallNr - CallNr
      BY <1>1, FipsKeyOf
    <2> QED BY <1>5, <2>1
  <1>8. encrypted \in [0 .. 255 -> Octet] /\ decrypted \in [0 .. 255 -> Octet]
    BY DEF AesInv, AesTypes
  <1>12. t \in [0 .. 3 -> Word]
    BY <1>2
  <1>9. FipsOut' = Append(FipsOut, StateOf(t))
    <2>1. CASE step = "encrypt"
      <3>1. FipsOut' = BlocksOf(encrypted', block + 1) /\ FipsOut = BlocksOf(encrypted, block)
        BY <1>1, <2>1 DEF FipsOut, BlocksOf
      <3>2. PICK p \in [0 .. 255 -> Octet], b \in 0 .. 15, u \in [0 .. 3 -> Word] :
              p = encrypted /\ b = block /\ u = t
        BY <1>6, <1>8, <1>12
      <3>5. p \in [0 .. 255 -> Octet] /\ b \in 0 .. 15 /\ u \in [0 .. 3 -> Word]
        BY <3>2
      <3>3. BlocksOf(Written(p, 16 * b, u), b + 1) = Append(BlocksOf(p, b), StateOf(u))
        BY <3>5, WrittenBlock, ZenonT(60)
      <3>4. BlocksOf(Written(encrypted, 16 * block, t), block + 1) = Append(BlocksOf(encrypted, block), StateOf(t))
        BY <3>2, <3>3
      <3> QED BY <1>2, <2>1, <3>1, <3>4
    <2>2. CASE step = "decrypt"
      <3>1. FipsOut' = BlocksOf(decrypted', block + 1) /\ FipsOut = BlocksOf(decrypted, block)
        BY <1>1, <2>2 DEF FipsOut, BlocksOf
      <3>2. PICK p \in [0 .. 255 -> Octet], b \in 0 .. 15, u \in [0 .. 3 -> Word] :
              p = decrypted /\ b = block /\ u = t
        BY <1>6, <1>8, <1>12
      <3>5. p \in [0 .. 255 -> Octet] /\ b \in 0 .. 15 /\ u \in [0 .. 3 -> Word]
        BY <3>2
      <3>3. BlocksOf(Written(p, 16 * b, u), b + 1) = Append(BlocksOf(p, b), StateOf(u))
        BY <3>5, WrittenBlock, ZenonT(60)
      <3>4. BlocksOf(Written(decrypted, 16 * block, t), block + 1) = Append(BlocksOf(decrypted, block), StateOf(t))
        BY <3>2, <3>3
      <3> QED BY <1>2, <2>2, <3>1, <3>4
    <2> QED BY <1>1, <2>1, <2>2 DEF Ciphering
  <1>10. StateOf(t) = Fips!AddRoundKey(IF FipsMode = "encrypt" THEN Fips!ShiftRows(Fips!SubBytes(StateOf(w), SubByte))
                                       ELSE Fips!SubBytes(Fips!InvShiftRows(StateOf(w)), InvSubByte),
                                       Fips!KeyOf(CallNk + 6))
    BY <1>2, <1>5, <1>7 DEF SpecFinalRound
  <1>11. FipsRound = CallNk + 6 /\ FipsRound' = 0 /\ StateOf(w)' = StateOf(w)
    BY <1>1, <1>2, <1>4, <1>5 DEF FipsRound, StateOf
  <1> QED BY <1>4, <1>9, <1>10, <1>11
        DEF Fips!FinalRound, Fips!Nr, CallNk, FipsSchedule, FipsMode, FipsIn, FipsOut, FipsRound, StateOf

LEMMA FipsStop ==
  ASSUME AesInv, BlocksDone
  PROVE  Fips!Stop
  <1>1. Ciphering /\ ~Ciphering' /\ round = 0 /\ block = Blocks /\ UNCHANGED <<call, expanded, w>>
    BY DEF BlocksDone, keyVars, blockVars, Ciphering
  <1>2. FipsMode # "key" /\ FipsRound = 0 /\ Len(FipsOut) = Len(FipsIn)
    BY <1>1, BlockFacts DEF Ciphering
  <1>3. FipsMode' = "key" /\ FipsIn' = <<>> /\ FipsOut' = <<>> /\ FipsRound' = 0
    BY <1>1, NotCipheringNext
  <1>4. UNCHANGED <<CallNk, FipsSchedule, w>>
    BY <1>1 DEF CallNk, FipsSchedule
  <1> QED BY <1>2, <1>3, <1>4
        DEF Fips!Stop, CallNk, FipsSchedule, FipsMode, FipsIn, FipsOut, FipsRound

LEMMA FipsInit == AesInv /\ MainInit /\ AesInit => Fips!Init
  <1> SUFFICES ASSUME AesInv, MainInit, AesInit
               PROVE  Fips!Init
    OBVIOUS
  <1>1. ~Ciphering /\ expanded = <<>>
    BY DEF AesInit, Ciphering
  <1>2. FipsSchedule = <<>>
    BY <1>1 DEF FipsSchedule
  <1>3. CallNk \in {4, 6, 8}
    BY RoundCounts DEF AesInv
  <1>4. StateOf(w) \in Fips!Block
    BY StateInBlock, FipsBlock
  <1>5. FipsMode = "key" /\ FipsIn = <<>> /\ FipsOut = <<>> /\ FipsRound = 0
    BY <1>1, NotCiphering
  <1> QED BY <1>2, <1>3, <1>4, <1>5
        DEF Fips!Init, CallNk, FipsSchedule, FipsMode, FipsIn, FipsOut, FipsRound, StateOf

LEMMA FipsNext == AesInv /\ AesInv' /\ [AesNext]_<<mainVars, aesVars>> => [Fips!Next]_(Fips!vars)
  <1> SUFFICES ASSUME AesInv, AesInv', [AesNext]_<<mainVars, aesVars>>
               PROVE  Fips!Next \/ UNCHANGED Fips!vars
    OBVIOUS
  <1>1. CASE UNCHANGED aesVars
    BY <1>1, UnchangedStep
  <1>2. CASE BeginAes \/ SetKeyExits \/ InvertKeys \/ KeysInverted \/ MixKey
    BY <1>2, HiddenSteps
  <1>3. CASE SetKey
    BY <1>3, FipsSetKey DEF Fips!Next
  <1>4. CASE ExpandKey
    BY <1>4, FipsExpandKey DEF Fips!Next
  <1>5. CASE KeyExpanded
    <2>1. CASE Encrypting /\ LengthOk(call.length)
      BY <1>5, <2>1, FipsStart DEF Fips!Next
    <2>2. CASE ~(Encrypting /\ LengthOk(call.length))
      BY <1>5, <2>2, HiddenSteps
    <2> QED BY <2>1, <2>2
  <1>6. CASE KeysMixed
    <2>1. KeysMixed \/ (KeyExpanded /\ Encrypting /\ LengthOk(call.length))
      BY <1>6
    <2>2. Fips!Start
      BY <2>1, FipsStart
    <2> QED BY <2>2 DEF Fips!Next
  <1>7. CASE FirstSubkeys
    BY <1>7, FipsFirstKey DEF Fips!Next
  <1>8. CASE AesRound
    BY <1>8, FipsRoundStep DEF Fips!Next
  <1>9. CASE AesFinalRound
    BY <1>9, FipsFinalRound DEF Fips!Next
  <1>10. CASE BlocksDone
    BY <1>10, FipsStop DEF Fips!Next
  <1> QED BY <1>1, <1>2, <1>3, <1>4, <1>5, <1>6, <1>7, <1>8, <1>9, <1>10
        DEF AesNext, ReturnAes, VerifyAes

(* For every key, key size, length and contents of the arrays, key          *)
(* expansion, rounds with word tables, and inverted subkeys are the cipher  *)
(* and the inverse cipher of FIPS 197 (nettle-aes.c:723-1027).              *)
THEOREM AesIsFips197 == AesSpec => CipherRefinement
  <1>1. MainInit /\ AesInit => Fips!Init
    BY AesInitInv, FipsInit
  <1>2. AesInv /\ AesInv' /\ [AesNext]_<<mainVars, aesVars>> => [Fips!Next]_(Fips!vars)
    BY FipsNext
  <1> QED BY <1>1, <1>2, AesInvariant, PTL DEF AesSpec, CipherRefinement, Fips!Spec


-----------------------------------------------------------------------------
(* Decryption undoes encryption: columns.                                   *)

LEMMA SmallProducts ==
  ASSUME NEW a \in Octet, NEW x1, NEW x2, NEW x3,
         x1 = XTimes(a), x2 = XTimes(x1), x3 = XTimes(x2)
  PROVE  /\ Product[{0}][Number(a)] = a /\ Product[{1}][Number(a)] = x1
         /\ Product[{0, 1}][Number(a)] = Xor(a, x1) /\ Product[{0, 3}][Number(a)] = Xor(a, x3)
         /\ Product[{0, 1, 3}][Number(a)] = Xor(Xor(a, x1), x3)
         /\ Product[{0, 2, 3}][Number(a)] = Xor(a, Xor(x2, x3))
         /\ Product[{1, 2, 3}][Number(a)] = Xor(x1, Xor(x2, x3))
  <1>1. ASSUME NEW p \in DOMAIN Product
        PROVE  Product[p][Number(a)] =
                 Xor(Xor(Term(p, 0, a), Term(p, 1, x1)), Xor(Term(p, 2, x2), Term(p, 3, x3)))
    <2> DEFINE t4 == Term(p, 4, XTimes(x3))
               t5 == Term(p, 5, XTimes(XTimes(x3)))
               t6 == Term(p, 6, XTimes(XTimes(XTimes(x3))))
               t7 == Term(p, 7, XTimes(XTimes(XTimes(XTimes(x3)))))
    <2>1. Product[p][Number(a)] = Times(a, p)
      BY ProductOfOctets
    <2>2. p \in {{0}, {1}, {0, 1}, {0, 3}, {0, 1, 3}, {0, 2, 3}, {1, 2, 3}}
      BY DEF Product
    <2>3. 4 \notin p /\ 5 \notin p /\ 6 \notin p /\ 7 \notin p
      BY <2>2
    <2>4. t4 = {} /\ t5 = {} /\ t6 = {} /\ t7 = {}
      BY <2>3 DEF Term
    <2>5. Times(a, p) =
            Xor(Xor(Xor(Term(p, 0, a), Term(p, 1, x1)), Xor(Term(p, 2, x2), Term(p, 3, x3))),
                Xor(Xor(t4, t5), Xor(t6, t7)))
      BY DEF Times
    <2> HIDE DEF t4, t5, t6, t7
    <2> QED BY <2>1, <2>4, <2>5, XorSums
  <1>2. \A x : Xor(x, {}) = x /\ Xor({}, x) = x
    BY XorSums
  <1>3. /\ {0} \in DOMAIN Product /\ {1} \in DOMAIN Product /\ {0, 1} \in DOMAIN Product
        /\ {0, 3} \in DOMAIN Product /\ {0, 1, 3} \in DOMAIN Product
        /\ {0, 2, 3} \in DOMAIN Product /\ {1, 2, 3} \in DOMAIN Product
    BY DEF Product
  <1>4. Product[{0}][Number(a)] = a
    BY <1>1, <1>2, <1>3 DEF Term
  <1>5. Product[{1}][Number(a)] = x1
    BY <1>1, <1>2, <1>3 DEF Term
  <1>6. Product[{0, 1}][Number(a)] = Xor(a, x1)
    BY <1>1, <1>2, <1>3 DEF Term
  <1>7. Product[{0, 3}][Number(a)] = Xor(a, x3)
    BY <1>1, <1>2, <1>3 DEF Term
  <1>8. Product[{0, 1, 3}][Number(a)] = Xor(Xor(a, x1), x3)
    BY <1>1, <1>2, <1>3 DEF Term
  <1>9. Product[{0, 2, 3}][Number(a)] = Xor(a, Xor(x2, x3))
    BY <1>1, <1>2, <1>3 DEF Term
  <1>10. Product[{1, 2, 3}][Number(a)] = Xor(x1, Xor(x2, x3))
    BY <1>1, <1>2, <1>3 DEF Term
  <1> QED BY <1>4, <1>5, <1>6, <1>7, <1>8, <1>9, <1>10

(* The products of the coefficients, for an octet a and x1 = x * a, ...     *)
LEMMA CoefficientSums ==
  ASSUME NEW a, NEW x1, NEW x2, NEW x3, NEW x4
  PROVE  LET a0 == Xor(x1, Xor(x2, x3))  b0 == Xor(x2, Xor(x3, x4))
             a1 == Xor(a, x3)            b1 == Xor(x1, x4)
             a2 == Xor(a, Xor(x2, x3))   b2 == Xor(x1, Xor(x3, x4))
             a3 == Xor(Xor(a, x1), x3)   b3 == Xor(Xor(x1, x2), x4)
         IN  /\ Xor4(b0, a3, a2, Xor(a1, b1)) = a
             /\ Xor4(b1, a0, a3, Xor(a2, b2)) = {}
             /\ Xor4(b2, a1, a0, Xor(a3, b3)) = {}
             /\ Xor4(b3, a2, a1, Xor(a0, b0)) = {}
  BY DEF Xor4, Xor


LEMMA XorRotation ==
  ASSUME NEW a, NEW b, NEW c, NEW d
  PROVE  Xor4(a, b, c, d) = Xor4(b, c, d, a)
  BY DEF Xor4, Xor

(* What the octet in row l of a column gives to row rr when the column is   *)
(* mixed and mixed back.                                                    *)
Unmixed(a, l, rr, k) == Multiple(InvMixTerms, rr, k, Multiple(MixTerms, k, l, a))

LEMMA UnmixedOctet ==
  ASSUME NEW a \in Octet, NEW l \in 0 .. 3, NEW rr \in 0 .. 3
  PROVE  Xor4(Unmixed(a, l, rr, 0), Unmixed(a, l, rr, 1), Unmixed(a, l, rr, 2), Unmixed(a, l, rr, 3)) =
           IF l = rr THEN a ELSE {}
  <1> DEFINE inv(d, b) == Product[InvMixTerms[d + 1]][Number(b)]
             mix(d) == Product[MixTerms[d + 1]][Number(a)]
             x1 == XTimes(a)  x2 == XTimes(x1)  x3 == XTimes(x2)  x4 == XTimes(x3)
             a0 == Xor(x1, Xor(x2, x3))  b0 == Xor(x2, Xor(x3, x4))
             a1 == Xor(a, x3)            b1 == Xor(x1, x4)
             a2 == Xor(a, Xor(x2, x3))   b2 == Xor(x1, Xor(x3, x4))
             a3 == Xor(Xor(a, x1), x3)   b3 == Xor(Xor(x1, x2), x4)
             u(k) == Unmixed(a, l, rr, k)
  <1>1. x1 \in Octet
    BY XTimesBits
  <1>2. mix(0) = x1 /\ mix(1) = a /\ mix(2) = a /\ mix(3) = Xor(a, x1)
    <2>1. MixTerms[0 + 1] = {1} /\ MixTerms[1 + 1] = {0} /\ MixTerms[2 + 1] = {0} /\ MixTerms[3 + 1] = {0, 1}
      BY DEF MixTerms
    <2>2. Product[{0}][Number(a)] = a /\ Product[{1}][Number(a)] = x1 /\ Product[{0, 1}][Number(a)] = Xor(a, x1)
      BY SmallProducts
    <2> QED BY <2>1, <2>2
  <1>3. /\ InvMixTerms[0 + 1] = {1, 2, 3} /\ InvMixTerms[1 + 1] = {0, 3}
        /\ InvMixTerms[2 + 1] = {0, 2, 3} /\ InvMixTerms[3 + 1] = {0, 1, 3}
    BY DEF InvMixTerms
  <1>4. inv(0, a) = a0 /\ inv(1, a) = a1 /\ inv(2, a) = a2 /\ inv(3, a) = a3
    <2>1. /\ Product[{0, 3}][Number(a)] = a1 /\ Product[{0, 1, 3}][Number(a)] = a3
          /\ Product[{0, 2, 3}][Number(a)] = a2 /\ Product[{1, 2, 3}][Number(a)] = a0
      BY SmallProducts
    <2> QED BY <1>3, <2>1
  <1>5. inv(0, x1) = b0 /\ inv(1, x1) = b1 /\ inv(2, x1) = b2 /\ inv(3, x1) = b3
    <2>1. /\ Product[{0, 3}][Number(x1)] = b1 /\ Product[{0, 1, 3}][Number(x1)] = b3
          /\ Product[{0, 2, 3}][Number(x1)] = b2 /\ Product[{1, 2, 3}][Number(x1)] = b0
      BY <1>1, SmallProducts
    <2> QED BY <1>3, <2>1
  <1>6. /\ inv(0, mix(3)) = Xor(a0, b0) /\ inv(1, mix(3)) = Xor(a1, b1)
        /\ inv(2, mix(3)) = Xor(a2, b2) /\ inv(3, mix(3)) = Xor(a3, b3)
    <2>1. \A d \in 0 .. 3 : Product[InvMixTerms[d + 1]][Number(Xor(a, x1))] =
                              Xor(Product[InvMixTerms[d + 1]][Number(a)], Product[InvMixTerms[d + 1]][Number(x1)])
      <3> TAKE d \in 0 .. 3
      <3>1. d + 1 \in 1 .. 4
        OBVIOUS
      <3>2. InvMixTerms[d + 1] \in DOMAIN Product
        BY <3>1, Coefficients
      <3> HIDE DEF x1
      <3> QED BY <1>1, <3>2, ProductOfOctets
    <2>2. \A d \in 0 .. 3 : inv(d, mix(3)) = Xor(inv(d, a), inv(d, x1))
      BY <1>2, <2>1
    <2> HIDE DEF inv, mix
    <2> QED BY <1>4, <1>5, <2>2
  <1>7. \A k \in 0 .. 3 : u(k) = inv((rr - k) % 4, mix((k - l) % 4))
    BY DEF Unmixed, Multiple
  <1> HIDE DEF inv, mix
  <1>8. /\ Xor4(inv(0, mix(0)), inv(3, mix(1)), inv(2, mix(2)), inv(1, mix(3))) = a
        /\ Xor4(inv(1, mix(0)), inv(0, mix(1)), inv(3, mix(2)), inv(2, mix(3))) = {}
        /\ Xor4(inv(2, mix(0)), inv(1, mix(1)), inv(0, mix(2)), inv(3, mix(3))) = {}
        /\ Xor4(inv(3, mix(0)), inv(2, mix(1)), inv(1, mix(2)), inv(0, mix(3))) = {}
    <2>1. /\ Xor4(b0, a3, a2, Xor(a1, b1)) = a /\ Xor4(b1, a0, a3, Xor(a2, b2)) = {}
          /\ Xor4(b2, a1, a0, Xor(a3, b3)) = {} /\ Xor4(b3, a2, a1, Xor(a0, b0)) = {}
      BY CoefficientSums
    <2> HIDE DEF x1, x2, x3, x4, a0, a1, a2, a3, b0, b1, b2, b3
    <2> QED BY <1>2, <1>4, <1>5, <1>6, <2>1
  <1> HIDE DEF u, x1, x2, x3, x4, a0, a1, a2, a3, b0, b1, b2, b3
  <1>9. ASSUME NEW d \in 0 .. 3, d = (rr - l) % 4
        PROVE  Xor4(u(l), u((l + 1) % 4), u((l + 2) % 4), u((l + 3) % 4)) = IF l = rr THEN a ELSE {}
    <2>1. /\ u(l) = inv(d, mix(0)) /\ u((l + 1) % 4) = inv((d + 3) % 4, mix(1))
          /\ u((l + 2) % 4) = inv((d + 2) % 4, mix(2)) /\ u((l + 3) % 4) = inv((d + 1) % 4, mix(3))
      <3>1. ASSUME NEW e \in 0 .. 3
            PROVE  /\ (l + e) % 4 \in 0 .. 3 /\ (((l + e) % 4) - l) % 4 = e
                   /\ (rr - ((l + e) % 4)) % 4 = (d + (4 - e)) % 4
        BY <1>9
      <3>2. /\ l % 4 = l /\ l + 0 = l /\ (d + (4 - 0)) % 4 = d /\ 4 - 1 = 3 /\ 4 - 2 = 2 /\ 4 - 3 = 1
            /\ 0 \in 0 .. 3 /\ 1 \in 0 .. 3 /\ 2 \in 0 .. 3 /\ 3 \in 0 .. 3
        OBVIOUS
      <3>3. \A e \in 0 .. 3 : u((l + e) % 4) = inv((d + (4 - e)) % 4, mix(e))
        BY <1>7, <3>1
      <3> QED BY <3>2, <3>3
    <2>2. l = rr <=> d = 0
      BY <1>9
    <2>3. CASE d = 0
      <3>1. (d + 3) % 4 = 3 /\ (d + 2) % 4 = 2 /\ (d + 1) % 4 = 1
        BY <2>3
      <3>2. l = rr
        BY <2>2, <2>3
      <3> QED BY <1>8, <2>1, <2>3, <3>1, <3>2
    <2>4. CASE d = 1
      <3>1. (d + 3) % 4 = 0 /\ (d + 2) % 4 = 3 /\ (d + 1) % 4 = 2
        BY <2>4
      <3>2. l # rr
        BY <2>2, <2>4
      <3> QED BY <1>8, <2>1, <2>4, <3>1, <3>2
    <2>5. CASE d = 2
      <3>1. (d + 3) % 4 = 1 /\ (d + 2) % 4 = 0 /\ (d + 1) % 4 = 3
        BY <2>5
      <3>2. l # rr
        BY <2>2, <2>5
      <3> QED BY <1>8, <2>1, <2>5, <3>1, <3>2
    <2>6. CASE d = 3
      <3>1. (d + 3) % 4 = 2 /\ (d + 2) % 4 = 1 /\ (d + 1) % 4 = 0
        BY <2>6
      <3>2. l # rr
        BY <2>2, <2>6
      <3> QED BY <1>8, <2>1, <2>6, <3>1, <3>2
    <2> QED BY <2>3, <2>4, <2>5, <2>6
  <1>10. Xor4(u(l), u((l + 1) % 4), u((l + 2) % 4), u((l + 3) % 4)) = Xor4(u(0), u(1), u(2), u(3))
    <2>1. CASE l = 0
      BY <2>1
    <2>2. CASE l = 1
      BY <2>2, XorRotation
    <2>3. CASE l = 2
      BY <2>3, XorRotation
    <2>4. CASE l = 3
      BY <2>4, XorRotation
    <2> QED BY <2>1, <2>2, <2>3, <2>4
  <1>11. (rr - l) % 4 \in 0 .. 3
    OBVIOUS
  <1> QED BY <1>9, <1>10, <1>11 DEF u

LEMMA XorOfFours ==
  ASSUME NEW a0, NEW a1, NEW a2, NEW a3, NEW b0, NEW b1, NEW b2, NEW b3
  PROVE  Xor(Xor(Xor(a0, a1), Xor(a2, a3)), Xor(Xor(b0, b1), Xor(b2, b3))) =
           Xor(Xor(Xor(a0, b0), Xor(a1, b1)), Xor(Xor(a2, b2), Xor(a3, b3)))
  <1>1. Xor(Xor(Xor(a0, a1), Xor(a2, a3)), Xor(Xor(b0, b1), Xor(b2, b3))) =
          Xor(Xor(Xor(a0, a1), Xor(b0, b1)), Xor(Xor(a2, a3), Xor(b2, b3)))
    BY XorPairs
  <1>2. Xor(Xor(a0, a1), Xor(b0, b1)) = Xor(Xor(a0, b0), Xor(a1, b1))
    BY XorPairs
  <1>3. Xor(Xor(a2, a3), Xor(b2, b3)) = Xor(Xor(a2, b2), Xor(a3, b3))
    BY XorPairs
  <1> QED BY <1>1, <1>2, <1>3

(* A column that is mixed and mixed back is what it was.                    *)
LEMMA UnmixedColumn ==
  ASSUME NEW f \in Column, NEW g, \A k \in 0 .. 3 : g[k] = MixedOctet(MixTerms, f, k), NEW rr \in 0 .. 3
  PROVE  MixedOctet(InvMixTerms, g, rr) = f[rr]
  <1> DEFINE m(k, l) == Multiple(MixTerms, k, l, f[l])
             u(k, l) == Unmixed(f[l], l, rr, k)
  <1>1. \A k, l \in 0 .. 3 : m(k, l) \in Octet /\ f[l] \in Octet
    BY MultipleXor DEF Column
  <1>2. \A k \in 0 .. 3 : g[k] = Xor(Xor(m(k, 0), m(k, 1)), Xor(m(k, 2), m(k, 3)))
    BY DEF MixedOctet
  <1>3. \A k, l \in 0 .. 3 : Multiple(InvMixTerms, rr, k, m(k, l)) = u(k, l)
    BY DEF Unmixed
  <1> HIDE DEF m, u
  <1>4. ASSUME NEW k \in 0 .. 3
        PROVE  Multiple(InvMixTerms, rr, k, g[k]) = Xor(Xor(u(k, 0), u(k, 1)), Xor(u(k, 2), u(k, 3)))
    <2> DEFINE z(o) == Multiple(InvMixTerms, rr, k, o)
    <2>1. \A x, y \in Octet : z(Xor(x, y)) = Xor(z(x), z(y))
      BY MultipleXor
    <2>2. m(k, 0) \in Octet /\ m(k, 1) \in Octet /\ m(k, 2) \in Octet /\ m(k, 3) \in Octet
      BY <1>1
    <2>3. Xor(m(k, 0), m(k, 1)) \in Octet /\ Xor(m(k, 2), m(k, 3)) \in Octet
      BY <2>2, XorClosed
    <2>4. z(m(k, 0)) = u(k, 0) /\ z(m(k, 1)) = u(k, 1) /\ z(m(k, 2)) = u(k, 2) /\ z(m(k, 3)) = u(k, 3)
      BY <1>3
    <2> HIDE DEF z
    <2>5. z(g[k]) = Xor(Xor(u(k, 0), u(k, 1)), Xor(u(k, 2), u(k, 3)))
      BY <1>2, <2>1, <2>2, <2>3, <2>4
    <2> QED BY <2>5 DEF z
  <1>5. MixedOctet(InvMixTerms, g, rr) =
          Xor(Xor(Xor(Xor(u(0, 0), u(0, 1)), Xor(u(0, 2), u(0, 3))), Xor(Xor(u(1, 0), u(1, 1)), Xor(u(1, 2), u(1, 3)))),
              Xor(Xor(Xor(u(2, 0), u(2, 1)), Xor(u(2, 2), u(2, 3))), Xor(Xor(u(3, 0), u(3, 1)), Xor(u(3, 2), u(3, 3)))))
    BY <1>4 DEF MixedOctet
  <1>6. MixedOctet(InvMixTerms, g, rr) =
          Xor(Xor(Xor(Xor(u(0, 0), u(1, 0)), Xor(u(2, 0), u(3, 0))), Xor(Xor(u(0, 1), u(1, 1)), Xor(u(2, 1), u(3, 1)))),
              Xor(Xor(Xor(u(0, 2), u(1, 2)), Xor(u(2, 2), u(3, 2))), Xor(Xor(u(0, 3), u(1, 3)), Xor(u(2, 3), u(3, 3)))))
    <2> DEFINE p(l) == Xor(u(0, l), u(1, l))
               q(l) == Xor(u(2, l), u(3, l))
    <2>1. Xor(Xor(Xor(u(0, 0), u(0, 1)), Xor(u(0, 2), u(0, 3))), Xor(Xor(u(1, 0), u(1, 1)), Xor(u(1, 2), u(1, 3)))) =
            Xor(Xor(p(0), p(1)), Xor(p(2), p(3)))
      BY XorOfFours
    <2>2. Xor(Xor(Xor(u(2, 0), u(2, 1)), Xor(u(2, 2), u(2, 3))), Xor(Xor(u(3, 0), u(3, 1)), Xor(u(3, 2), u(3, 3)))) =
            Xor(Xor(q(0), q(1)), Xor(q(2), q(3)))
      BY XorOfFours
    <2>3. Xor(Xor(Xor(p(0), p(1)), Xor(p(2), p(3))), Xor(Xor(q(0), q(1)), Xor(q(2), q(3)))) =
            Xor(Xor(Xor(p(0), q(0)), Xor(p(1), q(1))), Xor(Xor(p(2), q(2)), Xor(p(3), q(3))))
      BY XorOfFours, SMTT(30)
    <2> QED BY <1>5, <2>1, <2>2, <2>3
  <1>7. \A l \in 0 .. 3 : Xor(Xor(u(0, l), u(1, l)), Xor(u(2, l), u(3, l))) = IF l = rr THEN f[l] ELSE {}
    BY <1>1, UnmixedOctet DEF Xor4, u
  <1>8. MixedOctet(InvMixTerms, g, rr) =
          Xor(Xor(IF 0 = rr THEN f[0] ELSE {}, IF 1 = rr THEN f[1] ELSE {}),
              Xor(IF 2 = rr THEN f[2] ELSE {}, IF 3 = rr THEN f[3] ELSE {}))
    BY <1>6, <1>7
  <1>9. \A x : Xor(x, {}) = x /\ Xor({}, x) = x
    BY XorSums
  <1>10. CASE rr = 0
    BY <1>8, <1>9, <1>10
  <1>11. CASE rr = 1
    BY <1>8, <1>9, <1>11
  <1>12. CASE rr = 2
    BY <1>8, <1>9, <1>12
  <1>13. CASE rr = 3
    BY <1>8, <1>9, <1>13
  <1> QED BY <1>10, <1>11, <1>12, <1>13


-----------------------------------------------------------------------------
(* Decryption undoes encryption: rounds.                                    *)

Shifted(s)      == Fips!ShiftRows(Fips!SubBytes(s, SubByte))
Unshifted(s)    == Fips!SubBytes(Fips!InvShiftRows(s), InvSubByte)
EncRound(s, ks) == KeyAdded(Fips!MixColumns(Shifted(s), MixTerms), ks)
DecRound(s, ks) == Fips!MixColumns(KeyAdded(Unshifted(s), ks), InvMixTerms)

LEMMA BoxesInverse ==
  ASSUME NEW o \in Octet
  PROVE  SubByte[Number(o)] \in Octet /\ InvSubByte[Number(SubByte[Number(o)])] = o
  <1>1. encrypt_sbox = SubByte /\ decrypt_sbox = InvSubByte
    BY TablesAssumption
  <1>2. Number(o) \in 0 .. 255 /\ BitsOf(Number(o), 8) = o
    BY NumberInRange, BitsOfNumber
  <1> QED BY <1>1, <1>2, DataAssumption

LEMMA ShiftedBack ==
  ASSUME NEW s \in BlockState
  PROVE  Shifted(s) \in BlockState /\ Unshifted(Shifted(s)) = s
  <1>1. \A c, rr \in 0 .. 3 : (c + rr) % 4 \in 0 .. 3 /\ (c - rr) % 4 \in 0 .. 3 /\ (((c - rr) % 4) + rr) % 4 = c
    OBVIOUS
  <1>2. \A c, rr \in 0 .. 3 : s[c][rr] \in Octet
    BY DEF BlockState, Column
  <1>3. Shifted(s) = [c \in 0 .. 3 |-> [rr \in 0 .. 3 |-> SubByte[Number(s[(c + rr) % 4][rr])]]]
    BY FipsSubBytes DEF Shifted
  <1>4. Shifted(s) \in BlockState
    BY <1>1, <1>2, <1>3, BoxesInverse DEF BlockState, Column
  <1>5. Unshifted(Shifted(s)) = [c \in 0 .. 3 |-> [rr \in 0 .. 3 |-> InvSubByte[Number(Shifted(s)[(c - rr) % 4][rr])]]]
    BY FipsSubBytes DEF Unshifted
  <1>6. ASSUME NEW c \in 0 .. 3, NEW rr \in 0 .. 3
        PROVE  InvSubByte[Number(Shifted(s)[(c - rr) % 4][rr])] = s[c][rr]
    <2>1. Shifted(s)[(c - rr) % 4][rr] = SubByte[Number(s[c][rr])]
      BY <1>1, <1>3
    <2> QED BY <1>2, <2>1, BoxesInverse
  <1>7. Unshifted(Shifted(s)) = [c \in 0 .. 3 |-> [rr \in 0 .. 3 |-> s[c][rr]]]
    BY <1>5, <1>6
  <1>8. s = [c \in 0 .. 3 |-> [rr \in 0 .. 3 |-> s[c][rr]]]
    BY DEF BlockState, Column
  <1> QED BY <1>4, <1>7, <1>8

LEMMA MixedBack ==
  ASSUME NEW s \in BlockState
  PROVE  /\ Fips!MixColumns(s, MixTerms) \in BlockState
         /\ Fips!MixColumns(Fips!MixColumns(s, MixTerms), InvMixTerms) = s
  <1> DEFINE t == Fips!MixColumns(s, MixTerms)
  <1>1. \A c \in 0 .. 3 : s[c] \in Column
    BY DEF BlockState
  <1>2. t = [c \in 0 .. 3 |-> [rr \in 0 .. 3 |-> MixedOctet(MixTerms, s[c], rr)]]
    BY FipsMixColumns
  <1>3. Fips!MixColumns(t, InvMixTerms) = [c \in 0 .. 3 |-> [rr \in 0 .. 3 |-> MixedOctet(InvMixTerms, t[c], rr)]]
    BY FipsMixColumns
  <1> HIDE DEF t
  <1>4. \A f \in Column, rr \in 0 .. 3 : MixedOctet(MixTerms, f, rr) \in Octet
    <2> TAKE f \in Column, rr \in 0 .. 3
    <2>1. PICK h : h = [k \in 0 .. 3 |-> Xor(f[k], f[k])]
      OBVIOUS
    <2>2. h \in Column /\ \A k \in 0 .. 3 : h[k] = Xor(f[k], f[k])
      BY <2>1, XorClosed DEF Column
    <2> QED BY <2>2, MixedOctetXor
  <1>5. t \in BlockState
    BY <1>1, <1>2, <1>4 DEF BlockState, Column
  <1>6. ASSUME NEW c \in 0 .. 3, NEW rr \in 0 .. 3
        PROVE  MixedOctet(InvMixTerms, t[c], rr) = s[c][rr]
    <2>1. \A k \in 0 .. 3 : t[c][k] = MixedOctet(MixTerms, s[c], k)
      BY <1>2
    <2>2. s[c] \in Column
      BY <1>1
    <2> QED BY <2>1, <2>2, UnmixedColumn
  <1>7. s = [c \in 0 .. 3 |-> [rr \in 0 .. 3 |-> s[c][rr]]]
    BY DEF BlockState, Column
  <1>8. Fips!MixColumns(t, InvMixTerms) = s
    BY <1>3, <1>6, <1>7
  <1> QED BY <1>5, <1>8 DEF t

LEMMA KeyAddedTwice ==
  ASSUME NEW s \in BlockState, NEW ks
  PROVE  KeyAdded(s, ks) \in BlockState /\ KeyAdded(KeyAdded(s, ks), ks) = s
  <1>1. \A c, rr \in 0 .. 3 : s[c][rr] \in Octet /\ KeyAdded(s, ks)[c][rr] = Xor(s[c][rr], OctetAt(ks[c], rr))
    BY DEF BlockState, Column, KeyAdded
  <1>2. KeyAdded(s, ks) \in BlockState
    BY <1>1, XorClosed, OctetAtOctet DEF BlockState, Column, KeyAdded
  <1>3. \A x, y : Xor(Xor(x, y), y) = x
    BY Zenon DEF Xor
  <1>4. KeyAdded(KeyAdded(s, ks), ks) =
          [c \in 0 .. 3 |-> [rr \in 0 .. 3 |-> Xor(KeyAdded(s, ks)[c][rr], OctetAt(ks[c], rr))]]
    BY DEF KeyAdded
  <1>5. \A c, rr \in 0 .. 3 : Xor(KeyAdded(s, ks)[c][rr], OctetAt(ks[c], rr)) = s[c][rr]
    BY <1>1, <1>3
  <1>6. s = [c \in 0 .. 3 |-> [rr \in 0 .. 3 |-> s[c][rr]]]
    BY DEF BlockState, Column
  <1> QED BY <1>2, <1>4, <1>5, <1>6

LEMMA RoundUndone ==
  ASSUME NEW s \in BlockState, NEW ks
  PROVE  EncRound(s, ks) \in BlockState /\ DecRound(Shifted(EncRound(s, ks)), ks) = Shifted(s)
  <1>1. Shifted(s) \in BlockState
    BY ShiftedBack
  <1>2. PICK m \in BlockState : m = Fips!MixColumns(Shifted(s), MixTerms) /\ Fips!MixColumns(m, InvMixTerms) = Shifted(s)
    BY <1>1, MixedBack
  <1>3. EncRound(s, ks) = KeyAdded(m, ks)
    BY <1>2 DEF EncRound
  <1>4. KeyAdded(m, ks) \in BlockState /\ KeyAdded(KeyAdded(m, ks), ks) = m
    BY KeyAddedTwice
  <1>5. Unshifted(Shifted(KeyAdded(m, ks))) = KeyAdded(m, ks)
    BY <1>4, ShiftedBack
  <1> QED BY <1>2, <1>3, <1>4, <1>5 DEF DecRound


-----------------------------------------------------------------------------
(* Decryption undoes encryption: the invariant.                             *)

EncKey(q) == [z \in 0 .. 3 |-> enc.keys[4 * q + z]]

(* s[1] .. s[n] are the states of the encryption of p.                      *)
Traced(s, p, z) ==
  /\ s \in [1 .. CallNr -> BlockState]
  /\ s[1] = KeyAdded(p, EncKey(0))
  /\ \A q \in 1 .. z - 1 : s[q + 1] = EncRound(s[q], EncKey(q))

Encryption(s, p, c) == Traced(s, p, CallNr) /\ c = KeyAdded(Shifted(s[CallNr]), EncKey(CallNr))

IsCipherOf(c, p) == \E s : Encryption(s, p, c)

(* The subkeys of enc are determined by key and key size.                   *)
TermAt(t, m) ==
  CASE m % CallNk = 0               -> Xor(SUBBYTE(Rotated(24, t), encrypt_sbox), rcon[(m - 1) \div CallNk])
    [] CallNk > 6 /\ m % CallNk = 4 -> SUBBYTE(t, encrypt_sbox)
    [] OTHER                        -> t

Expanded(m) ==
  IF m < CallNk THEN LE_READ_UINT32(key, 4 * m)
                ELSE Xor(enc.keys[m - CallNk], TermAt(enc.keys[m - 1], m))

Scheduled(z) == \A m \in 0 .. z - 1 : enc.keys[m] = Expanded(m)

EncryptionKept == {"set_decrypt_key", "expand_decrypt_key", "invert", "mix", "decrypt"}

ScheduledInv ==
  /\ step = "expand_encrypt_key" => Scheduled(i)
  /\ step \in EncryptionKept \cup {"encrypt"} => Scheduled(4 * (CallNr + 1))
  /\ step = "expand_decrypt_key" => \A m \in 0 .. i - 1 : Subkey(m) = enc.keys[m]
  /\ step \in {"invert", "mix", "decrypt"} => \A m \in 0 .. 4 * CallNr + 3 : Subkey(m) = enc.keys[m]

LengthInv == step \in EncryptionKept \cup {"encrypt", "done"} => call.length = 16 * Blocks

EncryptedInv ==
  /\ step = "encrypt" =>
       /\ \A b \in 0 .. block - 1 : IsCipherOf(BlockAt(encrypted, b), BlockAt(plaintext, b))
       /\ round > 0 => \E s : Traced(s, BlockAt(plaintext, block), round) /\ StateOf(w) = s[round]
  /\ step \in EncryptionKept => \A b \in 0 .. Blocks - 1 : IsCipherOf(BlockAt(encrypted, b), BlockAt(plaintext, b))

DecryptedInv ==
  /\ step = "decrypt" =>
       /\ \A b \in 0 .. block - 1 : BlockAt(decrypted, b) = BlockAt(plaintext, b)
       /\ round > 0 => \E s : /\ Traced(s, BlockAt(plaintext, block), CallNr)
                              /\ StateOf(w) = Shifted(s[CallNr + 1 - round])
  /\ step = "done" => \A b \in 0 .. Blocks - 1 : BlockAt(decrypted, b) = BlockAt(plaintext, b)

RoundTripInv == ScheduledInv /\ LengthInv /\ EncryptedInv /\ DecryptedInv

(* What no step changes that leaves enc, the texts and the block alone.     *)
LEMMA TracesKept ==
  ASSUME UNCHANGED <<call, enc>>
  PROVE  /\ CallNk' = CallNk /\ CallNr' = CallNr /\ Blocks' = Blocks
         /\ \A q : EncKey(q)' = EncKey(q)
         /\ \A s, p, z : Traced(s, p, z)' <=> Traced(s, p, z)
         /\ \A c, p : IsCipherOf(c, p)' <=> IsCipherOf(c, p)
         /\ \A z : Scheduled(z)' <=> Scheduled(z)
  <1>1. CallNk' = CallNk /\ CallNr' = CallNr /\ Blocks' = Blocks
    BY DEF CallNk, CallNr, Blocks
  <1>2. \A q : EncKey(q)' = EncKey(q)
    BY DEF EncKey
  <1>3. \A s, p, z : Traced(s, p, z)' <=> Traced(s, p, z)
    BY <1>1, <1>2 DEF Traced, EncRound, KeyAdded
  <1>4. \A c, p : IsCipherOf(c, p)' <=> IsCipherOf(c, p)
    BY <1>1, <1>2, <1>3 DEF IsCipherOf, Encryption, KeyAdded
  <1>5. \A m : Expanded(m)' = Expanded(m)
    BY <1>1 DEF Expanded, TermAt
  <1>6. \A z : Scheduled(z)' <=> Scheduled(z)
    BY <1>5 DEF Scheduled
  <1> QED BY <1>1, <1>2, <1>3, <1>4, <1>6


LEMMA AddedKey ==
  ASSUME AesInv, ScheduledInv, Ciphering, NEW q \in 0 .. CallNr, NEW x
  PROVE  Fips!AddRoundKey(x, q) = KeyAdded(x, EncKey(q))
  <1>1. CallNr \in {10, 12, 14}
    BY RoundCounts DEF AesInv
  <1>2. 0 \in 0 .. 3 /\ expanded \in Seq(Word) /\ 4 * q + 4 <= Len(expanded) /\ q \in Nat
    <2>1. 0 \in 0 .. 3 /\ q \in Nat
      BY <1>1
    <2> QED BY <2>1, KeysInUse
  <1>3. ASSUME NEW z \in 0 .. 3
        PROVE  expanded[4 * q + z + 1] = enc.keys[4 * q + z]
    <2>1. CASE step = "encrypt"
      <3>1. Ctx = enc /\ Ctx.keys[4 * q + z] = expanded[4 * q + z + 1]
        BY <2>1, KeysInUse DEF Ctx, Encrypting
      <3> QED BY <3>1
    <2>2. CASE step = "decrypt"
      <3>1. 4 * q + z \in 0 .. 4 * CallNr + 3
        BY <1>1
      <3> QED BY <2>2, <3>1 DEF ScheduledInv, Subkey
    <2> QED BY <2>1, <2>2 DEF Ciphering
  <1>4. WordsOfKey(q) = EncKey(q)
    BY <1>3 DEF WordsOfKey, EncKey
  <1>5. Fips!AddRoundKey(x, q) = KeyAdded(x, WordsOfKey(q))
    BY <1>2, FipsAddRoundKey
  <1> QED BY <1>4, <1>5

LEMMA RoundsWithKeys ==
  ASSUME AesInv, ScheduledInv, Ciphering, NEW q \in 0 .. CallNr, NEW s
  PROVE  /\ step = "encrypt" => /\ SpecRound(s, q) = EncRound(s, EncKey(q))
                                /\ SpecFinalRound(s, q) = KeyAdded(Shifted(s), EncKey(q))
         /\ step = "decrypt" => /\ SpecRound(s, q) = DecRound(s, EncKey(CallNr - q))
                                /\ SpecFinalRound(s, q) = KeyAdded(Unshifted(s), EncKey(CallNr - q))
  <1>1. CallNr - q \in 0 .. CallNr
    BY RoundCounts DEF AesInv
  <1>2. \A x : /\ Fips!AddRoundKey(x, q) = KeyAdded(x, EncKey(q))
               /\ Fips!AddRoundKey(x, CallNr - q) = KeyAdded(x, EncKey(CallNr - q))
    BY <1>1, AddedKey
  <1> QED BY <1>2 DEF SpecRound, SpecFinalRound, EncRound, DecRound, Shifted, Unshifted

(* Steps of the key.                                                        *)
LEMMA SetKeyTrip ==
  ASSUME AesInv, AesInv', RoundTripInv, SetKey
  PROVE  RoundTripInv'
  <1>1. /\ i' = CallNk /\ expanded' = [z \in 1 .. CallNk |-> LE_READ_UINT32(key, 4 * (z - 1))]
        /\ UNCHANGED <<call, block, w, round, encrypted, decrypted>>
    <2>1. PICK first : first = [z \in 0 .. CallNk - 1 |-> LE_READ_UINT32(key, 4 * z)]
      OBVIOUS
    <2>2. expanded' = [z \in 1 .. CallNk |-> first[z - 1]]
      BY <2>1 DEF SetKey, CallNk
    <2>3. \A z \in 1 .. CallNk : z - 1 \in 0 .. CallNk - 1
      BY RoundCounts DEF AesInv
    <2> QED BY <2>1, <2>2, <2>3 DEF SetKey, CallNk, blockVars, textVars
  <1>2. CallNk \in {4, 6, 8} /\ CallNr = CallNk + 6
    BY RoundCounts DEF AesInv
  <1>3. \A m \in 0 .. CallNk - 1 : Subkey(m)' = LE_READ_UINT32(key, 4 * m)
    <2>1. \A m \in 0 .. CallNk - 1 : m + 1 \in 1 .. CallNk /\ 4 * ((m + 1) - 1) = 4 * m
      BY <1>2
    <2> QED BY <1>1, <2>1 DEF Subkey
  <1>4. CASE step = "set_encrypt_key"
    <2>1. step' = "expand_encrypt_key"
      BY <1>4 DEF SetKey, Encrypting
    <2>2. \A m \in 0 .. CallNk - 1 : enc'.keys[m] = LE_READ_UINT32(key, 4 * m)
      <3>1. Ctx' = enc' /\ ExpandInv' /\ Expanding'
        BY <2>1 DEF Ctx, Encrypting, AesInv, Expanding
      <3>2. \A m \in 0 .. CallNk - 1 : enc'.keys[m] = Subkey(m)'
        BY <1>1, <3>1 DEF ExpandInv
      <3> QED BY <1>3, <3>2
    <2>3. CallNk' = CallNk
      BY <1>1 DEF CallNk
    <2>4. Scheduled(i)'
      <3>1. \A m \in 0 .. CallNk - 1 : m < CallNk
        BY <1>2
      <3> QED BY <1>1, <2>2, <2>3, <3>1 DEF Scheduled, Expanded
    <2> QED BY <2>1, <2>4 DEF RoundTripInv, ScheduledInv, LengthInv, EncryptedInv, DecryptedInv, EncryptionKept
  <1>5. CASE step = "set_decrypt_key"
    <2>1. step' = "expand_decrypt_key" /\ enc' = enc
      BY <1>5 DEF SetKey, SetCtx, Encrypting
    <2>2. Scheduled(4 * (CallNr + 1)) /\ \A m \in 0 .. CallNk - 1 : m \in 0 .. 4 * (CallNr + 1) - 1 /\ m < CallNk
      BY <1>2, <1>5 DEF RoundTripInv, ScheduledInv, EncryptionKept
    <2>3. \A m \in 0 .. CallNk - 1 : enc.keys[m] = LE_READ_UINT32(key, 4 * m)
      BY <2>2 DEF Scheduled, Expanded
    <2>4. CallNr' = CallNr /\ Blocks' = Blocks /\ \A z : Scheduled(z)' <=> Scheduled(z)
      BY <1>1, <2>1, TracesKept
    <2>5. ScheduledInv'
      BY <1>1, <1>3, <2>1, <2>2, <2>3, <2>4 DEF ScheduledInv, EncryptionKept
    <2>6. LengthInv'
      BY <1>1, <1>5, <2>4 DEF RoundTripInv, LengthInv, EncryptionKept
    <2>7. EncryptedInv'
      <3>1. \A b : BlockAt(encrypted', b) = BlockAt(encrypted, b)
        BY <1>1
      <3>2. \A b \in 0 .. Blocks - 1 : IsCipherOf(BlockAt(encrypted, b), BlockAt(plaintext, b))
        BY <1>5 DEF RoundTripInv, EncryptedInv, EncryptionKept
      <3>3. \A c, p : IsCipherOf(c, p)' <=> IsCipherOf(c, p)
        BY <1>1, <2>1, TracesKept
      <3> QED BY <1>1, <2>1, <2>4, <3>1, <3>2, <3>3 DEF EncryptedInv
    <2> QED BY <2>1, <2>5, <2>6, <2>7 DEF RoundTripInv, DecryptedInv
  <1> QED BY <1>4, <1>5 DEF SetKey


LEMMA ExpandKeyTrip ==
  ASSUME AesInv, RoundTripInv, ExpandKey
  PROVE  RoundTripInv'
  <1>1. /\ Expanding /\ i' = i + 1 /\ UNCHANGED <<call, step, block, w, round, encrypted, decrypted>>
    BY DEF ExpandKey, blockVars, textVars
  <1>2. /\ CallNk \in {4, 6, 8} /\ CallNr = CallNk + 6 /\ KeyWords = 60
    BY RoundCounts DEF AesInv
  <1>3. /\ i \in CallNk .. 4 * (CallNr + 1) - 1 /\ Ctx.rounds = CallNr /\ rp = (i - 1) \div CallNk
        /\ Len(expanded) = i /\ expanded \in Seq(Word) /\ Ctx \in Contexts
        /\ \A m \in 0 .. i - 1 : Ctx.keys[m] = Subkey(m)
    <2>1. i \in CallNk .. 4 * (CallNr + 1) - 1
      BY ExpandKeyStep
    <2> QED BY <1>1, <2>1 DEF AesInv, AesTypes, ExpandInv, Ctx
  <1>4. PICK subkey : subkey = Xor(Ctx.keys[i - CallNk], TermAt(Ctx.keys[i - 1], i))
    OBVIOUS
  <1>5. SetCtx([Ctx EXCEPT !.keys[i] = subkey]) /\ expanded' = Append(expanded, subkey)
    <2>1. SubkeyTerm(Ctx.keys[i - 1], i, CallNk) = TermAt(Ctx.keys[i - 1], i)
      BY <1>3 DEF SubkeyTerm, TermAt
    <2>2. PICK own : own = Xor(Ctx.keys[i - CallNk], SubkeyTerm(Ctx.keys[i - 1], i, CallNk))
      OBVIOUS
    <2>3. SetCtx([Ctx EXCEPT !.keys[i] = own]) /\ expanded' = Append(expanded, own)
      BY <2>2 DEF ExpandKey, CallNk
    <2>4. own = subkey
      BY <1>4, <2>1, <2>2
    <2> QED BY <2>3, <2>4
  <1>6. i \in 0 .. 59 /\ i - CallNk \in 0 .. i - 1 /\ i - 1 \in 0 .. i - 1 /\ i \notin 0 .. i - 1 /\ ~(i < CallNk)
    BY <1>2, <1>3
  <1>7. \A m \in 0 .. i' - 1 : m \in 0 .. i - 1 \/ m = i
    BY <1>1, <1>2, <1>3
  <1>8. CASE step = "expand_encrypt_key"
    <2>1. Ctx = enc /\ enc' = [enc EXCEPT !.keys[i] = subkey]
      BY <1>5, <1>8 DEF Ctx, SetCtx, Encrypting
    <2>2. \A m \in 0 .. i - 1 : enc'.keys[m] = enc.keys[m] /\ m # i
      BY <1>3, <1>6, <2>1 DEF Contexts
    <2>3. enc'.keys[i] = subkey
      BY <1>2, <1>3, <1>6, <2>1 DEF Contexts
    <2>4. Scheduled(i)
      BY <1>8 DEF RoundTripInv, ScheduledInv
    <2>5. CallNk' = CallNk
      BY <1>1 DEF CallNk
    <2>6. ASSUME NEW m \in 0 .. i - 1
          PROVE  enc'.keys[m] = Expanded(m)'
      <3>1. enc.keys[m] = Expanded(m)
        BY <2>4 DEF Scheduled
      <3>2. CASE m < CallNk
        BY <2>2, <2>5, <3>1, <3>2 DEF Expanded
      <3>3. CASE ~(m < CallNk)
        <4>4. CallNk \in {4, 6, 8} /\ i \in Int
          BY <1>2, <1>3
        <4>1. m - CallNk \in 0 .. i - 1 /\ m - 1 \in 0 .. i - 1
          BY <3>3, <4>4
        <4>2. enc'.keys[m - CallNk] = enc.keys[m - CallNk] /\ enc'.keys[m - 1] = enc.keys[m - 1]
          BY <2>2, <4>1
        <4>3. TermAt(enc.keys[m - 1], m)' = TermAt(enc.keys[m - 1], m)
          BY <2>5, <4>2 DEF TermAt
        <4> QED BY <2>2, <2>5, <3>1, <3>3, <4>2, <4>3 DEF Expanded
      <3> QED BY <3>2, <3>3
    <2> PICK z : z = i
      OBVIOUS
    <2>7. enc'.keys[z] = Expanded(z)'
      <3>1. enc'.keys[i - CallNk] = enc.keys[i - CallNk] /\ enc'.keys[i - 1] = enc.keys[i - 1]
        BY <1>6, <2>2
      <3>2. \A m : Expanded(m)' = IF m < CallNk THEN LE_READ_UINT32(key, 4 * m)
                                  ELSE Xor(enc'.keys[m - CallNk], TermAt(enc'.keys[m - 1], m))
        BY <2>5 DEF Expanded, TermAt
      <3>3. Expanded(z)' = Xor(enc.keys[i - CallNk], TermAt(enc'.keys[i - 1], z))
        BY <1>6, <3>1, <3>2
      <3> QED BY <1>4, <2>1, <2>3, <3>1, <3>3
    <2>8. Scheduled(i)'
      <3>1. \A m \in 0 .. i' - 1 : enc'.keys[m] = Expanded(m)'
        BY <1>7, <2>6, <2>7
      <3> QED BY <3>1 DEF Scheduled
    <2> QED BY <1>1, <1>8, <2>8 DEF RoundTripInv, ScheduledInv, LengthInv, EncryptedInv, DecryptedInv, EncryptionKept
  <1>9. CASE step = "expand_decrypt_key"
    <2>1. enc' = enc
      BY <1>5, <1>9 DEF SetCtx, Encrypting
    <2>2. /\ CallNk' = CallNk /\ CallNr' = CallNr /\ Blocks' = Blocks
          /\ \A c, p : IsCipherOf(c, p)' <=> IsCipherOf(c, p)
          /\ \A z : Scheduled(z)' <=> Scheduled(z)
      BY <1>1, <2>1, TracesKept
    <2>3. Scheduled(4 * (CallNr + 1)) /\ \A m \in 0 .. i - 1 : Subkey(m) = enc.keys[m]
      BY <1>9 DEF RoundTripInv, ScheduledInv, EncryptionKept
    <2>4. enc.keys[i] = subkey
      <3>1. i \in 0 .. 4 * (CallNr + 1) - 1
        BY <1>2, <1>3
      <3>2. enc.keys[i] = Xor(enc.keys[i - CallNk], TermAt(enc.keys[i - 1], i))
        BY <1>6, <2>3, <3>1 DEF Scheduled, Expanded
      <3>3. enc.keys[i - CallNk] = Ctx.keys[i - CallNk] /\ enc.keys[i - 1] = Ctx.keys[i - 1]
        BY <1>3, <1>6, <2>3
      <3> QED BY <1>4, <3>2, <3>3
    <2>5. \A m \in 0 .. i' - 1 : Subkey(m)' = enc'.keys[m]
      <3>1. subkey \in Word
        <4>1. enc \in Contexts
          BY DEF AesInv, AesTypes
        <4>2. enc.keys \in [0 .. 59 -> Word]
          BY <1>2, <4>1 DEF Contexts
        <4> QED BY <1>6, <2>4, <4>2
      <3>2. \A m \in 0 .. i - 1 : m + 1 \in 1 .. Len(expanded)
        BY <1>2, <1>3
      <3>3. \A m \in 0 .. i - 1 : expanded'[m + 1] = expanded[m + 1]
        BY <1>3, <1>5, <3>1, <3>2
      <3>4. expanded'[i + 1] = subkey
        BY <1>3, <1>5, <3>1
      <3> QED BY <1>7, <2>1, <2>3, <2>4, <3>3, <3>4 DEF Subkey
    <2>6. ScheduledInv'
      BY <1>1, <1>9, <2>2, <2>3, <2>5 DEF ScheduledInv, EncryptionKept
    <2>7. LengthInv' /\ EncryptedInv'
      BY <1>1, <1>9, <2>2 DEF RoundTripInv, LengthInv, EncryptedInv, EncryptionKept
    <2> QED BY <1>1, <1>9, <2>6, <2>7 DEF RoundTripInv, DecryptedInv
  <1> QED BY <1>1, <1>8, <1>9 DEF Expanding

LEMMA KeyExpandedTrip ==
  ASSUME AesInv, RoundTripInv, KeyExpanded
  PROVE  RoundTripInv'
  <1>1. Expanding /\ i = lastkey /\ UNCHANGED <<call, enc, expanded, w, encrypted, decrypted>>
    BY DEF KeyExpanded, keyVars, textVars, blockVars, Exit
  <1>2. /\ CallNr' = CallNr /\ Blocks' = Blocks
        /\ \A c, p : IsCipherOf(c, p)' <=> IsCipherOf(c, p)
        /\ \A z : Scheduled(z)' <=> Scheduled(z)
    BY <1>1, TracesKept
  <1>3. i = 4 * (CallNr + 1) /\ CallNr \in {10, 12, 14}
    BY <1>1, RoundCounts DEF AesInv, ExpandInv, lastkey
  <1>4. CASE Encrypting /\ LengthOk(call.length)
    <2>1. step = "expand_encrypt_key" /\ step' = "encrypt" /\ block' = 0 /\ round' = 0
      BY <1>1, <1>4 DEF KeyExpanded, Expanding, Encrypting
    <2>2. Scheduled(4 * (CallNr + 1))
      BY <1>3, <2>1 DEF RoundTripInv, ScheduledInv
    <2>3. call.length = 16 * Blocks
      BY <1>4, CallFacts DEF AesInv, AesTypes, LengthOk
    <2>4. ScheduledInv' /\ LengthInv'
      BY <1>1, <1>2, <2>1, <2>2, <2>3 DEF ScheduledInv, LengthInv, EncryptionKept
    <2>5. EncryptedInv'
      <3>1. 0 .. 0 - 1 = {} /\ ~(0 > 0)
        OBVIOUS
      <3> QED BY <2>1, <3>1 DEF EncryptedInv, EncryptionKept
    <2> QED BY <2>1, <2>4, <2>5 DEF RoundTripInv, DecryptedInv
  <1>5. CASE Encrypting /\ ~LengthOk(call.length)
    <2>1. step' = "exited"
      BY <1>5 DEF KeyExpanded, Exit
    <2> QED BY <2>1 DEF RoundTripInv, ScheduledInv, LengthInv, EncryptedInv, DecryptedInv, EncryptionKept
  <1>6. CASE ~Encrypting
    <2>1. step = "expand_decrypt_key" /\ step' = "invert"
      BY <1>1, <1>6 DEF KeyExpanded, Expanding, Encrypting
    <2>2. Scheduled(4 * (CallNr + 1)) /\ \A m \in 0 .. 4 * CallNr + 3 : Subkey(m) = enc.keys[m]
      <3>1. \A m \in 0 .. 4 * CallNr + 3 : m \in 0 .. i - 1
        BY <1>3
      <3> QED BY <2>1, <3>1 DEF RoundTripInv, ScheduledInv, EncryptionKept
    <2>3. ScheduledInv'
      BY <1>1, <1>2, <2>1, <2>2 DEF ScheduledInv, EncryptionKept, Subkey
    <2>4. LengthInv' /\ EncryptedInv'
      BY <1>1, <1>2, <2>1 DEF RoundTripInv, LengthInv, EncryptedInv, EncryptionKept
    <2> QED BY <2>1, <2>3, <2>4 DEF RoundTripInv, DecryptedInv
  <1> QED BY <1>4, <1>5, <1>6

(* The subkeys of dec are turned around; BlocksDone after encryption.       *)
LEMMA KeptTrip ==
  ASSUME AesInv, RoundTripInv, InvertKeys \/ KeysInverted \/ MixKey \/ KeysMixed
  PROVE  RoundTripInv'
  <1>1. /\ step \in {"invert", "mix"} /\ step' \in {"invert", "mix", "decrypt"}
        /\ step' = "decrypt" => block' = 0 /\ round' = 0
        /\ UNCHANGED <<call, enc, expanded, encrypted>>
    BY DEF InvertKeys, KeysInverted, MixKey, KeysMixed, keyVars, textVars
  <1>2. /\ CallNr' = CallNr /\ Blocks' = Blocks
        /\ \A c, p : IsCipherOf(c, p)' <=> IsCipherOf(c, p)
        /\ \A z : Scheduled(z)' <=> Scheduled(z)
    BY <1>1, TracesKept
  <1>3. ScheduledInv'
    BY <1>1, <1>2 DEF RoundTripInv, ScheduledInv, EncryptionKept, Subkey
  <1>4. LengthInv' /\ EncryptedInv'
    BY <1>1, <1>2 DEF RoundTripInv, LengthInv, EncryptedInv, EncryptionKept
  <1>5. DecryptedInv'
    <2>1. 0 .. 0 - 1 = {} /\ ~(0 > 0)
      OBVIOUS
    <2> QED BY <1>1, <2>1 DEF DecryptedInv
  <1> QED BY <1>3, <1>4, <1>5 DEF RoundTripInv


(* Steps of the blocks.                                                     *)
LEMMA FirstSubkeysTrip ==
  ASSUME AesInv, RoundTripInv, FirstSubkeys
  PROVE  RoundTripInv'
  <1>1. /\ Ciphering /\ round = 0 /\ round' = 1 /\ block' = block
        /\ UNCHANGED <<call, step, enc, expanded, encrypted, decrypted>>
    BY DEF FirstSubkeys, keyVars, textVars
  <1>2. /\ block \in 0 .. 15 /\ block < Blocks
        /\ StateOf(w') = Fips!AddRoundKey(BlockAt(Source, block), IF step = "encrypt" THEN 0 ELSE CallNr)
    BY FirstSubkeysStep
  <1>3. CallNr \in {10, 12, 14} /\ Blocks \in 0 .. 16
    BY RoundCounts DEF AesInv
  <1>4. /\ CallNr' = CallNr /\ Blocks' = Blocks
        /\ \A s, p, z : Traced(s, p, z)' <=> Traced(s, p, z)
        /\ \A c, p : IsCipherOf(c, p)' <=> IsCipherOf(c, p)
        /\ \A z : Scheduled(z)' <=> Scheduled(z)
    BY <1>1, TracesKept
  <1>5. StateOf(w') = KeyAdded(BlockAt(Source, block), EncKey(IF step = "encrypt" THEN 0 ELSE CallNr))
    <2>1. 0 \in 0 .. CallNr /\ CallNr \in 0 .. CallNr
      BY <1>3
    <2> QED BY <1>1, <1>2, <2>1, AddedKey DEF RoundTripInv
  <1>6. ScheduledInv' /\ LengthInv'
    BY <1>1, <1>4 DEF RoundTripInv, ScheduledInv, LengthInv, Subkey, Ciphering, EncryptionKept
  <1>7. CASE step = "encrypt"
    <2>1. PICK s : s = [q \in 1 .. CallNr |-> StateOf(w')]
      OBVIOUS
    <2>2. Traced(s, BlockAt(plaintext, block), 1) /\ StateOf(w') = s[1]
      <3>1. 1 \in 1 .. CallNr /\ 1 .. 1 - 1 = {}
        BY <1>3
      <3>2. StateOf(w') \in BlockState
        BY StateInBlock
      <3>3. StateOf(w') = KeyAdded(BlockAt(plaintext, block), EncKey(0))
        BY <1>5, <1>7 DEF Source, Encrypting
      <3> QED BY <2>1, <3>1, <3>2, <3>3 DEF Traced
    <2>3. Traced(s, BlockAt(plaintext, block), 1)' /\ StateOf(w)' = s[1]
      BY <1>1, <1>4, <2>2 DEF StateOf, BlockAt
    <2>4. \A b : BlockAt(encrypted', b) = BlockAt(encrypted, b)
      BY <1>1
    <2>5. EncryptedInv'
      BY <1>1, <1>4, <1>7, <2>3, <2>4 DEF RoundTripInv, EncryptedInv, EncryptionKept
    <2> QED BY <1>1, <1>6, <1>7, <2>5 DEF RoundTripInv, DecryptedInv
  <1>8. CASE step = "decrypt"
    <2>1. PICK s : Encryption(s, BlockAt(plaintext, block), BlockAt(encrypted, block))
      <3>1. block \in 0 .. Blocks - 1
        BY <1>2, <1>3
      <3> QED BY <1>8, <3>1 DEF RoundTripInv, EncryptedInv, EncryptionKept, IsCipherOf
    <2>2. StateOf(w') = Shifted(s[CallNr])
      <3>1. s[CallNr] \in BlockState
        BY <1>3, <2>1 DEF Encryption, Traced
      <3>2. Shifted(s[CallNr]) \in BlockState
        BY <3>1, ShiftedBack
      <3>3. StateOf(w') = KeyAdded(KeyAdded(Shifted(s[CallNr]), EncKey(CallNr)), EncKey(CallNr))
        BY <1>5, <1>8, <2>1 DEF Encryption, Source, Encrypting
      <3> QED BY <3>2, <3>3, KeyAddedTwice
    <2>3. Traced(s, BlockAt(plaintext, block), CallNr)' /\ StateOf(w)' = Shifted(s[CallNr + 1 - round'])
      <3>1. CallNr + 1 - 1 = CallNr
        BY <1>3
      <3>2. Traced(s, BlockAt(plaintext, block), CallNr)
        BY <2>1 DEF Encryption
      <3> QED BY <1>1, <1>4, <2>2, <3>1, <3>2 DEF StateOf, BlockAt
    <2>4. Shifted(s[CallNr + 1 - round])' = Shifted(s[CallNr + 1 - round'])
      BY <1>4 DEF Shifted, Fips!ShiftRows, Fips!SubBytes, Fips!EachOctet
    <2>5. DecryptedInv'
      BY <1>1, <1>8, <2>3, <2>4, ZenonT(60) DEF RoundTripInv, DecryptedInv, BlockAt
    <2>6. EncryptedInv'
      BY <1>1, <1>4, <1>8 DEF RoundTripInv, EncryptedInv, EncryptionKept, BlockAt
    <2> QED BY <1>6, <2>5, <2>6 DEF RoundTripInv
  <1> QED BY <1>1, <1>7, <1>8 DEF Ciphering


LEMMA AesRoundTrip ==
  ASSUME AesInv, RoundTripInv, AesRound
  PROVE  RoundTripInv'
  <1>1. /\ Ciphering /\ round' = round + 1 /\ block' = block
        /\ UNCHANGED <<call, step, enc, expanded, encrypted, decrypted>>
    BY DEF AesRound, keyVars, textVars
  <1>2. round \in 1 .. CallNr - 1 /\ StateOf(w') = SpecRound(StateOf(w), round)
    BY AesRoundStep
  <1>3. CallNr \in {10, 12, 14} /\ round \in 0 .. CallNr /\ round > 0 /\ round' > 0
    BY <1>1, <1>2, RoundCounts DEF AesInv
  <1>4. /\ CallNr' = CallNr /\ Blocks' = Blocks
        /\ \A s, p, z : Traced(s, p, z)' <=> Traced(s, p, z)
        /\ \A c, p : IsCipherOf(c, p)' <=> IsCipherOf(c, p)
        /\ \A z : Scheduled(z)' <=> Scheduled(z)
    BY <1>1, TracesKept
  <1>5. ScheduledInv' /\ LengthInv'
    BY <1>1, <1>4 DEF RoundTripInv, ScheduledInv, LengthInv, Subkey, Ciphering, EncryptionKept
  <1>6. CASE step = "encrypt"
    <2>1. PICK s : Traced(s, BlockAt(plaintext, block), round) /\ StateOf(w) = s[round]
      BY <1>3, <1>6 DEF RoundTripInv, EncryptedInv
    <2>2. StateOf(w') = EncRound(s[round], EncKey(round))
      BY <1>1, <1>2, <1>3, <1>6, <2>1, RoundsWithKeys DEF RoundTripInv
    <2>3. PICK t : t = [s EXCEPT ![round + 1] = StateOf(w')]
      OBVIOUS
    <2>4. Traced(t, BlockAt(plaintext, block), round + 1) /\ StateOf(w') = t[round + 1]
      <3>1. /\ round + 1 \in 1 .. CallNr /\ round + 1 # 1 /\ 1 \in 1 .. CallNr
            /\ \A q \in 1 .. (round + 1) - 1 :
                 /\ q \in 1 .. CallNr /\ q # round + 1
                 /\ q = round \/ (q \in 1 .. round - 1 /\ q + 1 \in 1 .. CallNr /\ q + 1 # round + 1)
        BY <1>2, <1>3
      <3>2. s \in [1 .. CallNr -> BlockState] /\ StateOf(w') \in BlockState
        BY <2>1, StateInBlock DEF Traced
      <3>3. /\ t \in [1 .. CallNr -> BlockState] /\ t[round + 1] = StateOf(w')
            /\ \A q \in 1 .. CallNr : q # round + 1 => t[q] = s[q]
        BY <2>3, <3>1, <3>2
      <3>4. t[1] = KeyAdded(BlockAt(plaintext, block), EncKey(0))
        BY <2>1, <3>1, <3>3 DEF Traced
      <3>5. ASSUME NEW q \in 1 .. (round + 1) - 1
            PROVE  t[q + 1] = EncRound(t[q], EncKey(q))
        <4>1. CASE q = round
          BY <2>2, <3>1, <3>3, <4>1
        <4>2. CASE q \in 1 .. round - 1
          <5>1. s[q + 1] = EncRound(s[q], EncKey(q))
            BY <2>1, <4>2 DEF Traced
          <5>2. t[q] = s[q] /\ t[q + 1] = s[q + 1]
            <6>1. q # round
              BY <1>2, <1>3, <4>2
            <6> QED BY <3>1, <3>3, <6>1
          <5> QED BY <5>1, <5>2
        <4> QED BY <3>1, <4>1, <4>2
      <3> QED BY <3>3, <3>4, <3>5 DEF Traced
    <2>5. Traced(t, BlockAt(plaintext, block), round)' /\ StateOf(w)' = t[round']
      <3>1. PICK p, z : p = BlockAt(plaintext, block) /\ z = round + 1
        OBVIOUS
      <3>2. Traced(t, p, z)'
        BY <1>4, <2>4, <3>1
      <3>3. BlockAt(plaintext, block)' = p /\ round' = z
        BY <1>1, <3>1 DEF BlockAt
      <3>4. StateOf(w)' = StateOf(w')
        BY DEF StateOf, ColumnOf, OctetAt
      <3> QED BY <1>1, <2>4, <3>2, <3>3, <3>4
    <2>6. \A b : BlockAt(encrypted', b) = BlockAt(encrypted, b)
      BY <1>1
    <2>7. EncryptedInv'
      BY <1>1, <1>4, <1>6, <2>5, <2>6 DEF RoundTripInv, EncryptedInv, EncryptionKept
    <2> QED BY <1>1, <1>5, <1>6, <2>7 DEF RoundTripInv, DecryptedInv
  <1>7. CASE step = "decrypt"
    <2>1. PICK s : Traced(s, BlockAt(plaintext, block), CallNr) /\ StateOf(w) = Shifted(s[CallNr + 1 - round])
      BY <1>3, <1>7 DEF RoundTripInv, DecryptedInv
    <2> PICK q : q = CallNr - round
      OBVIOUS
    <2>2. /\ q \in 1 .. CallNr - 1 /\ q \in 1 .. CallNr /\ CallNr + 1 - round = q + 1 /\ CallNr + 1 - (round + 1) = q
      BY <1>2, <1>3
    <2>3. StateOf(w') = DecRound(Shifted(s[q + 1]), EncKey(q))
      <3>1. SpecRound(StateOf(w), round) = DecRound(StateOf(w), EncKey(q))
        BY <1>1, <1>3, <1>7, RoundsWithKeys DEF RoundTripInv
      <3> QED BY <1>2, <2>1, <2>2, <3>1
    <2>4. s[q + 1] = EncRound(s[q], EncKey(q)) /\ s[q] \in BlockState
      BY <2>1, <2>2 DEF Traced
    <2>5. StateOf(w') = Shifted(s[q])
      BY <2>3, <2>4, RoundUndone
    <2>6. \E u : /\ Traced(u, BlockAt(plaintext, block), CallNr)'
                 /\ StateOf(w)' = Shifted(u[CallNr + 1 - round])'
      <3>1. PICK p : p = BlockAt(plaintext, block)
        OBVIOUS
      <3>2. Traced(s, p, CallNr)'
        BY <1>4, <2>1, <3>1
      <3>3. BlockAt(plaintext, block)' = p
        BY <1>1, <3>1 DEF BlockAt
      <3>4. StateOf(w)' = StateOf(w')
        BY DEF StateOf, ColumnOf, OctetAt
      <3>5. Shifted(s[CallNr + 1 - round])' = Shifted(s[q])
        <4>1. (CallNr + 1 - round)' = q
          BY <1>1, <1>4, <2>2
        <4> QED BY <4>1 DEF Shifted, Fips!ShiftRows, Fips!SubBytes, Fips!EachOctet
      <3> QED BY <2>5, <3>2, <3>3, <3>4, <3>5
    <2>7. DecryptedInv'
      BY <1>1, <1>7, <2>6, ZenonT(60) DEF RoundTripInv, DecryptedInv, BlockAt
    <2>8. EncryptedInv'
      BY <1>1, <1>4, <1>7 DEF RoundTripInv, EncryptedInv, EncryptionKept, BlockAt
    <2> QED BY <1>5, <2>7, <2>8 DEF RoundTripInv
  <1> QED BY <1>1, <1>6, <1>7 DEF Ciphering


LEMMA AesFinalRoundTrip ==
  ASSUME AesInv, RoundTripInv, AesFinalRound
  PROVE  RoundTripInv'
  <1>1. /\ Ciphering /\ round' = 0 /\ block' = block + 1
        /\ UNCHANGED <<call, step, enc, expanded>>
    BY DEF AesFinalRound, keyVars
  <1>2. PICK t \in [0 .. 3 -> Word] :
          /\ StateOf(t) = SpecFinalRound(StateOf(w), CallNr)
          /\ round = CallNr
          /\ step = "encrypt" => encrypted' = Written(encrypted, 16 * block, t) /\ UNCHANGED decrypted
          /\ step = "decrypt" => decrypted' = Written(decrypted, 16 * block, t) /\ UNCHANGED encrypted
    BY FinalRoundStep, Zenon
  <1>3. CallNr \in {10, 12, 14} /\ CallNr \in 0 .. CallNr /\ round > 0 /\ ~(round' > 0)
    BY <1>1, <1>2, RoundCounts DEF AesInv
  <1>4. block \in 0 .. 15 /\ block < Blocks /\ Blocks \in 0 .. 16
    <2>1. block < Blocks
      BY <1>1, <1>3 DEF AesInv, BlockInv
    <2>2. block \in 0 .. Blocks /\ Blocks \in 0 .. 16
      BY <1>1, BlockFacts
    <2> QED BY <2>1, <2>2
  <1>5. /\ CallNr' = CallNr /\ Blocks' = Blocks
        /\ \A c, p : IsCipherOf(c, p)' <=> IsCipherOf(c, p)
        /\ \A z : Scheduled(z)' <=> Scheduled(z)
    BY <1>1, TracesKept
  <1>6. ScheduledInv' /\ LengthInv'
    BY <1>1, <1>5 DEF RoundTripInv, ScheduledInv, LengthInv, Subkey, Ciphering, EncryptionKept
  <1>7. encrypted \in [0 .. 255 -> Octet] /\ decrypted \in [0 .. 255 -> Octet] /\ t \in [0 .. 3 -> Word]
    BY <1>2 DEF AesInv, AesTypes
  <1>8. \A p \in [0 .. 255 -> Octet] :
          /\ \A a \in 0 .. block - 1 : BlockAt(Written(p, 16 * block, t), a) = BlockAt(p, a)
          /\ BlockAt(Written(p, 16 * block, t), block) = StateOf(t)
    <2> SUFFICES ASSUME NEW p \in [0 .. 255 -> Octet]
                 PROVE  /\ \A a \in 0 .. block - 1 : BlockAt(Written(p, 16 * block, t), a) = BlockAt(p, a)
                        /\ BlockAt(Written(p, 16 * block, t), block) = StateOf(t)
      OBVIOUS
    <2>1. PICK b \in 0 .. 15, u \in [0 .. 3 -> Word] : b = block /\ u = t
      BY <1>4, <1>7
    <2>2. \A a \in 0 .. b - 1 : BlockAt(Written(p, 16 * b, u), a) = BlockAt(p, a)
      BY WrittenBlock, ZenonT(60)
    <2>3. BlockAt(Written(p, 16 * b, u), b) = StateOf(u)
      BY WrittenBlock, ZenonT(60)
    <2> QED BY <2>1, <2>2, <2>3
  <1>9. \A b \in 0 .. block' - 1 : b \in 0 .. block - 1 \/ b = block
    BY <1>1, <1>4
  <1>10. CASE step = "encrypt"
    <2>1. PICK s : Traced(s, BlockAt(plaintext, block), CallNr) /\ StateOf(w) = s[CallNr]
      BY <1>2, <1>3, <1>10 DEF RoundTripInv, EncryptedInv
    <2>2. StateOf(t) = KeyAdded(Shifted(s[CallNr]), EncKey(CallNr))
      BY <1>1, <1>2, <1>3, <1>10, <2>1, RoundsWithKeys DEF RoundTripInv
    <2>3. IsCipherOf(StateOf(t), BlockAt(plaintext, block))
      BY <2>1, <2>2 DEF IsCipherOf, Encryption
    <2>4. /\ \A a \in 0 .. block - 1 : BlockAt(encrypted', a) = BlockAt(encrypted, a)
          /\ BlockAt(encrypted', block) = StateOf(t)
      BY <1>2, <1>7, <1>8, <1>10
    <2>5. \A b \in 0 .. block - 1 : IsCipherOf(BlockAt(encrypted, b), BlockAt(plaintext, b))
      BY <1>10 DEF RoundTripInv, EncryptedInv
    <2>6. ASSUME NEW b \in 0 .. block' - 1
          PROVE  IsCipherOf(BlockAt(encrypted, b), BlockAt(plaintext, b))'
      <3>1. PICK c : c = BlockAt(encrypted', b)
        OBVIOUS
      <3>2. PICK p : p = BlockAt(plaintext, b)
        OBVIOUS
      <3>3. IsCipherOf(c, p)
        BY <1>9, <2>3, <2>4, <2>5, <3>1, <3>2
      <3>4. IsCipherOf(c, p)'
        BY <1>5, <3>3
      <3>5. BlockAt(encrypted, b)' = c /\ BlockAt(plaintext, b)' = p
        BY <3>1, <3>2 DEF BlockAt
      <3> QED BY <3>4, <3>5
    <2>7. EncryptedInv'
      BY <1>1, <1>3, <1>10, <2>6 DEF EncryptedInv, EncryptionKept
    <2> QED BY <1>1, <1>6, <1>10, <2>7 DEF RoundTripInv, DecryptedInv
  <1>11. CASE step = "decrypt"
    <2>1. PICK s : Traced(s, BlockAt(plaintext, block), CallNr) /\ StateOf(w) = Shifted(s[CallNr + 1 - CallNr])
      BY <1>2, <1>3, <1>11 DEF RoundTripInv, DecryptedInv
    <2>2. CallNr + 1 - CallNr = 1 /\ CallNr - CallNr = 0 /\ 1 \in 1 .. CallNr
      BY <1>3
    <2>3. s[1] \in BlockState /\ s[1] = KeyAdded(BlockAt(plaintext, block), EncKey(0))
      BY <2>1, <2>2 DEF Traced
    <2>4. BlockAt(plaintext, block) \in BlockState
      <3>1. PICK b \in 0 .. 15 : b = block
        BY <1>4
      <3>2. 16 \in 0 .. 16 /\ b \in 0 .. 16 - 1
        OBVIOUS
      <3>3. BlockAt(plaintext, b) \in BlockState
        BY <3>2, BlocksOfTexts, DataAssumption
      <3> QED BY <3>1, <3>3
    <2>5. StateOf(t) = KeyAdded(Unshifted(StateOf(w)), EncKey(CallNr - CallNr))
      BY <1>1, <1>2, <1>3, <1>11, RoundsWithKeys DEF RoundTripInv
    <2>6. StateOf(t) = BlockAt(plaintext, block)
      <3>1. Unshifted(Shifted(s[1])) = s[1]
        BY <2>3, ShiftedBack
      <3>2. StateOf(t) = KeyAdded(KeyAdded(BlockAt(plaintext, block), EncKey(0)), EncKey(0))
        BY <2>1, <2>2, <2>3, <2>5, <3>1
      <3> QED BY <2>4, <3>2, KeyAddedTwice
    <2>7. /\ \A a \in 0 .. block - 1 : BlockAt(decrypted', a) = BlockAt(decrypted, a)
          /\ BlockAt(decrypted', block) = StateOf(t)
      BY <1>2, <1>7, <1>8, <1>11
    <2>8. \A b \in 0 .. block - 1 : BlockAt(decrypted, b) = BlockAt(plaintext, b)
      BY <1>11 DEF RoundTripInv, DecryptedInv
    <2>9. \A b \in 0 .. block' - 1 : BlockAt(decrypted', b) = BlockAt(plaintext, b)
      BY <1>9, <2>6, <2>7, <2>8
    <2>10. DecryptedInv'
      BY <1>1, <1>3, <1>11, <2>9 DEF DecryptedInv, BlockAt
    <2>11. EncryptedInv'
      <3>1. \A b : BlockAt(encrypted', b) = BlockAt(encrypted, b)
        BY <1>2, <1>11
      <3> QED BY <1>1, <1>5, <1>11, <3>1 DEF RoundTripInv, EncryptedInv, EncryptionKept
    <2> QED BY <1>6, <2>10, <2>11 DEF RoundTripInv
  <1> QED BY <1>1, <1>10, <1>11 DEF Ciphering

LEMMA BlocksDoneTrip ==
  ASSUME AesInv, RoundTripInv, BlocksDone
  PROVE  RoundTripInv'
  <1>1. /\ Ciphering /\ round = 0 /\ block = Blocks /\ UNCHANGED <<call, enc, encrypted, decrypted>>
        /\ step = "encrypt" => step' = "set_decrypt_key"
        /\ step = "decrypt" => step' = "done"
    BY DEF BlocksDone, Encrypting, keyVars, textVars
  <1>2. /\ CallNr' = CallNr /\ Blocks' = Blocks
        /\ \A c, p : IsCipherOf(c, p)' <=> IsCipherOf(c, p)
        /\ \A z : Scheduled(z)' <=> Scheduled(z)
    BY <1>1, TracesKept
  <1>3. LengthInv'
    BY <1>1, <1>2 DEF RoundTripInv, LengthInv, Ciphering, EncryptionKept
  <1>4. CASE step = "encrypt"
    <2>1. ScheduledInv'
      BY <1>1, <1>2, <1>4 DEF RoundTripInv, ScheduledInv, EncryptionKept
    <2>2. \A b : BlockAt(encrypted', b) = BlockAt(encrypted, b)
      BY <1>1
    <2>3. EncryptedInv'
      BY <1>1, <1>2, <1>4, <2>2 DEF RoundTripInv, EncryptedInv, EncryptionKept
    <2> QED BY <1>1, <1>3, <1>4, <2>1, <2>3 DEF RoundTripInv, DecryptedInv
  <1>5. CASE step = "decrypt"
    <2>1. \A b : BlockAt(decrypted', b) = BlockAt(decrypted, b)
      BY <1>1
    <2>2. DecryptedInv'
      BY <1>1, <1>2, <1>5, <2>1 DEF RoundTripInv, DecryptedInv, BlockAt
    <2> QED BY <1>1, <1>3, <1>5, <2>2 DEF RoundTripInv, ScheduledInv, EncryptedInv, EncryptionKept
  <1> QED BY <1>1, <1>4, <1>5 DEF Ciphering

LEMMA UnchangedTrip ==
  ASSUME RoundTripInv, UNCHANGED aesVars
  PROVE  RoundTripInv'
  <1>1. UNCHANGED <<call, step, enc, i, expanded, block, w, round, encrypted, decrypted>>
    BY DEF aesVars, keyVars, blockVars, textVars
  <1>2. /\ CallNk' = CallNk /\ CallNr' = CallNr /\ Blocks' = Blocks
        /\ \A s, p, z : Traced(s, p, z)' <=> Traced(s, p, z)
        /\ \A c, p : IsCipherOf(c, p)' <=> IsCipherOf(c, p)
        /\ \A z : Scheduled(z)' <=> Scheduled(z)
    BY <1>1, TracesKept
  <1>3. ScheduledInv' /\ LengthInv'
    BY <1>1, <1>2 DEF RoundTripInv, ScheduledInv, LengthInv, Subkey
  <1>4. StateOf(w)' = StateOf(w) /\ \A s : Shifted(s)' = Shifted(s)
    BY <1>1 DEF StateOf, Shifted, Fips!ShiftRows, Fips!SubBytes, Fips!EachOctet
  <1>5. /\ \A b : BlockAt(encrypted', b) = BlockAt(encrypted, b) /\ BlockAt(decrypted', b) = BlockAt(decrypted, b)
        /\ BlockAt(plaintext, block)' = BlockAt(plaintext, block)
    BY <1>1 DEF BlockAt
  <1>6. EncryptedInv'
    BY <1>1, <1>2, <1>4, <1>5 DEF RoundTripInv, EncryptedInv
  <1>7. DecryptedInv'
    BY <1>1, <1>2, <1>4, <1>5 DEF RoundTripInv, DecryptedInv
  <1> QED BY <1>3, <1>6, <1>7 DEF RoundTripInv

LEMMA RoundTripStep == AesInv /\ AesInv' /\ RoundTripInv /\ [AesNext]_<<mainVars, aesVars>> => RoundTripInv'
  <1> SUFFICES ASSUME AesInv, AesInv', RoundTripInv, [AesNext]_<<mainVars, aesVars>>
               PROVE  RoundTripInv'
    OBVIOUS
  <1>1. CASE UNCHANGED aesVars
    BY <1>1, UnchangedTrip
  <1>2. CASE BeginAes \/ SetKeyExits
    <2>1. step' \in {"set_encrypt_key", "exited"}
      BY <1>2 DEF BeginAes, SetKeyExits, Exit
    <2> QED BY <2>1 DEF RoundTripInv, ScheduledInv, LengthInv, EncryptedInv, DecryptedInv, EncryptionKept
  <1>3. CASE SetKey
    BY <1>3, SetKeyTrip
  <1>4. CASE ExpandKey
    BY <1>4, ExpandKeyTrip
  <1>5. CASE KeyExpanded
    BY <1>5, KeyExpandedTrip
  <1>6. CASE InvertKeys \/ KeysInverted \/ MixKey \/ KeysMixed
    BY <1>6, KeptTrip
  <1>7. CASE FirstSubkeys
    BY <1>7, FirstSubkeysTrip
  <1>8. CASE AesRound
    BY <1>8, AesRoundTrip
  <1>9. CASE AesFinalRound
    BY <1>9, AesFinalRoundTrip
  <1>10. CASE BlocksDone
    BY <1>10, BlocksDoneTrip
  <1> QED BY <1>1, <1>2, <1>3, <1>4, <1>5, <1>6, <1>7, <1>8, <1>9, <1>10
        DEF AesNext, ReturnAes, VerifyAes

LEMMA RoundTripInit == MainInit /\ AesInit => RoundTripInv
  BY DEF AesInit, RoundTripInv, ScheduledInv, LengthInv, EncryptedInv, DecryptedInv, EncryptionKept

LEMMA TripEnds == AesInv /\ RoundTripInv => RoundTrip
  <1> SUFFICES ASSUME AesInv, RoundTripInv, step = "done", NEW o \in 0 .. call.length - 1
               PROVE  decrypted[o] = plaintext[o]
    BY DEF RoundTrip
  <1>1. call.length = 16 * Blocks /\ Blocks \in 0 .. 16
    BY RoundCounts DEF AesInv, RoundTripInv, LengthInv
  <1>2. PICK b \in 0 .. Blocks - 1, c \in 0 .. 3, rr \in 0 .. 3 : o = 16 * b + 4 * c + rr
    <2>1. PICK d \in 0 .. Blocks - 1, m \in 0 .. 15 : d = o \div 16 /\ m = o % 16 /\ o = 16 * d + m
      BY <1>1
    <2>2. PICK e \in 0 .. 3, f \in 0 .. 3 : e = m \div 4 /\ f = m % 4 /\ m = 4 * e + f
      OBVIOUS
    <2>3. o = 16 * d + 4 * e + f
      <3>1. o = 16 * d + m /\ m = 4 * e + f
        BY <2>1, <2>2
      <3> QED BY <1>1, <3>1
    <2> QED BY <2>3
  <1>3. BlockAt(decrypted, b) = BlockAt(plaintext, b)
    BY DEF RoundTripInv, DecryptedInv
  <1>4. BlockAt(decrypted, b)[c][rr] = decrypted[16 * b + 4 * c + rr] /\ BlockAt(plaintext, b)[c][rr] = plaintext[16 * b + 4 * c + rr]
    BY DEF BlockAt
  <1> QED BY <1>2, <1>3, <1>4

(* For every key size and every length that the functions accept, what the  *)
(* program decrypts is the plaintext: the subkeys that aes_set_decrypt_key  *)
(* makes anew are those of the encryption, and a round undoes a round       *)
(* (nettle-aes.c:1159-1174).                                                *)
THEOREM DecryptionUndoesEncryption == AesSpec => []RoundTrip
  <1>1. AesInv /\ AesInv' /\ RoundTripInv /\ [AesNext]_<<mainVars, aesVars>> => RoundTripInv'
    BY RoundTripStep
  <1> QED BY <1>1, RoundTripInit, TripEnds, AesInvariant, PTL DEF AesSpec

-----------------------------------------------------------------------------
(* The benchmark computes what it expects: the subkeys of its own key.      *)

LEMMA NextSubkeysWords ==
  ASSUME NEW k \in [1 .. 8 -> Word], NEW g \in 0 .. 6
  PROVE  NextSubkeys(k, g) \in [1 .. 8 -> Word]
  <1>1. rcon[g] \in Word
    <2>1. rcon \in [0 .. 9 -> Octet]
      BY DataAssumption
    <2>2. rcon[g] \in Octet
      BY <2>1
    <2> QED BY <2>2, WordsAreBits
  <1>2. \A x, box : SUBBYTE(x, box) \in Word
    BY JoinedWord DEF SUBBYTE
  <1>3. PICK x \in Word : x = Xor(SUBBYTE(Rotated(24, k[8]), encrypt_sbox), rcon[g])
    BY <1>1, <1>2, XorClosed
  <1>4. PICK k0 \in Word : k0 = Xor(k[1], x)
    BY <1>3, XorClosed
  <1>5. PICK k1 \in Word : k1 = Xor(k[2], k0)
    BY XorClosed
  <1>6. PICK k2 \in Word : k2 = Xor(k[3], k1)
    BY XorClosed
  <1>7. PICK k3 \in Word : k3 = Xor(k[4], k2)
    BY XorClosed
  <1>8. PICK k4 \in Word : k4 = Xor(k[5], SUBBYTE(k3, encrypt_sbox))
    BY <1>2, XorClosed
  <1>9. PICK k5 \in Word : k5 = Xor(k[6], k4)
    BY XorClosed
  <1>10. PICK k6 \in Word : k6 = Xor(k[7], k5)
    BY XorClosed
  <1>11. PICK k7 \in Word : k7 = Xor(k[8], k6)
    BY XorClosed
  <1>12. NextSubkeys(k, g) = <<k0, k1, k2, k3, k4, k5, k6, k7>>
    BY <1>3, <1>4, <1>5, <1>6, <1>7, <1>8, <1>9, <1>10, <1>11 DEF NextSubkeys
  <1>13. <<k0, k1, k2, k3, k4, k5, k6, k7>> \in [1 .. 8 -> Word]
    OBVIOUS
  <1> QED BY <1>12, <1>13

LEMMA NextSubkeysParts ==
  ASSUME NEW k, NEW g, NEW new, new = NextSubkeys(k, g)
  PROVE  /\ new[1] = Xor(k[1], Xor(SUBBYTE(Rotated(24, k[8]), encrypt_sbox), rcon[g]))
         /\ new[2] = Xor(k[2], new[1]) /\ new[3] = Xor(k[3], new[2]) /\ new[4] = Xor(k[4], new[3])
         /\ new[5] = Xor(k[5], SUBBYTE(new[4], encrypt_sbox))
         /\ new[6] = Xor(k[6], new[5]) /\ new[7] = Xor(k[7], new[6]) /\ new[8] = Xor(k[8], new[7])
  BY DEF NextSubkeys

OwnKey == [m \in 1 .. 8 |-> LE_READ_UINT32(key, 4 * (m - 1))]

LEMMA OwnSubkeysEquation ==
  /\ OwnSubkeys \in [0 .. 7 -> [1 .. 8 -> Word]]
  /\ OwnSubkeys[0] = OwnKey
  /\ \A g \in 0 .. 6 : OwnSubkeys[g + 1] = NextSubkeys(OwnSubkeys[g], g)
  <1> DEFINE S    == [1 .. 8 -> Word]
             rule == [a \in Nat \X S |-> IF a[1] \in 0 .. 6 THEN NextSubkeys(a[2], a[1]) ELSE a[2]]
  <1>1. rule \in [Nat \X S -> S]
    <2>1. ASSUME NEW a \in Nat \X S
          PROVE  (IF a[1] \in 0 .. 6 THEN NextSubkeys(a[2], a[1]) ELSE a[2]) \in S
      <3>1. a[2] \in S
        OBVIOUS
      <3>2. CASE a[1] \in 0 .. 6
        BY <3>1, <3>2, NextSubkeysWords
      <3> QED BY <3>1, <3>2
    <2> QED BY <2>1
  <1>2. OwnKey \in S
    <2>1. \A m \in 1 .. 8 : LE_READ_UINT32(key, 4 * (m - 1)) \in Word
      BY ReadWords
    <2> QED BY <2>1 DEF OwnKey
  <1> HIDE DEF rule
  <1>3. PICK f \in [0 .. 7 -> S] :
          f[0] = OwnKey /\ \A g \in 0 .. 7 - 1 : f[g + 1] = rule[<<g, f[g]>>]
    <2> HIDE DEF S
    <2>1. \E f : f \in Approximations(S, OwnKey, rule, 7)
      BY <1>1, <1>2, ApproximationExists
    <2> QED BY <2>1 DEF Approximations
  <1>4. ASSUME NEW g \in 0 .. 6
        PROVE  f[g + 1] = NextSubkeys(f[g], g)
    <2>1. <<g, f[g]>> \in Nat \X S
      BY <1>3
    <2>2. rule[<<g, f[g]>>] = NextSubkeys(f[g], g)
      BY <2>1 DEF rule
    <2>3. g \in 0 .. 7 - 1
      OBVIOUS
    <2> QED BY <1>3, <2>2, <2>3
  <1>5. ASSUME NEW g \in 0 .. 7
        PROVE  f[g] = IF g = 0 THEN OwnKey ELSE NextSubkeys(f[g - 1], g - 1)
    <2>1. CASE g = 0
      BY <1>3, <2>1
    <2>2. CASE g # 0
      <3>1. g - 1 \in 0 .. 6 /\ (g - 1) + 1 = g
        BY <2>2
      <3> QED BY <1>4, <2>2, <3>1
    <2> QED BY <2>1, <2>2
  <1>6. f = [g \in 0 .. 7 |-> IF g = 0 THEN OwnKey ELSE NextSubkeys(f[g - 1], g - 1)]
    <2>1. f = [g \in 0 .. 7 |-> f[g]]
      BY <1>3
    <2> QED BY <1>5, <2>1, Zenon
  <1>7. OwnSubkeys = [g \in 0 .. 7 |-> IF g = 0 THEN OwnKey ELSE NextSubkeys(OwnSubkeys[g - 1], g - 1)]
    BY <1>6 DEF OwnSubkeys, OwnKey
  <1>8. OwnSubkeys[0] = OwnKey
    BY <1>7
  <1>9. ASSUME NEW g \in 0 .. 6
        PROVE  OwnSubkeys[g + 1] = NextSubkeys(OwnSubkeys[g], g)
    <2>1. g + 1 \in 0 .. 7 /\ g + 1 # 0 /\ (g + 1) - 1 = g
      OBVIOUS
    <2> QED BY <1>7, <2>1
  <1>10. \A g \in Nat : g \in {z \in Nat : z <= 7 => OwnSubkeys[z] \in S}
    <2> DEFINE Made == {z \in Nat : z <= 7 => OwnSubkeys[z] \in S}
    <2>1. 0 \in Made
      BY <1>2, <1>8
    <2>2. ASSUME NEW g \in Nat, g \in Made PROVE g + 1 \in Made
      <3>1. SUFFICES ASSUME g + 1 <= 7 PROVE OwnSubkeys[g + 1] \in S
        OBVIOUS
      <3>2. OwnSubkeys[g] \in S /\ g \in 0 .. 6
        BY <2>2, <3>1
      <3> QED BY <1>9, <3>2, NextSubkeysWords
    <2> HIDE DEF Made
    <2>3. \A g \in Nat : g \in Made
      BY <2>1, <2>2, SetInduction
    <2> QED BY <2>3 DEF Made
  <1>11. OwnSubkeys \in [0 .. 7 -> S]
    <2>1. \A g \in 0 .. 7 : OwnSubkeys[g] \in S
      BY <1>10
    <2>2. OwnSubkeys = [g \in 0 .. 7 |-> OwnSubkeys[g]]
      BY <1>7
    <2> QED BY <2>1, <2>2
  <1> QED BY <1>8, <1>9, <1>11

LEMMA OwnSubkeyIsWord ==
  ASSUME NEW g \in 0 .. 7, NEW k \in 0 .. 7
  PROVE  OwnSubkey(8 * g + k) = OwnSubkeys[g][k + 1] /\ OwnSubkey(8 * g + k) \in Word
  <1>1. (8 * g + k) \div 8 = g /\ (8 * g + k) % 8 = k
    OBVIOUS
  <1>2. OwnSubkeys[g] \in [1 .. 8 -> Word] /\ k + 1 \in 1 .. 8
    BY OwnSubkeysEquation
  <1> QED BY <1>1, <1>2 DEF OwnSubkey

LEMMA OwnSubkeysAreWords ==
  ASSUME NEW m \in 0 .. 59
  PROVE  OwnSubkey(m) \in Word
  <1>1. PICK g \in 0 .. 7, k \in 0 .. 7 : m = 8 * g + k
    <2>1. m \div 8 \in 0 .. 7 /\ m % 8 \in 0 .. 7 /\ m = 8 * (m \div 8) + (m % 8)
      OBVIOUS
    <2> QED BY <2>1
  <1> QED BY <1>1, OwnSubkeyIsWord

(* For its own key the program makes these subkeys.                         *)
LEMMA OwnSubkeysAreMade ==
  ASSUME CallNk = 8, Scheduled(60), NEW m \in 0 .. 59
  PROVE  enc.keys[m] = OwnSubkey(m)
  <1> DEFINE Same == {g \in Nat : \A k \in 0 .. 7 : 8 * g + k <= 59 => enc.keys[8 * g + k] = OwnSubkey(8 * g + k)}
  <1>1. \A z \in 0 .. 59 : enc.keys[z] = IF z < 8 THEN LE_READ_UINT32(key, 4 * z)
                                         ELSE Xor(enc.keys[z - 8], TermAt(enc.keys[z - 1], z))
    <2>1. \A z \in 0 .. 60 - 1 : enc.keys[z] = Expanded(z)
      BY DEF Scheduled
    <2> QED BY <2>1 DEF Expanded
  <1>0. CallNk > 6
    OBVIOUS
  <1>2. 0 \in Same
    <2>1. ASSUME NEW k \in 0 .. 7
          PROVE  enc.keys[8 * 0 + k] = OwnSubkey(8 * 0 + k)
      <3>1. 8 * 0 + k = k /\ k \in 0 .. 59 /\ k < 8 /\ k + 1 \in 1 .. 8 /\ (k + 1) - 1 = k /\ 0 \in 0 .. 7
        OBVIOUS
      <3>2. OwnSubkey(8 * 0 + k) = OwnSubkeys[0][k + 1]
        BY <3>1, OwnSubkeyIsWord
      <3>3. OwnKey[k + 1] = LE_READ_UINT32(key, 4 * ((k + 1) - 1))
        BY <3>1 DEF OwnKey
      <3> QED BY <1>1, <3>1, <3>2, <3>3, OwnSubkeysEquation
    <2> QED BY <2>1
  <1>3. ASSUME NEW g \in Nat, g \in Same PROVE g + 1 \in Same
    <2>1. SUFFICES ASSUME NEW k \in 0 .. 7, 8 * (g + 1) + k <= 59
                   PROVE  enc.keys[8 * (g + 1) + k] = OwnSubkey(8 * (g + 1) + k)
      OBVIOUS
    <2>2. g \in 0 .. 6
      BY <2>1
    <2>3. \A l \in 0 .. 7 : enc.keys[8 * g + l] = OwnSubkeys[g][l + 1]
      <3> TAKE l \in 0 .. 7
      <3>1. 8 * g + l <= 59 /\ g \in 0 .. 7
        BY <2>2
      <3> QED BY <1>3, <3>1, OwnSubkeyIsWord
    <2> HIDE DEF Same
    <2>4. \A l \in 0 .. 7 : OwnSubkey(8 * (g + 1) + l) = NextSubkeys(OwnSubkeys[g], g)[l + 1]
      <3> TAKE l \in 0 .. 7
      <3>1. g + 1 \in 0 .. 7
        BY <2>2
      <3> QED BY <2>2, <3>1, OwnSubkeyIsWord, OwnSubkeysEquation
    <2> DEFINE new == NextSubkeys(OwnSubkeys[g], g)
               e(l) == enc.keys[8 * (g + 1) + l]
               made(l) == 8 * (g + 1) + l <= 59
    <2>5. ASSUME NEW l \in 0 .. 7, made(l)
          PROVE  e(l) = Xor(OwnSubkeys[g][l + 1], TermAt(enc.keys[8 * (g + 1) + l - 1], 8 * (g + 1) + l))
      <3>1. /\ 8 * (g + 1) + l \in 0 .. 59 /\ ~(8 * (g + 1) + l < 8)
            /\ (8 * (g + 1) + l) - 8 = 8 * g + l
        BY <2>2, <2>5
      <3> QED BY <1>1, <2>3, <3>1, SMTT(30)
    <2>6. ASSUME made(0)
          PROVE  e(0) = new[1]
      <3>1. TermAt(OwnSubkeys[g][8], 8 * (g + 1)) = Xor(SUBBYTE(Rotated(24, OwnSubkeys[g][8]), encrypt_sbox), rcon[g])
        <4>1. (8 * (g + 1)) % 8 = 0 /\ (8 * (g + 1) - 1) \div 8 = g
          BY <2>2
        <4> QED BY <4>1 DEF TermAt
      <3>2. enc.keys[8 * (g + 1) + 0 - 1] = OwnSubkeys[g][8] /\ 8 * (g + 1) + 0 = 8 * (g + 1)
        <4>1. 8 * (g + 1) + 0 - 1 = 8 * g + 7 /\ 7 + 1 = 8
          OBVIOUS
        <4> QED BY <2>3, <4>1
      <3>3. e(0) = Xor(OwnSubkeys[g][0 + 1], TermAt(enc.keys[8 * (g + 1) + 0 - 1], 8 * (g + 1) + 0))
        BY <2>5, <2>6
      <3> HIDE DEF e, new
      <3> QED BY <3>1, <3>2, <3>3, NextSubkeysParts DEF new
    <2>7. ASSUME NEW l \in 1 .. 7, made(l), e(l - 1) = new[l]
          PROVE  e(l) = new[l + 1]
      <3>1. enc.keys[8 * (g + 1) + l - 1] = new[l]
        <4>1. 8 * (g + 1) + l - 1 = 8 * (g + 1) + (l - 1)
          OBVIOUS
        <4> HIDE DEF new
        <4> QED BY <2>7, <4>1
      <3> HIDE DEF new
      <3>2. e(l) = Xor(OwnSubkeys[g][l + 1], TermAt(new[l], 8 * (g + 1) + l))
        BY <2>5, <2>7, <3>1
      <3>3. (8 * (g + 1) + l) % 8 = l
        BY <2>2
      <3> HIDE DEF e
      <3>4. CASE l = 4
        <4>1. TermAt(new[l], 8 * (g + 1) + l) = SUBBYTE(new[4], encrypt_sbox)
          BY <1>0, <3>3, <3>4 DEF TermAt
        <4> QED BY <3>2, <3>4, <4>1, NextSubkeysParts DEF new
      <3>5. CASE l # 4
        <4>1. TermAt(new[l], 8 * (g + 1) + l) = new[l]
          BY <1>0, <3>3, <3>5 DEF TermAt
        <4>2. new[l + 1] = Xor(OwnSubkeys[g][l + 1], new[l])
          <5>1. l = 1 \/ l = 2 \/ l = 3 \/ l = 5 \/ l = 6 \/ l = 7
            BY <3>5
          <5> QED BY <5>1, NextSubkeysParts DEF new
        <4> QED BY <3>2, <4>1, <4>2
      <3> QED BY <3>4, <3>5
    <2>8. \A l \in Nat : l \in {z \in Nat : z <= 7 /\ made(z) => e(z) = new[z + 1]}
      <3> HIDE DEF e, new
      <3> DEFINE T == {z \in Nat : z <= 7 /\ made(z) => e(z) = new[z + 1]}
      <3>1. 0 \in T
        BY <2>6
      <3>2. ASSUME NEW l \in Nat, l \in T PROVE l + 1 \in T
        <4>1. SUFFICES ASSUME l + 1 <= 7, made(l + 1) PROVE e(l + 1) = new[(l + 1) + 1]
          OBVIOUS
        <4>2. l + 1 \in 1 .. 7 /\ (l + 1) - 1 = l /\ made(l)
          BY <4>1
        <4>3. e(l) = new[l + 1]
          BY <3>2, <4>1, <4>2
        <4> HIDE DEF made
        <4> QED BY <2>7, <4>1, <4>2, <4>3
      <3> HIDE DEF T
      <3>3. \A l \in Nat : l \in T
        BY <3>1, <3>2, SetInduction
      <3> QED BY <3>3 DEF T
    <2>9. made(k) /\ k \in Nat /\ k <= 7
      BY <2>1
    <2>10. e(k) = new[k + 1]
      <3> HIDE DEF e, new, made
      <3> QED BY <2>8, <2>9
    <2> QED BY <2>4, <2>10
  <1>4. \A g \in Nat : g \in Same
    <2> HIDE DEF Same
    <2> QED BY <1>2, <1>3, SetInduction
  <1>5. PICK g \in 0 .. 7, k \in 0 .. 7 : m = 8 * g + k
    <2>1. m \div 8 \in 0 .. 7 /\ m % 8 \in 0 .. 7 /\ m = 8 * (m \div 8) + (m % 8)
      OBVIOUS
    <2> QED BY <2>1
  <1>6. g \in Same /\ 8 * g + k <= 59
    BY <1>4, <1>5
  <1> QED BY <1>5, <1>6

-----------------------------------------------------------------------------
(* The benchmark computes what it expects: the words of its blocks.         *)

LEMMA OwnRoundWords ==
  ASSUME NEW ws, NEW q \in 1 .. 13
  PROVE  /\ OwnRound(ws, q) \in [1 .. 4 -> Word]
         /\ \A c \in 0 .. 3 :
              OwnRound(ws, q)[c + 1] = AES_ROUND(encrypt_table, OwnInto(ws, c), OwnSubkey(4 * q + c))
  <1> DEFINE new(c) == AES_ROUND(encrypt_table, OwnInto(ws, c), OwnSubkey(4 * q + c))
  <1>1. \A c \in 0 .. 3 : new(c) \in Word
    <2> TAKE c \in 0 .. 3
    <2>1. OwnSubkey(4 * q + c) \in Word
      <3>1. 4 * q + c \in 0 .. 59
        OBVIOUS
      <3> QED BY <3>1, OwnSubkeysAreWords
    <2>2. MixTerms \in {MixTerms, InvMixTerms}
      OBVIOUS
    <2> DEFINE into == OwnInto(ws, c)
               subst == [m \in 0 .. 3 |-> encrypt_sbox[Number(OctetAt(into[m], m))]]
    <2>3. \A m \in 0 .. 3 : subst[m] = encrypt_sbox[Number(OctetAt(into[m], m))]
      OBVIOUS
    <2>4. Tabulates(encrypt_table, MixTerms, encrypt_sbox)
      BY TablesOfWords
    <2> HIDE DEF into, subst, new
    <2>5. AES_ROUND(encrypt_table, into, OwnSubkey(4 * q + c)) \in Word
      BY <2>1, <2>2, <2>3, <2>4, TabulatesXor
    <2> QED BY <2>5 DEF into, new
  <1>2. OwnRound(ws, q) = <<new(0), new(1), new(2), new(3)>>
    BY DEF OwnRound, Four
  <1> HIDE DEF new
  <1>3. OwnRound(ws, q) \in [1 .. 4 -> Word]
    BY <1>1, <1>2
  <1>4. \A c \in 0 .. 3 : OwnRound(ws, q)[c + 1] = new(c)
    BY <1>2
  <1> QED BY <1>3, <1>4 DEF new

LEMMA OwnFirstWords ==
  ASSUME NEW b \in 0 .. 15
  PROVE  /\ OwnFirst(b) \in [1 .. 4 -> Word]
         /\ \A c \in 0 .. 3 :
              OwnFirst(b)[c + 1] = Xor(LE_READ_UINT32(plaintext, 16 * b + 4 * c), OwnSubkey(c))
  <1> DEFINE new(c) == Xor(LE_READ_UINT32(plaintext, 16 * b + 4 * c), OwnSubkey(c))
  <1>1. \A c \in 0 .. 3 : new(c) \in Word
    <2> TAKE c \in 0 .. 3
    <2>1. c \in 0 .. 59 /\ 16 * b + 4 * c \in Nat
      OBVIOUS
    <2> QED BY <2>1, OwnSubkeysAreWords, ReadWords, XorClosed
  <1>2. OwnFirst(b) = <<new(0), new(1), new(2), new(3)>>
    BY DEF OwnFirst, Four
  <1> HIDE DEF new
  <1>3. OwnFirst(b) \in [1 .. 4 -> Word]
    BY <1>1, <1>2
  <1>4. \A c \in 0 .. 3 : OwnFirst(b)[c + 1] = new(c)
    BY <1>2
  <1> QED BY <1>3, <1>4 DEF new

LEMMA OwnWordsEquation ==
  ASSUME NEW b \in 0 .. 15
  PROVE  /\ OwnWords[14 * b] = OwnFirst(b)
         /\ \A q \in 1 .. 13 : OwnWords[14 * b + q] = OwnRound(OwnWords[14 * b + q - 1], q)
  <1> DEFINE S       == [1 .. 4 -> Word]
             next(z, ws) == IF z % 14 = 0 THEN OwnFirst(z \div 14) ELSE OwnRound(ws, z % 14)
             rule == [a \in Nat \X S |-> IF a[1] < 223 THEN next(a[1] + 1, a[2]) ELSE a[2]]
  <1>1. ASSUME NEW z \in 0 .. 223, NEW ws \in S
        PROVE  next(z, ws) \in S
    <2>1. CASE z % 14 = 0
      <3>1. z \div 14 \in 0 .. 15
        OBVIOUS
      <3> QED BY <2>1, <3>1, OwnFirstWords
    <2>2. CASE z % 14 # 0
      <3>1. z % 14 \in 1 .. 13
        BY <2>2
      <3> QED BY <2>2, <3>1, OwnRoundWords
    <2> QED BY <2>1, <2>2
  <1> HIDE DEF next
  <1>2. rule \in [Nat \X S -> S]
    <2>1. ASSUME NEW a \in Nat \X S
          PROVE  (IF a[1] < 223 THEN next(a[1] + 1, a[2]) ELSE a[2]) \in S
      <3>1. a[1] \in Nat /\ a[2] \in S
        OBVIOUS
      <3>2. CASE a[1] < 223
        <4>1. a[1] + 1 \in 0 .. 223
          BY <3>1, <3>2
        <4> QED BY <1>1, <3>1, <3>2, <4>1
      <3> QED BY <3>1, <3>2
    <2> QED BY <2>1
  <1>3. OwnFirst(0) \in S
    BY OwnFirstWords
  <1> HIDE DEF rule
  <1>4. PICK f \in [0 .. 223 -> S] :
          f[0] = OwnFirst(0) /\ \A z \in 0 .. 223 - 1 : f[z + 1] = rule[<<z, f[z]>>]
    <2> HIDE DEF S
    <2>1. \E f : f \in Approximations(S, OwnFirst(0), rule, 223)
      BY <1>2, <1>3, ApproximationExists, ZenonT(60)
    <2> QED BY <2>1 DEF Approximations
  <1>5. ASSUME NEW z \in 0 .. 223
        PROVE  f[z] = next(z, f[z - 1])
    <2>1. CASE z = 0
      <3>1. z % 14 = 0 /\ z \div 14 = 0
        BY <2>1
      <3> QED BY <1>4, <2>1, <3>1 DEF next
    <2>2. CASE z # 0
      <3>1. z - 1 \in 0 .. 223 - 1 /\ z - 1 \in Nat /\ z - 1 < 223 /\ (z - 1) + 1 = z
        BY <2>2
      <3>2. <<z - 1, f[z - 1]>> \in Nat \X S
        <4>1. z - 1 \in 0 .. 223
          BY <2>2
        <4> HIDE DEF S
        <4>2. f[z - 1] \in S
          BY <1>4, <4>1
        <4> QED BY <3>1, <4>2
      <3>3. rule[<<z - 1, f[z - 1]>>] = next((z - 1) + 1, f[z - 1])
        BY <3>1, <3>2 DEF rule
      <3> QED BY <1>4, <3>1, <3>3
    <2> QED BY <2>1, <2>2
  <1>6. f = [z \in 0 .. 223 |-> next(z, f[z - 1])]
    <2>1. f = [z \in 0 .. 223 |-> f[z]]
      BY <1>4
    <2> QED BY <1>5, <2>1, Zenon
  <1>7. OwnWords = [z \in 0 .. 223 |-> next(z, OwnWords[z - 1])]
    <2>1. 16 * 14 - 1 = 223
      OBVIOUS
    <2>2. f = [z \in 0 .. 16 * 14 - 1 |-> next(z, f[z - 1])]
      BY <1>6, <2>1
    <2>3. OwnWords = [z \in 0 .. 16 * 14 - 1 |-> next(z, OwnWords[z - 1])]
      BY <2>2 DEF OwnWords, next
    <2> QED BY <2>1, <2>3
  <1>8. OwnWords[14 * b] = OwnFirst(b)
    <2>1. 14 * b \in 0 .. 223 /\ (14 * b) % 14 = 0 /\ (14 * b) \div 14 = b
      <3>1. 14 * b \in 0 .. 223 /\ 14 * b = 14 * b + 0 /\ 14 \in Nat \ {0} /\ b \in Int
        OBVIOUS
      <3>2. (14 * b) \div 14 = b /\ (14 * b) % 14 = 0
        BY <3>1, DivModUnique
      <3> QED BY <3>1, <3>2
    <2> QED BY <1>7, <2>1 DEF next
  <1>9. ASSUME NEW q \in 1 .. 13
        PROVE  OwnWords[14 * b + q] = OwnRound(OwnWords[14 * b + q - 1], q)
    <2>1. 14 * b + q \in 0 .. 223 /\ (14 * b + q) % 14 = q
      <3>1. 14 * b + q \in 0 .. 223 /\ 14 * b + q \in Int /\ q < 14 /\ 14 \in Nat \ {0} /\ b \in Int
        OBVIOUS
      <3>2. PICK x : x = 14 * b + q
        OBVIOUS
      <3>3. x \in Int /\ q \in Int /\ 0 <= q /\ q < 14 /\ x = 14 * b + q
        BY <3>1, <3>2
      <3>4. x % 14 = q
        BY ONLY <3>1, <3>3, DivModUnique
      <3> QED BY <3>1, <3>2, <3>4
    <2>2. PICK x \in 0 .. 223 : x = 14 * b + q
      BY <2>1, Zenon
    <2>3. OwnWords[x] = next(x, OwnWords[x - 1])
      BY <1>7, Zenon
    <2>4. \A z, ws : z % 14 = q => next(z, ws) = OwnRound(ws, q)
      <3>1. q # 0
        OBVIOUS
      <3> QED BY <3>1, Zenon DEF next
    <2>5. x % 14 = q
      BY <2>1, <2>2
    <2>6. OwnWords[x] = OwnRound(OwnWords[x - 1], q)
      BY <2>3, <2>4, <2>5, Zenon
    <2> HIDE DEF next
    <2> QED BY <2>2, <2>6
  <1> QED BY <1>8, <1>9

(* The words of block b before its round q.                                 *)
OwnBlock(b, q) == [c \in 0 .. 3 |-> OwnWords[14 * b + q - 1][c + 1]]
OwnKeyWords(q) == [c \in 0 .. 3 |-> OwnSubkey(4 * q + c)]

LEMMA OwnBlockStarts ==
  ASSUME NEW b \in 0 .. 15
  PROVE  StateOf(OwnBlock(b, 1)) = KeyAdded(BlockAt(plaintext, b), OwnKeyWords(0))
  <1>1. ASSUME NEW c \in 0 .. 3
        PROVE  OwnBlock(b, 1)[c] = Xor(LE_READ_UINT32(plaintext, 16 * b + 4 * c), OwnSubkey(c))
    <2>1. 14 * b + 1 - 1 = 14 * b
      OBVIOUS
    <2>2. OwnBlock(b, 1)[c] = OwnFirst(b)[c + 1]
      BY <2>1, OwnWordsEquation DEF OwnBlock
    <2> QED BY <2>2, OwnFirstWords
  <1>2. ASSUME NEW c \in 0 .. 3, NEW rr \in 0 .. 3
        PROVE  OctetAt(LE_READ_UINT32(plaintext, 16 * b + 4 * c), rr) = BlockAt(plaintext, b)[c][rr]
    <2> DEFINE f == [k \in 0 .. 3 |-> plaintext[16 * b + 4 * c + k]]
    <2>1. f[rr] = BlockAt(plaintext, b)[c][rr]
      BY DEF BlockAt
    <2>2. f[rr] \in Octet
      <3>1. 16 * b + 4 * c + rr \in 0 .. 255
        OBVIOUS
      <3>2. plaintext \in [0 .. 255 -> Octet]
        BY DataAssumption
      <3> QED BY <3>1, <3>2
    <2>3. LE_READ_UINT32(plaintext, 16 * b + 4 * c) = Joined(f)
      BY DEF LE_READ_UINT32
    <2> HIDE DEF f
    <2> QED BY <2>1, <2>2, <2>3, OctetAtJoined
  <1>3. ASSUME NEW c \in 0 .. 3, NEW rr \in 0 .. 3
        PROVE  StateOf(OwnBlock(b, 1))[c][rr] = Xor(BlockAt(plaintext, b)[c][rr], OctetAt(OwnKeyWords(0)[c], rr))
    <2>1. StateOf(OwnBlock(b, 1))[c][rr] = OctetAt(OwnBlock(b, 1)[c], rr)
      BY DEF StateOf, ColumnOf
    <2>2. OwnKeyWords(0)[c] = OwnSubkey(c)
      <3>1. 4 * 0 + c = c
        OBVIOUS
      <3> QED BY <3>1 DEF OwnKeyWords
    <2>3. OctetAt(Xor(LE_READ_UINT32(plaintext, 16 * b + 4 * c), OwnSubkey(c)), rr) =
            Xor(OctetAt(LE_READ_UINT32(plaintext, 16 * b + 4 * c), rr), OctetAt(OwnSubkey(c), rr))
      BY OctetAtXor, Zenon
    <2> QED BY <1>1, <1>2, <2>1, <2>2, <2>3
  <1>4. StateOf(OwnBlock(b, 1)) = [c \in 0 .. 3 |-> [rr \in 0 .. 3 |-> StateOf(OwnBlock(b, 1))[c][rr]]]
    BY DEF StateOf, ColumnOf
  <1> QED BY <1>3, <1>4, Zenon DEF KeyAdded

LEMMA OwnBlockRound ==
  ASSUME NEW b \in 0 .. 15, NEW q \in 1 .. 13
  PROVE  StateOf(OwnBlock(b, q + 1)) = EncRound(StateOf(OwnBlock(b, q)), OwnKeyWords(q))
  <1> DEFINE ws == OwnWords[14 * b + q - 1]
  <1>1. \A c \in 0 .. 3 : OwnKeyWords(q)[c] = OwnSubkey(4 * q + c) /\ OwnKeyWords(q)[c] \in Word
    <2> TAKE c \in 0 .. 3
    <2>1. 4 * q + c \in 0 .. 59
      OBVIOUS
    <2> QED BY <2>1, OwnSubkeysAreWords DEF OwnKeyWords
  <1>2. \A c \in 0 .. 3 : OwnInto(ws, c) = [m \in 0 .. 3 |-> OwnBlock(b, q)[(c + m) % 4]]
    <2> TAKE c \in 0 .. 3
    <2>1. \A m \in 0 .. 3 : OwnBlock(b, q)[(c + m) % 4] = ws[((c + m) % 4) + 1]
      <3> TAKE m \in 0 .. 3
      <3>1. (c + m) % 4 \in 0 .. 3
        OBVIOUS
      <3> QED BY <3>1 DEF OwnBlock
    <2> HIDE DEF ws
    <2> QED BY <2>1 DEF OwnInto
  <1>3. \A c \in 0 .. 3 : OwnBlock(b, q + 1)[c] = AES_ROUND(encrypt_table, OwnInto(ws, c), OwnSubkey(4 * q + c))
    <2> TAKE c \in 0 .. 3
    <2>1. 14 * b + (q + 1) - 1 = 14 * b + q
      OBVIOUS
    <2>2. OwnBlock(b, q + 1)[c] = OwnWords[14 * b + q][c + 1]
      BY <2>1 DEF OwnBlock
    <2>3. OwnWords[14 * b + q] = OwnRound(ws, q)
      BY OwnWordsEquation
    <2> HIDE DEF ws
    <2> QED BY <2>2, <2>3, OwnRoundWords
  <1>4. OwnBlock(b, q + 1) = [c \in 0 .. 3 |-> OwnBlock(b, q + 1)[c]]
    BY DEF OwnBlock
  <1> HIDE DEF ws
  <1>5. \A c \in 0 .. 3 : OwnBlock(b, q + 1)[c] =
          AES_ROUND(encrypt_table, [m \in 0 .. 3 |-> OwnBlock(b, q)[(c + m) % 4]], OwnKeyWords(q)[c])
    BY <1>1, <1>2, <1>3
  <1>6. OwnBlock(b, q + 1) = EncryptedWords(OwnBlock(b, q), OwnKeyWords(q))
    BY <1>4, <1>5, Zenon DEF EncryptedWords
  <1>7. OwnKeyWords(q) \in [0 .. 3 -> Word]
    BY <1>1 DEF OwnKeyWords
  <1> QED BY <1>6, <1>7, EncryptionRound DEF EncRound, Shifted

(* Whatever is the cipher of a block of plaintext under these subkeys is    *)
(* the block that verify_benchmark knows.                                   *)
LEMMA OwnCipher ==
  ASSUME CallNr = 14, \A q \in 0 .. 14 : EncKey(q) = OwnKeyWords(q),
         NEW b \in 0 .. 15, NEW x, IsCipherOf(x, BlockAt(plaintext, b))
  PROVE  x = BlockAt(expected, b)
  <1>1. PICK s : Encryption(s, BlockAt(plaintext, b), x)
    BY DEF IsCipherOf
  <1>2. /\ s[1] = KeyAdded(BlockAt(plaintext, b), OwnKeyWords(0))
        /\ \A q \in 1 .. 13 : s[q + 1] = EncRound(s[q], OwnKeyWords(q))
        /\ x = KeyAdded(Shifted(s[14]), OwnKeyWords(14))
    BY <1>1 DEF Encryption, Traced
  <1> DEFINE T == {q \in Nat : q <= 13 => s[q + 1] = StateOf(OwnBlock(b, q + 1))}
  <1>3. \A q \in Nat : q \in T
    <2>1. 0 \in T
      <3>1. 0 + 1 = 1
        OBVIOUS
      <3> QED BY <1>2, <3>1, OwnBlockStarts
    <2>2. ASSUME NEW q \in Nat, q \in T PROVE q + 1 \in T
      <3>1. SUFFICES ASSUME q + 1 <= 13 PROVE s[(q + 1) + 1] = StateOf(OwnBlock(b, (q + 1) + 1))
        OBVIOUS
      <3>2. q + 1 \in 1 .. 13 /\ s[q + 1] = StateOf(OwnBlock(b, q + 1))
        BY <2>2, <3>1
      <3> QED BY <1>2, <3>2, OwnBlockRound
    <2> HIDE DEF T
    <2> QED BY <2>1, <2>2, SetInduction
  <1>4. s[14] = StateOf(OwnBlock(b, 14))
    <2>1. 13 \in T
      <3> HIDE DEF T
      <3> QED BY <1>3
    <2>2. 13 <= 13 /\ 13 + 1 = 14
      OBVIOUS
    <2> QED BY <2>1, <2>2
  <1>5. ASSUME NEW c \in 0 .. 3, NEW rr \in 0 .. 3
        PROVE  expected[16 * b + 4 * c + rr] =
                 Xor(SubByte[Number(s[14][(c + rr) % 4][rr])], OctetAt(OwnKeyWords(14)[c], rr))
    <2>1. 4 * c + rr \in 0 .. 15 /\ (4 * c + rr) \div 4 = c /\ (4 * c + rr) % 4 = rr
          /\ 16 * b + 4 * c + rr = 16 * b + (4 * c + rr) /\ (c + rr) % 4 \in 0 .. 3 /\ 56 + c \in 0 .. 59
          /\ 14 * b + 13 = 14 * b + 14 - 1 /\ 4 * 14 + c = 56 + c
      OBVIOUS
    <2> DEFINE into == OwnInto(OwnWords[14 * b + 13], c)
    <2>2. expected[16 * b + 4 * c + rr] = OctetAt(AES_FINAL_ROUND(encrypt_sbox, into, OwnSubkey(56 + c)), rr)
      <3>1. expected[16 * b + (4 * c + rr)] = OwnOctet(b, 4 * c + rr)
        BY <2>1, KnownCipher
      <3> QED BY <2>1, <3>1 DEF OwnOctet
    <2>3. OwnSubkey(56 + c) \in Word /\ OwnKeyWords(14)[c] = OwnSubkey(56 + c)
      BY <2>1, OwnSubkeysAreWords DEF OwnKeyWords
    <2>4. \A k \in 0 .. 255 : encrypt_sbox[k] \in Octet
      BY DataAssumption
    <2>5. into[rr] = OwnBlock(b, 14)[(c + rr) % 4]
      BY <2>1 DEF OwnInto, OwnBlock
    <2>6. s[14][(c + rr) % 4][rr] = OctetAt(into[rr], rr)
      <3>1. StateOf(OwnBlock(b, 14))[(c + rr) % 4][rr] = OctetAt(OwnBlock(b, 14)[(c + rr) % 4], rr)
        BY <2>1 DEF StateOf, ColumnOf
      <3> HIDE DEF into
      <3> QED BY <1>4, <2>5, <3>1
    <2> HIDE DEF into
    <2>7. OctetAt(AES_FINAL_ROUND(encrypt_sbox, into, OwnSubkey(56 + c)), rr) =
            Xor(encrypt_sbox[Number(OctetAt(into[rr], rr))], OctetAt(OwnSubkey(56 + c), rr))
      BY <2>3, <2>4, FinalRoundOctets
    <2>8. encrypt_sbox = SubByte
      BY TablesAssumption
    <2> QED BY <2>2, <2>3, <2>6, <2>7, <2>8
  <1>6. Shifted(s[14]) = [c \in 0 .. 3 |-> [rr \in 0 .. 3 |-> SubByte[Number(s[14][(c + rr) % 4][rr])]]]
    <2>1. PICK st : st = s[14]
      OBVIOUS
    <2>2. Shifted(st) = [c \in 0 .. 3 |-> [rr \in 0 .. 3 |-> SubByte[Number(st[(c + rr) % 4][rr])]]]
      BY FipsSubBytes DEF Shifted
    <2> QED BY <2>1, <2>2
  <1>7. x = [c \in 0 .. 3 |-> [rr \in 0 .. 3 |->
               Xor(SubByte[Number(s[14][(c + rr) % 4][rr])], OctetAt(OwnKeyWords(14)[c], rr))]]
    <2>1. PICK u : u = Shifted(s[14])
      OBVIOUS
    <2>2. x = [c \in 0 .. 3 |-> [rr \in 0 .. 3 |-> Xor(u[c][rr], OctetAt(OwnKeyWords(14)[c], rr))]]
      BY <1>2, <2>1 DEF KeyAdded
    <2>3. \A c, rr \in 0 .. 3 : u[c][rr] = SubByte[Number(s[14][(c + rr) % 4][rr])]
      BY <1>6, <2>1
    <2> QED BY <2>2, <2>3, Zenon
  <1> QED BY <1>5, <1>7, Zenon DEF BlockAt

(* Texts of 256 octets are the same if their blocks are.                    *)
LEMMA TextsByBlocks ==
  ASSUME NEW p \in [0 .. 255 -> Octet], NEW u \in [0 .. 255 -> Octet],
         \A b \in 0 .. 15 : BlockAt(p, b) = BlockAt(u, b)
  PROVE  p = u
  <1>1. ASSUME NEW o \in 0 .. 255
        PROVE  p[o] = u[o]
    <2>1. PICK b \in 0 .. 15, m \in 0 .. 15 : o = 16 * b + m
      <3>1. o \div 16 \in 0 .. 15 /\ o % 16 \in 0 .. 15 /\ o = 16 * (o \div 16) + (o % 16)
        OBVIOUS
      <3> QED BY <3>1
    <2>2. PICK c \in 0 .. 3, rr \in 0 .. 3 : m = 4 * c + rr
      <3>1. m \div 4 \in 0 .. 3 /\ m % 4 \in 0 .. 3 /\ m = 4 * (m \div 4) + (m % 4)
        OBVIOUS
      <3> QED BY <3>1
    <2>3. o = 16 * b + 4 * c + rr
      BY <2>1, <2>2
    <2>4. BlockAt(p, b)[c][rr] = p[16 * b + 4 * c + rr] /\ BlockAt(u, b)[c][rr] = u[16 * b + 4 * c + rr]
      BY DEF BlockAt
    <2> QED BY <2>3, <2>4
  <1> QED BY <1>1

LEMMA OwnEncrypted ==
  ASSUME AesInv, RoundTripInv, call = OwnCall, step \in EncryptionKept
  PROVE  encrypted = expected
  <1>1. CallNk = 8 /\ CallNr = 14 /\ Blocks = 16
    <2>1. call.keysize = 32 /\ call.length = 256
      BY DEF OwnCall
    <2> QED BY <2>1 DEF CallNk, CallNr, Blocks, NkOf
  <1>2. Scheduled(60)
    <2>1. 4 * (CallNr + 1) = 60
      BY <1>1
    <2>2. Scheduled(4 * (CallNr + 1))
      BY DEF RoundTripInv, ScheduledInv
    <2> QED BY <2>1, <2>2
  <1>3. ASSUME NEW q \in 0 .. 14
        PROVE  EncKey(q) = OwnKeyWords(q)
    <2>1. \A c \in 0 .. 3 : enc.keys[4 * q + c] = OwnSubkey(4 * q + c)
      <3> TAKE c \in 0 .. 3
      <3>1. 4 * q + c \in 0 .. 59
        OBVIOUS
      <3> QED BY <1>1, <1>2, <3>1, OwnSubkeysAreMade
    <2> QED BY <2>1, Zenon DEF EncKey, OwnKeyWords
  <1>4. ASSUME NEW b \in 0 .. 15
        PROVE  BlockAt(encrypted, b) = BlockAt(expected, b)
    <2>1. IsCipherOf(BlockAt(encrypted, b), BlockAt(plaintext, b))
      <3>1. b \in 0 .. Blocks - 1
        BY <1>1
      <3> QED BY <3>1 DEF RoundTripInv, EncryptedInv
    <2> QED BY <1>1, <1>3, <2>1, OwnCipher
  <1>5. encrypted \in [0 .. 255 -> Octet] /\ expected \in [0 .. 255 -> Octet]
    BY DataAssumption DEF AesInv, AesTypes
  <1> QED BY <1>4, <1>5, TextsByBlocks

LEMMA OwnDecrypted ==
  ASSUME AesInv, RoundTripInv, call = OwnCall, step = "done"
  PROVE  plaintext = decrypted
  <1>1. \A o \in 0 .. 255 : decrypted[o] = plaintext[o]
    <2>1. call.length - 1 = 255
      BY DEF OwnCall
    <2> QED BY <2>1, TripEnds DEF RoundTrip
  <1>2. decrypted \in [0 .. 255 -> Octet] /\ plaintext \in [0 .. 255 -> Octet]
    BY DataAssumption DEF AesInv, AesTypes
  <1> QED BY <1>1, <1>2

(* An iteration leaves the texts that are known, and main verifies only     *)
(* what an iteration has left.                                              *)
CipherVerifiedInv ==
  /\ call = OwnCall /\ step = "done" => encrypted = expected
  /\ at = "benchmark" => rpt \in {0, 1} /\ (rpt = 0 => step = "done")
  /\ at = "verify_benchmark" => step = "done"
  /\ BenchmarkVerifies

LEMMA CipherVerifiedInit == MainInit /\ AesInit => CipherVerifiedInv
  BY DEF MainInit, AesInit, CipherVerifiedInv, BenchmarkVerifies

LEMMA CipherVerifiedStep ==
  AesInv /\ RoundTripInv /\ CipherVerifiedInv /\ [AesNext]_<<mainVars, aesVars>> => CipherVerifiedInv'
  <1> SUFFICES ASSUME AesInv, RoundTripInv, CipherVerifiedInv, [AesNext]_<<mainVars, aesVars>>
               PROVE  CipherVerifiedInv'
    OBVIOUS
  <1>1. busy <=> step \notin {"start", "done"}
    BY DEF AesInv, AesTypes
  <1>2. CASE WarmCaches /\ UNCHANGED aesVars
    BY <1>2 DEF WarmCaches, aesVars, textVars, CipherVerifiedInv, BenchmarkVerifies
  <1>3. CASE BeginAes
    BY <1>3 DEF BeginAes, BeginBody, InBody, textVars, CipherVerifiedInv, BenchmarkVerifies
  <1>4. CASE SetKeyExits
    BY <1>4 DEF SetKeyExits, Exit, CipherVerifiedInv, BenchmarkVerifies
  <1>5. CASE SetKey \/ ExpandKey \/ InvertKeys \/ KeysInverted \/ MixKey \/ KeysMixed
             \/ FirstSubkeys \/ AesRound \/ AesFinalRound
    <2>1. UNCHANGED mainVars /\ step # "done" /\ step' # "done"
      BY <1>5 DEF SetKey, ExpandKey, InvertKeys, KeysInverted, MixKey, KeysMixed,
                  FirstSubkeys, AesRound, AesFinalRound, Expanding, Ciphering
    <2> QED BY <2>1 DEF mainVars, CipherVerifiedInv, BenchmarkVerifies
  <1>6. CASE KeyExpanded
    <2>1. step # "done" /\ step' # "done" /\ (UNCHANGED mainVars \/ at' = "exit")
      BY <1>6 DEF KeyExpanded, Expanding, Exit
    <2> QED BY <2>1 DEF mainVars, CipherVerifiedInv, BenchmarkVerifies
  <1>7. CASE BlocksDone /\ step = "encrypt"
    <2>1. UNCHANGED mainVars /\ step' = "set_decrypt_key"
      BY <1>7 DEF BlocksDone, Encrypting
    <2> QED BY <1>7, <2>1 DEF mainVars, CipherVerifiedInv, BenchmarkVerifies
  <1>8. CASE BlocksDone /\ step = "decrypt"
    <2>1. /\ InBody /\ rpt' = rpt - 1 /\ UNCHANGED <<at, result, correct, call, encrypted>> /\ step' = "done"
      BY <1>8 DEF BlocksDone, Encrypting, EndBody, textVars
    <2>2. call = OwnCall => encrypted = expected
      BY <1>8, OwnEncrypted DEF EncryptionKept
    <2>3. at = "benchmark" => rpt = 1
      BY <1>8 DEF CipherVerifiedInv
    <2> QED BY <2>1, <2>2, <2>3 DEF InBody, CipherVerifiedInv, BenchmarkVerifies
  <1>9. CASE ReturnAes
    <2>1. /\ InBody /\ ~busy /\ rpt = 0 /\ UNCHANGED <<correct, call, step, encrypted>>
          /\ at = "warm_caches" => at' = "benchmark" /\ rpt' = 1
          /\ at = "benchmark" => at' = "verify_benchmark"
      BY <1>9 DEF ReturnAes, ReturnToMain, LOCAL_SCALE_FACTOR, CPU_MHZ, aesVars, textVars
    <2> QED BY <2>1 DEF InBody, CipherVerifiedInv, BenchmarkVerifies
  <1>10. CASE VerifyAes
    <2>1. /\ call = OwnCall /\ at = "verify_benchmark" /\ at' = "wfi"
          /\ correct' = (encrypted = expected /\ plaintext = decrypted)
          /\ UNCHANGED <<call, step, encrypted>>
      BY <1>10 DEF VerifyAes, Verify, aesVars, textVars
    <2>2. encrypted = expected /\ plaintext = decrypted
      BY <2>1, OwnDecrypted DEF CipherVerifiedInv
    <2>3. correct'
      <3> DEFINE ok == encrypted = expected /\ plaintext = decrypted
      <3>1. correct' = ok /\ ok
        BY <2>1, <2>2
      <3> HIDE DEF ok
      <3> QED BY ONLY <3>1
    <2> QED BY <2>1, <2>2, <2>3 DEF CipherVerifiedInv, BenchmarkVerifies
  <1>11. CASE UNCHANGED <<mainVars, aesVars>>
    BY <1>11 DEF mainVars, aesVars, textVars, CipherVerifiedInv, BenchmarkVerifies
  <1> QED BY <1>2, <1>3, <1>4, <1>5, <1>6, <1>7, <1>8, <1>9, <1>10, <1>11 DEF AesNext, BlocksDone, Ciphering

(* However often the caches are warmed, nettle-aes encrypts the plaintext   *)
(* to the octets that its verify_benchmark expects, and decrypts them       *)
(* (main.c:27-37, nettle-aes.c:1119-1174).                                  *)
THEOREM CipherVerifies == AesSpec => []BenchmarkVerifies
  <1>1. MainInit /\ AesInit => AesInv /\ RoundTripInv /\ CipherVerifiedInv
    BY AesInitInv, RoundTripInit, CipherVerifiedInit
  <1>2. /\ AesInv /\ RoundTripInv /\ CipherVerifiedInv
        /\ [AesNext]_<<mainVars, aesVars>>
        => (AesInv /\ RoundTripInv /\ CipherVerifiedInv)'
    BY AesInvStep, RoundTripStep, CipherVerifiedStep
  <1>3. CipherVerifiedInv => BenchmarkVerifies
    BY DEF CipherVerifiedInv
  <1> QED BY <1>1, <1>2, <1>3, PTL DEF AesSpec

-----------------------------------------------------------------------------
(* Composition.  A step of the programs is one of the start-up code or of   *)
(* the program that is loaded, and leaves the others alone.                 *)

LEMMA ProgramsStart ==
  ProgramsInit => Init /\ FibInit /\ MainInit /\ CrcInit /\ AesInit /\ HeapInit /\ LedInit
  BY DEF ProgramsInit, CrcInit

LEMMA ProgramsStep ==
  ASSUME [ProgramsNext]_programsVars
  PROVE  /\ program' = program
         /\ [Next]_vars /\ [FibTurn]_fib /\ [HeapNext]_heapVars /\ [LedNext]_ledVars
         /\ program = "crc_32" => [CrcNext]_crcVars
         /\ program = "nettle-aes" => [AesNext]_<<mainVars, aesVars>>
         /\ program # "nettle-aes" => UNCHANGED aesVars
  <1>1. CASE StartUp
    BY <1>1 DEF StartUp, crcVars, crcOwn
  <1>2. CASE RunFib
    BY <1>2 DEF RunFib, InMain, startVars, vars, crcVars, crcOwn
  <1>3. CASE Crc
    BY <1>3 DEF Crc, InMain, startVars, vars
  <1>4. CASE NettleAes
    BY <1>4 DEF NettleAes, InMain, startVars, vars
  <1>5. CASE Heap
    BY <1>5 DEF Heap, InMain, startVars, vars, crcVars, crcOwn
  <1>6. CASE Led
    BY <1>6 DEF Led, LedStep, InMain, startVars, vars, crcVars, crcOwn
  <1>7. CASE UNCHANGED programsVars
    BY <1>7 DEF programsVars, startVars, vars, crcVars, crcOwn
  <1> QED BY <1>1, <1>2, <1>3, <1>4, <1>5, <1>6, <1>7 DEF ProgramsNext

(* What is proved of the start-up code, of the programs and of the heap     *)
(* each on its own holds when they run one after the other                  *)
(* (crt0.S:43-61, main.c:27-37).                                            *)
THEOREM ProgramsAreTheirParts ==
  ProgramsSpec =>
    /\ Init /\ [][Next]_vars
    /\ FibSpec /\ HeapSpec /\ LedSpec
    /\ program = "crc_32" => CrcSpec
    /\ program = "nettle-aes" => AesSpec
  <1> DEFINE Checksum == program = "crc_32"
             Cipher   == program = "nettle-aes"
  <1>1. [ProgramsNext]_programsVars =>
          [Next]_vars /\ [FibTurn]_fib /\ [HeapNext]_heapVars /\ [LedNext]_ledVars
    BY ProgramsStep
  <1>2. Checksum /\ [ProgramsNext]_programsVars => [CrcNext]_crcVars /\ Checksum'
    BY ProgramsStep
  <1>3. Cipher /\ [ProgramsNext]_programsVars => [AesNext]_<<mainVars, aesVars>> /\ Cipher'
    BY ProgramsStep
  <1>4. ProgramsSpec => Init /\ [][Next]_vars
    BY <1>1, ProgramsStart, PTL DEF ProgramsSpec
  <1>5. ProgramsSpec => FibSpec
    BY <1>1, ProgramsStart, PTL DEF ProgramsSpec, FibSpec
  <1>6. ProgramsSpec => HeapSpec
    BY <1>1, ProgramsStart, PTL DEF ProgramsSpec, HeapSpec
  <1>7. ProgramsSpec => LedSpec
    BY <1>1, ProgramsStart, PTL DEF ProgramsSpec, LedSpec
  <1> HIDE DEF Checksum, Cipher
  <1>8. ProgramsSpec /\ Checksum => CrcSpec
    BY <1>2, ProgramsStart, PTL DEF ProgramsSpec, CrcSpec
  <1>9. ProgramsSpec /\ Cipher => AesSpec
    BY <1>3, ProgramsStart, PTL DEF ProgramsSpec, AesSpec
  <1> QED BY <1>4, <1>5, <1>6, <1>7, <1>8, <1>9 DEF Checksum, Cipher

(* So the AES benchmark keeps its promises whatever is loaded with it.      *)
AesPartInv ==
  IF program = "nettle-aes" THEN AesInv /\ RoundTripInv ELSE AesInit

(* The runs check the ciphers, the way back and the bounds of the arrays    *)
(* on the programs as they are composed: from the reset vector on, with     *)
(* every program that may be loaded (crt0.S:43-61, nettle-aes.c:723-1027,   *)
(* 1159-1174).                                                              *)
THEOREM AesInPrograms == ProgramsSpec => CipherRefinement /\ []KeysInBounds /\ []RoundTrip
  <1>1. ProgramsInit => AesPartInv /\ Fips!Init
    BY ProgramsStart, AesInitInv, RoundTripInit, FipsInit DEF AesPartInv
  <1>2. AesPartInv /\ [ProgramsNext]_programsVars => AesPartInv'
    <2> SUFFICES ASSUME AesPartInv, [ProgramsNext]_programsVars PROVE AesPartInv'
      OBVIOUS
    <2>1. CASE program = "nettle-aes"
      BY <2>1, ProgramsStep, AesInvStep, RoundTripStep DEF AesPartInv
    <2>2. CASE program # "nettle-aes"
      <3>1. program' = program /\ UNCHANGED aesVars /\ AesInit
        BY <2>2, ProgramsStep DEF AesPartInv
      <3>2. AesInit'
        BY <3>1 DEF AesInit, aesVars, keyVars, blockVars, textVars
      <3> QED BY <2>2, <3>1, <3>2 DEF AesPartInv
    <2> QED BY <2>1, <2>2
  <1>3. AesPartInv /\ AesPartInv' /\ [ProgramsNext]_programsVars => [Fips!Next]_(Fips!vars)
    <2> SUFFICES ASSUME AesPartInv, AesPartInv', [ProgramsNext]_programsVars
                 PROVE  Fips!Next \/ UNCHANGED Fips!vars
      OBVIOUS
    <2>1. CASE program = "nettle-aes"
      BY <2>1, ProgramsStep, FipsNext DEF AesPartInv
    <2>2. CASE program # "nettle-aes"
      BY <2>2, ProgramsStep, UnchangedStep
    <2> QED BY <2>1, <2>2
  <1>4. AesPartInv => KeysInBounds /\ RoundTrip
    <2> SUFFICES ASSUME AesPartInv PROVE KeysInBounds /\ RoundTrip
      OBVIOUS
    <2>1. CASE program = "nettle-aes"
      BY <2>1, BoundsKept, TripEnds DEF AesPartInv
    <2>2. CASE program # "nettle-aes"
      BY <2>2 DEF AesPartInv, AesInit, KeysInBounds, RoundTrip, Expanding
    <2> QED BY <2>1, <2>2
  <1> QED BY <1>1, <1>2, <1>3, <1>4, PTL DEF ProgramsSpec, CipherRefinement, Fips!Spec

(* The program that is loaded is the only one that main runs.               *)
VerifiedPartInv ==
  CASE program = "crc_32"     -> VerifiedInv
    [] program = "nettle-aes" -> AesInv /\ RoundTripInv /\ CipherVerifiedInv
    [] OTHER                  -> at = "main"

(* From the reset vector on, and whatever program is loaded, a benchmark    *)
(* that has run computed what its verify_benchmark expects (crt0.S:43-61,   *)
(* main.c:27-37, crc_32.c:207-211, nettle-aes.c:1119-1133).                 *)
THEOREM BenchmarksVerify == ProgramsSpec => []BenchmarkVerifies
  <1>1. ProgramsInit => VerifiedPartInv
    BY ProgramsStart, VerifiedInit, AesInitInv, RoundTripInit, CipherVerifiedInit DEF VerifiedPartInv, MainInit
  <1>2. VerifiedPartInv /\ [ProgramsNext]_programsVars => VerifiedPartInv'
    <2> SUFFICES ASSUME VerifiedPartInv, [ProgramsNext]_programsVars PROVE VerifiedPartInv'
      OBVIOUS
    <2>1. program' = program
      BY ProgramsStep
    <2>2. CASE program = "crc_32"
      BY <2>1, <2>2, ProgramsStep, VerifiedStep DEF VerifiedPartInv
    <2>3. CASE program = "nettle-aes"
      BY <2>1, <2>3, ProgramsStep, AesInvStep, RoundTripStep, CipherVerifiedStep DEF VerifiedPartInv
    <2>4. CASE program \notin {"crc_32", "nettle-aes"}
      <3>1. at' = at
        BY <2>4 DEF ProgramsNext, StartUp, RunFib, Crc, NettleAes, Heap, Led, LedStep, InMain, programsVars, mainVars
      <3> QED BY <2>1, <2>4, <3>1 DEF VerifiedPartInv
    <2> QED BY <2>2, <2>3, <2>4
  <1>3. VerifiedPartInv => BenchmarkVerifies
    BY DEF VerifiedPartInv, VerifiedInv, CipherVerifiedInv, BenchmarkVerifies
  <1> QED BY <1>1, <1>2, <1>3, PTL DEF ProgramsSpec
=============================================================================
