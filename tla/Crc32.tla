-------------------------------- MODULE Crc32 --------------------------------
(***************************************************************************)
(* The program sw/crc_32: main.c with crc_32.c and the random numbers of   *)
(* beebsc.c.  A step is an octet.                                          *)
(***************************************************************************)
EXTENDS Embench, Words

CONSTANT crc_32_tab  \* the table of feedback terms

VARIABLES
  seed,      \* of rand_beebs
  oldcrc32, n,  \* crc32pseudo: the checksum so far and the loop counter
  r,         \* benchmark_body: the checksum of the last iteration
  register   \* history: a serial shift register that is fed the same octets

crcVars == <<mainVars, seed, oldcrc32, n, r, register>>

-----------------------------------------------------------------------------
(* The polynomial 0xedb88320, and the shift register the comments of        *)
(* crc_32.c describe: bits enter at the lowest-order term.                  *)

Poly == {5, 8, 9, 15, 19, 20, 21, 23, 24, 26, 27, 29, 30, 31}

Shift1(c)    == Xor(ShiftDown(c, 1), IF 0 \in c THEN Poly ELSE {})
Feed(c, bit) == Xor(ShiftDown(c, 1), IF (0 \in c) # bit THEN Poly ELSE {})

Shift8(c) == Shift1(Shift1(Shift1(Shift1(Shift1(Shift1(Shift1(Shift1(c))))))))

ShiftIn(c, o) ==
  LET f(d, b) == Feed(d, b \in o)
  IN  f(f(f(f(f(f(f(f(c, 0), 1), 2), 3), 4), 5), 6), 7)

(* "The feedback terms simply represent the results of eight shift/xor      *)
(* operations for all combinations of data and CRC register values."        *)
ASSUME TableIsPolynomial ==
  crc_32_tab \in [Octet -> Word] /\ \A o \in Octet : crc_32_tab[o] = Shift8(o)

-----------------------------------------------------------------------------
(* Slips for the checks to detect. *)
UPDC32SignedShift(octet, crc) ==
  Xor(crc_32_tab[OctetAt(Xor(crc, octet), 0)],
      ShiftDown(crc, 8) \cup (IF 31 \in crc THEN 24 .. 31 ELSE {}))
SrandNever == UNCHANGED seed

(* rand_beebs: seed * 1103515245 + 12345 in 31 bits, half words apart.      *)
NextSeed(s) ==
  LET lo == (s % 65536) * 20077 + 12345
      hi == (lo \div 65536 + (s % 65536) * 16838 + (s \div 65536) * 20077) % 32768
  IN  hi * 65536 + (lo % 65536)

RandOctet(s) == BitsOf(s \div 65536, 8)    \* (BYTE) rand_beebs ()

Srand == seed' = 0                         \* srand_beebs (0)

UPDC32(octet, crc) == Xor(crc_32_tab[OctetAt(Xor(crc, octet), 0)], ShiftDown(crc, 8))

(* What a random octet makes of the seed and of a serial shift register,    *)
(* and what 2^k of them make: a closed computation, whose result is the one *)
(* that verify_benchmark knows.                                             *)
Fed(p) == LET s == NextSeed(p[1]) IN <<s, ShiftIn(p[2], RandOctet(s))>>

FedTimes[k \in 0 .. 10] ==
  [p \in Nat \X Word |-> IF k = 0 THEN Fed(p) ELSE FedTimes[k - 1][FedTimes[k - 1][p]]]

Low15(c) == {b \in c : b < 15}   \* (int) (r % 32768)

ASSUME KnownChecksum == Low15((0 .. 31) \ FedTimes[10][<<0, 0 .. 31>>][2]) = BitsOf(11433, 15)

Begin ==
  /\ BeginBody /\ Srand
  /\ oldcrc32' = 0 .. 31 /\ n' = 0 /\ register' = 0 .. 31
  /\ UNCHANGED r

Update ==
  /\ busy /\ n < 1024
  /\ seed' = NextSeed(seed)
  /\ oldcrc32' = UPDC32(RandOctet(seed'), oldcrc32)
  /\ register' = ShiftIn(register, RandOctet(seed'))
  /\ n' = n + 1
  /\ UNCHANGED <<mainVars, r>>

End ==
  /\ n = 1024 /\ EndBody
  /\ r' = (0 .. 31) \ oldcrc32
  /\ UNCHANGED <<seed, oldcrc32, n, register>>

Return == ReturnToMain(Low15(r)) /\ UNCHANGED <<seed, oldcrc32, n, r, register>>

VerifyCrc == Verify(result = BitsOf(11433, 15)) /\ UNCHANGED <<seed, oldcrc32, n, r, register>>

(* Before the first iteration r is not initialised; warm_caches (0) returns *)
(* it, and nobody looks at it.                                              *)
CrcInit ==
  /\ MainInit
  /\ seed = 0 /\ oldcrc32 = 0 .. 31 /\ n = 0 /\ r \in {{}, 0 .. 31} /\ register = 0 .. 31

CrcNext ==
  \/ WarmCaches /\ UNCHANGED <<seed, oldcrc32, n, r, register>>
  \/ Begin \/ Update \/ End \/ Return \/ VerifyCrc

CrcSpec == CrcInit /\ [][CrcNext]_crcVars

-----------------------------------------------------------------------------
(* The checksum made octet by octet from the table is the one a serial      *)
(* shift register makes bit by bit (crc_32.c:49, 66-83, 151-165).           *)
CrcIsShiftRegister == oldcrc32 = register
=============================================================================
