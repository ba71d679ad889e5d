-------------------------------- MODULE Words --------------------------------
(***************************************************************************)
(* Unsigned integers of C as sets of bit indices: an octet is a subset of  *)
(* 0 .. 7, a word of 32 bits a subset of 0 .. 31.                          *)
(***************************************************************************)
EXTENDS Integers

Octet == SUBSET (0 .. 7)
Word  == SUBSET (0 .. 31)

(* The low bits of a number. *)
BitsOf(number, width) == {b \in 0 .. width - 1 : (number \div 2 ^ b) % 2 = 1}

(* The number that an octet stands for. *)
Bit(o, b) == IF b \in o THEN 2 ^ b ELSE 0
Number(o) ==
  Bit(o, 0) + Bit(o, 1) + Bit(o, 2) + Bit(o, 3) + Bit(o, 4) + Bit(o, 5) + Bit(o, 6) + Bit(o, 7)

Xor(a, b)         == (a \ b) \cup (b \ a)           \* a ^ b
ShiftDown(a, k)   == {b - k : b \in {c \in a : c >= k}}  \* a >> k
Rotated(k, a)     == {(b + k) % 32 : b \in a}       \* ROTL32(k, a)
OctetAt(a, k)     == {b \in 0 .. 7 : b + 8 * k \in a}    \* B0 .. B3
Joined(o)         == {b \in 0 .. 31 : b % 8 \in o[b \div 8]}  \* o is [0 .. 3 -> Octet]
=============================================================================
