------------------------------ MODULE Rijndael ------------------------------
(***************************************************************************)
(* The field GF(2^8) of AES (FIPS 197, section 4) and its S-box (5.1.1):   *)
(* an octet is a polynomial, the set of the exponents it has.              *)
(***************************************************************************)
EXTENDS FiniteSets, Words

(* Multiplication by x, modulo x^8 + x^4 + x^3 + x + 1. *)
XTimes(a) ==
  Xor({b + 1 : b \in a \ {7}}, IF 7 \in a THEN {0, 1, 3, 4} ELSE {})

Term(p, b, a) == IF b \in p THEN a ELSE {}

Times(a, p) ==
  LET x1 == XTimes(a)   x2 == XTimes(x1)  x3 == XTimes(x2)  x4 == XTimes(x3)
      x5 == XTimes(x4)  x6 == XTimes(x5)  x7 == XTimes(x6)
  IN  Xor(Xor(Xor(Term(p, 0, a),  Term(p, 1, x1)), Xor(Term(p, 2, x2), Term(p, 3, x3))),
          Xor(Xor(Term(p, 4, x4), Term(p, 5, x5)), Xor(Term(p, 6, x6), Term(p, 7, x7))))

InverseOf(a) == IF a = {} THEN {} ELSE CHOOSE b \in Octet : Times(a, b) = {0}

(* The affine transformation: bit i is the sum of the bits i, i + 4 .. i + 7 and of bit i of 0x63. *)
Summed(k) == {k, (k + 4) % 8, (k + 5) % 8, (k + 6) % 8, (k + 7) % 8}
Affine(b) == {k \in 0 .. 7 : (Cardinality(b \cap Summed(k)) % 2 = 1) # (k \in {0, 1, 5, 6})}

(* Tables are indexed by numbers. *)
SubByte    == [k \in 0 .. 255 |-> Affine(InverseOf(BitsOf(k, 8)))]
InvSubByte == [k \in 0 .. 255 |-> BitsOf(CHOOSE m \in 0 .. 255 : Number(SubByte[m]) = k, 8)]

(* The products with the polynomials of MixColumns and InvMixColumns. *)
Product == [p \in {{0}, {1}, {0, 1}, {0, 3}, {0, 1, 3}, {0, 2, 3}, {1, 2, 3}} |->
             [k \in 0 .. 255 |-> Times(BitsOf(k, 8), p)]]

(* The coefficients of a column of MixColumns and of InvMixColumns: the     *)
(* multiples of an octet in rows 0 .. 3.                                    *)
MixTerms    == <<{1}, {0}, {0}, {0, 1}>>
InvMixTerms == <<{1, 2, 3}, {0, 3}, {0, 2, 3}, {0, 1, 3}>>

Multiples(a, terms) == [k \in 0 .. 3 |-> Product[terms[k + 1]][Number(a)]]
=============================================================================
