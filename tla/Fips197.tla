------------------------------ MODULE Fips197 -------------------------------
(***************************************************************************)
(* What AES promises: key expansion, cipher and inverse cipher as FIPS 197 *)
(* describes them (sections 5.1 - 5.3), block after block.  A column is a  *)
(* function from rows to octets, a state a function from columns.          *)
(***************************************************************************)
EXTENDS Words, Sequences

CONSTANTS
  Box, InvBox,          \* the S-box and its inverse
  Products,             \* Products[p][n]: of the coefficient p and the octet with the number n
  MixTerms, InvMixTerms \* the coefficients of MixColumns and InvMixColumns

VARIABLES
  Nk,        \* words of the key
  schedule,  \* the round keys so far, a sequence of columns
  mode,      \* "key", or "encrypt" or "decrypt" while blocks are processed
  in, out,   \* the blocks to process, the blocks that are done
  round,     \* of the block after out; 0 before its first round key
  state

vars == <<Nk, schedule, mode, in, out, round, state>>

Times(a, p) == Products[p][Number(a)]

Block == [0 .. 3 -> [0 .. 3 -> Octet]]

Nb == 4
Nr == Nk + 6
Full(k) == Len(k) = Nb * (Nr + 1)

ColumnXor(a, b) == [r \in 0 .. 3 |-> Xor(a[r], b[r])]

RotWord(a) == [r \in 0 .. 3 |-> a[(r + 1) % 4]]
SubWord(a) == [r \in 0 .. 3 |-> Box[Number(a[r])]]

(* Rcon[i]: x to the i - 1 in row 0. *)
Power[n \in 0 .. 9] == IF n = 0 THEN {0} ELSE Times(Power[n - 1], {1})
Rcon(i) == [r \in 0 .. 3 |-> IF r = 0 THEN Power[i - 1] ELSE {}]

NextWord ==
  LET i    == Len(schedule)
      last == schedule[i]
      temp == CASE i % Nk = 0            -> ColumnXor(SubWord(RotWord(last)), Rcon(i \div Nk))
                [] Nk > 6 /\ i % Nk = 4  -> SubWord(last)
                [] OTHER                 -> last
  IN  ColumnXor(schedule[i + 1 - Nk], temp)

-----------------------------------------------------------------------------
EachOctet(f(_, _)) == [c \in 0 .. 3 |-> [r \in 0 .. 3 |-> f(c, r)]]

SubBytes(s, box) == EachOctet(LAMBDA c, r : box[Number(s[c][r])])
ShiftRows(s)     == EachOctet(LAMBDA c, r : s[(c + r) % 4][r])
InvShiftRows(s)  == EachOctet(LAMBDA c, r : s[(c - r) % 4][r])

MixColumns(s, terms) ==
  LET term(c, r, k) == Times(s[c][k], terms[((r - k) % 4) + 1])
  IN  EachOctet(LAMBDA c, r : Xor(Xor(term(c, r, 0), term(c, r, 1)),
                                  Xor(term(c, r, 2), term(c, r, 3))))

AddRoundKey(s, i) == EachOctet(LAMBDA c, r : Xor(s[c][r], schedule[Nb * i + c + 1][r]))

(* The round keys are used backwards by the inverse cipher. *)
KeyOf(i) == IF mode = "decrypt" THEN Nr - i ELSE i

-----------------------------------------------------------------------------
SetKey ==
  /\ mode = "key" /\ mode' = "key"
  /\ Nk' \in {4, 6, 8} /\ Len(schedule') = Nk'
  /\ UNCHANGED <<in, out, round, state>>

ExpandKey ==
  /\ mode = "key" /\ Len(schedule) >= Nk /\ ~Full(schedule)
  /\ schedule' = Append(schedule, NextWord)
  /\ UNCHANGED <<Nk, mode, in, out, round, state>>

Start ==
  /\ mode = "key" /\ Full(schedule)
  /\ mode' \in {"encrypt", "decrypt"} /\ in' \in Seq(Block) /\ out' = <<>> /\ round' = 0
  /\ UNCHANGED <<Nk, schedule, state>>

FirstKey ==
  /\ mode # "key" /\ round = 0 /\ Len(out) < Len(in)
  /\ state' = AddRoundKey(in[Len(out) + 1], KeyOf(0))
  /\ round' = 1
  /\ UNCHANGED <<Nk, schedule, mode, in, out>>

Round ==
  /\ round \in 1 .. Nr - 1
  /\ round' = round + 1
  /\ state' = IF mode = "encrypt"
              THEN AddRoundKey(MixColumns(ShiftRows(SubBytes(state, Box)), MixTerms), KeyOf(round))
              ELSE MixColumns(AddRoundKey(SubBytes(InvShiftRows(state), InvBox), KeyOf(round)), InvMixTerms)
  /\ UNCHANGED <<Nk, schedule, mode, in, out>>

FinalRound ==
  /\ round = Nr
  /\ round' = 0
  /\ out' = Append(out, AddRoundKey(IF mode = "encrypt" THEN ShiftRows(SubBytes(state, Box))
                                                        ELSE SubBytes(InvShiftRows(state), InvBox),
                                    KeyOf(Nr)))
  /\ UNCHANGED <<Nk, schedule, mode, in, state>>

Stop ==
  /\ mode # "key" /\ round = 0 /\ Len(out) = Len(in)
  /\ mode' = "key" /\ in' = <<>> /\ out' = <<>> /\ round' = 0
  /\ UNCHANGED <<Nk, schedule, state>>

Init ==
  /\ Nk \in {4, 6, 8} /\ schedule = <<>> /\ mode = "key"
  /\ in = <<>> /\ out = <<>> /\ round = 0 /\ state \in Block

Next == SetKey \/ ExpandKey \/ Start \/ FirstKey \/ Round \/ FinalRound \/ Stop

Spec == Init /\ [][Next]_vars
=============================================================================
