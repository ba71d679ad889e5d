-------------------------------- MODULE Aes ---------------------------------
(***************************************************************************)
(* The program sw/nettle-aes: main.c with nettle-aes.c.  benchmark_body    *)
(* sets a key, encrypts, sets the key for decryption and decrypts.  A step *)
(* is a subkey, a swap of groups of subkeys, or a round.                   *)
(***************************************************************************)
EXTENDS Embench, AesData

CONSTANT AesCalls  \* key sizes and lengths in octets that the functions are called with

(* benchmark_body's own call; the others use the functions as a library.    *)
OwnCall == [keysize |-> 32, length |-> 256]
ASSUME CallAssumption ==   \* the arrays of the program hold 256 octets
  OwnCall \in AesCalls /\ AesCalls \subseteq [keysize : Nat, length : 0 .. 256]

VARIABLES
  call, step,
  enc, dec,    \* struct aes_ctx encctx, decctx: rounds and keys
  i, j, rp,    \* subkeys of _aes_set_key and _nettle_aes_invert, the next rcon
  block, w, round,       \* _nettle_aes_encrypt, _nettle_aes_decrypt
  encrypted, decrypted,
  expanded     \* history: the subkeys in the order in which they were made

keyVars   == <<enc, dec, i, j, rp, expanded>>
textVars  == <<encrypted, decrypted>>
blockVars == <<block, w, round>>
aesVars   == <<call, step, keyVars, blockVars, textVars>>

KeyWords == 4 * (14 + 1)   \* of struct aes_ctx

-----------------------------------------------------------------------------
(* The macros. *)

LE_READ_UINT32(p, at_) == Joined([k \in 0 .. 3 |-> p[at_ + k]])

(* LE_WRITE_UINT32 of the words t[0] .. t[3] from octet at_ on. *)
Written(p, at_, t) ==
  [o \in DOMAIN p |-> IF o \in at_ .. at_ + 15 THEN OctetAt(t[(o - at_) \div 4], (o - at_) % 4) ELSE p[o]]

SUBBYTE(x, box) == Joined([k \in 0 .. 3 |-> box[Number(OctetAt(x, k))]])

Xor4(a, b, c, d) == Xor(Xor(a, b), Xor(c, d))

(* A round of the words ws[0] .. ws[3] with the subkey k. *)
AES_ROUND(T, ws, k) ==
  Xor(Xor4(T[0][Number(OctetAt(ws[0], 0))], T[1][Number(OctetAt(ws[1], 1))],
           T[2][Number(OctetAt(ws[2], 2))], T[3][Number(OctetAt(ws[3], 3))]), k)

AES_FINAL_ROUND(sbox, ws, k) == Xor(Joined([m \in 0 .. 3 |-> sbox[Number(OctetAt(ws[m], m))]]), k)

-----------------------------------------------------------------------------
(* Slips for the checks to detect. *)
KeysizeAnySmaller(keysize) == keysize <= 32
MIX_COLUMNNoRotation(k) ==
  Xor4(mtable[Number(OctetAt(k, 0))], Rotated(8, mtable[Number(OctetAt(k, 1))]),
       Rotated(16, mtable[Number(OctetAt(k, 2))]), mtable[Number(OctetAt(k, 3))])
SubkeyTermEvery4th(t, n, nk) ==
  CASE n % nk = 0            -> Xor(SUBBYTE(Rotated(24, t), encrypt_sbox), rcon[rp])
    [] nk >= 6 /\ n % nk = 4 -> SUBBYTE(t, encrypt_sbox)
    [] OTHER                 -> t

KeysizeOk(keysize) == keysize >= 16 /\ keysize <= 32   \* or exit (1)
LengthOk(length)   == length % 16 = 0                  \* or exit (1)

(* Key sizes are truncated to the valid ones. *)
NkOf(keysize) == CASE keysize = 32 -> 8 [] keysize \in 24 .. 31 -> 6 [] OTHER -> 4
NrOf(keysize) == CASE keysize = 32 -> 14 [] keysize \in 24 .. 31 -> 12 [] OTHER -> 10

MIX_COLUMN(k) ==
  Xor4(mtable[Number(OctetAt(k, 0))], Rotated(8, mtable[Number(OctetAt(k, 1))]),
       Rotated(16, mtable[Number(OctetAt(k, 2))]), Rotated(24, mtable[Number(OctetAt(k, 3))]))

(* What is added to subkeys[n - nk], from t = subkeys[n - 1]. *)
SubkeyTerm(t, n, nk) ==
  CASE n % nk = 0           -> Xor(SUBBYTE(Rotated(24, t), encrypt_sbox), rcon[rp])
    [] nk > 6 /\ n % nk = 4 -> SUBBYTE(t, encrypt_sbox)
    [] OTHER                -> t

-----------------------------------------------------------------------------
(* Keys. *)

Exit ==
  /\ at' = "exit" /\ step' = "exited"
  /\ UNCHANGED <<rpt, busy, result, correct, call, keyVars, blockVars, textVars>>

Encrypting == step \in {"set_encrypt_key", "expand_encrypt_key", "encrypt"}
Ctx        == IF Encrypting THEN enc ELSE dec
SetCtx(c)  == IF Encrypting THEN enc' = c /\ UNCHANGED dec ELSE dec' = c /\ UNCHANGED enc

BeginAes ==
  /\ BeginBody
  /\ step' = "set_encrypt_key"
  /\ UNCHANGED <<call, keyVars, blockVars, textVars>>

(* aes_set_encrypt_key, also where aes_set_decrypt_key calls it, and the    *)
(* first loop of _aes_set_key.                                              *)
SetKey ==
  /\ step \in {"set_encrypt_key", "set_decrypt_key"} /\ KeysizeOk(call.keysize)
  /\ LET nk    == NkOf(call.keysize)
         first == [n \in 0 .. nk - 1 |-> LE_READ_UINT32(key, 4 * n)]
     IN  /\ SetCtx([rounds |-> NrOf(call.keysize),
                    keys   |-> [n \in 0 .. KeyWords - 1 |-> IF n < nk THEN first[n] ELSE Ctx.keys[n]]])
         /\ expanded' = [n \in 1 .. nk |-> first[n - 1]]
         /\ i' = nk /\ rp' = 0 /\ UNCHANGED j
  /\ step' = IF Encrypting THEN "expand_encrypt_key" ELSE "expand_decrypt_key"
  /\ UNCHANGED <<mainVars, call, blockVars, textVars>>

SetKeyExits ==
  /\ step \in {"set_encrypt_key", "set_decrypt_key"} /\ ~KeysizeOk(call.keysize)
  /\ Exit

Expanding == step \in {"expand_encrypt_key", "expand_decrypt_key"}
lastkey   == 4 * (Ctx.rounds + 1)

ExpandKey ==
  /\ Expanding /\ i < lastkey
  /\ LET nk     == NkOf(call.keysize)
         subkey == Xor(Ctx.keys[i - nk], SubkeyTerm(Ctx.keys[i - 1], i, nk))
     IN  /\ SetCtx([Ctx EXCEPT !.keys[i] = subkey])
         /\ expanded' = Append(expanded, subkey)
         /\ rp' = IF i % nk = 0 THEN rp + 1 ELSE rp
  /\ i' = i + 1
  /\ UNCHANGED <<mainVars, call, step, j, blockVars, textVars>>

(* aes_set_encrypt_key returns: to aes_invert_key, or to benchmark_body,    *)
(* which calls aes_encrypt.                                                 *)
KeyExpanded ==
  /\ Expanding /\ i = lastkey
  /\ IF Encrypting
     THEN IF LengthOk(call.length)
          THEN /\ step' = "encrypt" /\ block' = 0 /\ round' = 0
               /\ UNCHANGED <<mainVars, call, keyVars, w, textVars>>
          ELSE Exit
     ELSE /\ step' = "invert" /\ i' = 0 /\ j' = dec.rounds * 4
          /\ UNCHANGED <<mainVars, call, enc, dec, rp, expanded, blockVars, textVars>>

(* _nettle_aes_invert (rounds, keys, keys).                                 *)
Reversal ==
  INSTANCE KeyReversal WITH Index <- 0 .. KeyWords - 1, Value <- Word, rounds <- dec.rounds,
                            src <- [n \in 0 .. KeyWords - 1 |-> IF n < Len(expanded) THEN expanded[n + 1] ELSE {}],
                            dst <- dec.keys

MoreGroups == i < j

InvertKeys ==
  /\ step = "invert" /\ MoreGroups
  /\ dec' = [dec EXCEPT !.keys = Reversal!Swapped(@, i, j)]
  /\ i' = i + 4 /\ j' = j - 4
  /\ UNCHANGED <<mainVars, call, step, enc, rp, expanded, blockVars, textVars>>

KeysInverted ==
  /\ step = "invert" /\ ~MoreGroups
  /\ step' = "mix" /\ i' = 4
  /\ UNCHANGED <<mainVars, call, enc, dec, j, rp, expanded, blockVars, textVars>>

(* All subkeys but the first and the last group. *)
MixKey ==
  /\ step = "mix" /\ i < 4 * dec.rounds
  /\ dec' = [dec EXCEPT !.keys[i] = MIX_COLUMN(@)]
  /\ i' = i + 1
  /\ UNCHANGED <<mainVars, call, step, enc, j, rp, expanded, blockVars, textVars>>

(* aes_set_decrypt_key returns, and aes_decrypt asserts the length, which   *)
(* aes_encrypt did before.                                                  *)
KeysMixed ==
  /\ step = "mix" /\ i = 4 * dec.rounds
  /\ step' = "decrypt" /\ block' = 0 /\ round' = 0
  /\ UNCHANGED <<mainVars, call, keyVars, w, textVars>>

-----------------------------------------------------------------------------
(* Blocks. *)

Ciphering == step \in {"encrypt", "decrypt"}
Source    == IF Encrypting THEN plaintext ELSE encrypted
Blocks    == call.length \div 16

encrypt_table ==
  [k \in 0 .. 3 |-> <<encrypt_table0, encrypt_table1, encrypt_table2, encrypt_table3>>[k + 1]]
decrypt_table ==
  [k \in 0 .. 3 |-> <<decrypt_table0, decrypt_table1, decrypt_table2, decrypt_table3>>[k + 1]]

(* The words that go into word n of a round, in the order of the tables.    *)
Into(n) == [m \in 0 .. 3 |-> w[(IF Encrypting THEN n + m ELSE n - m) % 4]]

FirstSubkeys ==
  /\ Ciphering /\ round = 0 /\ block < Blocks
  /\ w' = [n \in 0 .. 3 |-> Xor(LE_READ_UINT32(Source, 16 * block + 4 * n), Ctx.keys[n])]
  /\ round' = 1
  /\ UNCHANGED <<mainVars, call, step, keyVars, block, textVars>>

AesRound ==
  /\ Ciphering /\ round \in 1 .. Ctx.rounds - 1
  /\ LET T == IF Encrypting THEN encrypt_table ELSE decrypt_table
     IN  w' = [n \in 0 .. 3 |-> AES_ROUND(T, Into(n), Ctx.keys[4 * round + n])]
  /\ round' = round + 1
  /\ UNCHANGED <<mainVars, call, step, keyVars, block, textVars>>

(* The final round, and t0 .. t3 are written to dst. *)
AesFinalRound ==
  /\ Ciphering /\ round = Ctx.rounds
  /\ LET sbox == IF Encrypting THEN encrypt_sbox ELSE decrypt_sbox
         t    == [n \in 0 .. 3 |-> AES_FINAL_ROUND(sbox, Into(n), Ctx.keys[4 * round + n])]
     IN  IF Encrypting
         THEN encrypted' = Written(encrypted, 16 * block, t) /\ UNCHANGED decrypted
         ELSE decrypted' = Written(decrypted, 16 * block, t) /\ UNCHANGED encrypted
  /\ block' = block + 1 /\ round' = 0
  /\ UNCHANGED <<mainVars, call, step, keyVars, w>>

(* No block is left: aes_encrypt returns, and aes_set_decrypt_key is next,  *)
(* or aes_decrypt returns and the iteration ends.                           *)
BlocksDone ==
  /\ Ciphering /\ round = 0 /\ block = Blocks
  /\ IF Encrypting
     THEN step' = "set_decrypt_key" /\ UNCHANGED mainVars
     ELSE step' = "done" /\ EndBody
  /\ UNCHANGED <<call, keyVars, blockVars, textVars>>

(* The subkeys of the 32 octets of key, eight by eight, and the words after *)
(* every round of every block of plaintext: a closed computation, whose end *)
(* is the array that verify_benchmark knows.                                *)
NextSubkeys(k, g) ==
  LET k0 == Xor(k[1], Xor(SUBBYTE(Rotated(24, k[8]), encrypt_sbox), rcon[g]))
      k1 == Xor(k[2], k0)   k2 == Xor(k[3], k1)   k3 == Xor(k[4], k2)
      k4 == Xor(k[5], SUBBYTE(k3, encrypt_sbox))
      k5 == Xor(k[6], k4)   k6 == Xor(k[7], k5)   k7 == Xor(k[8], k6)
  IN  <<k0, k1, k2, k3, k4, k5, k6, k7>>

OwnSubkeys[g \in 0 .. 7] ==
  IF g = 0 THEN [m \in 1 .. 8 |-> LE_READ_UINT32(key, 4 * (m - 1))]
           ELSE NextSubkeys(OwnSubkeys[g - 1], g - 1)

OwnSubkey(m) == OwnSubkeys[m \div 8][(m % 8) + 1]

Four(word(_)) == <<word(0), word(1), word(2), word(3)>>

OwnFirst(b)     == Four(LAMBDA c : Xor(LE_READ_UINT32(plaintext, 16 * b + 4 * c), OwnSubkey(c)))
OwnInto(ws, c)  == [m \in 0 .. 3 |-> ws[((c + m) % 4) + 1]]
OwnRound(ws, q) == Four(LAMBDA c : AES_ROUND(encrypt_table, OwnInto(ws, c), OwnSubkey(4 * q + c)))

OwnWords[n \in 0 .. 16 * 14 - 1] ==
  IF n % 14 = 0 THEN OwnFirst(n \div 14) ELSE OwnRound(OwnWords[n - 1], n % 14)

OwnOctet(b, o) ==
  OctetAt(AES_FINAL_ROUND(encrypt_sbox, OwnInto(OwnWords[14 * b + 13], o \div 4), OwnSubkey(56 + o \div 4)), o % 4)

ASSUME KnownCipher == \A b, o \in 0 .. 15 : expected[16 * b + o] = OwnOctet(b, o)

ReturnAes == ReturnToMain(0) /\ UNCHANGED aesVars

(* verify_benchmark compares whole arrays, and knows only the own call.     *)
VerifyAes ==
  /\ call = OwnCall
  /\ Verify(encrypted = expected /\ plaintext = decrypted)
  /\ UNCHANGED aesVars

AesInit ==
  /\ call \in AesCalls /\ step = "start"
  /\ enc = [rounds |-> 0, keys |-> [n \in 0 .. KeyWords - 1 |-> {}]] /\ dec = enc
  /\ i = 0 /\ j = 0 /\ rp = 0 /\ block = 0 /\ round = 0 /\ w = [n \in 0 .. 3 |-> {}]
  /\ encrypted = [o \in 0 .. 255 |-> {}] /\ decrypted = encrypted
  /\ expanded = <<>>

AesNext ==
  \/ WarmCaches /\ UNCHANGED aesVars
  \/ BeginAes \/ SetKey \/ SetKeyExits \/ ExpandKey \/ KeyExpanded
  \/ InvertKeys \/ KeysInverted \/ MixKey \/ KeysMixed
  \/ FirstSubkeys \/ AesRound \/ AesFinalRound \/ BlocksDone
  \/ ReturnAes \/ VerifyAes

AesSpec == MainInit /\ AesInit /\ [][AesNext]_<<mainVars, aesVars>>

-----------------------------------------------------------------------------
ColumnOf(word) == [r \in 0 .. 3 |-> OctetAt(word, r)]
BlocksOf(p, count) ==
  [b \in 1 .. count |-> [c \in 0 .. 3 |-> [r \in 0 .. 3 |-> p[16 * (b - 1) + 4 * c + r]]]]

Fips ==
  INSTANCE Fips197 WITH
    Box <- SubByte, InvBox <- InvSubByte, Products <- Product,
    Nk <- NkOf(call.keysize), schedule <- [n \in 1 .. Len(expanded) |-> ColumnOf(expanded[n])],
    mode <- IF Ciphering THEN step ELSE "key",
    in <- IF Ciphering THEN BlocksOf(Source, Blocks) ELSE <<>>,
    out <- IF step = "encrypt" THEN BlocksOf(encrypted, block)
           ELSE IF step = "decrypt" THEN BlocksOf(decrypted, block) ELSE <<>>,
    state <- [c \in 0 .. 3 |-> ColumnOf(w[c])],
    round <- IF Ciphering THEN round ELSE 0

(* Key expansion, tables of words, the order of the words in a round, the   *)
(* subkeys in opposite order and multiplied: for every key size, what comes *)
(* out is the cipher and the inverse cipher of FIPS 197, block for block    *)
(* (nettle-aes.c:723-1027).                                                 *)
CipherRefinement == Fips!Spec

(* Decryption gives the plaintext back (nettle-aes.c:1159-1174).            *)
RoundTrip ==
  step = "done" =>
    \A o \in 0 .. call.length - 1 : decrypted[o] = plaintext[o]

(* The functions read no octet after the key, no entry after the last rcon, *)
(* and write no subkey after the last of struct aes_ctx                     *)
(* (nettle-aes.c:714-751, 756-783).                                         *)
KeysInBounds ==
  /\ Expanding => 4 * NkOf(call.keysize) <= call.keysize
  /\ Expanding /\ i < lastkey => i < KeyWords /\ (i % NkOf(call.keysize) = 0 => rp \in DOMAIN rcon)
=============================================================================
