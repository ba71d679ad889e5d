------------------------------ MODULE AesData ------------------------------
(***************************************************************************)
(* The data of sw/nettle-aes/nettle-aes.c: S-boxes, key, texts, and the    *)
(* word tables.  The program spells out the word tables; each entry was    *)
(* found to be a column of multiples in GF(2^8), rotated by its table.     *)
(***************************************************************************)
EXTENDS Rijndael, Sequences

Octets(numbers) == [k \in 0 .. Len(numbers) - 1 |-> BitsOf(numbers[k + 1], 8)]

encrypt_sbox == Octets(<<
  \h63, \h7c, \h77, \h7b, \hf2, \h6b, \h6f, \hc5, \h30, \h01, \h67, \h2b, \hfe, \hd7, \hab, \h76, \hca, \h82, \hc9, \h7d,
  \hfa, \h59, \h47, \hf0, \had, \hd4, \ha2, \haf, \h9c, \ha4, \h72, \hc0, \hb7, \hfd, \h93, \h26, \h36, \h3f, \hf7, \hcc,
  \h34, \ha5, \he5, \hf1, \h71, \hd8, \h31, \h15, \h04, \hc7, \h23, \hc3, \h18, \h96, \h05, \h9a, \h07, \h12, \h80, \he2,
  \heb, \h27, \hb2, \h75, \h09, \h83, \h2c, \h1a, \h1b, \h6e, \h5a, \ha0, \h52, \h3b, \hd6, \hb3, \h29, \he3, \h2f, \h84,
  \h53, \hd1, \h00, \hed, \h20, \hfc, \hb1, \h5b, \h6a, \hcb, \hbe, \h39, \h4a, \h4c, \h58, \hcf, \hd0, \hef, \haa, \hfb,
  \h43, \h4d, \h33, \h85, \h45, \hf9, \h02, \h7f, \h50, \h3c, \h9f, \ha8, \h51, \ha3, \h40, \h8f, \h92, \h9d, \h38, \hf5,
  \hbc, \hb6, \hda, \h21, \h10, \hff, \hf3, \hd2, \hcd, \h0c, \h13, \hec, \h5f, \h97, \h44, \h17, \hc4, \ha7, \h7e, \h3d,
  \h64, \h5d, \h19, \h73, \h60, \h81, \h4f, \hdc, \h22, \h2a, \h90, \h88, \h46, \hee, \hb8, \h14, \hde, \h5e, \h0b, \hdb,
  \he0, \h32, \h3a, \h0a, \h49, \h06, \h24, \h5c, \hc2, \hd3, \hac, \h62, \h91, \h95, \he4, \h79, \he7, \hc8, \h37, \h6d,
  \h8d, \hd5, \h4e, \ha9, \h6c, \h56, \hf4, \hea, \h65, \h7a, \hae, \h08, \hba, \h78, \h25, \h2e, \h1c, \ha6, \hb4, \hc6,
  \he8, \hdd, \h74, \h1f, \h4b, \hbd, \h8b, \h8a, \h70, \h3e, \hb5, \h66, \h48, \h03, \hf6, \h0e, \h61, \h35, \h57, \hb9,
  \h86, \hc1, \h1d, \h9e, \he1, \hf8, \h98, \h11, \h69, \hd9, \h8e, \h94, \h9b, \h1e, \h87, \he9, \hce, \h55, \h28, \hdf,
  \h8c, \ha1, \h89, \h0d, \hbf, \he6, \h42, \h68, \h41, \h99, \h2d, \h0f, \hb0, \h54, \hbb, \h16>>)

decrypt_sbox == Octets(<<
  \h52, \h09, \h6a, \hd5, \h30, \h36, \ha5, \h38, \hbf, \h40, \ha3, \h9e, \h81, \hf3, \hd7, \hfb, \h7c, \he3, \h39, \h82,
  \h9b, \h2f, \hff, \h87, \h34, \h8e, \h43, \h44, \hc4, \hde, \he9, \hcb, \h54, \h7b, \h94, \h32, \ha6, \hc2, \h23, \h3d,
  \hee, \h4c, \h95, \h0b, \h42, \hfa, \hc3, \h4e, \h08, \h2e, \ha1, \h66, \h28, \hd9, \h24, \hb2, \h76, \h5b, \ha2, \h49,
  \h6d, \h8b, \hd1, \h25, \h72, \hf8, \hf6, \h64, \h86, \h68, \h98, \h16, \hd4, \ha4, \h5c, \hcc, \h5d, \h65, \hb6, \h92,
  \h6c, \h70, \h48, \h50, \hfd, \hed, \hb9, \hda, \h5e, \h15, \h46, \h57, \ha7, \h8d, \h9d, \h84, \h90, \hd8, \hab, \h00,
  \h8c, \hbc, \hd3, \h0a, \hf7, \he4, \h58, \h05, \hb8, \hb3, \h45, \h06, \hd0, \h2c, \h1e, \h8f, \hca, \h3f, \h0f, \h02,
  \hc1, \haf, \hbd, \h03, \h01, \h13, \h8a, \h6b, \h3a, \h91, \h11, \h41, \h4f, \h67, \hdc, \hea, \h97, \hf2, \hcf, \hce,
  \hf0, \hb4, \he6, \h73, \h96, \hac, \h74, \h22, \he7, \had, \h35, \h85, \he2, \hf9, \h37, \he8, \h1c, \h75, \hdf, \h6e,
  \h47, \hf1, \h1a, \h71, \h1d, \h29, \hc5, \h89, \h6f, \hb7, \h62, \h0e, \haa, \h18, \hbe, \h1b, \hfc, \h56, \h3e, \h4b,
  \hc6, \hd2, \h79, \h20, \h9a, \hdb, \hc0, \hfe, \h78, \hcd, \h5a, \hf4, \h1f, \hdd, \ha8, \h33, \h88, \h07, \hc7, \h31,
  \hb1, \h12, \h10, \h59, \h27, \h80, \hec, \h5f, \h60, \h51, \h7f, \ha9, \h19, \hb5, \h4a, \h0d, \h2d, \he5, \h7a, \h9f,
  \h93, \hc9, \h9c, \hef, \ha0, \he0, \h3b, \h4d, \hae, \h2a, \hf5, \hb0, \hc8, \heb, \hbb, \h3c, \h83, \h53, \h99, \h61,
  \h17, \h2b, \h04, \h7e, \hba, \h77, \hd6, \h26, \he1, \h69, \h14, \h63, \h55, \h21, \h0c, \h7d>>)

(* table[0]: the S-box, then the column of MixColumns or its inverse.      *)
encrypt_table0 == [k \in 0 .. 255 |-> Joined(Multiples(encrypt_sbox[k], MixTerms))]
decrypt_table0 == [k \in 0 .. 255 |-> Joined(Multiples(decrypt_sbox[k], InvMixTerms))]

(* table[1 .. 3]: its words, rotated by 1 .. 3 octets. *)
encrypt_table1 == [k \in 0 .. 255 |-> Rotated(8, encrypt_table0[k])]
encrypt_table2 == [k \in 0 .. 255 |-> Rotated(16, encrypt_table0[k])]
encrypt_table3 == [k \in 0 .. 255 |-> Rotated(24, encrypt_table0[k])]
decrypt_table1 == [k \in 0 .. 255 |-> Rotated(8, decrypt_table0[k])]
decrypt_table2 == [k \in 0 .. 255 |-> Rotated(16, decrypt_table0[k])]
decrypt_table3 == [k \in 0 .. 255 |-> Rotated(24, decrypt_table0[k])]

(* The column of InvMixColumns of a number itself. *)
mtable == [k \in 0 .. 255 |-> Joined(Multiples(BitsOf(k, 8), InvMixTerms))]

(* The S-boxes are those of FIPS 197, and the tables hold words. *)
ASSUME TablesAssumption ==
  /\ encrypt_sbox = SubByte /\ decrypt_sbox = InvSubByte
  /\ {encrypt_table0, encrypt_table1, encrypt_table2, encrypt_table3, mtable,
      decrypt_table0, decrypt_table1, decrypt_table2, decrypt_table3} \subseteq [0 .. 255 -> Word]

rcon == Octets(<<\h01, \h02, \h04, \h08, \h10, \h20, \h40, \h80, \h1b, \h36>>)

key == Octets(<<
  \hc9, \h95, \h55, \h31, \ha6, \h50, \hd1, \h54, \h7b, \hd8, \hc5, \haa, \ha4, \ha4, \hbd, \hac, \h5c, \hea, \h12, \hc7,
  \hf8, \h83, \hd6, \hb8, \h5d, \hd6, \hcf, \h2d, \h60, \hc8, \ha5, \hf0>>)

plaintext == Octets(<<
  \hd7, \h7f, \hb3, \h8c, \h22, \h25, \hc4, \h6f, \hb9, \hd5, \hc9, \h18, \hc0, \h92, \hd0, \h08, \h85, \h2a, \hf3, \h68,
  \hbd, \h84, \haf, \hf2, \h0c, \h8b, \hf5, \h1e, \h51, \h70, \h46, \h70, \h9e, \h8b, \hde, \he1, \h86, \ha1, \hf8, \hcd,
  \h71, \h02, \h9f, \ha1, \h7b, \h44, \hb0, \h82, \h40, \h7f, \hce, \hb4, \hbe, \h5d, \hbc, \h8e, \h19, \h43, \h0b, \h3a,
  \h46, \h69, \ha0, \hcc, \hed, \h4f, \h61, \haf, \ha6, \ha9, \h5b, \h47, \h69, \h51, \hd5, \h00, \h77, \h7e, \hde, \h2e,
  \h7e, \ha6, \h3c, \he0, \h33, \hdf, \hed, \h40, \h3f, \h1a, \hc7, \he0, \hc7, \h46, \he3, \h3b, \h90, \h4e, \h64, \h55,
  \h2e, \h8d, \h36, \h3b, \h92, \h9b, \h87, \h6f, \hae, \h94, \h3d, \h0a, \hc8, \ha2, \h4e, \h7f, \h5a, \h83, \hec, \h18,
  \hfd, \h82, \h54, \hc8, \hd8, \hed, \h1e, \h52, \h7d, \hca, \hcf, \h4b, \hba, \h31, \h68, \hb9, \h78, \ha3, \hca, \h4e,
  \h72, \h86, \hb2, \h33, \h79, \hcb, \hcd, \ha6, \h43, \ha3, \h9c, \hfa, \hee, \h2a, \hae, \h3b, \h72, \hc6, \h46, \h32,
  \ha5, \h99, \h45, \h92, \h46, \h79, \hdc, \he3, \h3e, \ha9, \h8a, \h11, \h37, \h49, \h85, \he4, \h58, \h1a, \h1f, \h6e,
  \hd7, \haa, \he6, \h0a, \hc4, \h27, \hfd, \h46, \h5c, \h6c, \hb0, \h28, \h2e, \h6b, \h84, \h35, \h90, \h1a, \h6d, \h38,
  \hf2, \h69, \h4a, \hbc, \h96, \hec, \hd7, \h56, \h65, \h27, \hee, \ha6, \hb0, \h5f, \h9c, \h70, \h71, \ha5, \h2b, \hec,
  \h93, \h67, \h16, \hc1, \hc4, \hb3, \h43, \h70, \hb5, \h6d, \had, \h95, \h41, \hf0, \h02, \hfc, \h8d, \h58, \h8e, \ha1,
  \h46, \h32, \h34, \h68, \h11, \h8c, \hb3, \h3a, \hdb, \h54, \hbe, \h3a, \hb3, \h38, \h2e, \h7c>>)

expected == Octets(<<
  \h0f, \h17, \h00, \h10, \h07, \h82, \h7f, \hf9, \h45, \hda, \h15, \h0e, \h54, \h94, \h8f, \h22, \h74, \h9f, \h03, \hcd,
  \h58, \h1a, \hb2, \h6b, \h9a, \h68, \h05, \he7, \hcb, \h1f, \h75, \had, \h51, \h85, \h56, \ha1, \hf6, \hd8, \hb7, \hec,
  \h9e, \h0d, \hc3, \h48, \h7d, \haa, \hf7, \h99, \hc2, \h1d, \hea, \h3f, \h53, \hdb, \ha8, \h84, \hed, \h61, \hc0, \he7,
  \h38, \had, \hdc, \hb7, \h9b, \hfa, \hc0, \hb6, \h88, \h7c, \hf0, \h87, \h25, \h20, \hbc, \h0b, \h03, \h6d, \hb8, \h9b,
  \h10, \hd3, \ha8, \h87, \h38, \hba, \hdb, \h43, \h40, \h02, \h0f, \h89, \h6e, \h11, \h69, \h7e, \h15, \h4a, \hc5, \he3,
  \hb1, \h7a, \h9d, \h3b, \h74, \hbe, \h05, \h58, \h1e, \h40, \h73, \h1d, \h83, \ha0, \h45, \h89, \hfc, \hcf, \hc3, \h4e,
  \ha2, \h52, \hef, \h7e, \h5e, \h2c, \h98, \h38, \h26, \h57, \hb4, \h12, \h4e, \h24, \h10, \hac, \h7c, \h89, \h42, \h0d,
  \h9d, \haf, \h49, \h2f, \hc0, \h60, \h75, \h43, \hc5, \hd1, \hcc, \hfd, \h46, \hae, \h4e, \h38, \ha9, \hf3, \h83, \h98,
  \h9f, \hfa, \h0a, \h15, \h05, \h46, \h2a, \h0e, \hbe, \ha8, \hac, \h2d, \h59, \h27, \h2e, \h54, \h05, \h77, \h52, \h64,
  \h39, \h60, \hc4, \h7c, \ha7, \h30, \hb9, \h13, \h3b, \h1f, \hfe, \h37, \hb0, \hea, \hfd, \h3d, \h83, \hed, \h7e, \hf2,
  \hb0, \hf2, \h0a, \h86, \h78, \hb9, \h08, \h1f, \hff, \hc0, \h50, \had, \hb8, \h92, \h68, \h19, \h30, \h9c, \h7e, \he5,
  \h4c, \h57, \h5e, \ha6, \h58, \h3a, \h87, \h70, \h80, \h1a, \hcf, \h1e, \he8, \h3b, \h43, \hc6, \he9, \h27, \h47, \hba,
  \h9e, \h58, \h52, \h14, \hc0, \hb7, \hf1, \h77, \h77, \h8f, \h23, \h43, \h49, \h0e, \h24, \hce>>)

(* The rest of the data are octets, rcon holds the powers of x, and the     *)
(* S-boxes are inverse to each other.                                       *)
ASSUME DataAssumption ==
  /\ key \in [0 .. 31 -> Octet] /\ {plaintext, expected} \subseteq [0 .. 255 -> Octet]
  /\ {encrypt_sbox, decrypt_sbox} \subseteq [0 .. 255 -> Octet]
  /\ rcon \in [0 .. 9 -> Octet] /\ rcon[0] = {0}
  /\ \A n \in 1 .. 9 : rcon[n] = Product[{1}][Number(rcon[n - 1])]
  /\ \A k \in 0 .. 255 : decrypt_sbox[Number(encrypt_sbox[k])] = BitsOf(k, 8)
=============================================================================
