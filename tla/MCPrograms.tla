----------------------------- MODULE MCPrograms -----------------------------
(***************************************************************************)
(* Instance of Programs for TLC.                                           *)
(***************************************************************************)
EXTENDS Programs, Crc32Table

(* The key sizes of AES-128, -192 and -256 and one that is truncated, one   *)
(* that is too short and one too long, and a length that is no multiple of  *)
(* a block.                                                                 *)
MCCalls ==
  {OwnCall} \cup {[keysize |-> k, length |-> 32] : k \in {15, 16, 20, 24, 33}}
            \cup {[keysize |-> 32, length |-> 17]}

MCHeaps == {[heap |-> 1, heap_size |-> 4], [heap |-> 3, heap_size |-> 3]}
=============================================================================
