---------------------------- MODULE KeyReversal -----------------------------
(***************************************************************************)
(* _nettle_aes_invert of sw/nettle-aes, in place: the subkeys, a group of  *)
(* 4 for each round and one more, change to the opposite order by swapping *)
(* groups from both ends.                                                  *)
(***************************************************************************)
EXTENDS Integers

CONSTANTS
  Index,  \* of the array of subkeys
  Value   \* of a subkey

VARIABLES
  rounds,
  src,    \* the subkeys before
  dst,
  i, j    \* the first words of the groups that are swapped next

reversalVars == <<rounds, src, dst, i, j>>

(* What the code does where src is not dst: copies in the opposite order.   *)
Copied(first, k) == src[rounds * 4 - first + k]

Groups == {4 * g : g \in 0 .. rounds}

ReversalInit ==
  /\ rounds \in Nat /\ 0 .. 4 * rounds + 3 \subseteq Index
  /\ src \in [Index -> Value] /\ dst = src
  /\ i = 0 /\ j = rounds * 4

(* A group is 4 words: SWAP (dst[i + k], dst[j + k]) for k = 0 .. 3.        *)
Swapped(d, a, b) ==
  [x \in Index |-> IF x \in a .. a + 3 THEN d[b + (x - a)]
                      ELSE IF x \in b .. b + 3 THEN d[a + (x - b)]
                      ELSE d[x]]

SwapGroup ==
  /\ i < j
  /\ dst' = Swapped(dst, i, j)
  /\ i' = i + 4 /\ j' = j - 4
  /\ UNCHANGED <<rounds, src>>

ReversalSpec == ReversalInit /\ [][SwapGroup]_reversalVars

-----------------------------------------------------------------------------
(* The swaps in place end with what copying gives (nettle-aes.c:881-898).   *)
GroupsReversed ==
  i >= j => \A first \in Groups, k \in 0 .. 3 : dst[first + k] = Copied(first, k)
=============================================================================
