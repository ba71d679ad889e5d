----------------------------- MODULE AddressMap -----------------------------
(***************************************************************************)
(* The two interconnects of ibex_soc get the same parameters base_addr and *)
(* size; the shared bus decodes them as a range, the crossbar wrapper      *)
(* (soc/common/rtl/wb_interconnect_xbar.sv) turns them into an address and *)
(* a mask for wbxbar.  A state is the region of one slave and the address  *)
(* on the bus.                                                             *)
(***************************************************************************)
EXTENDS AddressDecode

CONSTANT Width   \* of an address

ASSUME WidthAssumption == Width \in Nat \ {0}

(* 2 to the power k, as a function so that it can be reasoned about. *)
Pow2[k \in Nat] == IF k = 0 THEN 1 ELSE 2 * Pow2[k - 1]

Space     == Pow2[Width]
Addresses == 0 .. Space - 1

VARIABLES base_addr, size, adr

vars == <<base_addr, size, adr>>

(* slave_mask = ~(size - 1); a slip for the checks: ~size. *)
MaskOfSize(z) == Space - 1 - z
MaskOf(z)     == Space - 1 - ((z - 1) % Space)

Bit(n, k) == (n \div Pow2[k]) % 2

(* wbxbar selects the slave whose address agrees in the bits of the mask:  *)
(* (adr ^ base_addr) & mask is 0.                                          *)
MaskHit(b, z, a) ==
  \A k \in 0 .. Width - 1 : Bit(MaskOf(z), k) = 1 => Bit(a, k) = Bit(b, k)

ss      == RangeHit(base_addr, size, adr, Space)
request == MaskHit(base_addr, size, adr)

Init == base_addr \in Addresses /\ size \in Addresses /\ adr \in Addresses
Next == adr' \in Addresses /\ UNCHANGED <<base_addr, size>>
Spec == Init /\ [][Next]_vars

-----------------------------------------------------------------------------
(* A region whose size is a power of two, that is aligned to its size and   *)
(* ends below the top of the address space.                                 *)
Plain(b, z) ==
  /\ \E k \in 0 .. Width - 1 : z = Pow2[k]
  /\ b % z = 0
  /\ b + z < Space

(* The interconnect may be exchanged (WBInterconnet of ibex_soc.sv:4) only  *)
(* over a map of plain regions: there both select a slave for the same      *)
(* addresses, and for every other region some address tells them apart - an *)
(* odd size, a misaligned base, or an end that wraps in                     *)
(* wb_interconnect_sharedbus.sv:92 and leaves the slave unreachable.        *)
InterchangeableIffPlain ==
  IF Plain(base_addr, size)
  THEN ss <=> request
  ELSE \E a \in Addresses :
         RangeHit(base_addr, size, a, Space) # MaskHit(base_addr, size, a)
=============================================================================
