---------------------------- MODULE AddressDecode ----------------------------
(***************************************************************************)
(* How wb_interconnect_sharedbus.sv finds out that a slave is addressed:   *)
(* by the range of its region, in the arithmetic of adr_t, which is modulo *)
(* space (2 ** 32).                                                        *)
(***************************************************************************)
EXTENDS Integers

RangeHit(base, size, a, space) == a >= base /\ a < (base + size) % space
=============================================================================
