------------------------------ MODULE MCCore2Wb ------------------------------
(***************************************************************************)
(* Instances of Core2Wb for TLC.                                           *)
(***************************************************************************)
EXTENDS Core2Wb, TLC

CONSTANTS a1, a2, d1

(* Reads and writes with partial and full byte enables, two addresses. *)
MCLanes == {0, 1}
MCCommands ==
  { [addr |-> a1, we |-> FALSE, be |-> {0},    wdata |-> d1],
    [addr |-> a1, we |-> FALSE, be |-> {0, 1}, wdata |-> d1],
    [addr |-> a1, we |-> TRUE,  be |-> {0},    wdata |-> d1],
    [addr |-> a2, we |-> TRUE,  be |-> {0, 1}, wdata |-> d1] }

(* One command: what is left is the number of outstanding transactions. *)
MCOneCommand == { [addr |-> a1, we |-> FALSE, be |-> {0}, wdata |-> d1] }

(* Half is 2 ** $clog2(pending) (core2wb.sv:15). *)
Clog2(n) == CHOOSE k \in 0 .. n : 2 ^ k >= n /\ \A j \in 0 .. n : 2 ^ j >= n => j >= k
ASSUME HalfIsPending == \E pending \in 1 .. 16 : Half = 2 ^ Clog2(pending)

(* No transaction is forgotten: while the bus owes an answer, the converter *)
(* keeps CYC, however many of the "pending" outstanding transactions of     *)
(* core2wb.sv:4 there are.                                                  *)
PendingSupported == owed # <<>> => cyc
=============================================================================
