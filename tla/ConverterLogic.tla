--------------------------- MODULE ConverterLogic ---------------------------
(***************************************************************************)
(* The wires and next-state functions of the two protocol converters,      *)
(* rtl/core2wb.sv and rtl/wb2core.sv, as functions of their inputs.  The   *)
(* state machines that contain a converter (Core2Wb, SharedBus, ...) apply *)
(* these to their own variables, so that each is written once.             *)
(***************************************************************************)
EXTENDS Integers

CONSTANTS
  Half,     \* 2 ** $clog2(pending): counts holds -Half .. Half-1
  Lanes     \* the byte lanes of a word (sel_t is 4 of them)

ASSUME HalfAssumption == Half \in Nat \ {0}

(* core2wb: counts is declared logic signed [$clog2(pending):0]. *)
CountsRange == -Half .. (Half - 1)
Signed(n)   == ((n + Half) % (2 * Half)) - Half

(* Slips a converter could have made; the checks must tell them apart from  *)
(* the definitions below.                                                  *)
WbCycEarly(req, counts)   == req \/ counts > 1
WbCycNoReq(req, counts)   == counts > 0
WbSelAsIs(we, be)         == be
NextCountsGrantFirst(counts, req, gnt, cyc, ack) ==
  IF req /\ gnt
  THEN Signed(counts + 1)
  ELSE IF cyc /\ ack THEN Signed(counts - 1) ELSE counts
NextCountsNoWidth(counts, req, gnt, cyc, ack) ==
  IF req /\ gnt THEN counts + 1 ELSE counts
BridgeAckAlways(resp, cyc, rvalid, err) == cyc /\ rvalid /\ ~err

(* core2wb, combinational outputs. *)
CoreGnt(req, stall)       == req /\ ~stall
WbCyc(req, counts)        == req \/ counts > 0
CoreRvalid(cyc, ack, err) == cyc /\ (ack \/ err)
WbSel(we, be)             == IF we THEN be ELSE Lanes

(* core2wb, the counter of outstanding transactions.  A transaction is     *)
(* counted in when it is granted and out when it is acknowledged; err does *)
(* not count it out.                                                       *)
NextCounts(counts, req, gnt, cyc, ack) ==
  IF req /\ gnt
  THEN IF cyc /\ ack THEN counts ELSE Signed(counts + 1)
  ELSE IF cyc /\ ack THEN Signed(counts - 1) ELSE counts

(* wb2core, combinational outputs and the response register. *)
BridgeStall(gnt)                  == ~gnt
BridgeAck(resp, cyc, rvalid, err) == resp /\ cyc /\ rvalid /\ ~err
BridgeErr(resp, cyc, rvalid, err) == resp /\ cyc /\ rvalid /\ err
NextResp(cyc, stb, stall)         == cyc /\ stb /\ ~stall
=============================================================================
