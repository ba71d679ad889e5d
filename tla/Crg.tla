-------------------------------- MODULE Crg ---------------------------------
(***************************************************************************)
(* The clock and reset generator of the SoC, rtl/crg.sv: the simulation    *)
(* model of clkgen_50mhz, which halves the clock, and sync_reset.          *)
(***************************************************************************)
EXTENDS Integers

CONSTANT SyncStages   \* N of sync_reset
ASSUME StagesAssumption == SyncStages \in Nat \ {0}

VARIABLES
  clk100mhz, ck_rst_n,  \* the pins
  clk,
  q,         \* the synchronizer's register
  edges,     \* history: rising edges of clk since ck_rst_n was low, SyncStages at most
  wasReset   \* history: has there been a rising edge of clk with rst_n low?

crgVars == <<clk100mhz, ck_rst_n, clk, q, edges, wasReset>>

Stages    == 0 .. SyncStages - 1
ClkRises  == clk = 0 /\ clk' = 1
rst_n     == q[SyncStages - 1]

-----------------------------------------------------------------------------
(* Slips for the checks to detect. *)
QEdgeNeverCleared ==
  q' = IF ClkRises THEN [k \in Stages |-> IF k = 0 THEN 1 ELSE q[k - 1]] ELSE q
QEdgeAtOnce ==
  q' = CASE ck_rst_n' = 0 -> [k \in Stages |-> 0]
         [] ck_rst_n' = 1 /\ ClkRises -> [k \in Stages |-> 1]
         [] OTHER -> q

(* Cleared as soon as ck_rst_n is low; a one is shifted in at an edge.      *)
QEdge ==
  q' = CASE ck_rst_n' = 0 -> [k \in Stages |-> 0]
         [] ck_rst_n' = 1 /\ ClkRises -> [k \in Stages |-> IF k = 0 THEN 1 ELSE q[k - 1]]
         [] OTHER -> q

(* A new level of the pins' clock; ck_rst_n changes with its falling edge.  *)
CrgEdge(reset) ==
  /\ clk100mhz' = 1 - clk100mhz
  /\ ck_rst_n' = IF clk100mhz' = 1 THEN ck_rst_n ELSE IF reset THEN 0 ELSE 1
  /\ clk' = IF clk100mhz' = 1 THEN 1 - clk ELSE clk
  /\ QEdge
  /\ edges' = CASE ck_rst_n' = 0 -> 0
                [] ck_rst_n' = 1 /\ ClkRises /\ edges < SyncStages -> edges + 1
                [] OTHER -> edges
  /\ wasReset' = (wasReset \/ (ClkRises /\ rst_n = 0))

(* q has no initial value. *)
CrgInit ==
  /\ clk100mhz = 0 /\ ck_rst_n = 1 /\ clk = 0
  /\ q \in [Stages -> {0, 1}]
  /\ edges = SyncStages /\ wasReset = FALSE

-----------------------------------------------------------------------------
(* The parts of the SoC enter reset with the pin, all at once, and leave it *)
(* when the pin has been high at as many edges of clk as the synchronizer   *)
(* has stages (sync_reset.sv:11-17).                                        *)
ResetSynchronised == rst_n = 1 => ck_rst_n = 1 /\ edges = SyncStages
=============================================================================
