------------------------------- MODULE Wb2Core -------------------------------
(***************************************************************************)
(* rtl/wb2core.sv: the converter that lets a Wishbone master reach a slave *)
(* with a core memory interface (the debug module, rtl/wb_dm_top.sv).      *)
(*                                                                         *)
(* A state is one clock cycle, a step a rising clock edge.  The master     *)
(* drives what fv/wb2core/fv_wb2core.sv assumes; it may also give up a     *)
(* transfer by dropping CYC.  core_rvalid means nothing while the slave    *)
(* owes no answer: wb_dm_top.sv:86 ties it to 1.                           *)
(***************************************************************************)
EXTENDS ConverterLogic, Sequences

CONSTANTS
  Commands,   \* what the master asks for: records [adr, we, sel, dat]
  MaxWaiting, \* the slave grants no more when it owes this many answers
  Prompt      \* does the slave answer in the cycle after its grant?

ASSUME MasterCommandsAssumption ==
  \A c \in Commands : DOMAIN c = {"adr", "we", "sel", "dat"} /\ c.we \in BOOLEAN
ASSUME WaitingAssumption == MaxWaiting \in Nat \ {0} /\ Prompt \in BOOLEAN

VARIABLES
  rst,              \* reset is asserted in this cycle
  cyc, stb, cmd,    \* from the master: CYC, STB and, with it, ADR, WE, SEL, DAT
  gnt, core_rvalid, err, \* from the slave
  resp,             \* the converter's only register
  waiting,          \* the slave's granted, unanswered commands
  owed              \* the master's accepted, unanswered commands

vars == <<rst, cyc, stb, cmd, gnt, core_rvalid, err, resp, waiting, owed>>

-----------------------------------------------------------------------------
(* The outputs.  The command itself passes through unchanged.               *)

core_req == cyc /\ stb
stall    == BridgeStall(gnt)
ack      == BridgeAck(resp, cyc, core_rvalid, err)
wb_err   == BridgeErr(resp, cyc, core_rvalid, err)

(* One clock edge. *)

RespEdge == resp' = NextResp(cyc, stb, stall)

WaitingEdge ==
  waiting' = (IF core_rvalid /\ waiting # <<>> THEN Tail(waiting) ELSE waiting)
               \o (IF core_req /\ gnt THEN <<cmd>> ELSE <<>>)

(* What the master is owed: forgotten when it drops CYC. *)
OwedEdge ==
  owed' = IF cyc
          THEN (IF (ack \/ wb_err) /\ owed # <<>> THEN Tail(owed) ELSE owed)
                 \o (IF stb /\ ~stall THEN <<cmd>> ELSE <<>>)
          ELSE <<>>

(* ASM_wb_*: a command is held while it is stalled. *)
MasterDrives ==
  /\ cyc' \in BOOLEAN /\ stb' \in BOOLEAN /\ cmd' \in Commands
  /\ stb' => cyc'
  /\ cyc /\ stb /\ stall =>
       /\ cyc' /\ stb'
       /\ cmd'.adr = cmd.adr /\ cmd'.we = cmd.we
       /\ cmd.we => cmd' = cmd

SlaveDrives ==
  /\ gnt' \in BOOLEAN /\ core_rvalid' \in BOOLEAN /\ err' \in BOOLEAN
  /\ Prompt /\ waiting' # <<>> => core_rvalid'
  /\ Len(waiting') >= MaxWaiting /\ ~core_rvalid' => ~gnt'

Tick == rst' = FALSE /\ RespEdge /\ WaitingEdge /\ OwedEdge /\ MasterDrives /\ SlaveDrives

Reset ==
  /\ rst' = TRUE /\ resp' = FALSE /\ waiting' = <<>> /\ owed' = <<>>
  /\ cyc' = FALSE /\ stb' = FALSE /\ cmd' \in Commands
  /\ gnt' \in BOOLEAN /\ core_rvalid' \in BOOLEAN /\ err' \in BOOLEAN

Init ==
  /\ rst = TRUE /\ resp = FALSE /\ waiting = <<>> /\ owed = <<>>
  /\ cyc = FALSE /\ stb = FALSE /\ cmd \in Commands
  /\ gnt \in BOOLEAN /\ core_rvalid \in BOOLEAN /\ err \in BOOLEAN

Next == Tick \/ Reset

Spec == Init /\ [][Next]_vars

-----------------------------------------------------------------------------
(* Every variable holds a value of its type.                                *)
TypeOK ==
  /\ rst \in BOOLEAN /\ cyc \in BOOLEAN /\ stb \in BOOLEAN /\ cmd \in Commands
  /\ gnt \in BOOLEAN /\ core_rvalid \in BOOLEAN /\ err \in BOOLEAN /\ resp \in BOOLEAN
  /\ waiting \in Seq(Commands) /\ owed \in Seq(Commands)

(* The bridge answers a master exactly when it owes it an answer, and with  *)
(* the slave's answer to that very command: a command the master gave up is *)
(* not answered to the next one, and a response that answers nothing is     *)
(* not passed on (wb2core.sv:16-23 and 35-39).                              *)
AnswersOwner ==
  /\ ack \/ wb_err <=> cyc /\ owed # <<>>
  /\ ack \/ wb_err => waiting # <<>> /\ Head(waiting) = Head(owed)
=============================================================================
