------------------------------- MODULE Core2Wb -------------------------------
(***************************************************************************)
(* rtl/core2wb.sv: the converter between an Ibex memory port (request and  *)
(* grant, then rvalid) and a pipelined Wishbone master (CYC and STB with   *)
(* STALL, then ACK or ERR).                                                *)
(*                                                                         *)
(* A state is one clock cycle: the register counts and the inputs of the   *)
(* converter in that cycle; its outputs are operators.  A step is a rising *)
(* clock edge.  The core and the bus peer drive what the assumptions of    *)
(* fv/core2wb/fv_core2wb.sv let them drive, so an SVA "a |=> b" reads      *)
(* [][a => b']_vars.                                                       *)
(***************************************************************************)
EXTENDS ConverterLogic, Sequences

CONSTANTS
  Commands,    \* what the core asks for: records [addr, we, be, wdata]
  MaxOwed,     \* the bus peer stalls when it owes this many answers
  ErrAnswers,  \* may the bus peer answer with ERR?
  None         \* no transaction

ASSUME CommandsAssumption ==
  \A c \in Commands :
    /\ DOMAIN c = {"addr", "we", "be", "wdata"}
    /\ c.we \in BOOLEAN /\ c.be \subseteq Lanes
ASSUME MaxOwedAssumption    == MaxOwed \in Nat \ {0}
ASSUME ErrAnswersAssumption == ErrAnswers \in BOOLEAN

VARIABLES
  rst,              \* reset is asserted in this cycle
  req, cmd,         \* from the core: req and, with it, addr, we, be, wdata
  stall, ack, err,  \* from the bus peer
  counts,           \* the converter's only register
  owed              \* the bus peer's accepted, unanswered commands, oldest first

vars == <<rst, req, cmd, stall, ack, err, counts, owed>>

-----------------------------------------------------------------------------
(* The converter's outputs. *)

gnt    == CoreGnt(req, stall)
cyc    == WbCyc(req, counts)
stb    == req
rvalid == CoreRvalid(cyc, ack, err)

BusCommand(c) ==
  [adr |-> c.addr, we |-> c.we, sel |-> WbSel(c.we, c.be), dat |-> c.wdata]

BusCommands == {BusCommand(c) : c \in Commands}

-----------------------------------------------------------------------------
(* One clock edge. *)

CountsEdge == counts' = NextCounts(counts, req, gnt, cyc, ack)

(* A peer forgets what it owes when CYC is dropped. *)
OwedEdge ==
  owed' = IF cyc
          THEN (IF rvalid THEN Tail(owed) ELSE owed)
               \o (IF stb /\ ~stall THEN <<BusCommand(cmd)>> ELSE <<>>)
          ELSE <<>>

(* ASM_core_*: a request waits for its grant unchanged; byte enables and    *)
(* data need to wait only for a write.                                      *)
CoreDrives ==
  /\ req' \in BOOLEAN
  /\ cmd' \in Commands
  /\ req /\ ~gnt =>
       /\ req'
       /\ cmd'.addr = cmd.addr
       /\ cmd'.we = cmd.we
       /\ cmd.we => cmd' = cmd

(* ASM_wb_*: answers only during CYC, ACK and ERR never together; and what  *)
(* fv/wb2core and soc/common/sim/wb_checker.sv ask of a slave: it answers a *)
(* command it accepted at an earlier edge.                                  *)
BusDrives ==
  /\ stall' \in BOOLEAN
  /\ ack' \in BOOLEAN
  /\ err' \in BOOLEAN
  /\ ack' \/ err' => cyc' /\ owed' # <<>>
  /\ ~(ack' /\ err')
  /\ err' => ErrAnswers
  /\ Len(owed') >= MaxOwed => stall'

Tick == rst' = FALSE /\ CountsEdge /\ OwedEdge /\ CoreDrives /\ BusDrives

(* rst_n clears the counter; the core and the peer share the reset. *)
Reset ==
  /\ rst' = TRUE /\ counts' = 0 /\ owed' = <<>>
  /\ req' = FALSE /\ cmd' \in Commands
  /\ stall' \in BOOLEAN /\ ack' = FALSE /\ err' = FALSE

Init ==
  /\ rst = TRUE /\ counts = 0 /\ owed = <<>>
  /\ req = FALSE /\ cmd \in Commands
  /\ stall \in BOOLEAN /\ ack = FALSE /\ err = FALSE

Next == Tick \/ Reset

Spec == Init /\ [][Next]_vars

(* The bus peer answers: at infinitely many edges it owes nothing or        *)
(* answers the oldest command.  Nothing is assumed of the core or of reset. *)
PeerAnswers == Tick /\ (owed' # <<>> => ack' \/ err')

FairSpec == Spec /\ WF_vars(PeerAnswers)

-----------------------------------------------------------------------------
(* Properties. *)

(* Every variable holds a value of its type; the counter keeps its width.   *)
TypeOK ==
  /\ rst \in BOOLEAN
  /\ req \in BOOLEAN /\ cmd \in Commands
  /\ stall \in BOOLEAN /\ ack \in BOOLEAN /\ err \in BOOLEAN
  /\ counts \in CountsRange
  /\ owed \in Seq(BusCommands)

(* The counter is exact (core2wb.sv:36-43): through any mixture of grants,  *)
(* answers, back-to-back transfers and resets it equals the number of       *)
(* transactions the bus still owes.                                         *)
CountsExact == counts = Len(owed)

(* CYC frames the transactions (core2wb.sv:45, doc/timing1.json): it is     *)
(* asserted from the request until the last answer has been taken, no       *)
(* shorter - an answer would be lost - and no longer - the master would     *)
(* keep the bus from everybody else.                                        *)
CycFrames == cyc <=> req \/ owed # <<>>

(* What is waiting under STALL is held, SEL included, also for reads, where *)
(* the core may change its byte enables (AST_wb_*_stable of                 *)
(* fv/core2wb/fv_core2wb.sv and wb_checker.sv:91-140).                      *)
StalledRequestHeld ==
  [][cyc /\ stb /\ stall /\ ~rst' =>
       /\ cyc' /\ stb'
       /\ BusCommand(cmd').adr = BusCommand(cmd).adr
       /\ BusCommand(cmd').we = BusCommand(cmd).we
       /\ BusCommand(cmd').sel = BusCommand(cmd).sel
       /\ cmd.we => BusCommand(cmd') = BusCommand(cmd)]_vars

(* A core that stops asking gives the bus back: once it requests no more,   *)
(* CYC falls for good (doc/timing1.json).                                   *)
BusReleased == <>[]~req => <>[]~cyc

(* The memory port the core sees.  A read asks for all lanes and carries no *)
(* data; a write is its lanes and data.  What is granted is described by    *)
(* the core's command, what is outstanding by the bus command, so the       *)
(* mapping also says that the command is translated and not reordered.      *)
CoreMeaning(c) ==
  [addr |-> c.addr, we |-> c.we,
   lanes |-> IF c.we THEN c.be ELSE Lanes,
   data |-> IF c.we THEN c.wdata ELSE None]

BusMeaning(b) ==
  [addr |-> b.adr, we |-> b.we, lanes |-> b.sel,
   data |-> IF b.we THEN b.dat ELSE None]

ASSUME NoneAssumption == None \notin {CoreMeaning(c) : c \in Commands}

Port == INSTANCE MemPort WITH
  Transactions <- {CoreMeaning(c) : c \in Commands},
  None         <- None,
  reset        <- rst,
  queue        <- [i \in 1 .. Len(owed) |-> BusMeaning(owed[i])],
  granted      <- IF gnt THEN CoreMeaning(cmd) ELSE None,
  answered     <- rvalid

(* The converter and its bus are a memory port as the comments on the ports *)
(* of rtl/wb_ibex_top.sv:193-211 describe it: every granted request is      *)
(* answered once, later than its grant and in order.                        *)
PortRefinement == Port!Spec
=============================================================================
