------------------------------ MODULE SocPorts ------------------------------
(***************************************************************************)
(* The converters inside the SoC.  Core2Wb and Wb2Core describe a converter *)
(* between neighbours that keep to the assumptions of the formal           *)
(* testbenches (fv/core2wb, fv/wb2core); here the neighbours are the        *)
(* interconnect of IbexSoc, the other masters and the debug module.        *)
(***************************************************************************)
EXTENDS IbexSoc

CONSTANT Watched   \* the master whose core2wb is looked at

ASSUME WatchedAssumption == Watched \in Masters
ASSUME CommandFieldsAssumption ==
  \A c \in Commands : DOMAIN c = {"addr", "we", "be", "wdata"}

(* The bus lines of a master that drives a command. *)
ToBus(c) == [adr |-> c.addr, we |-> c.we, sel |-> WbSel(c.we, c.be), dat |-> c.wdata]

(* The shared lines follow the master that is granted; while none is, their *)
(* values mean nothing.                                                     *)
BusLines == ToBus(cmd[CHOOSE m \in Masters : gnt \subseteq {m}])

(* What the debug module owes an answer to. *)
DmOwes ==
  IF Dm \in wbs_ack
  THEN <<ToBus(Head(owed[CHOOSE m \in Masters : owed[m] # <<>>]))>>
  ELSE <<>>

Converter == INSTANCE Core2Wb WITH
  MaxOwed    <- 2,
  ErrAnswers <- FALSE,
  None       <- NoData,
  req        <- req[Watched],
  cmd        <- cmd[Watched],
  counts     <- counts[Watched],
  stall      <- wbm_stall(Watched),
  ack        <- wbm_ack(Watched),
  err        <- FALSE,
  owed       <- [i \in 1 .. Len(owed[Watched]) |-> ToBus(owed[Watched][i])]

ASSUME NoDataAssumption == NoData \notin {Converter!CoreMeaning(c) : c \in Commands}

Bridge == INSTANCE Wb2Core WITH
  Commands   <- {ToBus(c) : c \in Commands},
  MaxWaiting <- 1,
  Prompt     <- TRUE,
  cyc        <- cyc,
  stb        <- Dm \in wbs_stb,
  cmd        <- BusLines,
  gnt        <- Dm \notin wbs_stall,
  core_rvalid <- TRUE,
  err        <- FALSE,
  resp       <- Dm \in wbs_ack,
  waiting    <- DmOwes,
  owed       <- DmOwes

(* Inside the SoC the converters live in the environment they were verified *)
(* in: the arbiter, the routing of answers and the other masters never do   *)
(* to a converter what the assumptions of fv/core2wb/fv_core2wb.sv and      *)
(* fv/wb2core/fv_wb2core.sv rule out - no answer outside a cycle or to      *)
(* nobody, no command changed while it waits, no second answer owed to an   *)
(* impatient master - although a master is preempted in mid-transfer        *)
(* (rtl/wb_ibex_top.sv, rtl/wb_dm_top.sv, wb_interconnect_sharedbus.sv).    *)
ComponentsFit == Converter!Spec /\ Bridge!Spec
=============================================================================
