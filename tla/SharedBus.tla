------------------------------ MODULE SharedBus ------------------------------
(***************************************************************************)
(* soc/common/rtl/wb_interconnect_sharedbus.sv with what hangs on it: a    *)
(* core2wb converter in front of every master, a slave with a registered   *)
(* acknowledge (wb_spramx32, wb_led, or a wb2core bridge) behind every     *)
(* slave port.  Each master has its memory port; masters issue and wait    *)
(* independently of each other, so the interleavings are theirs.           *)
(*                                                                         *)
(* A state is one clock cycle and a step is a rising clock edge, as in     *)
(* Core2Wb.  The bit vectors gnt, gnt1, ss, ss1, wbs_ack and wbs_stall are *)
(* the sets of masters or slaves whose bit is set.                         *)
(***************************************************************************)
EXTENDS ConverterLogic, AddressDecode, Sequences

CONSTANTS
  NumM, NumS,        \* numm, nums
  Space,             \* 2 ** the width of an address
  base_addr, size,   \* of every slave
  Commands,          \* what a core asks for: records with a field addr
  MayAsk,            \* per master: those of them that its core asks for
  MaxOutstanding,    \* a core asks no more while it waits for this many answers
  Stallable,         \* the slaves that may answer with STALL
  StallIdle          \* may they do so while they are not addressed?

Masters == 0 .. NumM - 1
Slaves  == 0 .. NumS - 1

ASSUME NumAssumption   == NumM \in Nat \ {0} /\ NumS \in Nat \ {0}
ASSUME SpaceAssumption == Space \in Nat \ {0}
ASSUME RegionAssumption ==
  base_addr \in [Slaves -> 0 .. Space - 1] /\ size \in [Slaves -> 0 .. Space - 1]
ASSUME BusCommandsAssumption == \A c \in Commands : c.addr \in 0 .. Space - 1
ASSUME MayAskAssumption == MayAsk \in [Masters -> SUBSET Commands]
ASSUME OutstandingAssumption == MaxOutstanding \in Nat \ {0}
ASSUME StallAssumption == Stallable \subseteq Slaves /\ StallIdle \in BOOLEAN

(* What the command lines of all the masters may say. *)
Asked == {f \in [Masters -> Commands] : \A m \in Masters : f[m] \in MayAsk[m]}

VARIABLES
  rst,        \* reset is asserted in this cycle
  req, cmd,   \* per master: the request of its core
  counts,     \* per master: the counter of its core2wb
  gnt1, ss1,  \* the registered grant and slave select
  wbs_ack,    \* the slaves' acknowledge registers
  wbs_stall,  \* the slaves' STALL outputs
  owed        \* history, per master: granted and not yet answered

vars == <<rst, req, cmd, counts, gnt1, ss1, wbs_ack, wbs_stall, owed>>

-----------------------------------------------------------------------------
(* Slips the interconnect could have made, for the checks to detect. *)

HitAfterBase(s, a) == a > base_addr[s] /\ a < (base_addr[s] + size[s]) % Space

-----------------------------------------------------------------------------
(* The wires. *)

wbm_cyc(m) == WbCyc(req[m], counts[m])

cyc == \E m \in Masters : wbm_cyc(m)

(* The lowest index wins. *)
gnt == {m \in Masters : wbm_cyc(m) /\ \A k \in Masters : wbm_cyc(k) => m <= k}

stb == \E m \in gnt : req[m]

Hit(s, a) == RangeHit(base_addr[s], size[s], a, Space)

ss == {s \in Slaves : \E m \in gnt : Hit(s, cmd[m].addr)}

wbs_stb == {s \in ss : cyc /\ stb}

ack   == wbs_ack # {}
AddressedStalls == \E s \in ss1 : s \in wbs_stall
stall == wbs_stall # {}

wbm_stall(m) == m \in gnt => stall

AckByGrant(m)  == m \in gnt /\ ack
AckToAll(m)    == ack
wbm_ack(m) == m \in gnt1 /\ ack

core_gnt(m) == CoreGnt(req[m], wbm_stall(m))
rvalid(m)   == CoreRvalid(wbm_cyc(m), wbm_ack(m), FALSE)

-----------------------------------------------------------------------------
(* One clock edge. *)

CountsEdge ==
  counts' = [m \in Masters |->
               NextCounts(counts[m], req[m], core_gnt(m), wbm_cyc(m), wbm_ack(m))]

GrantEdge == gnt1' = IF cyc /\ stb THEN gnt ELSE gnt1

SelectEdgeWhenFree == ss1' = IF cyc /\ stb /\ ~ack THEN ss ELSE ss1
SelectEdge == ss1' = IF cyc /\ stb THEN ss ELSE ss1

(* ack <= valid & ~stall in every slave; resp <= cyc & stb & ~stall in the  *)
(* bridge, whose core answers at once.                                      *)
SlavesEdge == wbs_ack' = {s \in wbs_stb : s \notin wbs_stall}

OwedEdge ==
  owed' = [m \in Masters |->
             (IF rvalid(m) /\ owed[m] # <<>> THEN Tail(owed[m]) ELSE owed[m])
               \o (IF core_gnt(m) THEN <<cmd[m]>> ELSE <<>>)]

(* A core holds its request until it is granted (ASM_core_* of              *)
(* fv/core2wb/fv_core2wb.sv), and is free to ask or not otherwise.          *)
CoresDrive ==
  /\ req' \in [Masters -> BOOLEAN]
  /\ cmd' \in Asked
  /\ \A m \in Masters :
       /\ req[m] /\ ~core_gnt(m) => req'[m] /\ cmd'[m] = cmd[m]
       /\ req'[m] => Len(owed'[m]) < MaxOutstanding

SlavesDrive ==
  /\ wbs_stall' \in SUBSET Stallable
  /\ ~StallIdle => wbs_stall' \subseteq wbs_stb'

Tick ==
  /\ rst' = FALSE
  /\ CountsEdge /\ GrantEdge /\ SelectEdge /\ SlavesEdge /\ OwedEdge
  /\ CoresDrive /\ SlavesDrive

(* All parts share one reset; a transfer under way is forgotten by all.     *)
Reset ==
  /\ rst' = TRUE
  /\ counts' = [m \in Masters |-> 0]
  /\ gnt1' = {} /\ ss1' = {} /\ wbs_ack' = {}
  /\ owed' = [m \in Masters |-> <<>>]
  /\ req' = [m \in Masters |-> FALSE]
  /\ cmd' \in Asked
  /\ SlavesDrive

Init ==
  /\ rst = TRUE
  /\ counts = [m \in Masters |-> 0]
  /\ gnt1 = {} /\ ss1 = {} /\ wbs_ack = {}
  /\ owed = [m \in Masters |-> <<>>]
  /\ req = [m \in Masters |-> FALSE]
  /\ cmd \in Asked
  /\ wbs_stall \in SUBSET Stallable
  /\ ~StallIdle => wbs_stall \subseteq wbs_stb

Next == Tick \/ Reset

Spec == Init /\ [][Next]_vars

(* The clock runs, and no slave stalls for ever. *)
ClockRuns == Tick /\ wbs_stall' = {}

FairSpec == Spec /\ WF_vars(ClockRuns)

-----------------------------------------------------------------------------
(* What the SoC's address map grants: every command meets one slave. *)
Mapped   == \A c \in Commands : \E s \in Slaves : Hit(s, c.addr)
Disjoint == \A s, t \in Slaves : \A a \in 0 .. Space - 1 :
              Hit(s, a) /\ Hit(t, a) => s = t

(* Every variable holds a value of its type.                               *)
TypeOK ==
  /\ rst \in BOOLEAN
  /\ req \in [Masters -> BOOLEAN] /\ cmd \in [Masters -> Commands]
  /\ counts \in [Masters -> CountsRange]
  /\ gnt1 \subseteq Masters
  /\ ss1 \subseteq Slaves /\ wbs_ack \subseteq Slaves /\ wbs_stall \subseteq Slaves
  /\ owed \in [Masters -> Seq(Commands)]

(* Whatever the other masters do between a master's grant and its answer -  *)
(* preempt it, answer, request in the same cycle - its converter counts     *)
(* exactly the answers it is owed (core2wb.sv:36-43 behind the routing of   *)
(* wb_interconnect_sharedbus.sv:112-118 and 173-193).                       *)
CountsExact == \A m \in Masters : counts[m] = Len(owed[m])

(* An acknowledge reaches the master that is owed one, and no other that is *)
(* in a cycle of its own (wb_interconnect_sharedbus.sv:173-193).            *)
AnswerReachesOwner ==
  \A m \in Masters : wbm_cyc(m) /\ wbm_ack(m) =>
    /\ owed[m] # <<>>
    /\ \A k \in Masters \ {m} : owed[k] = <<>>

(* The data a master reads with its answer is driven by the slave that its  *)
(* oldest request addressed, whatever was requested since (the registered   *)
(* select of wb_interconnect_sharedbus.sv:94-100 and the mux of 144-160).   *)
AnswerMatchesRequest ==
  \A m \in Masters : rvalid(m) /\ owed[m] # <<>> =>
    /\ ss1 = wbs_ack
    /\ \A s \in wbs_ack : Hit(s, Head(owed[m]).addr)

(* A slave performs an access in exactly the cycles in which the master     *)
(* sees it accepted: nothing is performed twice or skipped                  *)
(* (wb_interconnect_sharedbus.sv:150-152, 164-171 and 207-210).             *)
AcceptedOnce ==
  wbs_stb \ wbs_stall # {} <=> \E m \in Masters : core_gnt(m)

(* Every answer comes in the cycle after the grant - the registers gnt1 and *)
(* ss1 are right only if it does ("Assume, that the response is exactly on  *)
(* cycle after request", wb_interconnect_sharedbus.sv:94 and 112).          *)
AnsweredNextCycle ==
  [][\A m \in Masters : core_gnt(m) /\ ~rst' => rvalid(m)']_vars

(* Once the masters before it request no more, a master that requests is    *)
(* granted: the priority arbiter (wb_interconnect_sharedbus.sv:102-110)     *)
(* starves nobody on behalf of a master that is done.                       *)
ServedAfterOthers ==
  \A m \in Masters :
    <>[](\A k \in Masters : k < m => ~req[k])
      => (req[m] ~> (core_gnt(m) \/ rst))

(* Every accepted command is answered ("There must be exactly one ACK or    *)
(* ERR for each STB", soc/common/sim/wb_checker.sv:77-89).                  *)
EveryStbAnswered ==
  \A m \in Masters : (owed[m] # <<>>) ~> (rvalid(m) \/ rst)
=============================================================================
