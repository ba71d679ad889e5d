------------------------------- MODULE IbexSoc -------------------------------
(***************************************************************************)
(* soc/fpga/arty-a7-100/rtl/ibex_soc.sv with the shared bus interconnect:  *)
(* the bus of SharedBus and the data of its slaves - the debug module      *)
(* (slave 0), the RAM (1) and the LED register (2) - accessed by the debug *)
(* module's system bus access (master 0) and the core's data (1) and       *)
(* instruction (2) ports.  An address is the address of a word; a word has *)
(* a byte in each lane.                                                    *)
(***************************************************************************)
EXTENDS SharedBus

CONSTANTS
  Bytes,      \* the values of a byte, 0 .. n
  RamWords,   \* the words of spramx32
  LedWords,   \* the words of the LED's region
  LedStates,  \* 2 ** N of wb_led
  VMem,       \* the contents of spramx32.vmem
  NoData      \* an answer nobody looks at (writes, the debug module's memory)

Dm  == 0
Ram == 1
Led == 2

Words == [Lanes -> Bytes]

ASSUME SocAssumption ==
  /\ NumS = 3 /\ Lanes \subseteq Nat /\ 0 \in Lanes
  /\ Bytes \subseteq Nat /\ 0 \in Bytes
  /\ VMem \in [0 .. RamWords - 1 -> Words]
  /\ RamWords \in Nat \ {0} /\ LedWords \in Nat \ {0} /\ LedStates \in Nat \ {0}
  /\ \A c \in Commands : c.we \in BOOLEAN /\ c.be \subseteq Lanes /\ c.wdata \in Words

(* Regions are aligned to their size, so that the low address bits that a   *)
(* slave decodes are an offset; and the LED is only written by words.       *)
ASSUME MapAssumption ==
  /\ base_addr[Ram] % RamWords = 0 /\ size[Ram] = RamWords
  /\ base_addr[Led] % LedWords = 0 /\ size[Led] = LedWords
  /\ \A c \in Commands : c.we /\ Hit(Led, c.addr) => c.be = Lanes

VARIABLES
  mem,   \* spramx32: the contents
  q,     \* spramx32: the registered output
  led    \* wb_led: the register

socVars == <<vars, mem, q, led>>

-----------------------------------------------------------------------------
(* The wires of the slaves.  LowAll and DataOfAddressed are slips for the   *)
(* checks to detect: a word too wide for the register, the select of the    *)
(* wrong cycle.                                                             *)

LowAll(w)    == w[0]
RamAddr(a)   == a % RamWords
LedSelect(a) == a % LedWords = 0
Low(w)       == w[0] % LedStates
Extended(v)  == [l \in Lanes |-> IF l = 0 THEN v ELSE 0]

Merged(old, c) == [l \in Lanes |-> IF l \in c.be THEN c.wdata[l] ELSE old[l]]

(* The read data of the bus, and of a master. *)
Driven(s) == CASE s = Ram -> q [] s = Led -> Extended(led) [] OTHER -> NoData
DataOf(slaves) == IF slaves = {} THEN NoData
                  ELSE Driven(CHOOSE s \in slaves : \A t \in slaves : t <= s)

DataOfAddressed == DataOf(ss)
dat_rd     == DataOf(ss1)
wbm_dat(m) == IF m \in gnt1 THEN dat_rd ELSE NoData

(* The commands a slave sees in this cycle: at most one. *)
Seen(s) == {cmd[m] : m \in {k \in gnt : s \in wbs_stb}}

-----------------------------------------------------------------------------
(* One clock edge of the slaves. *)

MemEdge ==
  mem' = [w \in 0 .. RamWords - 1 |->
            LET writes == {c \in Seen(Ram) : c.we /\ RamAddr(c.addr) = w}
            IN  IF writes = {} THEN mem[w] ELSE Merged(mem[w], CHOOSE c \in writes : TRUE)]

(* The RAM reads before it writes. *)
QEdge ==
  \/ Seen(Ram) = {} /\ q' = q
  \/ \E c \in Seen(Ram) : q' = mem[RamAddr(c.addr)]

LedEdge ==
  LET writes == {c \in Seen(Led) : c.we /\ LedSelect(c.addr)}
  IN  \/ writes = {} /\ led' = led
      \/ \E c \in writes : led' = Low(c.wdata)

(* An idle port keeps its command lines; nobody looks at them. *)
IdleLinesHold == \A m \in Masters : req'[m] \/ cmd'[m] = cmd[m]

SocTick == Tick /\ IdleLinesHold /\ MemEdge /\ QEdge /\ LedEdge

(* The RAM has no reset.  Reset falls before or after the edge of the cycle *)
(* it interrupts, so that a write in that cycle is performed or not.        *)
SocReset ==
  /\ Reset /\ IdleLinesHold
  /\ \/ UNCHANGED <<mem, q>>
     \/ MemEdge /\ QEdge
  /\ led' = 0

SocInit ==
  /\ Init
  /\ mem = VMem
  /\ q \in Words
  /\ led = 0

SocNext == SocTick \/ SocReset

SocSpec == SocInit /\ [][SocNext]_socVars

-----------------------------------------------------------------------------
(* Every register of a slave holds a value of its type.                     *)
SocTypeOK ==
  /\ TypeOK
  /\ mem \in [0 .. RamWords - 1 -> Words]
  /\ q \in Words
  /\ led \in 0 .. LedStates - 1

(* The memory map as a programmer sees it: the RAM is written by byte       *)
(* lanes; the first word of the LED's region writes the LED, the others     *)
(* write nothing, and all of them read it.                                  *)
MapStored(store, c) ==
  CASE ~c.we -> store
    [] c.we /\ Hit(Ram, c.addr) ->
         [store EXCEPT !.mem[c.addr - base_addr[Ram]] =
            [l \in Lanes |-> IF l \in c.be THEN c.wdata[l] ELSE @[l]]]
    [] c.we /\ Hit(Led, c.addr) /\ c.addr = base_addr[Led] ->
         [store EXCEPT !.led = c.wdata[0] % LedStates]
    [] OTHER -> store

MapFound(store, c) ==
  CASE ~c.we /\ Hit(Ram, c.addr) -> store.mem[c.addr - base_addr[Ram]]
    [] ~c.we /\ Hit(Led, c.addr) -> [l \in Lanes |-> IF l = 0 THEN store.led ELSE 0]
    [] OTHER -> NoData

MapCleared(store) == [store EXCEPT !.led = 0]

Answer(m) == IF Head(owed[m]).we THEN NoData ELSE wbm_dat(m)

Memory == INSTANCE SharedMemory WITH
  Ports    <- Masters,
  Commands <- Commands,
  Stored   <- MapStored,
  Found    <- MapFound,
  Cleared  <- MapCleared,
  reset    <- rst,
  store    <- [mem |-> mem, led |-> led],
  pending  <- [m \in Masters |-> IF owed[m] = <<>> THEN <<>> ELSE <<Answer(m)>>],
  answered <- {m \in Masters : rvalid(m)}

(* The converters, the interconnect and the slaves together are one atomic  *)
(* memory: though a read of the RAM is sampled at its grant, a read of the  *)
(* LED at its answer, and other masters write in between, every answer is   *)
(* what the read found at its grant (wb_interconnect_sharedbus.sv,          *)
(* spramx32.sv, wb_spramx32.sv, wb_led.sv as ibex_soc.sv connects them).    *)
AtomicMemory == Memory!Spec
=============================================================================
