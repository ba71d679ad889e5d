----------------------------- MODULE JtagDriver -----------------------------
(***************************************************************************)
(* The debug simulation of soc/fpga/arty-a7-100/sim/debug: the loop of     *)
(* src/sim_main.cpp, which makes TCK and feeds a queue of transactions to  *)
(* the driver of src/driver.cpp, and the TAP of the SoC's dmi_jtag (not    *)
(* part of this repository: IEEE 1149.1).                                  *)
(*                                                                         *)
(* A step is one iteration of the loop.  The loop of the other simulation, *)
(* sim/default/src/sim_main.cpp, makes the clock and a reset, and leaves   *)
(* the JTAG pins alone.                                                    *)
(***************************************************************************)
EXTENDS Crg, Sequences

CONSTANTS
  Sims,        \* the simulations: "debug", "default"
  Scripts,     \* the queues to drive: sequences of transactions
  NumIdle,     \* num_idle
  HalfPeriod,  \* iterations of the loop in half a TCK period
  TimeLimit,   \* the time at which the loop ends
  DefaultLimit, \* bound: the time up to which "default" is looked at
  TapGarbage,   \* the states of the TAP before reset
  StateGarbage, IntGarbage \* what an uninitialised member may hold

ASSUME NumIdleAssumption == NumIdle \in Nat \ {0}
ASSUME ClockAssumption   == HalfPeriod \in Nat \ {0} /\ TimeLimit \in Nat /\ DefaultLimit \in Nat

(* A transaction; req has its least significant bit first. *)
Transaction == [mode : {"JTAG_IR", "JTAG_DR"}, req : Seq({0, 1}) \ {<<>>}, len : Nat \ {0}]

ASSUME ScriptAssumption ==
  Scripts \subseteq Seq(Transaction) /\ \A s \in Scripts : \A i \in 1 .. Len(s) : Len(s[i].req) = s[i].len

VARIABLES
  sim,
  script,    \* what seq was filled with
  time, tck, tms, tdi, seq,          \* sim_main
  past_tck, rdy, bits, idle, state,  \* the members of driver
  tap,       \* the state of the TAP
  shifted,   \* the bits shifted into the TAP since its last capture
  latched,   \* history: what the TAP's registers were updated with
  rested     \* history: TCK cycles spent in RUN_TEST_IDLE since an update

driverVars == <<past_tck, rdy, bits, idle, state>>
tapVars == <<tap, shifted, latched, rested>>
vars == <<crgVars, sim, script, time, tck, tms, tdi, seq, driverVars, tapVars>>

-----------------------------------------------------------------------------
(* The TAP. *)

TapStates ==
  {"TEST_LOGIC_RESET", "RUN_TEST_IDLE",
   "SELECT_DR_SCAN", "CAPTURE_DR", "SHIFT_DR", "EXIT1_DR", "PAUSE_DR", "EXIT2_DR", "UPDATE_DR",
   "SELECT_IR_SCAN", "CAPTURE_IR", "SHIFT_IR", "EXIT1_IR", "PAUSE_IR", "EXIT2_IR", "UPDATE_IR"}

ASSUME TapAssumption == TapGarbage \subseteq TapStates

(* Where TMS = 0 and TMS = 1 lead. *)
TapNext(s, m) ==
  CASE s = "TEST_LOGIC_RESET" -> IF m = 0 THEN "RUN_TEST_IDLE" ELSE s
    [] s \in {"RUN_TEST_IDLE", "UPDATE_DR", "UPDATE_IR"} ->
         IF m = 0 THEN "RUN_TEST_IDLE" ELSE "SELECT_DR_SCAN"
    [] s = "SELECT_DR_SCAN" -> IF m = 0 THEN "CAPTURE_DR" ELSE "SELECT_IR_SCAN"
    [] s = "SELECT_IR_SCAN" -> IF m = 0 THEN "CAPTURE_IR" ELSE "TEST_LOGIC_RESET"
    [] s \in {"CAPTURE_DR", "SHIFT_DR"} -> IF m = 0 THEN "SHIFT_DR" ELSE "EXIT1_DR"
    [] s \in {"CAPTURE_IR", "SHIFT_IR"} -> IF m = 0 THEN "SHIFT_IR" ELSE "EXIT1_IR"
    [] s = "EXIT1_DR" -> IF m = 0 THEN "PAUSE_DR" ELSE "UPDATE_DR"
    [] s = "EXIT1_IR" -> IF m = 0 THEN "PAUSE_IR" ELSE "UPDATE_IR"
    [] s = "PAUSE_DR" -> IF m = 0 THEN s ELSE "EXIT2_DR"
    [] s = "PAUSE_IR" -> IF m = 0 THEN s ELSE "EXIT2_IR"
    [] s = "EXIT2_DR" -> IF m = 0 THEN "SHIFT_DR" ELSE "UPDATE_DR"
    [] s = "EXIT2_IR" -> IF m = 0 THEN "SHIFT_IR" ELSE "UPDATE_IR"

(* The TAP at a rising edge of TCK. *)
TapEdge ==
  /\ tap' = TapNext(tap, tms)
  /\ shifted' = CASE tap \in {"CAPTURE_DR", "CAPTURE_IR"} -> <<>>
                  [] tap \in {"SHIFT_DR", "SHIFT_IR"}     -> Append(shifted, tdi)
                  [] OTHER                                -> shifted
  /\ latched' = CASE tap' = "UPDATE_DR" -> Append(latched, [mode |-> "JTAG_DR", req |-> shifted])
                  [] tap' = "UPDATE_IR" -> Append(latched, [mode |-> "JTAG_IR", req |-> shifted])
                  [] OTHER              -> latched
  /\ rested' = CASE tap \in {"UPDATE_DR", "UPDATE_IR"} -> 0
                 [] tap = "RUN_TEST_IDLE" /\ rested < NumIdle -> rested + 1
                 [] OTHER -> rested

-----------------------------------------------------------------------------
(* Slips the driver could have made, for the checks to detect. *)

MoreBitsOffByOne(b, len) == b < len
IdleResetOnce(s)         == s = "TEST_LOGIC_RESET"
ScanDoneIROnly(s)        == s = "UPDATE_IR"
ScanStepOneTms(mode)     ==
  [tms |-> 0, to |-> IF mode = "JTAG_IR" THEN "SELECT_IR_SCAN" ELSE "CAPTURE_DR"]

(* driver::drive. *)

MoreBits(b, len) == b < len - 1
StillIdle(i)     == i + 1 < NumIdle
IdleReset(s)     == s \in {"TEST_LOGIC_RESET", "UPDATE_DR", "UPDATE_IR"}
ScanDone(s)      == s \in {"UPDATE_DR", "UPDATE_IR"}

ScanStep(mode) ==
  IF mode = "JTAG_IR" THEN [tms |-> 1, to |-> "SELECT_IR_SCAN"]
                      ELSE [tms |-> 0, to |-> "CAPTURE_DR"]

(* The value of TMS and the next state, by the state and the transaction.   *)
Step(xaction) ==
  CASE state = "TEST_LOGIC_RESET" -> [tms |-> 0, to |-> "RUN_TEST_IDLE"]
    [] state = "RUN_TEST_IDLE" ->
         IF StillIdle(idle) THEN [tms |-> 0, to |-> state]
                            ELSE [tms |-> 1, to |-> "SELECT_DR_SCAN"]
    [] state = "SELECT_DR_SCAN" -> ScanStep(xaction.mode)
    [] state = "SELECT_IR_SCAN" -> [tms |-> 0, to |-> "CAPTURE_IR"]
    [] state = "CAPTURE_DR" -> [tms |-> 0, to |-> "SHIFT_DR"]
    [] state = "CAPTURE_IR" -> [tms |-> 0, to |-> "SHIFT_IR"]
    [] state \in {"SHIFT_DR", "SHIFT_IR"} ->
         IF MoreBits(bits, xaction.len)
         THEN [tms |-> 0, to |-> state]
         ELSE [tms |-> 1, to |-> IF state = "SHIFT_DR" THEN "EXIT1_DR" ELSE "EXIT1_IR"]
    [] state = "EXIT1_DR" -> [tms |-> 0, to |-> "PAUSE_DR"]
    [] state = "EXIT1_IR" -> [tms |-> 0, to |-> "PAUSE_IR"]
    [] state = "PAUSE_DR" -> [tms |-> 1, to |-> "EXIT2_DR"]
    [] state = "PAUSE_IR" -> [tms |-> 1, to |-> "EXIT2_IR"]
    [] state = "EXIT2_DR" -> [tms |-> 1, to |-> "UPDATE_DR"]
    [] state = "EXIT2_IR" -> [tms |-> 1, to |-> "UPDATE_IR"]
    [] state \in {"UPDATE_DR", "UPDATE_IR"} -> [tms |-> 0, to |-> "RUN_TEST_IDLE"]
    [] OTHER -> [tms |-> 1, to |-> "TEST_LOGIC_RESET"]

Shifting == state \in {"SHIFT_DR", "SHIFT_IR"}
Driving  == state \in {"SHIFT_DR", "SHIFT_IR", "EXIT1_DR", "EXIT1_IR"}

(* All signals are assigned at a falling edge of TCK. *)
DriveFalling(xaction) ==
  LET step == Step(xaction) IN
  /\ tms' = step.tms
  /\ state' = step.to
  /\ tdi' = IF Driving THEN xaction.req[1] ELSE tdi
  /\ bits' = CASE state = "RUN_TEST_IDLE" -> 0 [] Shifting -> bits + 1 [] OTHER -> bits
  /\ idle' = CASE IdleReset(state) -> 0
               [] state = "RUN_TEST_IDLE" -> idle + 1
               [] OTHER -> idle
  /\ rdy' = ScanDone(state)

Drive(xaction) ==
  /\ past_tck' = tck'
  /\ IF past_tck = 1 /\ tck' = 0
     THEN DriveFalling(xaction)
     ELSE rdy' = FALSE /\ UNCHANGED <<tms, state, tdi, bits, idle>>

(* req >>= 1 *)
ShiftRight(xaction) == [xaction EXCEPT !.req = Append(Tail(@), 0)]

(* The queue after the iteration: the transaction is shared with the driver *)
(* until it is popped.                                                      *)
Feed ==
  IF seq = <<>>
  THEN UNCHANGED <<seq, tms, tdi, driverVars>>
  ELSE /\ seq' = CASE rdy -> Tail(seq)
                   [] ~rdy /\ past_tck = 1 /\ tck' = 0 /\ Shifting ->
                        [seq EXCEPT ![1] = ShiftRight(@)]
                   [] OTHER -> seq
       /\ Drive(Head(seq))

LeftAlone == UNCHANGED <<seq, tms, tdi, driverVars>>

(* One iteration of the loop.  trst_n is assigned together with ck_rst_n    *)
(* and resets the TAP at once.  The driver does not touch TMS at the rising *)
(* edge at which the TAP reads it.                                          *)
Iterate ==
  /\ sim = "debug" /\ time < TimeLimit
  /\ time' = time + 1
  /\ CrgEdge(time' > 10 /\ time' < 43)
  /\ tck' = IF time' % HalfPeriod = 0 THEN 1 - tck ELSE tck
  /\ IF time' > 100 THEN Feed ELSE LeftAlone
  /\ CASE ck_rst_n' = 0 -> tap' = "TEST_LOGIC_RESET" /\ UNCHANGED <<shifted, latched, rested>>
       [] ck_rst_n' = 1 /\ tck = 0 /\ tck' = 1 -> TapEdge
       [] OTHER -> UNCHANGED tapVars
  /\ UNCHANGED <<sim, script>>

IterateDefault ==
  /\ sim = "default" /\ time < DefaultLimit
  /\ time' = time + 1
  /\ CrgEdge(time' > 15 /\ time' < 30)
  /\ LeftAlone /\ UNCHANGED <<sim, script, tck, tapVars>>

(* driver's constructor sets rdy and nothing else; "default" has none. *)
Init ==
  /\ CrgInit
  /\ sim \in Sims
  /\ script \in (IF sim = "debug" THEN Scripts ELSE {<<>>}) /\ seq = script
  /\ time = 0 /\ tck = 0 /\ tms = 0 /\ tdi = 0
  /\ rdy = FALSE
  /\ past_tck \in {0, 1} /\ bits \in IntGarbage /\ idle \in IntGarbage
  /\ state \in StateGarbage
  /\ tap \in TapGarbage /\ shifted = <<>> /\ latched = <<>> /\ rested = NumIdle

Next == Iterate \/ IterateDefault

Spec == Init /\ [][Next]_vars

-----------------------------------------------------------------------------
(* When the simulation ends. *)
EndTime == IF sim = "debug" THEN TimeLimit ELSE DefaultLimit

(* Every variable holds a value of its type; bits counts no further than a  *)
(* transaction is long, idle no further than num_idle.                      *)
TypeOK ==
  /\ time \in 0 .. EndTime /\ {tck, tms, tdi, past_tck} \subseteq {0, 1}
  /\ {clk100mhz, ck_rst_n, clk} \subseteq {0, 1} /\ q \in [Stages -> {0, 1}] /\ edges \in 0 .. SyncStages
  /\ rdy \in BOOLEAN /\ {state, tap} \subseteq TapStates
  /\ bits \in IntGarbage \/ \E i \in 1 .. Len(script) : bits \in 0 .. script[i].len
  /\ idle \in IntGarbage \/ idle \in 0 .. NumIdle

(* What a scan reaches was reset and is out of reset: every part of the SoC *)
(* has seen an edge of its clock in reset, whatever it held before; and so  *)
(* it is when a simulation ends (debug: sim_main.cpp:79-97; default: 19-30).*)
ScansAfterReset ==
  latched # <<>> \/ time = EndTime => wasReset /\ rst_n = 1

(* The driver drives open loop - it never looks at the TAP - and still      *)
(* knows where the TAP is: what it believes is where TMS takes the TAP at   *)
(* the next rising edge (driver.cpp:8-109).                                 *)
InStep ==
  state # "TEST_LOGIC_RESET" =>
    state = IF tck = 1 THEN tap ELSE TapNext(tap, tms)

(* What the TAP has been updated with is the beginning of the script, bit   *)
(* for bit, and the queue holds the rest; so nothing is dropped, repeated   *)
(* or reordered by the delayed pop (sim_main.cpp:96-104, driver.cpp:5-65).  *)
DeliveredInOrder ==
  /\ Len(latched) <= Len(script)
  /\ \A i \in 1 .. Len(latched) :
       latched[i] = [mode |-> script[i].mode, req |-> script[i].req]
  /\ Len(script) - Len(seq) <= Len(latched)
  /\ Len(latched) <= Len(script) - Len(seq) + 1

(* A scan begins only after num_idle cycles in RUN_TEST_IDLE ("avoid        *)
(* DTM_BUSY", driver.cpp:4).                                                *)
BusyAvoided == tap = "SELECT_DR_SCAN" => rested >= NumIdle

(* The loop runs long enough for the whole script: at its end every         *)
(* transaction has reached the TAP and was taken from the queue             *)
(* (sim_main.cpp:36-65, 79, 96-104).                                        *)
ScriptFits == time = TimeLimit => Len(latched) = Len(script) /\ seq = <<>>

(* The loop looks at a transaction only when there is one (the test of      *)
(* sim_main.cpp:98 follows the call of front() that it should guard).       *)
FrontExists == time \in 100 .. TimeLimit - 1 => seq # <<>>

-----------------------------------------------------------------------------
(* What ScriptFits asks of the script and of the clock.                     *)

(* The falling edges of TCK that a transaction takes, from one cycle in     *)
(* RUN_TEST_IDLE to the next.                                               *)
IrCycle(t)  == IF t.mode = "JTAG_IR" THEN 1 ELSE 0
CyclesOf(t) == NumIdle + t.len + IrCycle(t) + 6

(* What the last n transactions of s take.                                  *)
CyclesOfLast(s) ==
  LET last[n \in 0 .. Len(s)] == IF n = 0 THEN 0 ELSE CyclesOf(s[Len(s) - n + 1]) + last[n - 1]
  IN  last

(* The falling edges of TCK before the driver is called first; the next one *)
(* takes it to RUN_TEST_IDLE.                                               *)
FallsBefore == (100 \div HalfPeriod) \div 2

(* The last falling edge that a script needs comes before the loop ends.    *)
InTime ==
  \A s \in Scripts : (2 * (FallsBefore + 1 + CyclesOfLast(s)[Len(s)])) * HalfPeriod < TimeLimit

-----------------------------------------------------------------------------
(* What ScansAfterReset asks of the synchronizer: from the first edge of clk*)
(* after the pulse (at 45 in debug, 33 in default) a one moves on a stage   *)
(* every fourth iteration, and has reached the last one when the driver is  *)
(* called first (at 101), and before either simulation ends.                *)
ResetInTime ==
  /\ Sims \subseteq {"debug", "default"}
  /\ 45 + 4 * (SyncStages - 1) <= 101 /\ 45 + 4 * (SyncStages - 1) <= TimeLimit
  /\ 33 + 4 * (SyncStages - 1) <= DefaultLimit
=============================================================================
