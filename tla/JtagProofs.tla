----------------------------- MODULE JtagProofs -----------------------------
(***************************************************************************)
(* Proofs about JtagDriver and Crg: for every script, clock ratio, number  *)
(* of idle cycles and of synchronizer stages, and any contents of the TAP  *)
(* and of the driver's counters, if the driver's state starts as           *)
(* TEST_LOGIC_RESET.                                                       *)
(***************************************************************************)
EXTENDS JtagDriver, Basics, SequenceTheorems

(* The run jtag_uninit shows that this is needed. *)
StateCleared == StateGarbage = {"TEST_LOGIC_RESET"}

-----------------------------------------------------------------------------
(* A stage holds a one only if the pin has been high at as many edges as    *)
(* there are stages up to it.                                               *)
SynchronizerInv ==
  /\ edges \in 0 .. SyncStages /\ ck_rst_n \in {0, 1}
  /\ q \in [Stages -> {0, 1}]
  /\ \A k \in Stages : q[k] = 1 => ck_rst_n = 1 /\ k < edges

LEMMA SynchronizerStep ==
  ASSUME SynchronizerInv, NEW reset \in BOOLEAN, CrgEdge(reset)
  PROVE  SynchronizerInv'
<1>1. SyncStages \in Nat \ {0} /\ Stages = 0 .. SyncStages - 1
  BY StagesAssumption DEF StagesAssumption, Stages
<1>2. ck_rst_n' \in {0, 1} /\ edges' \in 0 .. SyncStages
  BY <1>1 DEF SynchronizerInv, CrgEdge
<1>3. CASE ck_rst_n' = 0
  <2>1. q' = [k \in Stages |-> 0]
    BY <1>3 DEF CrgEdge, QEdge
  <2>. QED BY <1>2, <2>1, <1>1 DEF SynchronizerInv, Stages
<1>4. CASE ck_rst_n' = 1 /\ ClkRises
  <2>1. q' = [k \in Stages |-> IF k = 0 THEN 1 ELSE q[k - 1]]
    BY <1>4 DEF CrgEdge, QEdge
  <2>2. edges' = IF edges < SyncStages THEN edges + 1 ELSE edges
    BY <1>4 DEF CrgEdge
  <2>3. \A k \in Stages : k # 0 => k - 1 \in Stages
    BY <1>1
  <2>4. q' \in [Stages -> {0, 1}]
    BY <2>1, <2>3 DEF SynchronizerInv
  <2>5. ASSUME NEW k \in Stages, q'[k] = 1 PROVE k < edges'
    <3>1. k \in Nat /\ k < SyncStages /\ edges \in Nat
      BY <1>1 DEF SynchronizerInv
    <3>2. k # 0 => q[k - 1] = 1
      BY <2>1, <2>5
    <3>3. k # 0 => k - 1 < edges
      BY <2>3, <3>2 DEF SynchronizerInv
    <3>. QED BY <2>2, <3>1, <3>3
  <2>. QED BY <1>2, <1>4, <2>4, <2>5 DEF SynchronizerInv, Stages
<1>5. CASE ck_rst_n' = 1 /\ ~ClkRises
  <2>1. q' = q /\ edges' = edges
    BY <1>5 DEF CrgEdge, QEdge
  <2>. QED BY <1>2, <1>5, <2>1 DEF SynchronizerInv, Stages
<1>. QED BY <1>2, <1>3, <1>4, <1>5

(* The SoC leaves reset when the pin has been high at as many edges of clk  *)
(* as the synchronizer has stages (sync_reset.sv:11-17).                    *)
THEOREM ResetIsSynchronised == Spec => []ResetSynchronised
<1>1. Init => SynchronizerInv
  BY StagesAssumption DEF StagesAssumption, Init, CrgInit, SynchronizerInv, Stages
<1>2. SynchronizerInv /\ [Next]_vars => SynchronizerInv'
  <2>1. ASSUME SynchronizerInv, Iterate PROVE SynchronizerInv'
    BY <2>1, SynchronizerStep DEF Iterate
  <2>2. ASSUME SynchronizerInv, IterateDefault PROVE SynchronizerInv'
    BY <2>2, SynchronizerStep DEF IterateDefault
  <2>3. ASSUME SynchronizerInv, UNCHANGED vars PROVE SynchronizerInv'
    BY <2>3 DEF vars, crgVars, SynchronizerInv, Stages
  <2>. QED BY <2>1, <2>2, <2>3 DEF Next
<1>3. SynchronizerInv => ResetSynchronised
  BY StagesAssumption DEF StagesAssumption, SynchronizerInv, ResetSynchronised, rst_n, Stages
<1>. QED BY <1>1, <1>2, <1>3, PTL DEF Spec

-----------------------------------------------------------------------------
(* The pin is high long before the driver begins.                           *)
PinInv ==
  /\ time \in Nat
  /\ sim = "debug" =>
       /\ ck_rst_n \in {0, 1} /\ clk100mhz = time % 2
       /\ time >= 44 => ck_rst_n = 1

(* Until the driver leaves TEST_LOGIC_RESET, TMS is low; the reset pulse    *)
(* takes the TAP along, so that it waits there or in RUN_TEST_IDLE.         *)
WaitingInv ==
  state = "TEST_LOGIC_RESET" =>
    /\ tms = 0 /\ ~rdy
    /\ sim = "debug" /\ time >= 12 => tap \in {"TEST_LOGIC_RESET", "RUN_TEST_IDLE"}

(* From then on the driver sees every edge of TCK, until the queue is empty *)
(* and it rests in RUN_TEST_IDLE.  It reports a scan as done while TCK is   *)
(* low, so that what is popped is not driven once more.                     *)
DrivingInv ==
  state # "TEST_LOGIC_RESET" =>
    /\ time > 100
    /\ InStep
    /\ seq # <<>> => past_tck = tck
    /\ rdy => past_tck = 0
    /\ rdy \/ seq = <<>> => state = "RUN_TEST_IDLE" /\ tms = 0

StepInv ==
  /\ tck \in {0, 1} /\ rdy \in BOOLEAN
  /\ state \in TapStates /\ tap \in TapStates
  /\ sim = "default" => state = "TEST_LOGIC_RESET"
  /\ seq \in Seq(Transaction)
  /\ PinInv /\ WaitingInv /\ DrivingInv

(* The driver's state machine goes where TMS takes the TAP, whatever the    *)
(* transaction.                                                             *)
LEMMA StepIsTapNext ==
  ASSUME NEW xaction, state \in TapStates, state # "TEST_LOGIC_RESET"
  PROVE  /\ Step(xaction).to = TapNext(state, Step(xaction).tms)
         /\ Step(xaction).to \in TapStates \ {"TEST_LOGIC_RESET"}
         /\ ScanDone(state) => Step(xaction) = [tms |-> 0, to |-> "RUN_TEST_IDLE"]
<1>1. CASE state = "RUN_TEST_IDLE"
  BY <1>1 DEF Step, TapNext, TapStates, ScanDone
<1>2. CASE state = "SELECT_DR_SCAN"
  BY <1>2 DEF Step, ScanStep, TapNext, TapStates, ScanDone
<1>3. CASE state \in {"SHIFT_DR", "SHIFT_IR"}
  BY <1>3 DEF Step, TapNext, TapStates, ScanDone
<1>4. CASE state \in {"SELECT_IR_SCAN", "CAPTURE_DR", "CAPTURE_IR", "EXIT1_DR", "EXIT1_IR"}
  BY <1>4 DEF Step, TapNext, TapStates, ScanDone
<1>5. CASE state \in {"PAUSE_DR", "PAUSE_IR", "EXIT2_DR", "EXIT2_IR", "UPDATE_DR", "UPDATE_IR"}
  BY <1>5 DEF Step, TapNext, TapStates, ScanDone
<1>. QED BY <1>1, <1>2, <1>3, <1>4, <1>5 DEF TapStates

LEMMA TapNextIsState ==
  ASSUME NEW s \in TapStates, NEW m PROVE TapNext(s, m) \in TapStates
BY DEF TapNext, TapStates

(* The clock of the pins changes with every iteration, and the pulse on the *)
(* reset pin is over before the driver begins.                              *)
LEMMA PinStep ==
  ASSUME PinInv, Iterate
  PROVE  PinInv' /\ time' = time + 1 /\ (time' = 12 => ck_rst_n' = 0)
<1>1. time \in Nat /\ time' = time + 1 /\ clk100mhz = time % 2 /\ sim = "debug"
  BY DEF PinInv, Iterate
<1>2. clk100mhz' = 1 - clk100mhz
  BY DEF Iterate, CrgEdge
<1>3. clk100mhz' = time' % 2
  BY <1>1, <1>2
<1>4. ck_rst_n' = IF clk100mhz' = 1 THEN ck_rst_n ELSE IF time' > 10 /\ time' < 43 THEN 0 ELSE 1
  BY DEF Iterate, CrgEdge
<1>5. time' = 12 => ck_rst_n' = 0
  BY <1>1, <1>3, <1>4
<1>6. time' >= 44 => ck_rst_n' = 1
  <2>1. CASE time' = 44
    BY <1>1, <1>3, <1>4, <2>1
  <2>2. CASE time' > 44
    BY <1>1, <1>4, <2>2 DEF PinInv
  <2>. QED BY <1>1, <2>1, <2>2
<1>7. ck_rst_n' \in {0, 1}
  BY <1>1, <1>4 DEF PinInv
<1>. QED BY <1>1, <1>3, <1>5, <1>6, <1>7 DEF PinInv

(* Popping and shifting leave a queue of transactions.                      *)
LEMMA FeedKeepsQueue ==
  ASSUME seq \in Seq(Transaction), seq # <<>>, Feed
  PROVE  seq' \in Seq(Transaction) /\ (~rdy => seq' # <<>>)
<1>1. CASE rdy
  BY <1>1 DEF Feed
<1>2. CASE ~rdy /\ past_tck = 1 /\ tck' = 0 /\ Shifting
  <2>1. seq' = [seq EXCEPT ![1] = ShiftRight(seq[1])]
    BY <1>2 DEF Feed
  <2>2. 1 \in 1 .. Len(seq) /\ seq[1] \in Transaction
    OBVIOUS
  <2>3. Append(Tail(seq[1].req), 0) \in Seq({0, 1}) \ {<<>>}
    <3>1. seq[1].req \in Seq({0, 1}) /\ seq[1].req # <<>>
      BY <2>2 DEF Transaction
    <3>2. Tail(seq[1].req) \in Seq({0, 1})
      BY <3>1, HeadTailProperties
    <3>3. 0 \in {0, 1}
      OBVIOUS
    <3>. QED BY <3>2, <3>3, AppendProperties, Zenon
  <2>4. ShiftRight(seq[1]) \in Transaction
    BY <2>2, <2>3 DEF Transaction, ShiftRight
  <2>. QED BY <1>2, <2>1, <2>2, <2>4
<1>3. CASE ~rdy /\ ~(past_tck = 1 /\ tck' = 0 /\ Shifting)
  BY <1>3 DEF Feed
<1>. QED BY <1>1, <1>2, <1>3

(* What an iteration does to the TAP, and what it leaves to the driver.     *)
LEMMA TapMoves ==
  ASSUME Iterate
  PROVE  /\ ck_rst_n' = 0 => tap' = "TEST_LOGIC_RESET"
         /\ ck_rst_n' = 1 /\ tck = 0 /\ tck' = 1 => TapEdge
         /\ ck_rst_n' # 0 /\ ~(tck = 0 /\ tck' = 1) => UNCHANGED tapVars
         /\ \/ tap' = "TEST_LOGIC_RESET" \/ tap' = tap \/ tap' = TapNext(tap, tms)
<1>1. CASE ck_rst_n' = 0
  BY <1>1 DEF Iterate
<1>2. CASE ck_rst_n' = 1 /\ tck = 0 /\ tck' = 1
  BY <1>2 DEF Iterate, TapEdge
<1>3. CASE ck_rst_n' # 0 /\ ~(ck_rst_n' = 1 /\ tck = 0 /\ tck' = 1)
  BY <1>3 DEF Iterate, tapVars
<1>. QED BY <1>1, <1>2, <1>3 DEF tapVars

-----------------------------------------------------------------------------
LEMMA StepInit == StateCleared /\ Init => StepInv
<1>. SUFFICES ASSUME StateCleared, Init PROVE StepInv
  OBVIOUS
<1>1. state = "TEST_LOGIC_RESET" /\ tck = 0 /\ rdy = FALSE /\ tms = 0 /\ time = 0 /\ clk100mhz = 0
  BY DEF StateCleared, Init, CrgInit
<1>2. tap \in TapStates
  BY TapAssumption DEF TapAssumption, Init
<1>3. seq \in Seq(Transaction)
  <2>1. CASE sim = "debug"
    BY <2>1, ScriptAssumption DEF ScriptAssumption, Init
  <2>2. CASE sim # "debug"
    BY <2>2 DEF Init
  <2>. QED BY <2>1, <2>2
<1>4. PinInv
  <2>1. ck_rst_n = 1
    BY DEF Init, CrgInit
  <2>. QED BY <1>1, <2>1 DEF PinInv
<1>5. WaitingInv /\ DrivingInv
  BY <1>1 DEF WaitingInv, DrivingInv
<1>. QED BY <1>1, <1>2, <1>3, <1>4, <1>5 DEF StepInv, TapStates

(* Before the driver's first edge, the TAP waits. *)
LEMMA StillWaiting ==
  ASSUME StepInv, Iterate, state = "TEST_LOGIC_RESET", UNCHANGED <<state, tms, rdy>>
  PROVE  WaitingInv' /\ DrivingInv'
<1>1. PinInv' /\ time \in Nat /\ time' = time + 1 /\ (time' = 12 => ck_rst_n' = 0)
  BY PinStep DEF StepInv, PinInv
<1>2. sim = "debug" /\ sim' = sim
  BY DEF Iterate
<1>3. tms = 0 /\ ~rdy /\ (time >= 12 => tap \in {"TEST_LOGIC_RESET", "RUN_TEST_IDLE"})
  BY <1>2 DEF StepInv, WaitingInv
<1>4. time' >= 12 => tap' \in {"TEST_LOGIC_RESET", "RUN_TEST_IDLE"}
  <2>1. CASE time' = 12
    BY <1>1, <2>1, TapMoves
  <2>2. CASE time' > 12
    BY <1>1, <1>3, <2>2, TapMoves DEF TapNext
  <2>. QED BY <1>1, <2>1, <2>2
<1>. QED BY <1>3, <1>4 DEF WaitingInv, DrivingInv

(* The driver assigns nothing, and the TAP may see an edge.                 *)
LEMMA StaysInStep ==
  ASSUME StepInv, Iterate, state # "TEST_LOGIC_RESET", UNCHANGED <<state, tms>>,
         tck' \in {0, 1}, ck_rst_n' = 1,
         tck = 1 /\ tck' = 0 => state = "RUN_TEST_IDLE" /\ tms = 0
  PROVE  InStep'
<1>1. state = IF tck = 1 THEN tap ELSE TapNext(tap, tms)
  BY DEF StepInv, DrivingInv, InStep
<1>2. CASE tck = 0 /\ tck' = 1
  BY <1>1, <1>2, TapMoves DEF TapEdge, InStep
<1>3. CASE tck = 1 /\ tck' = 0
  BY <1>1, <1>3, TapMoves DEF InStep, TapNext, tapVars
<1>4. CASE tck = tck'
  BY <1>1, <1>4, TapMoves DEF InStep, tapVars
<1>. QED BY <1>2, <1>3, <1>4 DEF StepInv

(* The driver assigns its signals at a falling edge of TCK, or, at its very *)
(* first call, because of what past_tck held.                               *)
LEMMA DrivesInStep ==
  ASSUME StepInv, Iterate, seq # <<>>, past_tck = 1, tck' = 0, ck_rst_n' = 1, time > 99,
         DriveFalling(Head(seq))
  PROVE  /\ InStep' /\ state' \in TapStates \ {"TEST_LOGIC_RESET"}
         /\ rdy' \in BOOLEAN /\ (rdy' => state' = "RUN_TEST_IDLE" /\ tms' = 0)
<1>1. /\ tms' = Step(Head(seq)).tms /\ state' = Step(Head(seq)).to
      /\ rdy' = ScanDone(state)
  BY DEF DriveFalling
<1>2. tap' = tap
  BY TapMoves DEF tapVars
<1>3. ScanDone(state) \in BOOLEAN
  BY DEF ScanDone
<1>4. CASE state = "TEST_LOGIC_RESET"
  <2>1. tap \in {"TEST_LOGIC_RESET", "RUN_TEST_IDLE"}
    BY <1>4 DEF StepInv, WaitingInv, PinInv, Iterate
  <2>2. tms' = 0 /\ state' = "RUN_TEST_IDLE"
    BY <1>1, <1>4 DEF Step
  <2>3. ~ScanDone(state)
    BY <1>4 DEF ScanDone
  <2>4. InStep'
    BY <1>2, <2>1, <2>2 DEF InStep, TapNext
  <2>. QED BY <1>1, <1>3, <2>2, <2>3, <2>4 DEF TapStates
<1>5. CASE state # "TEST_LOGIC_RESET"
  <2>1. state \in TapStates /\ tap = state
    BY <1>5 DEF StepInv, DrivingInv, InStep
  <2>2. /\ state' = TapNext(state, tms') /\ state' \in TapStates \ {"TEST_LOGIC_RESET"}
        /\ ScanDone(state) => state' = "RUN_TEST_IDLE" /\ tms' = 0
    BY <1>1, <1>5, <2>1, StepIsTapNext
  <2>3. InStep'
    BY <1>2, <2>1, <2>2 DEF InStep
  <2>. QED BY <1>1, <1>3, <2>2, <2>3
<1>. QED BY <1>4, <1>5

LEMMA IterateInStep == ASSUME StepInv, Iterate PROVE StepInv'
<1>. USE DEF StepInv
<1>1. /\ PinInv' /\ time \in Nat /\ time' = time + 1
      /\ tck' \in {0, 1} /\ sim' = sim /\ sim = "debug"
  <2>1. tck' \in {0, 1} /\ sim' = sim /\ sim = "debug"
    BY DEF Iterate
  <2>. QED BY <2>1, PinStep DEF PinInv
<1>2. tap' \in TapStates
  <2>1. TapNext(tap, tms) \in TapStates /\ "TEST_LOGIC_RESET" \in TapStates
    BY TapNextIsState DEF TapStates
  <2>. QED BY <2>1, TapMoves
<1>3. CASE time' <= 100
  <2>1. UNCHANGED <<seq, tms, state, rdy>>
    BY <1>1, <1>3 DEF Iterate, LeftAlone, driverVars
  <2>2. state = "TEST_LOGIC_RESET"
    BY <1>1, <1>3 DEF DrivingInv
  <2>. QED BY <1>1, <1>2, <2>1, <2>2, StillWaiting
<1>4. CASE time' > 100
  <2>1. Feed /\ time > 99
    BY <1>1, <1>4 DEF Iterate
  <2>2. ck_rst_n' = 1
    BY <1>1, <1>4 DEF PinInv
  <2>3. CASE seq = <<>>
    <3>1. UNCHANGED <<seq, tms, state, rdy, past_tck>>
      BY <2>1, <2>3 DEF Feed, driverVars
    <3>2. CASE state = "TEST_LOGIC_RESET"
      BY <1>1, <1>2, <3>1, <3>2, StillWaiting
    <3>3. CASE state # "TEST_LOGIC_RESET"
      <4>1. state = "RUN_TEST_IDLE" /\ tms = 0 /\ (rdy => past_tck = 0)
        BY <2>3, <3>3 DEF DrivingInv
      <4>2. InStep'
        BY <1>1, <2>2, <3>1, <3>3, <4>1, StaysInStep
      <4>. QED BY <1>1, <1>2, <1>4, <2>3, <3>1, <3>3, <4>1, <4>2 DEF WaitingInv, DrivingInv
    <3>. QED BY <3>2, <3>3
  <2>4. CASE seq # <<>>
    <3>1. Drive(Head(seq)) /\ past_tck' = tck' /\ seq' \in Seq(Transaction) /\ (~rdy => seq' # <<>>)
      BY <2>1, <2>4, FeedKeepsQueue DEF Feed, Drive
    <3>2. CASE past_tck = 1 /\ tck' = 0
      <4>1. DriveFalling(Head(seq))
        BY <3>1, <3>2 DEF Drive
      <4>2. /\ InStep' /\ state' \in TapStates \ {"TEST_LOGIC_RESET"}
            /\ rdy' \in BOOLEAN /\ (rdy' => state' = "RUN_TEST_IDLE" /\ tms' = 0)
        BY <2>1, <2>2, <2>4, <3>2, <4>1, DrivesInStep
      <4>3. ~rdy
        BY <3>2 DEF WaitingInv, DrivingInv
      <4>. QED BY <1>1, <1>2, <1>4, <3>1, <3>2, <4>2, <4>3 DEF WaitingInv, DrivingInv
    <3>3. CASE ~(past_tck = 1 /\ tck' = 0)
      <4>1. rdy' = FALSE /\ UNCHANGED <<tms, state>>
        BY <3>1, <3>3 DEF Drive
      <4>2. CASE state = "TEST_LOGIC_RESET"
        <5>1. rdy = FALSE
          BY <4>2 DEF WaitingInv
        <5>. QED BY <1>1, <1>2, <3>1, <4>1, <4>2, <5>1, StillWaiting
      <4>3. CASE state # "TEST_LOGIC_RESET"
        <5>1. past_tck = tck /\ (rdy => state = "RUN_TEST_IDLE" /\ tms = 0)
          BY <2>4, <4>3 DEF DrivingInv
        <5>2. InStep'
          BY <1>1, <2>2, <3>3, <4>1, <4>3, <5>1, StaysInStep
        <5>. QED BY <1>1, <1>2, <1>4, <3>1, <4>1, <4>3, <5>1, <5>2 DEF WaitingInv, DrivingInv
      <4>. QED BY <4>2, <4>3
    <3>. QED BY <3>2, <3>3
  <2>. QED BY <2>3, <2>4
<1>. QED BY <1>1, <1>3, <1>4

LEMMA InStepNext == StepInv /\ [Next]_vars => StepInv'
<1>1. ASSUME StepInv, IterateDefault PROVE StepInv'
  <2>1. /\ sim = "default" /\ sim' = sim /\ time' = time + 1
        /\ UNCHANGED <<tck, tms, seq, rdy, past_tck, state, tap>>
    BY <1>1 DEF IterateDefault, LeftAlone, driverVars, tapVars
  <2>2. state = "TEST_LOGIC_RESET" /\ time \in Nat
    BY <1>1, <2>1 DEF StepInv, PinInv
  <2>. QED BY <1>1, <2>1, <2>2 DEF StepInv, PinInv, WaitingInv, DrivingInv
<1>2. ASSUME StepInv, UNCHANGED vars PROVE StepInv'
  BY <1>2 DEF vars, crgVars, driverVars, tapVars, StepInv, PinInv, WaitingInv, DrivingInv, InStep
<1>. QED BY <1>1, <1>2, IterateInStep DEF Next

(* What the driver believes of the TAP is true, although it never looks at  *)
(* it (driver.cpp:8-109).                                                   *)
THEOREM DriverIsInStep == StateCleared => (Spec => []InStep)
<1>. SUFFICES ASSUME StateCleared PROVE Spec => []InStep
  OBVIOUS
<1>1. Init => StepInv
  BY StepInit
<1>2. StepInv => InStep
  BY DEF StepInv, DrivingInv, InStep
<1>. QED BY <1>1, <1>2, InStepNext, PTL DEF Spec

-----------------------------------------------------------------------------
(* idle counts falling edges of TCK in RUN_TEST_IDLE, the TAP rests there   *)
(* at rising ones: idle is one ahead at most, and was reset while the TAP   *)
(* was elsewhere.                                                           *)
RestInv ==
  /\ rested \in Nat
  /\ BusyAvoided
  /\ state = "RUN_TEST_IDLE" =>
       /\ idle \in Nat
       /\ tck = 1 => rested >= NumIdle \/ idle <= rested
       /\ tck = 0 => rested >= NumIdle \/ idle <= rested + 1
       /\ tap # "RUN_TEST_IDLE" => idle = 0
  /\ state = "SELECT_DR_SCAN" =>
       /\ tck = 1 => rested >= NumIdle
       /\ tck = 0 => rested + 1 >= NumIdle /\ tap = "RUN_TEST_IDLE"

LEMMA RestInit == Init => RestInv \/ state # "TEST_LOGIC_RESET"
BY NumIdleAssumption DEF NumIdleAssumption, Init, RestInv, BusyAvoided

(* Where RUN_TEST_IDLE and SELECT_DR_SCAN are entered from.                 *)
LEMMA StepIntoIdle ==
  ASSUME NEW xaction, state \in TapStates
  PROVE  /\ Step(xaction).to = "RUN_TEST_IDLE" => IdleReset(state) \/ state = "RUN_TEST_IDLE"
         /\ Step(xaction).to = "SELECT_DR_SCAN" => state = "RUN_TEST_IDLE" /\ ~StillIdle(idle)
<1>1. CASE state = "RUN_TEST_IDLE"
  BY <1>1 DEF Step
<1>2. CASE state \in {"TEST_LOGIC_RESET", "UPDATE_DR", "UPDATE_IR"}
  BY <1>2 DEF Step, IdleReset
<1>3. CASE state = "SELECT_DR_SCAN"
  BY <1>3 DEF Step, ScanStep
<1>4. CASE state \in {"SHIFT_DR", "SHIFT_IR"}
  BY <1>4 DEF Step
<1>5. CASE state \in {"SELECT_IR_SCAN", "CAPTURE_DR", "CAPTURE_IR", "EXIT1_DR", "EXIT1_IR",
                      "PAUSE_DR", "PAUSE_IR", "EXIT2_DR", "EXIT2_IR"}
  BY <1>5 DEF Step
<1>. QED BY <1>1, <1>2, <1>3, <1>4, <1>5 DEF TapStates

(* The TAP sees a rising edge, at which the driver does nothing.            *)
LEMMA RestAtRising ==
  ASSUME StepInv, RestInv, TapEdge, tck = 0, tck' = 1, UNCHANGED <<state, idle>>
  PROVE  RestInv'
<1>1. NumIdle \in Nat \ {0} /\ rested \in Nat
  BY NumIdleAssumption DEF NumIdleAssumption, RestInv
<1>2. tap' = TapNext(tap, tms)
  BY DEF TapEdge
<1>3. /\ tap \in {"UPDATE_DR", "UPDATE_IR"} => rested' = 0
      /\ tap = "RUN_TEST_IDLE" => rested' = IF rested < NumIdle THEN rested + 1 ELSE rested
      /\ tap \notin {"UPDATE_DR", "UPDATE_IR", "RUN_TEST_IDLE"} => rested' = rested
  <2>1. CASE tap \in {"UPDATE_DR", "UPDATE_IR"}
    BY <2>1 DEF TapEdge
  <2>2. CASE tap = "RUN_TEST_IDLE"
    BY <2>2 DEF TapEdge
  <2>3. CASE tap \notin {"UPDATE_DR", "UPDATE_IR", "RUN_TEST_IDLE"}
    BY <2>3 DEF TapEdge
  <2>. QED BY <2>1, <2>2, <2>3
<1>4. rested' \in Nat
  BY <1>1, <1>3
<1>5. CASE state = "TEST_LOGIC_RESET"
  <2>1. tap' # "SELECT_DR_SCAN"
    BY <1>2, <1>5 DEF StepInv, WaitingInv, TapNext, TapStates
  <2>. QED BY <1>4, <1>5, <2>1 DEF RestInv, BusyAvoided
<1>6. CASE state # "TEST_LOGIC_RESET"
  <2>1. tap' = state
    BY <1>2, <1>6 DEF StepInv, DrivingInv, InStep
  <2>2. CASE state = "RUN_TEST_IDLE"
    <3>1. rested' >= NumIdle \/ idle <= rested'
      BY <1>1, <1>3, <2>2 DEF RestInv
    <3>. QED BY <1>4, <2>1, <2>2, <3>1 DEF RestInv, BusyAvoided
  <2>3. CASE state = "SELECT_DR_SCAN"
    <3>1. rested' >= NumIdle
      BY <1>1, <1>3, <2>3 DEF RestInv
    <3>2. BusyAvoided'
      BY <3>1 DEF BusyAvoided
    <3>. QED BY <1>4, <2>3, <3>1, <3>2 DEF RestInv
  <2>4. CASE state \notin {"RUN_TEST_IDLE", "SELECT_DR_SCAN"}
    BY <1>4, <2>1, <2>4 DEF RestInv, BusyAvoided
  <2>. QED BY <2>2, <2>3, <2>4
<1>. QED BY <1>5, <1>6

(* The driver assigns its signals, and the TAP sees no edge.                *)
LEMMA RestAtFalling ==
  ASSUME StepInv, RestInv, NEW xaction, DriveFalling(xaction), tck' = 0,
         state # "TEST_LOGIC_RESET" => tck = 1, UNCHANGED <<tap, rested>>
  PROVE  RestInv'
<1>1. NumIdle \in Nat \ {0} /\ rested \in Nat /\ state \in TapStates
  BY NumIdleAssumption DEF NumIdleAssumption, RestInv, StepInv
<1>2. state' = Step(xaction).to
  BY DEF DriveFalling
<1>3. BusyAvoided'
  BY DEF RestInv, BusyAvoided
<1>4. CASE IdleReset(state)
  <2>1. idle' = 0
    BY <1>4 DEF DriveFalling, IdleReset
  <2>2. state # "RUN_TEST_IDLE"
    BY <1>4 DEF IdleReset
  <2>3. state' # "SELECT_DR_SCAN"
    BY <1>1, <1>2, <2>2, StepIntoIdle
  <2>. QED BY <1>1, <1>3, <2>1, <2>3 DEF RestInv
<1>5. CASE state = "RUN_TEST_IDLE"
  <2>1. idle' = idle + 1 /\ tck = 1
    BY <1>5 DEF DriveFalling, IdleReset
  <2>2. tap = "RUN_TEST_IDLE"
    BY <1>5, <2>1 DEF StepInv, DrivingInv, InStep
  <2>3. idle \in Nat /\ (rested >= NumIdle \/ idle <= rested)
    BY <1>1, <1>5, <2>1 DEF RestInv
  <2>4. state' = "SELECT_DR_SCAN" => ~StillIdle(idle)
    BY <1>1, <1>2, StepIntoIdle
  <2>5. state' = "SELECT_DR_SCAN" => idle + 1 >= NumIdle
    BY <1>1, <2>3, <2>4 DEF StillIdle
  <2>. QED BY <1>1, <1>3, <2>1, <2>2, <2>3, <2>5 DEF RestInv
<1>6. CASE ~IdleReset(state) /\ state # "RUN_TEST_IDLE"
  <2>1. state' \notin {"RUN_TEST_IDLE", "SELECT_DR_SCAN"}
    BY <1>1, <1>2, <1>6, StepIntoIdle
  <2>. QED BY <1>1, <1>3, <2>1 DEF RestInv
<1>. QED BY <1>4, <1>5, <1>6

(* Neither driver nor TAP do anything; TCK falls only when the queue is     *)
(* empty.                                                                   *)
LEMMA RestBetween ==
  ASSUME StepInv, RestInv, tck' \in {0, 1}, UNCHANGED <<state, idle, tap, rested>>,
         state # "TEST_LOGIC_RESET" => ~(tck = 0 /\ tck' = 1),
         tck = 1 /\ tck' = 0 => state \in {"TEST_LOGIC_RESET", "RUN_TEST_IDLE"}
  PROVE  RestInv'
<1>1. rested \in Nat /\ BusyAvoided /\ BusyAvoided' /\ tck \in {0, 1}
  BY DEF RestInv, BusyAvoided, StepInv
<1>2. CASE state = "RUN_TEST_IDLE"
  BY <1>1, <1>2 DEF RestInv
<1>3. CASE state = "SELECT_DR_SCAN"
  BY <1>1, <1>3 DEF RestInv
<1>4. CASE state \notin {"RUN_TEST_IDLE", "SELECT_DR_SCAN"}
  BY <1>1, <1>4 DEF RestInv
<1>. QED BY <1>2, <1>3, <1>4

LEMMA IterateRests == ASSUME StepInv, RestInv, Iterate PROVE RestInv'
<1>1. /\ time \in Nat /\ time' = time + 1 /\ PinInv' /\ sim = "debug" /\ sim' = sim
      /\ tck \in {0, 1} /\ tck' \in {0, 1}
  <2>1. PinInv /\ tck \in {0, 1}
    BY DEF StepInv
  <2>2. PinInv' /\ time' = time + 1
    BY <2>1, PinStep
  <2>. QED BY <2>1, <2>2 DEF PinInv, Iterate
<1>2. CASE time' <= 100
  <2>1. UNCHANGED <<state, idle, tms>> /\ state = "TEST_LOGIC_RESET"
    BY <1>1, <1>2 DEF Iterate, LeftAlone, driverVars, StepInv, DrivingInv
  <2>2. CASE ck_rst_n' = 0
    <3>1. tap' = "TEST_LOGIC_RESET" /\ rested' = rested
      BY <2>2 DEF Iterate
    <3>. QED BY <2>1, <3>1 DEF RestInv, BusyAvoided
  <2>3. CASE ck_rst_n' = 1 /\ tck = 0 /\ tck' = 1
    BY <2>1, <2>3, TapMoves, RestAtRising
  <2>4. CASE ck_rst_n' # 0 /\ ~(tck = 0 /\ tck' = 1)
    BY <1>1, <2>1, <2>4, TapMoves, RestBetween DEF tapVars
  <2>. QED BY <1>1, <2>2, <2>3, <2>4 DEF PinInv
<1>3. CASE time' > 100
  <2>1. ck_rst_n' = 1 /\ Feed
    BY <1>1, <1>3 DEF PinInv, Iterate
  <2>2. CASE seq # <<>> /\ past_tck = 1 /\ tck' = 0
    <3>1. DriveFalling(Head(seq))
      BY <2>1, <2>2 DEF Feed, Drive
    <3>2. UNCHANGED <<tap, rested>>
      BY <2>1, <2>2, TapMoves DEF tapVars
    <3>3. state # "TEST_LOGIC_RESET" => tck = 1
      BY <2>2 DEF StepInv, DrivingInv
    <3>. QED BY <2>2, <3>1, <3>2, <3>3, RestAtFalling
  <2>3. CASE ~(seq # <<>> /\ past_tck = 1 /\ tck' = 0)
    <3>1. UNCHANGED <<state, idle>>
      BY <2>1, <2>3 DEF Feed, Drive, driverVars
    <3>2. CASE tck = 0 /\ tck' = 1
      BY <2>1, <3>1, <3>2, TapMoves, RestAtRising
    <3>3. CASE ~(tck = 0 /\ tck' = 1)
      <4>1. UNCHANGED <<tap, rested>>
        BY <2>1, <3>3, TapMoves DEF tapVars
      <4>2. tck = 1 /\ tck' = 0 => state \in {"TEST_LOGIC_RESET", "RUN_TEST_IDLE"}
        BY <2>3 DEF StepInv, DrivingInv
      <4>. QED BY <1>1, <3>1, <3>3, <4>1, <4>2, RestBetween
    <3>. QED BY <3>2, <3>3
  <2>. QED BY <2>2, <2>3
<1>. QED BY <1>1, <1>2, <1>3

(* A scan begins only after num_idle cycles in RUN_TEST_IDLE, counted by    *)
(* the TAP from its last update, whatever idle held at first                *)
(* (driver.cpp:4, 18-28).                                                   *)
THEOREM BusyIsAvoided == StateCleared => (Spec => []BusyAvoided)
<1>. SUFFICES ASSUME StateCleared PROVE Spec => []BusyAvoided
  OBVIOUS
<1>1. Init => StepInv /\ RestInv
  BY StepInit, RestInit DEF StateCleared, Init
<1>2. StepInv /\ RestInv /\ [Next]_vars => RestInv'
  <2>1. ASSUME StepInv, RestInv, IterateDefault PROVE RestInv'
    <3>1. UNCHANGED <<state, idle, tap, rested>> /\ state = "TEST_LOGIC_RESET"
      BY <2>1 DEF IterateDefault, LeftAlone, driverVars, tapVars, StepInv
    <3>. QED BY <2>1, <3>1 DEF RestInv, BusyAvoided
  <2>2. ASSUME StepInv, RestInv, UNCHANGED vars PROVE RestInv'
    BY <2>2 DEF vars, driverVars, tapVars, RestInv, BusyAvoided
  <2>. QED BY <2>1, <2>2, IterateRests DEF Next
<1>3. RestInv => BusyAvoided
  BY DEF RestInv
<1>. QED BY <1>1, <1>2, <1>3, InStepNext, PTL DEF Spec

-----------------------------------------------------------------------------
(* What is taken from the queue is the beginning of the script.             *)
Popped  == Len(script) - Len(seq)
Current == script[Popped + 1]

LatchedScans == [mode : {"JTAG_IR", "JTAG_DR"}, req : Seq({0, 1})]

Delivered(n) ==
  /\ Len(latched) = n /\ n <= Len(script)
  /\ \A i \in 1 .. n : latched[i] = [mode |-> script[i].mode, req |-> script[i].req]

(* The TAP has shifted in the first n bits of the transaction.              *)
ShiftedIn(n) == Len(shifted) = n /\ \A k \in 1 .. n : shifted[k] = Current.req[k]

BeforeShift == {"SELECT_DR_SCAN", "SELECT_IR_SCAN", "CAPTURE_DR", "CAPTURE_IR"}
InShift     == {"SHIFT_DR", "SHIFT_IR"}
AtExit1     == {"EXIT1_DR", "EXIT1_IR"}
AfterExit1  == {"PAUSE_DR", "PAUSE_IR", "EXIT2_DR", "EXIT2_IR", "UPDATE_DR", "UPDATE_IR"}
DrScan == {"CAPTURE_DR", "SHIFT_DR", "EXIT1_DR", "PAUSE_DR", "EXIT2_DR", "UPDATE_DR"}
IrScan == {"SELECT_IR_SCAN", "CAPTURE_IR", "SHIFT_IR", "EXIT1_IR", "PAUSE_IR", "EXIT2_IR", "UPDATE_IR"}

(* What has been delivered: one scan more than was popped, from the update  *)
(* of the TAP to the pop.                                                   *)
Due == IF rdy \/ (ScanDone(state) /\ tck = 1) THEN Popped + 1 ELSE Popped

DataInv ==
  /\ script \in Seq(Transaction) /\ \A i \in 1 .. Len(script) : Len(script[i].req) = script[i].len
  /\ shifted \in Seq({0, 1}) /\ latched \in Seq(LatchedScans) /\ tdi \in {0, 1}
  /\ Len(seq) <= Len(script) /\ \A i \in 2 .. Len(seq) : seq[i] = script[Popped + i]
  /\ Delivered(Due)

(* A transaction that is not being driven is as it was queued.              *)
RestingInv ==
  state \in {"TEST_LOGIC_RESET", "RUN_TEST_IDLE"} /\ ~rdy /\ seq # <<>> => seq[1] = Current

(* What is being driven keeps mode and length and loses a bit at each       *)
(* falling edge; the TAP has it by the next rising edge.                    *)
ScanningInv ==
  state \notin {"TEST_LOGIC_RESET", "RUN_TEST_IDLE"} =>
    /\ seq # <<>> /\ seq[1].mode = Current.mode /\ seq[1].len = Current.len
    /\ Len(seq[1].req) = Current.len
    /\ state \in DrScan => Current.mode = "JTAG_DR"
    /\ state \in IrScan => Current.mode = "JTAG_IR"
    /\ state \in BeforeShift => bits = 0 /\ seq[1] = Current
    /\ state \in InShift =>
         /\ bits \in 0 .. Current.len - 1
         /\ \A k \in 1 .. Current.len - bits : seq[1].req[k] = Current.req[k + bits]
         /\ tck = 1 => ShiftedIn(bits)
         /\ tck = 0 => \/ tap \in BeforeShift /\ bits = 0
                       \/ tap \in InShift /\ bits > 0 /\ ShiftedIn(bits - 1) /\ tdi = Current.req[bits]
    /\ state \in AtExit1 =>
         /\ tck = 1 => ShiftedIn(Current.len)
         /\ tck = 0 => /\ tap \in InShift /\ ShiftedIn(Current.len - 1)
                       /\ tdi = Current.req[Current.len]
    /\ state \in AfterExit1 => ShiftedIn(Current.len)

DeliverInv == DataInv /\ RestingInv /\ ScanningInv

(* The transaction at the head of a queue, and what it was queued as.       *)
LEMMA HeadOfQueue ==
  ASSUME StepInv, DataInv
  PROVE  /\ Len(seq) \in Nat /\ Len(script) \in Nat /\ Popped \in Nat /\ Popped + Len(seq) = Len(script)
         /\ seq = <<>> <=> Len(seq) = 0
         /\ seq # <<>> =>
              /\ Head(seq) = seq[1] /\ seq[1] \in Transaction /\ seq[1].req \in Seq({0, 1})
              /\ Len(seq[1].req) \in Nat \ {0} /\ seq[1].req[1] \in {0, 1}
              /\ Popped + 1 \in 1 .. Len(script)
              /\ Current \in Transaction /\ Current.req \in Seq({0, 1}) /\ Current.len \in Nat \ {0}
              /\ Current.mode \in {"JTAG_IR", "JTAG_DR"} /\ Len(Current.req) = Current.len
<1>1. seq \in Seq(Transaction) /\ script \in Seq(Transaction) /\ Len(seq) <= Len(script)
  BY DEF StepInv, DataInv
<1>2. Len(seq) \in Nat /\ Len(script) \in Nat /\ (seq = <<>> <=> Len(seq) = 0)
  BY <1>1, LenProperties, EmptySeq
<1>3. Popped \in Nat /\ Popped + Len(seq) = Len(script)
  BY <1>1, <1>2 DEF Popped
<1>4. ASSUME seq # <<>>
      PROVE  /\ Head(seq) = seq[1] /\ seq[1] \in Transaction /\ seq[1].req \in Seq({0, 1})
             /\ Len(seq[1].req) \in Nat \ {0} /\ seq[1].req[1] \in {0, 1}
             /\ Popped + 1 \in 1 .. Len(script)
             /\ Current \in Transaction /\ Current.req \in Seq({0, 1}) /\ Current.len \in Nat \ {0}
             /\ Current.mode \in {"JTAG_IR", "JTAG_DR"} /\ Len(Current.req) = Current.len
  <2>1. Popped + 1 \in 1 .. Len(script)
    BY <1>2, <1>3, <1>4
  <2>2. Head(seq) = seq[1] /\ seq[1] \in Transaction
    BY <1>1, <1>2, <1>4, ElementOfSeq
  <2>3. Current \in Transaction /\ Len(Current.req) = Current.len
    BY <1>1, <2>1, ElementOfSeq DEF Current, DataInv
  <2>4. seq[1].req \in Seq({0, 1}) /\ seq[1].req # <<>>
    BY <2>2 DEF Transaction
  <2>5. Len(seq[1].req) \in Nat \ {0}
    BY <2>4, LenProperties, EmptySeq
  <2>6. seq[1].req[1] \in {0, 1}
    BY <2>4, <2>5, ElementOfSeq
  <2>. QED BY <2>1, <2>2, <2>3, <2>4, <2>5, <2>6 DEF Transaction
<1>. QED BY <1>2, <1>3, <1>4

LEMMA DeliverInit == StateCleared /\ Init => DeliverInv
<1>. SUFFICES ASSUME StateCleared, Init PROVE DeliverInv
  OBVIOUS
<1>1. /\ state = "TEST_LOGIC_RESET" /\ rdy = FALSE /\ seq = script /\ tdi = 0
      /\ shifted = <<>> /\ latched = <<>>
  BY DEF StateCleared, Init
<1>2. script \in Seq(Transaction) /\ \A i \in 1 .. Len(script) : Len(script[i].req) = script[i].len
  <2>1. CASE sim = "debug"
    BY <2>1, ScriptAssumption DEF ScriptAssumption, Init
  <2>2. CASE sim # "debug"
    BY <2>2 DEF Init
  <2>. QED BY <2>1, <2>2
<1>3. Popped = 0 /\ Len(script) \in Nat
  BY <1>1, <1>2, LenProperties DEF Popped
<1>4. Due = 0
  BY <1>1, <1>3 DEF Due, ScanDone
<1>5. Delivered(Due)
  BY <1>1, <1>3, <1>4 DEF Delivered
<1>6. DataInv
  <2>1. shifted \in Seq({0, 1}) /\ latched \in Seq(LatchedScans)
    BY <1>1, EmptySeq
  <2>. QED BY <1>1, <1>2, <1>3, <1>5, <2>1 DEF DataInv
<1>7. seq # <<>> => seq[1] = Current
  BY <1>1, <1>3 DEF Current
<1>. QED BY <1>1, <1>6, <1>7 DEF DeliverInv, RestingInv, ScanningInv

-----------------------------------------------------------------------------
(* An iteration in which the driver assigns none of its signals: it may     *)
(* pop the transaction that was reported as done before.                    *)
Settles ==
  /\ rdy' = FALSE /\ seq' = IF rdy THEN Tail(seq) ELSE seq
  /\ UNCHANGED <<script, state, tms, tdi, bits>>

LEMMA Pop ==
  ASSUME StepInv, DeliverInv, Settles
  PROVE  /\ Len(seq') <= Len(script) /\ \A i \in 2 .. Len(seq') : seq'[i] = script[Popped' + i]
         /\ RestingInv'
         /\ rdy => state = "RUN_TEST_IDLE" /\ seq # <<>>
         /\ Popped' = IF rdy THEN Popped + 1 ELSE Popped
<1>1. /\ Len(seq) \in Nat /\ Len(script) \in Nat /\ Popped \in Nat /\ seq \in Seq(Transaction)
      /\ Popped + Len(seq) = Len(script)
      /\ seq = <<>> <=> Len(seq) = 0
  BY HeadOfQueue DEF DeliverInv, StepInv
<1>2. rdy => state = "RUN_TEST_IDLE"
  BY DEF StepInv, WaitingInv, DrivingInv
<1>3. rdy => Popped + 1 <= Len(script)
  BY DEF DeliverInv, DataInv, Due, Delivered
<1>4. rdy => seq # <<>>
  BY <1>1, <1>3
<1>5. CASE rdy
  <2>1. seq' = Tail(seq) /\ Len(seq') = Len(seq) - 1 /\ \A i \in 1 .. Len(seq') : seq'[i] = seq[i + 1]
    BY <1>1, <1>4, <1>5, HeadTailProperties DEF Settles
  <2>2. Popped' = Popped + 1
    <3>1. script' = script
      BY DEF Settles
    <3>2. Popped' = Len(script') - Len(seq') /\ Popped = Len(script) - Len(seq)
      BY DEF Popped
    <3>. QED BY <1>1, <2>1, <3>1, <3>2
  <2>3. \A i \in 1 .. Len(seq') : seq'[i] = script[Popped' + i]
    <3>. SUFFICES ASSUME NEW i \in 1 .. Len(seq') PROVE seq'[i] = script[Popped' + i]
      OBVIOUS
    <3>1. i + 1 \in 2 .. Len(seq) /\ Popped + (i + 1) = Popped' + i
      BY <1>1, <2>1, <2>2
    <3>2. seq[i + 1] = script[Popped + (i + 1)]
      BY <3>1 DEF DeliverInv, DataInv
    <3>. QED BY <2>1, <3>1, <3>2
  <2>4. seq' # <<>> => seq'[1] = Current'
    <3>1. seq' # <<>> => 1 \in 1 .. Len(seq')
      BY <1>1, <1>4, <2>1, HeadTailProperties, EmptySeq
    <3>. QED BY <2>3, <3>1 DEF Current, Settles
  <2>5. RestingInv'
    BY <2>4 DEF RestingInv
  <2>6. Len(seq') <= Len(script) /\ \A i \in 2 .. Len(seq') : seq'[i] = script[Popped' + i]
    <3>1. Len(seq') = Len(seq) - 1
      BY <2>1
    <3>2. Len(seq') <= Len(script) /\ Len(seq') \in Int
      BY <1>1, <3>1
    <3>3. \A i \in 2 .. Len(seq') : i \in 1 .. Len(seq')
      BY <3>2
    <3>. QED BY <2>3, <3>2, <3>3
  <2>. QED BY <1>2, <1>4, <1>5, <2>2, <2>5, <2>6
<1>6. CASE ~rdy
  <2>1. seq' = seq /\ Popped' = Popped /\ Current' = Current
    BY <1>6 DEF Settles, Popped, Current
  <2>. QED BY <1>6, <2>1 DEF Settles, DeliverInv, DataInv, RestingInv
<1>. QED BY <1>5, <1>6

(* No edge of TCK that the TAP sees, nor one that the driver sees.          *)
LEMMA NothingMoves ==
  ASSUME StepInv, DeliverInv, Settles, UNCHANGED <<shifted, latched>>,
         UNCHANGED <<tck, tap>> \/ state \in {"TEST_LOGIC_RESET", "RUN_TEST_IDLE"}
  PROVE  DeliverInv'
<1>1. /\ Len(seq') <= Len(script) /\ \A i \in 2 .. Len(seq') : seq'[i] = script[Popped' + i]
      /\ RestingInv'
      /\ rdy => state = "RUN_TEST_IDLE"
      /\ Popped' = IF rdy THEN Popped + 1 ELSE Popped
      /\ script' = script /\ state' = state /\ tdi' = tdi /\ tms' = tms /\ bits' = bits /\ rdy' = FALSE
  BY Pop DEF Settles
<1>2. Due' = Due
  BY <1>1 DEF Due, ScanDone
<1>3. DataInv'
  BY <1>1, <1>2 DEF DeliverInv, DataInv, Delivered
<1>4. ScanningInv'
  <2>1. CASE state \in {"TEST_LOGIC_RESET", "RUN_TEST_IDLE"}
    BY <1>1, <2>1 DEF ScanningInv
  <2>2. CASE state \notin {"TEST_LOGIC_RESET", "RUN_TEST_IDLE"}
    <3>1. seq' = seq /\ tck' = tck /\ tap' = tap
      BY <1>1, <2>2 DEF Settles
    <3>2. Popped' = Popped /\ Current' = Current
      BY <1>1, <3>1 DEF Popped, Current
    <3>. QED BY <1>1, <3>1, <3>2 DEF DeliverInv, ScanningInv, ShiftedIn
  <2>. QED BY <2>1, <2>2
<1>. QED BY <1>1, <1>3, <1>4 DEF DeliverInv

(* What the TAP does with its registers at an edge.                         *)
LEMMA TapRegisters ==
  ASSUME TapEdge
  PROVE  /\ tap \in {"CAPTURE_DR", "CAPTURE_IR"} => shifted' = <<>>
         /\ tap \in InShift => shifted' = Append(shifted, tdi)
         /\ tap \notin {"CAPTURE_DR", "CAPTURE_IR"} \cup InShift => shifted' = shifted
         /\ tap' = "UPDATE_DR" => latched' = Append(latched, [mode |-> "JTAG_DR", req |-> shifted])
         /\ tap' = "UPDATE_IR" => latched' = Append(latched, [mode |-> "JTAG_IR", req |-> shifted])
         /\ ~ScanDone(tap') => latched' = latched
<1>1. /\ tap \in {"CAPTURE_DR", "CAPTURE_IR"} => shifted' = <<>>
      /\ tap \in InShift => shifted' = Append(shifted, tdi)
      /\ tap \notin {"CAPTURE_DR", "CAPTURE_IR"} \cup InShift => shifted' = shifted
  BY DEF TapEdge, InShift
<1>2. /\ tap' = "UPDATE_DR" => latched' = Append(latched, [mode |-> "JTAG_DR", req |-> shifted])
      /\ tap' = "UPDATE_IR" => latched' = Append(latched, [mode |-> "JTAG_IR", req |-> shifted])
      /\ ~ScanDone(tap') => latched' = latched
  BY DEF TapEdge, ScanDone
<1>. QED BY <1>1, <1>2

(* The bit at TDI joins those in the TAP.                                   *)
LEMMA BitJoins ==
  ASSUME shifted \in Seq({0, 1}), NEW n \in Nat \ {0}, ShiftedIn(n - 1), tdi = Current.req[n],
         tdi \in {0, 1}, shifted' = Append(shifted, tdi), Current' = Current
  PROVE  ShiftedIn(n)'
<1>1. Len(shifted) = n - 1 /\ \A k \in 1 .. n - 1 : shifted[k] = Current.req[k]
  BY DEF ShiftedIn
<1>2. /\ Len(shifted') = n
      /\ \A k \in 1 .. n - 1 : shifted'[k] = shifted[k]
      /\ shifted'[n] = tdi
  <2>1. Len(shifted') = Len(shifted) + 1 /\ shifted'[Len(shifted) + 1] = tdi
        /\ \A k \in 1 .. Len(shifted) : shifted'[k] = shifted[k]
    BY AppendProperties
  <2>. QED BY <1>1, <2>1
<1>3. \A k \in 1 .. n : k \in 1 .. n - 1 \/ k = n
  OBVIOUS
<1>. QED BY <1>1, <1>2, <1>3 DEF ShiftedIn

(* When all bits are in, the TAP holds the transaction.                     *)
LEMMA AllBitsIn ==
  ASSUME shifted \in Seq({0, 1}), Current.req \in Seq({0, 1}), Len(Current.req) = Current.len,
         ShiftedIn(Current.len)
  PROVE  shifted = Current.req
BY SeqEqual DEF ShiftedIn

-----------------------------------------------------------------------------
(* A rising edge: the TAP shifts, or is updated.                            *)

LEMMA TapBefore ==
  ASSUME NEW m, tap \in TapStates
  PROVE  /\ tap \in BeforeShift /\ TapNext(tap, m) \in InShift => tap \in {"CAPTURE_DR", "CAPTURE_IR"}
         /\ TapNext(tap, m) \in AfterExit1 => tap \notin {"CAPTURE_DR", "CAPTURE_IR"} \cup InShift
         /\ m = 0 => ~ScanDone(TapNext(tap, m))
<1>1. CASE tap \in {"TEST_LOGIC_RESET", "RUN_TEST_IDLE", "SELECT_DR_SCAN", "SELECT_IR_SCAN"}
  BY <1>1 DEF TapNext, BeforeShift, InShift, AfterExit1, ScanDone
<1>2. CASE tap \in {"CAPTURE_DR", "CAPTURE_IR", "SHIFT_DR", "SHIFT_IR"}
  BY <1>2 DEF TapNext, BeforeShift, InShift, AfterExit1, ScanDone
<1>3. CASE tap \in {"EXIT1_DR", "EXIT1_IR", "PAUSE_DR", "PAUSE_IR"}
  BY <1>3 DEF TapNext, BeforeShift, InShift, AfterExit1, ScanDone
<1>4. CASE tap \in {"UPDATE_DR", "UPDATE_IR"}
  BY <1>4 DEF TapNext, BeforeShift, InShift, AfterExit1, ScanDone
<1>5. CASE tap \in {"EXIT2_DR", "EXIT2_IR"}
  BY <1>5 DEF TapNext, BeforeShift, InShift, AfterExit1, ScanDone
<1>. QED BY <1>1, <1>2, <1>3, <1>4, <1>5 DEF TapStates

LEMMA UpdateDelivers ==
  ASSUME DataInv, Delivered(Popped), Popped \in Nat, Popped + 1 <= Len(script), shifted = Current.req,
         latched' = Append(latched, [mode |-> Current.mode, req |-> shifted]),
         Current.mode \in {"JTAG_IR", "JTAG_DR"}
  PROVE  /\ latched' \in Seq(LatchedScans) /\ Len(latched') = Popped + 1
         /\ \A i \in 1 .. Popped + 1 : latched'[i] = [mode |-> script[i].mode, req |-> script[i].req]
<1> DEFINE scan == [mode |-> Current.mode, req |-> shifted]
<1>1. latched \in Seq(LatchedScans) /\ scan \in LatchedScans /\ Len(latched) = Popped
      /\ \A i \in 1 .. Popped : latched[i] = [mode |-> script[i].mode, req |-> script[i].req]
  BY DEF DataInv, Delivered, LatchedScans
<1>2. scan = [mode |-> script[Popped + 1].mode, req |-> script[Popped + 1].req]
  BY DEF Current
<1> HIDE DEF scan
<1>3. /\ Append(latched, scan) \in Seq(LatchedScans)
      /\ Len(Append(latched, scan)) = Popped + 1
      /\ \A i \in 1 .. Popped : Append(latched, scan)[i] = latched[i]
      /\ Append(latched, scan)[Popped + 1] = scan
  BY <1>1, AppendProperties
<1>4. \A i \in 1 .. Popped + 1 : i \in 1 .. Popped \/ i = Popped + 1
  OBVIOUS
<1>. QED BY <1>1, <1>2, <1>3, <1>4 DEF scan

LEMMA RisingDelivers ==
  ASSUME StepInv, StepInv', DeliverInv, Settles, TapEdge, tck = 0, tck' = 1
  PROVE  DeliverInv'
<1>1. /\ Len(seq') <= Len(script) /\ \A i \in 2 .. Len(seq') : seq'[i] = script[Popped' + i]
      /\ RestingInv'
      /\ rdy => state = "RUN_TEST_IDLE"
      /\ Popped' = IF rdy THEN Popped + 1 ELSE Popped
      /\ script' = script /\ state' = state /\ tdi' = tdi /\ tms' = tms /\ bits' = bits /\ rdy' = FALSE
      /\ tdi \in {0, 1} /\ shifted \in Seq({0, 1}) /\ state \in TapStates /\ tap \in TapStates
  BY Pop DEF Settles, DeliverInv, DataInv, StepInv
<1>2. state # "TEST_LOGIC_RESET" => tap' = state /\ TapNext(tap, tms) = state
  BY <1>1 DEF StepInv, DrivingInv, InStep, TapEdge
<1>3. shifted' \in Seq({0, 1})
  <2>1. Append(shifted, tdi) \in Seq({0, 1}) /\ <<>> \in Seq({0, 1})
    BY <1>1, AppendProperties, EmptySeq
  <2>. QED BY <1>1, <2>1, TapRegisters
<1>4. CASE ~ScanDone(state)
  <2>1. latched' = latched
    <3>1. ~ScanDone(tap')
      <4>1. CASE state = "TEST_LOGIC_RESET"
        <5>1. tap' = TapNext(tap, tms) /\ tms = 0
          BY <4>1 DEF TapEdge, StepInv, WaitingInv
        <5>. QED BY <1>1, <5>1, TapBefore
      <4>. QED BY <1>2, <1>4, <4>1
    <3>. QED BY <3>1, TapRegisters
  <2>2. Due' = Due
    BY <1>1, <1>4 DEF Due, ScanDone
  <2>3. DataInv'
    BY <1>1, <1>3, <2>1, <2>2 DEF DeliverInv, DataInv, Delivered
  <2>4. ScanningInv'
    <3>1. CASE state \in {"TEST_LOGIC_RESET", "RUN_TEST_IDLE"}
      BY <1>1, <3>1 DEF ScanningInv
    <3>2. CASE state \notin {"TEST_LOGIC_RESET", "RUN_TEST_IDLE"}
      <4>1. seq' = seq /\ Popped' = Popped /\ Current' = Current
        BY <1>1, <3>2 DEF Settles, Popped, Current
      <4>2. CASE state \in BeforeShift
        BY <1>1, <3>2, <4>1, <4>2
        DEF DeliverInv, ScanningInv, BeforeShift, InShift, AtExit1, AfterExit1
      <4>3. CASE state \in InShift
        <5>1. tap \in {"CAPTURE_DR", "CAPTURE_IR"} \cup InShift
          BY <1>1, <1>2, <3>2, <4>3, TapBefore DEF DeliverInv, ScanningInv
        <5>2. CASE tap \notin InShift
          <6>1. bits = 0 /\ shifted' = <<>>
            BY <3>2, <4>3, <5>1, <5>2, TapRegisters DEF DeliverInv, ScanningInv
          <6>2. ShiftedIn(bits)'
            BY <1>1, <6>1, EmptySeq DEF ShiftedIn
          <6>. QED BY <1>1, <3>2, <4>1, <4>3, <6>2
               DEF DeliverInv, ScanningInv, BeforeShift, InShift, AtExit1, AfterExit1
        <5>3. CASE tap \in InShift
          <6>1. bits \in Nat \ {0} /\ ShiftedIn(bits - 1) /\ tdi = Current.req[bits]
                /\ shifted' = Append(shifted, tdi)
            BY <3>2, <4>3, <5>3, TapRegisters DEF DeliverInv, ScanningInv, BeforeShift, InShift
          <6>2. ShiftedIn(bits)'
            BY <1>1, <4>1, <6>1, BitJoins DEF ShiftedIn
          <6>. QED BY <1>1, <3>2, <4>1, <4>3, <6>2
               DEF DeliverInv, ScanningInv, BeforeShift, InShift, AtExit1, AfterExit1
        <5>. QED BY <5>2, <5>3
      <4>4. CASE state \in AtExit1
        <5>1. /\ tap \in InShift /\ ShiftedIn(Current.len - 1) /\ tdi = Current.req[Current.len]
              /\ shifted' = Append(shifted, tdi)
          BY <3>2, <4>4, TapRegisters DEF DeliverInv, ScanningInv
        <5>2. Current.len \in Nat \ {0}
          BY <3>2, HeadOfQueue DEF DeliverInv, ScanningInv
        <5>3. ShiftedIn(Current.len)'
          BY <1>1, <4>1, <5>1, <5>2, BitJoins DEF ShiftedIn
        <5>. QED BY <1>1, <3>2, <4>1, <4>4, <5>3
             DEF DeliverInv, ScanningInv, BeforeShift, InShift, AtExit1, AfterExit1
      <4>5. CASE state \in AfterExit1
        <5>1. shifted' = shifted
          BY <1>1, <1>2, <3>2, <4>5, TapBefore, TapRegisters
        <5>. QED BY <1>1, <3>2, <4>1, <4>5, <5>1
             DEF DeliverInv, ScanningInv, ShiftedIn, BeforeShift, InShift, AtExit1, AfterExit1
      <4>. QED BY <1>1, <3>2, <4>2, <4>3, <4>4, <4>5
           DEF TapStates, BeforeShift, InShift, AtExit1, AfterExit1
    <3>. QED BY <3>1, <3>2
  <2>. QED BY <1>1, <2>3, <2>4 DEF DeliverInv
<1>5. CASE ScanDone(state)
  <2>1. state \notin {"TEST_LOGIC_RESET", "RUN_TEST_IDLE"} /\ state \in AfterExit1 /\ ~rdy
    BY <1>1, <1>5 DEF ScanDone, AfterExit1
  <2>2. seq' = seq /\ Popped' = Popped /\ Current' = Current
    BY <1>1, <2>1 DEF Settles, Popped, Current
  <2>3. /\ seq # <<>> /\ ShiftedIn(Current.len)
        /\ state \in DrScan => Current.mode = "JTAG_DR"
        /\ state \in IrScan => Current.mode = "JTAG_IR"
    BY <2>1 DEF DeliverInv, ScanningInv
  <2>4. /\ Popped \in Nat /\ Popped + 1 \in 1 .. Len(script) /\ Current.req \in Seq({0, 1})
        /\ Current.mode \in {"JTAG_IR", "JTAG_DR"} /\ Len(Current.req) = Current.len
    BY <2>3, HeadOfQueue DEF DeliverInv
  <2>5. shifted = Current.req
    BY <1>1, <2>3, <2>4, AllBitsIn
  <2>6. latched' = Append(latched, [mode |-> Current.mode, req |-> shifted])
    BY <1>2, <1>5, <2>3, TapRegisters DEF ScanDone, DrScan, IrScan
  <2>7. Due = Popped /\ Due' = Popped + 1
    BY <1>1, <1>5, <2>1, <2>2 DEF Due, ScanDone
  <2>8. /\ latched' \in Seq(LatchedScans) /\ Len(latched') = Popped + 1
        /\ \A i \in 1 .. Popped + 1 : latched'[i] = [mode |-> script[i].mode, req |-> script[i].req]
    <3>1. DataInv /\ Delivered(Popped) /\ Popped + 1 <= Len(script)
      BY <2>4, <2>7 DEF DeliverInv, DataInv
    <3>. QED BY <2>4, <2>5, <2>6, <3>1, UpdateDelivers
  <2>9. DataInv'
    <3>1. Delivered(Due)'
      BY <1>1, <2>4, <2>7, <2>8 DEF Delivered
    <3>. QED BY <1>1, <1>3, <2>8, <3>1 DEF DeliverInv, DataInv
  <2>10. shifted' = shifted
    BY <1>1, <1>2, <2>1, TapBefore, TapRegisters
  <2>11. ScanningInv'
    BY <1>1, <2>1, <2>2, <2>10
    DEF DeliverInv, ScanningInv, ShiftedIn, BeforeShift, InShift, AtExit1, AfterExit1
  <2>. QED BY <1>1, <2>9, <2>11 DEF DeliverInv
<1>. QED BY <1>4, <1>5

-----------------------------------------------------------------------------
(* A falling edge: the driver assigns its signals.                          *)

(* Shifting leaves the rest of the bits.                                    *)
LEMMA BitLeaves ==
  ASSUME NEW xaction \in Transaction
  PROVE  LET next == ShiftRight(xaction) IN
         /\ next.mode = xaction.mode /\ next.len = xaction.len /\ Len(next.req) = Len(xaction.req)
         /\ \A k \in 1 .. Len(xaction.req) - 1 : next.req[k] = xaction.req[k + 1]
<1>1. /\ xaction.req \in Seq({0, 1}) /\ xaction.req # <<>>
      /\ xaction = [mode |-> xaction.mode, req |-> xaction.req, len |-> xaction.len]
  BY DEF Transaction
<1> DEFINE rest == Tail(xaction.req)
<1>2. /\ rest \in Seq({0, 1}) /\ Len(rest) = Len(xaction.req) - 1
      /\ \A k \in 1 .. Len(rest) : rest[k] = xaction.req[k + 1]
  BY <1>1, HeadTailProperties
<1>3. Len(xaction.req) \in Nat \ {0}
  BY <1>1, LenProperties, EmptySeq
<1>4. ShiftRight(xaction) = [mode |-> xaction.mode, req |-> Append(rest, 0), len |-> xaction.len]
  <2>1. ShiftRight(xaction) = [xaction EXCEPT !.req = Append(rest, 0)]
    BY DEF ShiftRight
  <2> HIDE DEF rest
  <2>. QED BY <1>1, <2>1
<1> HIDE DEF rest
<1>5. /\ Len(Append(rest, 0)) = Len(rest) + 1
      /\ \A k \in 1 .. Len(rest) : Append(rest, 0)[k] = rest[k]
  <2>1. 0 \in {0, 1}
    OBVIOUS
  <2>. QED BY <1>2, <2>1, AppendProperties, SMTT(30)
<1>. QED BY <1>2, <1>3, <1>4, <1>5

Shifts ==
  seq' = IF Shifting THEN [seq EXCEPT ![1] = ShiftRight(@)] ELSE seq

LEMMA ShiftsHead ==
  ASSUME StepInv, DataInv, seq # <<>>, Shifts, script' = script
  PROVE  /\ seq'  # <<>> /\ Len(seq') = Len(seq) /\ \A i \in 2 .. Len(seq) : seq'[i] = seq[i]
         /\ seq'[1] = IF Shifting THEN ShiftRight(seq[1]) ELSE seq[1]
         /\ Popped' = Popped /\ Current' = Current
<1>1. seq \in Seq(Transaction) /\ Len(seq) \in Nat \ {0}
  BY HeadOfQueue DEF StepInv
<1>2. Len(seq') = Len(seq) /\ \A i \in 2 .. Len(seq) : seq'[i] = seq[i]
  BY <1>1 DEF Shifts
<1>3. seq'[1] = IF Shifting THEN ShiftRight(seq[1]) ELSE seq[1]
  BY <1>1 DEF Shifts
<1>4. Popped' = Popped
  BY <1>2 DEF Popped
<1>5. Current' = Current
  BY <1>4 DEF Current
<1>6. seq' # <<>>
  BY <1>1, <1>2, EmptySeq
<1>. QED BY <1>2, <1>3, <1>4, <1>5, <1>6

LEMMA FallingDelivers ==
  ASSUME StepInv, StepInv', DeliverInv, seq # <<>>, ~rdy, DriveFalling(Head(seq)), Shifts, tck' = 0,
         state # "TEST_LOGIC_RESET" => tck = 1, UNCHANGED <<script, tap, shifted, latched>>
  PROVE  DeliverInv'
<1> DEFINE x == seq[1]
           step == Step(x)
<1>1. /\ tms' = step.tms /\ state' = step.to /\ rdy' = ScanDone(state)
      /\ tdi' = IF Driving THEN x.req[1] ELSE tdi
      /\ bits' = CASE state = "RUN_TEST_IDLE" -> 0 [] Shifting -> bits + 1 [] OTHER -> bits
  <2>1. Head(seq) = x
    BY HeadOfQueue DEF DeliverInv
  <2>. QED BY <2>1 DEF DriveFalling
<1>2. /\ seq' # <<>> /\ Len(seq') = Len(seq) /\ \A i \in 2 .. Len(seq) : seq'[i] = seq[i]
      /\ seq'[1] = IF Shifting THEN ShiftRight(x) ELSE x
      /\ Popped' = Popped /\ Current' = Current
  BY ShiftsHead DEF DeliverInv
<1>3. /\ Popped \in Nat /\ x \in Transaction /\ x.req[1] \in {0, 1} /\ state \in TapStates
      /\ Current.len \in Nat \ {0} /\ Current.mode \in {"JTAG_IR", "JTAG_DR"}
      /\ Len(Current.req) = Current.len
  BY HeadOfQueue DEF DeliverInv, StepInv
<1>4. state # "TEST_LOGIC_RESET" => tap = state /\ tck = 1
  BY DEF StepInv, DrivingInv, InStep
<1>5. Due' = Due
  <2>1. CASE ScanDone(state)
    <3>1. Due = Popped + 1 /\ rdy'
      BY <1>1, <1>4, <2>1 DEF Due, ScanDone
    <3>. QED BY <1>2, <3>1 DEF Due
  <2>2. CASE ~ScanDone(state)
    <3>1. ~rdy' /\ tck' # 1
      BY <1>1, <2>2
    <3>2. Due = Popped /\ Due' = Popped'
      BY <2>2, <3>1 DEF Due
    <3>. QED BY <1>2, <3>2
  <2>. QED BY <2>1, <2>2
<1>6. DataInv'
  <2>1. tdi' \in {0, 1}
    BY <1>1, <1>3 DEF DeliverInv, DataInv
  <2>2. Delivered(Due)'
    BY <1>5 DEF DeliverInv, DataInv, Delivered
  <2>. QED BY <1>2, <2>1, <2>2 DEF DeliverInv, DataInv
<1> HIDE DEF x, step
<1>7. RestingInv' /\ ScanningInv'
  <2>1. CASE state = "TEST_LOGIC_RESET"
    <3>1. state' = "RUN_TEST_IDLE" /\ seq'[1] = x /\ x = Current
      <4>1. ~Shifting /\ x = Current
        BY <2>1 DEF Shifting, DeliverInv, RestingInv, x
      <4>. QED BY <1>1, <1>2, <2>1, <4>1 DEF Step, step
    <3>. QED BY <1>2, <3>1 DEF RestingInv, ScanningInv
  <2>2. CASE state = "RUN_TEST_IDLE"
    <3>1. state' \in {"RUN_TEST_IDLE", "SELECT_DR_SCAN"} /\ bits' = 0 /\ seq'[1] = x /\ x = Current
      <4>1. ~Shifting /\ x = Current
        BY <2>2 DEF Shifting, DeliverInv, RestingInv, x
      <4>. QED BY <1>1, <1>2, <2>2, <4>1 DEF Step, step
    <3>. QED BY <1>2, <1>3, <3>1
         DEF RestingInv, ScanningInv, BeforeShift, InShift, AtExit1, AfterExit1, DrScan, IrScan
  <2>3. CASE state \in BeforeShift
    <3>1. /\ bits = 0 /\ x = Current
          /\ state = "CAPTURE_DR" => Current.mode = "JTAG_DR"
          /\ state \in {"SELECT_IR_SCAN", "CAPTURE_IR"} => Current.mode = "JTAG_IR"
      BY <2>3 DEF DeliverInv, ScanningInv, BeforeShift, DrScan, IrScan, x
    <3>2. bits' = 0 /\ seq'[1] = Current /\ tap \in BeforeShift
      BY <1>1, <1>2, <1>4, <2>3, <3>1 DEF BeforeShift, Shifting
    <3>3. \/ state' = "CAPTURE_DR" /\ Current.mode = "JTAG_DR"
          \/ state' \in {"SELECT_IR_SCAN", "CAPTURE_IR"} /\ Current.mode = "JTAG_IR"
          \/ state' = "SHIFT_DR" /\ Current.mode = "JTAG_DR"
          \/ state' = "SHIFT_IR" /\ Current.mode = "JTAG_IR"
      BY <1>1, <1>3, <2>3, <3>1 DEF BeforeShift, Step, ScanStep, step
    <3>4. 0 \in 0 .. Current.len - 1 /\ \A k \in 1 .. Current.len - 0 : Current.req[k] = Current.req[k + 0]
      BY <1>3
    <3>. QED BY <1>2, <1>3, <3>2, <3>3, <3>4
         DEF RestingInv, ScanningInv, BeforeShift, InShift, AtExit1, AfterExit1, DrScan, IrScan
  <2>4. CASE state \in InShift
    <3>1. /\ x.mode = Current.mode /\ x.len = Current.len /\ Len(x.req) = Current.len
          /\ state = "SHIFT_DR" => Current.mode = "JTAG_DR"
          /\ state = "SHIFT_IR" => Current.mode = "JTAG_IR"
          /\ bits \in 0 .. Current.len - 1 /\ ShiftedIn(bits)
          /\ \A k \in 1 .. Current.len - bits : x.req[k] = Current.req[k + bits]
      BY <1>4, <2>4 DEF DeliverInv, ScanningInv, InShift, DrScan, IrScan, x
    <3>2. Shifting /\ Driving /\ state # "RUN_TEST_IDLE"
      BY <2>4 DEF InShift, Shifting, Driving
    <3>3. bits' = bits + 1 /\ tdi' = Current.req[bits + 1] /\ tap \in InShift
      <4>1. 1 \in 1 .. Current.len - bits
        BY <1>3, <3>1
      <4>2. x.req[1] = Current.req[bits + 1]
        BY <3>1, <4>1
      <4>. QED BY <1>1, <1>4, <2>4, <3>2, <4>2 DEF InShift
    <3>4. /\ seq'[1].mode = Current.mode /\ seq'[1].len = Current.len /\ Len(seq'[1].req) = Current.len
          /\ \A k \in 1 .. Current.len - 1 : seq'[1].req[k] = x.req[k + 1]
      BY <1>2, <1>3, <3>1, <3>2, BitLeaves
    <3>5. \A k \in 1 .. Current.len - bits' : seq'[1].req[k] = Current.req[k + bits']
      <4>. SUFFICES ASSUME NEW k \in 1 .. Current.len - bits' PROVE seq'[1].req[k] = Current.req[k + bits']
        OBVIOUS
      <4>1. /\ k \in 1 .. Current.len - 1 /\ k + 1 \in 1 .. Current.len - bits
            /\ (k + 1) + bits = k + bits'
        BY <1>3, <3>1, <3>3
      <4>2. seq'[1].req[k] = x.req[k + 1]
        BY <3>4, <4>1
      <4>3. x.req[k + 1] = Current.req[(k + 1) + bits]
        BY <3>1, <4>1
      <4>. QED BY <4>1, <4>2, <4>3
    <3>6. /\ bits \in Nat /\ bits = bits' - 1
          /\ Len(shifted') = bits /\ \A k \in 1 .. bits : shifted'[k] = Current'.req[k]
      BY <1>2, <1>3, <3>1, <3>3 DEF ShiftedIn
    <3>7. \/ state' = state /\ bits' \in 1 .. Current.len - 1
          \/ /\ state' = IF state = "SHIFT_DR" THEN "EXIT1_DR" ELSE "EXIT1_IR"
             /\ bits' = Current.len
      <4>1. state' = IF MoreBits(bits, x.len) THEN state
                     ELSE IF state = "SHIFT_DR" THEN "EXIT1_DR" ELSE "EXIT1_IR"
        BY <1>1, <2>4 DEF InShift, Step, step
      <4>. QED BY <1>3, <3>1, <3>3, <4>1 DEF MoreBits
    <3>8. CASE state' = state /\ bits' \in 1 .. Current.len - 1
      <4>1. bits' \in 0 .. Current.len - 1 /\ bits' > 0 /\ tdi' = Current.req[bits']
        BY <1>3, <3>3, <3>8
      <4>2. /\ Len(shifted') = bits' - 1
            /\ \A k \in 1 .. bits' - 1 : shifted'[k] = Current'.req[k]
        BY <3>6
      <4>. QED BY <1>2, <2>4, <3>1, <3>3, <3>4, <3>5, <3>8, <4>1, <4>2
           DEF RestingInv, ScanningInv, ShiftedIn, BeforeShift, InShift, AtExit1, AfterExit1, DrScan, IrScan
    <3>9. CASE /\ state' = IF state = "SHIFT_DR" THEN "EXIT1_DR" ELSE "EXIT1_IR"
               /\ bits' = Current.len
      <4>1. ShiftedIn(Current.len - 1)' /\ tdi' = Current.req[Current.len]
        <5>1. bits = Current.len - 1 /\ tdi' = Current.req[bits + 1] /\ Current'.len = Current.len
          BY <1>2, <3>3, <3>6, <3>9
        <5>. QED BY <1>3, <3>3, <3>6, <3>9, <5>1 DEF ShiftedIn
      <4>. QED BY <1>2, <2>4, <3>1, <3>3, <3>4, <3>9, <4>1
           DEF RestingInv, ScanningInv, BeforeShift, InShift, AtExit1, AfterExit1, DrScan, IrScan
    <3>. QED BY <3>7, <3>8, <3>9
  <2>5. CASE state \in AtExit1 \cup AfterExit1
    <3>1. /\ x.mode = Current.mode /\ x.len = Current.len /\ Len(x.req) = Current.len
          /\ state \in DrScan => Current.mode = "JTAG_DR"
          /\ state \in IrScan => Current.mode = "JTAG_IR"
          /\ ShiftedIn(Current.len)
      BY <1>4, <2>5 DEF DeliverInv, ScanningInv, AtExit1, AfterExit1, x
    <3>2. seq'[1] = x
      BY <1>2, <2>5 DEF AtExit1, AfterExit1, Shifting
    <3>3. ShiftedIn(Current.len)'
      BY <1>2, <3>1 DEF ShiftedIn
    <3>4. CASE ScanDone(state)
      <4>1. state' = "RUN_TEST_IDLE" /\ rdy'
        BY <1>1, <3>4 DEF ScanDone, Step, step
      <4>. QED BY <4>1 DEF RestingInv, ScanningInv
    <3>5. CASE ~ScanDone(state)
      <4>1. \/ state' \in {"PAUSE_DR", "EXIT2_DR", "UPDATE_DR"} /\ Current.mode = "JTAG_DR"
            \/ state' \in {"PAUSE_IR", "EXIT2_IR", "UPDATE_IR"} /\ Current.mode = "JTAG_IR"
        BY <1>1, <2>5, <3>1, <3>5 DEF AtExit1, AfterExit1, ScanDone, DrScan, IrScan, Step, step
      <4>. QED BY <1>2, <3>1, <3>2, <3>3, <4>1
           DEF RestingInv, ScanningInv, BeforeShift, InShift, AtExit1, AfterExit1, DrScan, IrScan
    <3>. QED BY <3>4, <3>5
  <2>. QED BY <1>3, <2>1, <2>2, <2>3, <2>4, <2>5
       DEF TapStates, BeforeShift, InShift, AtExit1, AfterExit1
<1>. QED BY <1>6, <1>7 DEF DeliverInv

-----------------------------------------------------------------------------
LEMMA IterateDelivers == ASSUME StepInv, StepInv', DeliverInv, Iterate PROVE DeliverInv'
<1>1. /\ time \in Nat /\ time' = time + 1 /\ PinInv' /\ sim = "debug" /\ sim' = sim
      /\ tck \in {0, 1} /\ tck' \in {0, 1} /\ script' = script /\ rdy \in BOOLEAN
  <2>1. PinInv /\ tck \in {0, 1} /\ rdy \in BOOLEAN
    BY DEF StepInv
  <2>2. PinInv' /\ time' = time + 1
    BY <2>1, PinStep
  <2>. QED BY <2>1, <2>2 DEF PinInv, Iterate
<1>2. CASE time' <= 100
  <2>1. UNCHANGED <<seq, state, tms, tdi, bits, rdy>> /\ state = "TEST_LOGIC_RESET"
    BY <1>1, <1>2 DEF Iterate, LeftAlone, driverVars, StepInv, DrivingInv
  <2>2. ~rdy
    BY <2>1 DEF StepInv, WaitingInv
  <2>3. Settles
    BY <1>1, <2>1, <2>2 DEF Settles
  <2>4. CASE ck_rst_n' = 0
    <3>1. UNCHANGED <<shifted, latched>>
      BY <2>4 DEF Iterate
    <3>. QED BY <2>1, <2>3, <3>1, NothingMoves
  <2>5. CASE ck_rst_n' = 1 /\ tck = 0 /\ tck' = 1
    BY <2>3, <2>5, TapMoves, RisingDelivers
  <2>6. CASE ck_rst_n' # 0 /\ ~(tck = 0 /\ tck' = 1)
    BY <2>1, <2>3, <2>6, TapMoves, NothingMoves DEF tapVars
  <2>. QED BY <1>1, <2>4, <2>5, <2>6 DEF PinInv
<1>3. CASE time' > 100
  <2>1. ck_rst_n' = 1 /\ Feed
    BY <1>1, <1>3 DEF PinInv, Iterate
  <2>2. CASE seq # <<>> /\ past_tck = 1 /\ tck' = 0
    <3>1. DriveFalling(Head(seq)) /\ ~rdy
      BY <2>1, <2>2 DEF Feed, Drive, StepInv, WaitingInv, DrivingInv
    <3>2. Shifts
      BY <2>1, <2>2, <3>1 DEF Feed, Shifts
    <3>3. UNCHANGED <<tap, shifted, latched>>
      BY <2>1, <2>2, TapMoves DEF tapVars
    <3>4. state # "TEST_LOGIC_RESET" => tck = 1
      BY <2>2 DEF StepInv, DrivingInv
    <3>. QED BY <1>1, <2>2, <3>1, <3>2, <3>3, <3>4, FallingDelivers
  <2>3. CASE ~(seq # <<>> /\ past_tck = 1 /\ tck' = 0)
    <3>1. Settles
      <4>1. CASE seq = <<>>
        <5>1. ~rdy
          <6>1. rdy => Popped + 1 <= Len(script)
            BY DEF DeliverInv, DataInv, Due, Delivered
          <6>. QED BY <4>1, <6>1, HeadOfQueue DEF DeliverInv
        <5>2. UNCHANGED <<seq, state, tms, tdi, bits, rdy>>
          BY <2>1, <4>1 DEF Feed, driverVars
        <5>. QED BY <1>1, <5>1, <5>2 DEF Settles
      <4>2. CASE seq # <<>>
        <5>1. rdy' = FALSE /\ UNCHANGED <<state, tms, tdi, bits>>
          BY <2>1, <2>3, <4>2 DEF Feed, Drive
        <5>2. seq' = IF rdy THEN Tail(seq) ELSE seq
          BY <2>1, <2>3, <4>2 DEF Feed
        <5>. QED BY <1>1, <5>1, <5>2 DEF Settles
      <4>. QED BY <4>1, <4>2
    <3>2. CASE tck = 0 /\ tck' = 1
      BY <2>1, <3>1, <3>2, TapMoves, RisingDelivers
    <3>3. CASE ~(tck = 0 /\ tck' = 1)
      <4>1. UNCHANGED <<tap, shifted, latched>>
        BY <2>1, <3>3, TapMoves DEF tapVars
      <4>2. tck' = tck \/ state \in {"TEST_LOGIC_RESET", "RUN_TEST_IDLE"}
        BY <1>1, <2>3, <3>3 DEF StepInv, DrivingInv
      <4>. QED BY <3>1, <4>1, <4>2, NothingMoves
    <3>. QED BY <3>2, <3>3
  <2>. QED BY <2>2, <2>3
<1>. QED BY <1>1, <1>2, <1>3

(* What the TAP is updated with is the script, in its order and bit for     *)
(* bit: the pop that comes an iteration after the scan loses and repeats    *)
(* nothing, for every script, clock ratio and number of idle cycles         *)
(* (sim_main.cpp:96-104, driver.cpp:5-65).                                  *)
THEOREM DeliveredOnceInOrder == StateCleared => (Spec => []DeliveredInOrder)
<1>. SUFFICES ASSUME StateCleared PROVE Spec => []DeliveredInOrder
  OBVIOUS
<1>1. Init => StepInv /\ DeliverInv
  BY StepInit, DeliverInit
<1>2. StepInv /\ StepInv' /\ DeliverInv /\ [Next]_vars => DeliverInv'
  <2>1. ASSUME DeliverInv, UNCHANGED <<script, seq, tck, tdi, state, rdy, bits, tap, shifted, latched>>
        PROVE  DeliverInv'
    <3>1. Popped' = Popped /\ Current' = Current /\ Due' = Due
      BY <2>1 DEF Popped, Current, Due, ScanDone
    <3>. QED BY <2>1, <3>1 DEF DeliverInv, DataInv, Delivered, RestingInv, ScanningInv, ShiftedIn
  <2>2. ASSUME DeliverInv, IterateDefault PROVE DeliverInv'
    BY <2>1, <2>2 DEF IterateDefault, LeftAlone, driverVars, tapVars
  <2>3. ASSUME DeliverInv, UNCHANGED vars PROVE DeliverInv'
    BY <2>1, <2>3 DEF vars, driverVars, tapVars
  <2>. QED BY <2>2, <2>3, IterateDelivers DEF Next
<1>3. StepInv /\ DeliverInv => DeliveredInOrder
  <2>. SUFFICES ASSUME StepInv, DeliverInv PROVE DeliveredInOrder
    OBVIOUS
  <2>1. Delivered(Due) /\ (Due = Popped \/ Due = Popped + 1)
    BY DEF DeliverInv, DataInv, Due
  <2>2. Popped \in Nat /\ Popped = Len(script) - Len(seq)
    BY HeadOfQueue DEF DeliverInv, Popped
  <2>. QED BY <2>1, <2>2 DEF Delivered, DeliveredInOrder
<1>. QED BY <1>1, <1>2, <1>3, InStepNext, PTL DEF Spec


-----------------------------------------------------------------------------
(* The pins' clock is that of the iterations, and clk rises in every fourth *)
(* of them.  The pulse on the reset pin lasts from PulseFrom to PulseTo.    *)
PulseFrom == IF sim = "debug" THEN 12 ELSE 16
PulseTo   == IF sim = "debug" THEN 44 ELSE 30

(* Where the first edge of clk shifts a one into the synchronizer.          *)
FirstEdge == IF sim = "debug" THEN 45 ELSE 33

ResetInv ==
  /\ time \in Nat /\ sim \in {"debug", "default"} /\ ck_rst_n \in {0, 1}
  /\ clk100mhz = time % 2 /\ clk = IF time % 4 \in {1, 2} THEN 1 ELSE 0
  /\ DOMAIN q = Stages
  /\ time \in PulseFrom .. PulseTo - 1 => ck_rst_n = 0 /\ \A k \in Stages : q[k] = 0
  /\ time >= PulseTo => ck_rst_n = 1
  /\ time > PulseFrom => wasReset
  /\ \A k \in Stages : time >= FirstEdge + 4 * k => q[k] = 1

LEMMA StageNumbers ==
  /\ Stages = 0 .. SyncStages - 1 /\ Stages \subseteq Nat /\ SyncStages - 1 \in Stages
  /\ \A k \in Stages : k # 0 => k - 1 \in Stages
BY StagesAssumption DEF StagesAssumption, Stages

(* clk rises in every fourth iteration.                                     *)
LEMMA ClkStep ==
  ASSUME ResetInv, NEW reset, CrgEdge(reset), time' = time + 1
  PROVE  /\ clk100mhz' = time' % 2 /\ clk' = IF time' % 4 \in {1, 2} THEN 1 ELSE 0
         /\ ClkRises <=> time' % 4 = 1
         /\ ck_rst_n' = IF time' % 2 = 1 THEN ck_rst_n ELSE IF reset THEN 0 ELSE 1
<1>1. /\ time \in Nat /\ clk100mhz = time % 2 /\ clk = IF time % 4 \in {1, 2} THEN 1 ELSE 0
      /\ clk100mhz' = 1 - clk100mhz /\ clk' = IF clk100mhz' = 1 THEN 1 - clk ELSE clk
      /\ ck_rst_n' = IF clk100mhz' = 1 THEN ck_rst_n ELSE IF reset THEN 0 ELSE 1
  BY DEF ResetInv, CrgEdge
<1>2. clk100mhz' = (time + 1) % 2
  BY <1>1
<1>3. PICK m \in 0 .. 3 : time % 4 = m /\ (time + 1) % 2 = (m + 1) % 2 /\ (time + 1) % 4 = (m + 1) % 4
  BY <1>1
<1>4. m \in {0, 1, 2, 3}
  OBVIOUS
<1>. QED BY <1>1, <1>2, <1>3, <1>4 DEF ClkRises

LEMMA ResetStep ==
  ASSUME ResetInv, NEW reset \in BOOLEAN, CrgEdge(reset), time' = time + 1, sim' = sim,
         sim = "debug" => (reset <=> time' > 10 /\ time' < 43),
         sim = "default" => (reset <=> time' > 15 /\ time' < 30)
  PROVE  ResetInv'
<1>1. /\ clk100mhz' = time' % 2 /\ clk' = IF time' % 4 \in {1, 2} THEN 1 ELSE 0
      /\ ClkRises <=> time' % 4 = 1
      /\ ck_rst_n' = IF time' % 2 = 1 THEN ck_rst_n ELSE IF reset THEN 0 ELSE 1
  BY ClkStep
<1>2. /\ time \in Nat /\ time' \in Nat /\ sim \in {"debug", "default"} /\ ck_rst_n' \in {0, 1}
      /\ PulseFrom' = PulseFrom /\ PulseTo' = PulseTo /\ FirstEdge' = FirstEdge
  BY <1>1 DEF ResetInv, PulseFrom, PulseTo, FirstEdge
<1>3. /\ PulseFrom % 2 = 0 /\ PulseTo % 2 = 0 /\ (PulseFrom + 1) % 4 = 1 /\ FirstEdge % 4 = 1
      /\ PulseFrom + 1 < PulseTo /\ FirstEdge > PulseTo
      /\ PulseFrom \in Nat /\ PulseTo \in Nat /\ FirstEdge \in Nat
      /\ time' % 2 = 0 => (reset <=> time' \in PulseFrom .. PulseTo - 1)
  BY <1>2 DEF PulseFrom, PulseTo, FirstEdge
<1>4. time' \in PulseFrom .. PulseTo - 1 => ck_rst_n' = 0
  <2>1. ASSUME time' \in PulseFrom .. PulseTo - 1, time' % 2 = 1
        PROVE  ck_rst_n = 0
    <3>1. time' # PulseFrom
      BY <1>3, <2>1
    <3>2. time \in PulseFrom .. PulseTo - 1
      BY <1>2, <1>3, <2>1, <3>1
    <3>. QED BY <3>2 DEF ResetInv
  <2>. QED BY <1>1, <1>2, <1>3, <2>1
<1>5. time' >= PulseTo => ck_rst_n' = 1
  <2>1. ASSUME time' >= PulseTo, time' % 2 = 1
        PROVE  ck_rst_n = 1
    <3>1. time' # PulseTo
      BY <1>3, <2>1
    <3>2. time >= PulseTo
      BY <1>2, <1>3, <2>1, <3>1
    <3>. QED BY <3>2 DEF ResetInv
  <2>2. time' >= PulseTo => time' \notin PulseFrom .. PulseTo - 1
    BY <1>2, <1>3
  <2>3. time' % 2 \in {0, 1}
    BY <1>2
  <2>. QED BY <1>1, <1>3, <2>1, <2>2, <2>3
<1>6. /\ ck_rst_n' = 0 => q' = [k \in Stages |-> 0]
      /\ ck_rst_n' = 1 /\ time' % 4 = 1 => q' = [k \in Stages |-> IF k = 0 THEN 1 ELSE q[k - 1]]
      /\ ck_rst_n' = 1 /\ time' % 4 # 1 => q' = q
  BY <1>1 DEF CrgEdge, QEdge
<1>7. DOMAIN q' = Stages
  BY <1>2, <1>6 DEF ResetInv
<1>8. \A k \in Stages : time' \in PulseFrom .. PulseTo - 1 => q'[k] = 0
  BY <1>4, <1>6
<1>9. time' > PulseFrom => wasReset'
  <2>1. wasReset' = (wasReset \/ (ClkRises /\ rst_n = 0))
    BY DEF CrgEdge
  <2>2. CASE time' = PulseFrom + 1
    <3>1. time = PulseFrom /\ ClkRises
      BY <1>1, <1>2, <1>3, <2>2
    <3>2. rst_n = 0
      BY <1>3, <3>1, StageNumbers DEF ResetInv, rst_n
    <3>. QED BY <2>1, <3>1, <3>2
  <2>3. CASE time' > PulseFrom + 1
    <3>1. time > PulseFrom
      BY <1>2, <1>3, <2>3
    <3>2. wasReset
      BY <3>1 DEF ResetInv
    <3>. QED BY <2>1, <3>2
  <2>. QED BY <1>2, <1>3, <2>2, <2>3
<1>10. ASSUME NEW k \in Stages, time' >= FirstEdge + 4 * k
       PROVE  q'[k] = 1
  <2>1. k \in Nat /\ ck_rst_n' = 1
    BY <1>2, <1>3, <1>5, <1>10, StageNumbers
  <2>2. CASE time' % 4 = 1
    <3>1. k # 0 => k - 1 \in Stages /\ time >= FirstEdge + 4 * (k - 1)
      BY <1>2, <1>3, <1>10, <2>1, StageNumbers
    <3>2. k # 0 => q[k - 1] = 1
      BY <3>1 DEF ResetInv
    <3>. QED BY <1>6, <2>1, <2>2, <3>2
  <2>3. CASE time' % 4 # 1
    <3>1. time' # FirstEdge + 4 * k
      BY <1>3, <2>1, <2>3
    <3>2. time >= FirstEdge + 4 * k
      BY <1>2, <1>3, <1>10, <2>1, <3>1
    <3>3. q[k] = 1
      BY <3>2 DEF ResetInv
    <3>. QED BY <1>6, <2>1, <2>3, <3>3
  <2>. QED BY <2>2, <2>3
<1>11. Stages' = Stages
  BY DEF Stages
<1>. QED BY <1>1, <1>2, <1>4, <1>5, <1>7, <1>8, <1>9, <1>10, <1>11 DEF ResetInv

(* Before the driver is called, TMS is low and takes the TAP, wherever it   *)
(* starts, to no update.                                                    *)
NotLatchedInv ==
  /\ tap \in TapStates
  /\ time <= 100 => tms = 0
  /\ time <= 100 \/ sim = "default" => latched = <<>>

LEMMA NothingLatched ==
  ASSUME NotLatchedInv, time \in Nat, Iterate
  PROVE  NotLatchedInv'
<1>1. time' = time + 1 /\ sim = "debug" /\ sim' = "debug"
  BY DEF Iterate
<1>2. tap' \in TapStates
  <2>1. TapNext(tap, tms) \in TapStates /\ "TEST_LOGIC_RESET" \in TapStates
    BY TapNextIsState DEF NotLatchedInv, TapStates
  <2>. QED BY <2>1, TapMoves DEF NotLatchedInv
<1>3. time' <= 100 => tms' = 0
  BY <1>1 DEF NotLatchedInv, Iterate, LeftAlone
<1>4. time' <= 100 => latched' = <<>>
  <2>. SUFFICES ASSUME time' <= 100 PROVE latched' = <<>>
    OBVIOUS
  <2>1. tms = 0 /\ latched = <<>> /\ tap \in TapStates
    BY <1>1 DEF NotLatchedInv
  <2>2. CASE TapEdge
    <3>1. tap' = TapNext(tap, 0) /\ ~ScanDone(TapNext(tap, 0))
      BY <2>1, <2>2, TapBefore DEF TapEdge
    <3>. QED BY <2>1, <2>2, <3>1, TapRegisters
  <2>3. CASE ~TapEdge
    <3>1. latched' = latched
      BY <2>3 DEF Iterate, tapVars
    <3>. QED BY <2>1, <3>1
  <2>. QED BY <2>2, <2>3
<1>. QED BY <1>1, <1>2, <1>3, <1>4 DEF NotLatchedInv

(* What a scan reaches was reset and is out of reset, and so it is when a   *)
(* simulation ends, for every number of stages that the pulse leaves time   *)
(* for, whatever the synchronizer, the TAP and the driver held at first     *)
(* (debug: sim_main.cpp:79-97; default: 19-30).                             *)
THEOREM ScansComeAfterReset == ResetInTime => (Spec => []ScansAfterReset)
<1>. SUFFICES ASSUME ResetInTime PROVE Spec => []ScansAfterReset
  OBVIOUS
<1>. DEFINE Inv == ResetInv /\ NotLatchedInv
<1>1. Init => Inv
  <2>. SUFFICES ASSUME Init PROVE Inv
    OBVIOUS
  <2>1. /\ time = 0 /\ clk100mhz = 0 /\ clk = 0 /\ ck_rst_n = 1 /\ DOMAIN q = Stages
        /\ sim \in {"debug", "default"} /\ tms = 0 /\ latched = <<>>
    BY DEF ResetInTime, Init, CrgInit
  <2>2. tap \in TapStates
    BY TapAssumption DEF TapAssumption, Init
  <2>3. \A k \in Stages : FirstEdge + 4 * k > 0
    BY StageNumbers DEF FirstEdge
  <2>4. ResetInv
    <3>1. time < PulseFrom /\ time < PulseTo
      BY <2>1 DEF PulseFrom, PulseTo
    <3>2. \A k \in Stages : ~(time >= FirstEdge + 4 * k)
      BY <2>1, <2>3, StageNumbers DEF FirstEdge
    <3>3. 0 % 2 = 0 /\ 0 % 4 = 0
      OBVIOUS
    <3>4. PulseFrom \in Nat /\ PulseTo \in Nat
      BY DEF PulseFrom, PulseTo
    <3>. QED BY <2>1, <3>1, <3>2, <3>3, <3>4 DEF ResetInv
  <2>. QED BY <2>1, <2>2, <2>4 DEF NotLatchedInv
<1>2. Inv /\ [Next]_vars => Inv'
  <2>1. ASSUME Inv, Iterate PROVE Inv'
    <3>1. /\ time' = time + 1 /\ sim' = sim /\ sim = "debug"
          /\ CrgEdge(time' > 10 /\ time' < 43)
      BY <2>1 DEF Iterate
    <3>2. ResetInv'
      BY <2>1, <3>1, ResetStep
    <3>. QED BY <2>1, <3>2, NothingLatched DEF ResetInv
  <2>2. ASSUME Inv, IterateDefault PROVE Inv'
    <3>1. /\ time' = time + 1 /\ sim' = sim /\ sim = "default"
          /\ CrgEdge(time' > 15 /\ time' < 30)
          /\ UNCHANGED <<tms, tap, latched>>
      BY <2>2 DEF IterateDefault, LeftAlone, tapVars
    <3>2. ResetInv'
      BY <2>2, <3>1, ResetStep
    <3>3. NotLatchedInv'
      BY <2>2, <3>1 DEF NotLatchedInv, ResetInv
    <3>. QED BY <3>2, <3>3
  <2>3. ASSUME Inv, UNCHANGED vars PROVE Inv'
    BY <2>3 DEF vars, crgVars, tapVars, ResetInv, NotLatchedInv, PulseFrom, PulseTo, FirstEdge, Stages
  <2>. QED BY <2>1, <2>2, <2>3 DEF Next
<1>3. Inv => ScansAfterReset
  <2>. SUFFICES ASSUME Inv, latched # <<>> \/ time = EndTime PROVE wasReset /\ rst_n = 1
    BY DEF ScansAfterReset
  <2>1. time >= FirstEdge + 4 * (SyncStages - 1) /\ time > PulseFrom
    <3>1. SyncStages - 1 \in Nat /\ TimeLimit \in Nat /\ DefaultLimit \in Nat /\ time \in Nat
      BY StageNumbers, ClockAssumption DEF ClockAssumption, ResetInv
    <3>2. CASE latched # <<>>
      <4>1. sim = "debug" /\ time > 100
        BY <3>1, <3>2 DEF NotLatchedInv, ResetInv
      <4>. QED BY <3>1, <4>1 DEF ResetInTime, FirstEdge, PulseFrom
    <3>3. CASE time = EndTime
      BY <3>1, <3>3 DEF ResetInTime, ResetInv, EndTime, FirstEdge, PulseFrom
    <3>. QED BY <3>2, <3>3
  <2>. QED BY <2>1, StageNumbers DEF ResetInv, rst_n
<1>. QED BY <1>1, <1>2, <1>3, PTL DEF Spec


-----------------------------------------------------------------------------
(* The counters of the driver, and the pins.  What bounds idle is that it   *)
(* is cleared before RUN_TEST_IDLE is entered.                              *)
CounterInv ==
  /\ time \in 0 .. EndTime /\ {tms, past_tck, clk100mhz, clk} \subseteq {0, 1}
  /\ bits \in IntGarbage \/ \E i \in 1 .. Len(script) : bits \in 0 .. script[i].len
  /\ idle \in IntGarbage \/ idle \in 0 .. NumIdle
  /\ state = "RUN_TEST_IDLE" => idle \in 0 .. NumIdle - 1

(* The driver counts a bit while it shifts, and a cycle while it rests.     *)
LEMMA CountersStep ==
  ASSUME StepInv, DeliverInv, CounterInv, seq # <<>>, past_tck = 1, tck' = 0,
         DriveFalling(Head(seq)), script' = script
  PROVE  /\ tms' \in {0, 1}
         /\ bits' \in IntGarbage \/ \E i \in 1 .. Len(script') : bits' \in 0 .. script'[i].len
         /\ idle' \in IntGarbage \/ idle' \in 0 .. NumIdle
         /\ state' = "RUN_TEST_IDLE" => idle' \in 0 .. NumIdle - 1
<1>1. /\ Popped + 1 \in 1 .. Len(script) /\ Current = script[Popped + 1] /\ Current.len \in Nat \ {0}
      /\ state \in TapStates /\ NumIdle \in Nat \ {0}
  BY HeadOfQueue, NumIdleAssumption DEF NumIdleAssumption, DeliverInv, StepInv, Current
<1>2. /\ tms' = Step(Head(seq)).tms /\ state' = Step(Head(seq)).to
      /\ bits' = CASE state = "RUN_TEST_IDLE" -> 0 [] Shifting -> bits + 1 [] OTHER -> bits
      /\ idle' = CASE IdleReset(state) -> 0 [] state = "RUN_TEST_IDLE" -> idle + 1 [] OTHER -> idle
  BY DEF DriveFalling
<1>3. tms' \in {0, 1}
  <2>1. CASE state \in {"TEST_LOGIC_RESET", "RUN_TEST_IDLE", "SELECT_DR_SCAN", "SELECT_IR_SCAN"}
    BY <1>2, <2>1 DEF Step, ScanStep
  <2>2. CASE state \in {"CAPTURE_DR", "CAPTURE_IR", "SHIFT_DR", "SHIFT_IR", "EXIT1_DR", "EXIT1_IR"}
    BY <1>2, <2>2 DEF Step
  <2>3. CASE state \in {"PAUSE_DR", "PAUSE_IR", "EXIT2_DR", "EXIT2_IR", "UPDATE_DR", "UPDATE_IR"}
    BY <1>2, <2>3 DEF Step
  <2>. QED BY <1>1, <2>1, <2>2, <2>3 DEF TapStates
<1>4. bits' \in IntGarbage \/ \E i \in 1 .. Len(script) : bits' \in 0 .. script[i].len
  <2>1. CASE state = "RUN_TEST_IDLE"
    <3>1. bits' = 0 /\ 0 \in 0 .. Current.len
      BY <1>1, <1>2, <2>1 DEF Shifting
    <3>. QED BY <1>1, <3>1
  <2>2. CASE Shifting
    <3>1. bits \in 0 .. Current.len - 1
      BY <2>2 DEF DeliverInv, ScanningInv, InShift, Shifting
    <3>2. bits' = bits + 1
      BY <1>2, <2>2 DEF Shifting
    <3>3. bits' \in 0 .. Current.len
      BY <1>1, <3>1, <3>2
    <3>. QED BY <1>1, <3>3
  <2>3. CASE state # "RUN_TEST_IDLE" /\ ~Shifting
    BY <1>2, <2>3 DEF CounterInv
  <2>. QED BY <2>1, <2>2, <2>3
<1>5. /\ idle' \in IntGarbage \/ idle' \in 0 .. NumIdle
      /\ state' = "RUN_TEST_IDLE" => idle' \in 0 .. NumIdle - 1
  <2>1. CASE IdleReset(state)
    <3>1. idle' = 0
      BY <1>2, <2>1 DEF IdleReset
    <3>. QED BY <1>1, <3>1
  <2>2. CASE state = "RUN_TEST_IDLE"
    <3>1. ~IdleReset(state) /\ idle \in 0 .. NumIdle - 1
      BY <2>2 DEF IdleReset, CounterInv
    <3>2. idle' = idle + 1
      BY <1>2, <2>2, <3>1
    <3>3. state' = "RUN_TEST_IDLE" => StillIdle(idle)
      BY <1>2, <2>2 DEF Step
    <3>. QED BY <1>1, <3>1, <3>2, <3>3 DEF StillIdle
  <2>3. CASE ~IdleReset(state) /\ state # "RUN_TEST_IDLE"
    <3>1. idle' = idle /\ state' # "RUN_TEST_IDLE"
      BY <1>1, <1>2, <2>3, StepIntoIdle
    <3>. QED BY <3>1 DEF CounterInv
  <2>. QED BY <2>1, <2>2, <2>3
<1>. QED BY <1>3, <1>4, <1>5

LEMMA ClockLevels ==
  ASSUME CounterInv, NEW reset, CrgEdge(reset)
  PROVE  {clk100mhz', clk'} \subseteq {0, 1}
BY DEF CounterInv, CrgEdge

LEMMA CountersIterate ==
  ASSUME StepInv, DeliverInv, CounterInv, Iterate
  PROVE  CounterInv'
<1>1. /\ time' = time + 1 /\ sim = "debug" /\ sim' = sim /\ time < TimeLimit /\ script' = script
      /\ CrgEdge(time' > 10 /\ time' < 43) /\ tck \in {0, 1} /\ tck' \in {0, 1}
      /\ time' > 100 => Feed
      /\ time' <= 100 => LeftAlone
  <2>1. time \in Nat /\ tck \in {0, 1}
    BY DEF StepInv, PinInv
  <2>2. /\ time' = time + 1 /\ sim = "debug" /\ sim' = sim /\ time < TimeLimit /\ script' = script
        /\ CrgEdge(time' > 10 /\ time' < 43)
        /\ tck' = IF time' % HalfPeriod = 0 THEN 1 - tck ELSE tck
        /\ IF time' > 100 THEN Feed ELSE LeftAlone
    BY DEF Iterate
  <2>. QED BY <2>1, <2>2
<1>2. time' \in 0 .. EndTime'
  BY <1>1, ClockAssumption DEF ClockAssumption, CounterInv, EndTime
<1>3. {clk100mhz', clk'} \subseteq {0, 1}
  BY <1>1, ClockLevels
<1>4. /\ {tms', past_tck'} \subseteq {0, 1}
      /\ bits' \in IntGarbage \/ \E i \in 1 .. Len(script') : bits' \in 0 .. script'[i].len
      /\ idle' \in IntGarbage \/ idle' \in 0 .. NumIdle
      /\ state' = "RUN_TEST_IDLE" => idle' \in 0 .. NumIdle - 1
  <2>1. CASE time' > 100 /\ seq # <<>> /\ past_tck = 1 /\ tck' = 0
    <3>1. DriveFalling(Head(seq)) /\ past_tck' = tck'
      BY <1>1, <2>1 DEF Feed, Drive
    <3>. QED BY <1>1, <2>1, <3>1, CountersStep
  <2>2. CASE ~(time' > 100 /\ seq # <<>> /\ past_tck = 1 /\ tck' = 0)
    <3>1. UNCHANGED <<tms, state, bits, idle>> /\ past_tck' \in {past_tck, tck'}
      <4>1. CASE time' > 100 /\ seq # <<>>
        BY <1>1, <2>2, <4>1 DEF Feed, Drive
      <4>2. CASE time' > 100 /\ seq = <<>>
        BY <1>1, <4>2 DEF Feed, driverVars
      <4>3. CASE time' <= 100
        BY <1>1, <4>3 DEF LeftAlone, driverVars
      <4>4. time' \in Int
        BY <1>2
      <4>. QED BY <4>1, <4>2, <4>3, <4>4
    <3>. QED BY <1>1, <3>1 DEF CounterInv
  <2>. QED BY <2>1, <2>2
<1>. QED BY <1>2, <1>3, <1>4 DEF CounterInv

(* The other simulation drives no pins of the JTAG.                         *)
LEMMA DefaultKeeps ==
  ASSUME StepInv, DeliverInv, CounterInv, IterateDefault
  PROVE  StepInv' /\ DeliverInv' /\ CounterInv'
<1>1. /\ time' = time + 1 /\ sim = "default" /\ sim' = sim /\ time < DefaultLimit
      /\ CrgEdge(time' > 15 /\ time' < 30)
      /\ UNCHANGED <<script, seq, tms, tdi, past_tck, rdy, bits, idle, state, tck, tap, shifted, latched>>
  BY DEF IterateDefault, LeftAlone, driverVars, tapVars
<1>2. StepInv'
  BY InStepNext DEF Next
<1>3. DeliverInv'
  <2>1. Popped' = Popped /\ Current' = Current /\ Due' = Due
    BY <1>1 DEF Popped, Current, Due, ScanDone
  <2>. QED BY <1>1, <2>1 DEF DeliverInv, DataInv, Delivered, RestingInv, ScanningInv, ShiftedIn
<1>4. CounterInv'
  <2>1. {clk100mhz', clk'} \subseteq {0, 1}
    BY <1>1, ClockLevels
  <2>. QED BY <1>1, <2>1, ClockAssumption DEF ClockAssumption, CounterInv, EndTime
<1>. QED BY <1>2, <1>3, <1>4

LEMMA StutterKeeps ==
  ASSUME StepInv, DeliverInv, CounterInv, UNCHANGED vars
  PROVE  StepInv' /\ DeliverInv' /\ CounterInv'
<1>1. UNCHANGED <<crgVars, sim, script, time, tck, tms, tdi, seq, driverVars, tapVars>>
  BY DEF vars
<1>2. StepInv'
  BY InStepNext
<1>3. DeliverInv'
  <2>1. UNCHANGED <<script, seq, tck, tdi, state, rdy, bits, tap, shifted, latched>>
    BY <1>1 DEF driverVars, tapVars
  <2>2. Popped' = Popped /\ Current' = Current /\ Due' = Due
    BY <2>1 DEF Popped, Current, Due, ScanDone
  <2>. QED BY <2>1, <2>2 DEF DeliverInv, DataInv, Delivered, RestingInv, ScanningInv, ShiftedIn
<1>4. CounterInv'
  BY <1>1 DEF crgVars, driverVars, CounterInv, EndTime
<1>. QED BY <1>2, <1>3, <1>4

(* Every variable keeps its type, bits counts no further than a transaction *)
(* is long and idle no further than num_idle, whatever they held at first.  *)
THEOREM TypeCorrect == StateCleared => (Spec => []TypeOK)
<1>. SUFFICES ASSUME StateCleared PROVE Spec => []TypeOK
  OBVIOUS
<1>. DEFINE Inv == StepInv /\ DeliverInv /\ SynchronizerInv /\ CounterInv
<1>1. Init => Inv
  <2>. SUFFICES ASSUME Init PROVE Inv
    OBVIOUS
  <2>1. SynchronizerInv
    BY StagesAssumption DEF StagesAssumption, Init, CrgInit, SynchronizerInv, Stages
  <2>2. state # "RUN_TEST_IDLE"
    BY DEF StateCleared, Init
  <2>3. CounterInv
    BY <2>2, ClockAssumption DEF ClockAssumption, Init, CrgInit, CounterInv, EndTime
  <2>. QED BY <2>1, <2>3, StepInit, DeliverInit
<1>2. Inv /\ [Next]_vars => Inv'
  <2>1. ASSUME Inv, Iterate PROVE Inv'
    <3>1. StepInv'
      BY <2>1, IterateInStep
    <3>2. SynchronizerInv'
      BY <2>1, SynchronizerStep DEF Iterate
    <3>. QED BY <2>1, <3>1, <3>2, IterateDelivers, CountersIterate
  <2>2. ASSUME Inv, IterateDefault PROVE Inv'
    <3>1. SynchronizerInv'
      BY <2>2, SynchronizerStep DEF IterateDefault
    <3>. QED BY <2>2, <3>1, DefaultKeeps
  <2>3. ASSUME Inv, UNCHANGED vars PROVE Inv'
    <3>1. SynchronizerInv'
      BY <2>3 DEF vars, crgVars, SynchronizerInv, Stages
    <3>. QED BY <2>3, <3>1, StutterKeeps
  <2>. QED BY <2>1, <2>2, <2>3 DEF Next
<1>3. Inv => TypeOK
  BY DEF StepInv, DeliverInv, DataInv, SynchronizerInv, CounterInv, TypeOK
<1>. QED BY <1>1, <1>2, <1>3, PTL DEF Spec


-----------------------------------------------------------------------------
(* The half periods of TCK so far, and its falling edges after time 100.    *)
Half  == time \div HalfPeriod
Falls == (Half \div 2) - FallsBefore

(* The edges that a transaction of len bits has behind it: in state st,     *)
(* with i idle cycles and b bits counted.                                   *)
BehindAt(st, i, b, ir, len) ==
  CASE st = "RUN_TEST_IDLE"                -> i
    [] st = "SELECT_DR_SCAN"               -> NumIdle
    [] st = "SELECT_IR_SCAN"               -> NumIdle + 1
    [] st \in {"CAPTURE_DR", "CAPTURE_IR"} -> NumIdle + ir + 1
    [] st \in {"SHIFT_DR", "SHIFT_IR"}     -> NumIdle + ir + 2 + b
    [] st \in {"EXIT1_DR", "EXIT1_IR"}     -> NumIdle + ir + 2 + len
    [] st \in {"PAUSE_DR", "PAUSE_IR"}     -> NumIdle + ir + 3 + len
    [] st \in {"EXIT2_DR", "EXIT2_IR"}     -> NumIdle + ir + 4 + len
    [] OTHER                               -> NumIdle + ir + 5 + len

Behind == BehindAt(state, idle, bits, IrCycle(Current), Current.len)

(* left[s][k] is what the transactions of s after the k-th take.            *)
AddsUp(left) ==
  \A s \in Scripts :
    /\ left[s] \in [0 .. Len(s) -> Nat]
    /\ \A k \in 1 .. Len(s) : left[s][k - 1] = CyclesOf(s[k]) + left[s][k]

FitsIn(left) ==
  AddsUp(left) /\ \A s \in Scripts : (2 * (FallsBefore + 1 + left[s][0])) * HalfPeriod < TimeLimit

LEMMA CyclesOfLastAddUp ==
  ASSUME NEW s \in Scripts
  PROVE  /\ CyclesOfLast(s) \in [0 .. Len(s) -> Nat]
         /\ \A k \in 0 .. Len(s) - 1 : CyclesOfLast(s)[k + 1] = CyclesOf(s[Len(s) - k]) + CyclesOfLast(s)[k]
<1>. DEFINE l == Len(s)
            more(z) == IF z \in 0 .. l - 1 THEN CyclesOf(s[l - z]) ELSE 0
            rule == [a \in Nat \X Nat |-> more(a[1]) + a[2]]
            last == CyclesOfLast(s)
<1>1. s \in Seq(Transaction) /\ l \in Nat
  BY ScriptAssumption DEF ScriptAssumption
<1>2. ASSUME NEW z \in Nat PROVE more(z) \in Nat
  <2>1. CASE z \in 0 .. l - 1
    <3>1. l - z \in 1 .. Len(s)
      BY <1>1, <2>1
    <3>2. s[l - z] \in Transaction
      BY <1>1, <3>1
    <3>3. NumIdle \in Nat /\ s[l - z].len \in Nat
      BY <3>2, NumIdleAssumption DEF NumIdleAssumption, Transaction
    <3>. QED BY <2>1, <3>3 DEF CyclesOf, IrCycle
  <2>. QED BY <2>1
<1>. HIDE DEF more
<1>3. rule \in [Nat \X Nat -> Nat]
  <2>1. ASSUME NEW a \in Nat \X Nat PROVE more(a[1]) + a[2] \in Nat
    <3>1. a[1] \in Nat /\ a[2] \in Nat
      OBVIOUS
    <3>. QED BY <1>2, <3>1
  <2>. QED BY <2>1
<1>. HIDE DEF rule
<1>4. PICK f \in [0 .. l -> Nat] : f[0] = 0 /\ \A z \in 0 .. l - 1 : f[z + 1] = rule[<<z, f[z]>>]
  <2>1. \E f : f \in Approximations(Nat, 0, rule, l)
    BY <1>1, <1>3, ApproximationExists
  <2>. QED BY <2>1 DEF Approximations
<1>5. ASSUME NEW z \in 0 .. l
      PROVE  f[z] = IF z = 0 THEN 0 ELSE CyclesOf(s[l - z + 1]) + f[z - 1]
  <2>1. CASE z = 0
    BY <1>4, <2>1
  <2>2. CASE z # 0
    <3>1. z - 1 \in 0 .. l - 1 /\ z - 1 \in Nat /\ (z - 1) + 1 = z /\ l - (z - 1) = l - z + 1
      BY <1>1, <2>2
    <3>2. f[z - 1] \in Nat
      BY <1>1, <1>4, <3>1
    <3>3. rule[<<z - 1, f[z - 1]>>] = more(z - 1) + f[z - 1]
      BY <3>1, <3>2 DEF rule
    <3>4. more(z - 1) = CyclesOf(s[l - z + 1])
      BY <3>1 DEF more
    <3>5. f[(z - 1) + 1] = rule[<<z - 1, f[z - 1]>>]
      BY <1>4, <3>1
    <3>. QED BY <2>2, <3>1, <3>3, <3>4, <3>5
  <2>. QED BY <2>1, <2>2
<1>6. f = [z \in 0 .. l |-> IF z = 0 THEN 0 ELSE CyclesOf(s[l - z + 1]) + f[z - 1]]
  <2>1. f = [z \in 0 .. l |-> f[z]]
    BY <1>4
  <2>. QED BY <1>5, <2>1, Zenon
<1>7. last = [z \in 0 .. l |-> IF z = 0 THEN 0 ELSE CyclesOf(s[l - z + 1]) + last[z - 1]]
  BY <1>6 DEF CyclesOfLast
<1>8. ASSUME NEW k \in 0 .. l - 1
      PROVE  last[k + 1] = CyclesOf(s[l - k]) + last[k]
  <2>1. k + 1 \in 0 .. l /\ k + 1 # 0 /\ (k + 1) - 1 = k /\ l - (k + 1) + 1 = l - k
    BY <1>1
  <2>. HIDE DEF last
  <2>2. last[k + 1] = CyclesOf(s[l - (k + 1) + 1]) + last[(k + 1) - 1]
    BY <1>7, <2>1
  <2>. QED BY <2>1, <2>2
<1>9. last \in [0 .. l -> Nat]
  <2>. DEFINE Counted == {z \in Nat : z <= l => last[z] \in Nat}
  <2>. HIDE DEF last
  <2>1. 0 \in Counted
    BY <1>1, <1>7
  <2>2. ASSUME NEW z \in Nat, z \in Counted PROVE z + 1 \in Counted
    <3>1. SUFFICES ASSUME z + 1 <= l PROVE last[z + 1] \in Nat
      OBVIOUS
    <3>2. z \in 0 .. l - 1 /\ last[z] \in Nat /\ more(z) \in Nat
      BY <1>1, <1>2, <2>2, <3>1
    <3>3. more(z) = CyclesOf(s[l - z])
      BY <3>2 DEF more
    <3>. QED BY <1>8, <3>2, <3>3
  <2>3. \A z \in Nat : z \in Counted
    <3>. HIDE DEF Counted
    <3>. QED BY <2>1, <2>2, SetInduction
  <2>. QED BY <1>7, <2>3
<1>. QED BY <1>8, <1>9

CyclesLeft == [s \in Scripts |-> [k \in 0 .. Len(s) |-> CyclesOfLast(s)[Len(s) - k]]]

LEMMA ScriptsFit == InTime => FitsIn(CyclesLeft)
<1>. SUFFICES ASSUME InTime, NEW s \in Scripts
              PROVE  /\ CyclesLeft[s] \in [0 .. Len(s) -> Nat]
                     /\ \A k \in 1 .. Len(s) : CyclesLeft[s][k - 1] = CyclesOf(s[k]) + CyclesLeft[s][k]
                     /\ (2 * (FallsBefore + 1 + CyclesLeft[s][0])) * HalfPeriod < TimeLimit
  BY DEF FitsIn, AddsUp
<1>1. Len(s) \in Nat
  BY ScriptAssumption DEF ScriptAssumption
<1>2. CyclesLeft[s] = [k \in 0 .. Len(s) |-> CyclesOfLast(s)[Len(s) - k]]
  BY DEF CyclesLeft
<1>3. CyclesLeft[s] \in [0 .. Len(s) -> Nat]
  <2>1. ASSUME NEW k \in 0 .. Len(s) PROVE CyclesOfLast(s)[Len(s) - k] \in Nat
    <3>1. Len(s) - k \in 0 .. Len(s)
      BY <1>1
    <3>. QED BY <3>1, CyclesOfLastAddUp
  <2>. QED BY <1>2, <2>1
<1>4. ASSUME NEW k \in 1 .. Len(s)
      PROVE  CyclesLeft[s][k - 1] = CyclesOf(s[k]) + CyclesLeft[s][k]
  <2>1. /\ k - 1 \in 0 .. Len(s) /\ k \in 0 .. Len(s) /\ Len(s) - k \in 0 .. Len(s) - 1
        /\ Len(s) - (k - 1) = (Len(s) - k) + 1 /\ Len(s) - (Len(s) - k) = k
    BY <1>1
  <2>2. CyclesOfLast(s)[(Len(s) - k) + 1] = CyclesOf(s[Len(s) - (Len(s) - k)]) + CyclesOfLast(s)[Len(s) - k]
    BY <2>1, CyclesOfLastAddUp
  <2>. QED BY <1>2, <2>1, <2>2
<1>5. CyclesLeft[s][0] = CyclesOfLast(s)[Len(s)]
  <2>1. 0 \in 0 .. Len(s) /\ Len(s) - 0 = Len(s)
    BY <1>1
  <2>. QED BY <1>2, <2>1
<1>6. (2 * (FallsBefore + 1 + CyclesOfLast(s)[Len(s)])) * HalfPeriod < TimeLimit
  BY DEF InTime
<1>. QED BY <1>3, <1>4, <1>5, <1>6

(* The edges that the script still needs.                                   *)
Ahead(left) ==
  CASE state = "TEST_LOGIC_RESET" -> left[script][0] + 1
    [] rdy                        -> left[script][Popped + 1]
    [] OTHER                      -> left[script][Popped] - Behind

(* TCK counts the half periods; the driver misses no falling edge of it,    *)
(* and every one of them brings the script forward.                         *)
TimingInv(left) ==
  /\ sim # "debug" => script = <<>>
  /\ sim = "debug" =>
       /\ script \in Scripts /\ tck = Half % 2
       /\ state = "TEST_LOGIC_RESET" => Popped = 0
       /\ rdy => time % HalfPeriod = 0 /\ tck = 0
       /\ time > 100 /\ seq # <<>> => past_tck = tck
       /\ time >= 100 /\ seq # <<>> => Falls + Ahead(left) <= left[script][0] + 1

LEMMA ProductGrows ==
  ASSUME NEW h \in Nat, NEW a \in Nat, NEW b \in Nat, a <= b
  PROVE  a * h <= b * h
<1>1. PICK d \in Nat : b = a + d
  <2>1. b - a \in Nat /\ b = a + (b - a)
    OBVIOUS
  <2>. QED BY <2>1
<1>2. b * h = a * h + d * h /\ d * h >= 0 /\ a * h \in Nat /\ d * h \in Nat
  BY <1>1
<1>. QED BY <1>2

LEMMA Divides ==
  ASSUME NEW t \in Nat, NEW h \in Nat \ {0}
  PROVE  t \div h \in Nat /\ t % h \in 0 .. h - 1 /\ t = (t \div h) * h + (t % h)
OBVIOUS

(* A half period ends in each iteration that HalfPeriod divides.            *)
LEMMA HalfPeriodEnds ==
  ASSUME NEW t \in Nat, NEW h \in Nat \ {0}
  PROVE  (t + 1) \div h = IF (t + 1) % h = 0 THEN (t \div h) + 1 ELSE t \div h
<1>1. PICK a, b, r, s :
        /\ a = t \div h /\ r = t % h /\ b = (t + 1) \div h /\ s = (t + 1) % h
        /\ a \in Nat /\ r \in 0 .. h - 1 /\ t = a * h + r
        /\ b \in Nat /\ s \in 0 .. h - 1 /\ t + 1 = b * h + s
  <2>1. t + 1 \in Nat
    OBVIOUS
  <2>2. t \div h \in Nat /\ t % h \in 0 .. h - 1 /\ t = (t \div h) * h + (t % h)
    BY Divides
  <2>3. /\ (t + 1) \div h \in Nat /\ (t + 1) % h \in 0 .. h - 1
        /\ t + 1 = ((t + 1) \div h) * h + ((t + 1) % h)
    BY <2>1, Divides
  <2>. QED BY <2>2, <2>3, Zenon
<1>2. (a + 1) * h = a * h + h /\ (b + 1) * h = b * h + h /\ (a + 2) * h = a * h + h + h
      /\ a * h \in Nat /\ b * h \in Nat
  BY <1>1
<1>3. b >= a
  <2>1. ASSUME b < a PROVE FALSE
    <3>1. (b + 1) * h <= a * h
      BY <1>1, <2>1, ProductGrows
    <3>. QED BY <1>1, <1>2, <3>1
  <2>. QED BY <1>1, <2>1
<1>4. b <= a + 1
  <2>1. ASSUME b > a + 1 PROVE FALSE
    <3>1. (a + 2) * h <= b * h
      BY <1>1, <2>1, ProductGrows
    <3>. QED BY <1>1, <1>2, <3>1
  <2>. QED BY <1>1, <2>1
<1>5. b = a \/ b = a + 1
  BY <1>1, <1>3, <1>4
<1>6. s = 0 <=> b = a + 1
  BY <1>1, <1>2, <1>5
<1>. QED BY <1>1, <1>5, <1>6


(* What the transactions before and after a pop still take.                 *)
LEMMA CyclesOfHead ==
  ASSUME NEW left, AddsUp(left), StepInv, DeliverInv, script \in Scripts, seq # <<>>
  PROVE  /\ left[script][Popped] \in Nat /\ left[script][Popped + 1] \in Nat /\ left[script][0] \in Nat
         /\ left[script][Popped] = CyclesOf(Current) + left[script][Popped + 1]
         /\ IrCycle(Current) \in {0, 1} /\ Current.len \in Nat \ {0} /\ NumIdle \in Nat \ {0}
<1>1. /\ Popped \in Nat /\ Popped + 1 \in 1 .. Len(script) /\ Len(script) \in Nat
      /\ Current.len \in Nat \ {0} /\ NumIdle \in Nat \ {0}
  BY HeadOfQueue, NumIdleAssumption DEF NumIdleAssumption, DeliverInv
<1>2. PICK k \in 1 .. Len(script) : k = Popped + 1 /\ k - 1 = Popped
  BY <1>1
<1>3. /\ left[script] \in [0 .. Len(script) -> Nat]
      /\ left[script][k - 1] = CyclesOf(script[k]) + left[script][k]
  BY DEF AddsUp
<1>4. Popped \in 0 .. Len(script) /\ k \in 0 .. Len(script) /\ 0 \in 0 .. Len(script)
  BY <1>1, <1>2
<1>5. script[k] = Current
  BY <1>2 DEF Current
<1>. QED BY <1>1, <1>2, <1>3, <1>4, <1>5 DEF IrCycle

(* Every falling edge that the driver sees brings the script forward.       *)
LEMMA EdgeBringsForward ==
  ASSUME NEW left, AddsUp(left), StepInv, DeliverInv, CounterInv, script \in Scripts, seq # <<>>, ~rdy,
         DriveFalling(Head(seq)), Shifts, script' = script, state = "TEST_LOGIC_RESET" => Popped = 0
  PROVE  /\ Ahead(left) \in Int /\ Ahead(left)' = Ahead(left) - 1
         /\ state' # "TEST_LOGIC_RESET"
<1>1. PICK p0 \in Nat, p1 \in Nat, ir \in {0, 1}, len \in Nat \ {0}, idles \in Nat \ {0} :
        /\ p0 = left[script][Popped] /\ p1 = left[script][Popped + 1]
        /\ ir = IrCycle(Current) /\ len = Current.len /\ idles = NumIdle
        /\ p0 = idles + len + ir + 6 + p1
  BY CyclesOfHead DEF CyclesOf
<1>2. Popped' = Popped /\ Current' = Current
  BY ShiftsHead DEF DeliverInv
<1>3. /\ left[script'][Popped'] = p0 /\ left[script'][Popped' + 1] = p1
      /\ IrCycle(Current)' = ir /\ Current'.len = len /\ NumIdle = idles
  BY <1>1, <1>2 DEF IrCycle
<1>4. /\ Head(seq) = seq[1] /\ Current.mode \in {"JTAG_IR", "JTAG_DR"} /\ state \in TapStates
  BY HeadOfQueue DEF DeliverInv, StepInv
<1>5. /\ state' = Step(seq[1]).to /\ rdy' = ScanDone(state)
      /\ bits' = CASE state = "RUN_TEST_IDLE" -> 0 [] Shifting -> bits + 1 [] OTHER -> bits
      /\ idle' = CASE IdleReset(state) -> 0 [] state = "RUN_TEST_IDLE" -> idle + 1 [] OTHER -> idle
  BY <1>4 DEF DriveFalling
<1>6. PICK a0, a1, b0, b1 :
        /\ a0 = Ahead(left) /\ a1 = Ahead(left)'
        /\ b0 = BehindAt(state, idle, bits, ir, len) /\ b1 = BehindAt(state', idle', bits', ir, len)
        /\ state = "TEST_LOGIC_RESET" => a0 = p0 + 1
        /\ state # "TEST_LOGIC_RESET" => a0 = p0 - b0
        /\ rdy' /\ state' # "TEST_LOGIC_RESET" => a1 = p1
        /\ ~rdy' /\ state' # "TEST_LOGIC_RESET" => a1 = p0 - b1
  <2>1. Behind = BehindAt(state, idle, bits, ir, len)
    BY <1>1 DEF Behind
  <2>2. Behind' = BehindAt(state', idle', bits', ir, len)
    BY <1>2, <1>1 DEF Behind, IrCycle
  <2>3. /\ state = "TEST_LOGIC_RESET" => Ahead(left) = p0 + 1
        /\ state # "TEST_LOGIC_RESET" => Ahead(left) = p0 - Behind
    BY <1>1 DEF Ahead
  <2>4. /\ rdy' /\ state' # "TEST_LOGIC_RESET" => Ahead(left)' = p1
        /\ ~rdy' /\ state' # "TEST_LOGIC_RESET" => Ahead(left)' = p0 - Behind'
    BY <1>3 DEF Ahead
  <2>. QED BY <2>1, <2>2, <2>3, <2>4
<1>. SUFFICES a0 \in Int /\ a1 = a0 - 1 /\ state' # "TEST_LOGIC_RESET"
  BY <1>6
<1>7. p0 \in Nat /\ p1 \in Nat /\ ir \in Nat /\ len \in Nat /\ idles \in Nat
  BY <1>1, SMTT(30)
<1>8. ASSUME state # "TEST_LOGIC_RESET", state' # "TEST_LOGIC_RESET", ~rdy', b0 \in Int, b1 = b0 + 1
      PROVE  a0 \in Int /\ a1 = a0 - 1
  <2>1. a0 = p0 - b0 /\ a1 = p0 - b1
    BY <1>6, <1>8
  <2>. QED BY <1>7, <1>8, <2>1
<1>9. CASE state = "TEST_LOGIC_RESET"
  <2>1. state' = "RUN_TEST_IDLE" /\ idle' = 0 /\ ~rdy'
    BY <1>5, <1>9 DEF Step, IdleReset, ScanDone
  <2>2. b1 = 0
    BY <1>6, <2>1 DEF BehindAt
  <2>3. a0 = p0 + 1 /\ a1 = p0 - b1
    BY <1>6, <1>9, <2>1
  <2>4. a0 \in Int /\ a1 = a0 - 1
    BY <1>7, <2>2, <2>3
  <2>. QED BY <2>1, <2>4
<1>10. CASE state = "RUN_TEST_IDLE"
  <2>1. idle \in 0 .. idles - 1 /\ idle' = idle + 1 /\ ~rdy' /\ b0 = idle
    BY <1>1, <1>5, <1>6, <1>10 DEF CounterInv, IdleReset, ScanDone, BehindAt
  <2>2. state' # "TEST_LOGIC_RESET" /\ b1 = idle + 1
    <3>1. CASE StillIdle(idle)
      <4>1. state' = "RUN_TEST_IDLE"
        BY <1>5, <1>10, <3>1 DEF Step
      <4>. QED BY <1>6, <2>1, <4>1 DEF BehindAt
    <3>2. CASE ~StillIdle(idle)
      <4>1. state' = "SELECT_DR_SCAN"
        BY <1>5, <1>10, <3>2 DEF Step
      <4>2. idle = idles - 1
        BY <1>3, <1>7, <2>1, <3>2 DEF StillIdle
      <4>3. b1 = idles
        BY <1>3, <1>6, <4>1 DEF BehindAt
      <4>. QED BY <1>7, <4>1, <4>2, <4>3
    <3>. QED BY <3>1, <3>2
  <2>3. b0 \in Int /\ b1 = b0 + 1
    BY <1>7, <2>1, <2>2
  <2>. QED BY <1>8, <1>10, <2>1, <2>2, <2>3
<1>11. CASE state \in BeforeShift
  <2>1. /\ bits = 0 /\ bits' = 0 /\ seq[1] = Current /\ ~rdy'
        /\ state \in IrScan => ir = 1
        /\ state \in DrScan => ir = 0
    BY <1>1, <1>5, <1>11 DEF DeliverInv, ScanningInv, BeforeShift, Shifting, ScanDone, DrScan, IrScan, IrCycle
  <2>2. CASE state = "SELECT_DR_SCAN"
    <3>1. /\ state' = IF Current.mode = "JTAG_IR" THEN "SELECT_IR_SCAN" ELSE "CAPTURE_DR"
          /\ ir = IF Current.mode = "JTAG_IR" THEN 1 ELSE 0
      BY <1>1, <1>5, <2>1, <2>2 DEF Step, ScanStep, IrCycle
    <3>2. b0 = idles
      BY <1>3, <1>6, <2>2 DEF BehindAt
    <3>3. b1 = idles + 1
      <4>1. CASE state' = "SELECT_IR_SCAN"
        BY <1>3, <1>6, <4>1 DEF BehindAt
      <4>2. CASE state' = "CAPTURE_DR"
        <5>1. ir = 0
          BY <3>1, <4>2
        <5>2. b1 = idles + ir + 1
          BY <1>3, <1>6, <4>2 DEF BehindAt
        <5>. QED BY <1>7, <5>1, <5>2
      <4>. QED BY <3>1, <4>1, <4>2
    <3>4. b0 \in Int /\ b1 = b0 + 1
      BY <1>7, <3>2, <3>3
    <3>. QED BY <1>8, <2>1, <2>2, <3>1, <3>4
  <2>3. CASE state = "SELECT_IR_SCAN"
    <3>1. state' = "CAPTURE_IR" /\ ir = 1
      BY <1>5, <2>1, <2>3 DEF Step, IrScan
    <3>2. b0 = idles + 1
      BY <1>3, <1>6, <2>3 DEF BehindAt
    <3>3. b1 = idles + ir + 1
      BY <1>3, <1>6, <3>1 DEF BehindAt
    <3>4. b0 \in Int /\ b1 = b0 + 1
      BY <1>7, <3>1, <3>2, <3>3
    <3>. QED BY <1>8, <2>1, <2>3, <3>1, <3>4
  <2>4. CASE state \in {"CAPTURE_DR", "CAPTURE_IR"}
    <3>1. state' \in {"SHIFT_DR", "SHIFT_IR"}
      BY <1>5, <2>4 DEF Step
    <3>2. b0 = idles + ir + 1
      BY <1>3, <1>6, <2>4 DEF BehindAt
    <3>3. b1 = idles + ir + 2 + bits'
      BY <1>3, <1>6, <3>1 DEF BehindAt
    <3>4. b0 \in Int /\ b1 = b0 + 1
      BY <1>7, <2>1, <3>2, <3>3
    <3>. QED BY <1>8, <2>1, <2>4, <3>1, <3>4
  <2>. QED BY <1>11, <2>2, <2>3, <2>4 DEF BeforeShift
<1>12. CASE state \in {"SHIFT_DR", "SHIFT_IR"}
  <2>1. bits \in 0 .. len - 1 /\ bits' = bits + 1 /\ seq[1].len = len /\ ~rdy'
    BY <1>1, <1>5, <1>12 DEF DeliverInv, ScanningInv, InShift, Shifting, ScanDone
  <2>2. b0 = idles + ir + 2 + bits
    BY <1>3, <1>6, <1>12 DEF BehindAt
  <2>3. state' # "TEST_LOGIC_RESET" /\ b1 = idles + ir + 2 + (bits + 1)
    <3>1. CASE MoreBits(bits, len)
      <4>1. state' = state
        BY <1>5, <1>12, <2>1, <3>1 DEF Step
      <4>2. b1 = idles + ir + 2 + bits'
        BY <1>3, <1>6, <1>12, <4>1 DEF BehindAt
      <4>. QED BY <1>12, <2>1, <4>1, <4>2
    <3>2. CASE ~MoreBits(bits, len)
      <4>1. state' \in {"EXIT1_DR", "EXIT1_IR"}
        BY <1>5, <1>12, <2>1, <3>2 DEF Step
      <4>2. bits + 1 = len
        BY <1>7, <2>1, <3>2 DEF MoreBits
      <4>3. b1 = idles + ir + 2 + len
        BY <1>3, <1>6, <4>1 DEF BehindAt
      <4>. QED BY <4>1, <4>2, <4>3
    <3>. QED BY <3>1, <3>2
  <2>4. b0 \in Int /\ b1 = b0 + 1
    BY <1>7, <2>1, <2>2, <2>3
  <2>. QED BY <1>8, <1>12, <2>1, <2>3, <2>4
<1>13. CASE state \in {"EXIT1_DR", "EXIT1_IR"}
  <2>1. state' \in {"PAUSE_DR", "PAUSE_IR"} /\ ~rdy'
    BY <1>5, <1>13 DEF Step, ScanDone
  <2>2. b0 = idles + ir + 2 + len
    BY <1>3, <1>6, <1>13 DEF BehindAt
  <2>3. b1 = idles + ir + 3 + len
    BY <1>3, <1>6, <2>1 DEF BehindAt
  <2>4. b0 \in Int /\ b1 = b0 + 1
    BY <1>7, <2>2, <2>3
  <2>. QED BY <1>8, <1>13, <2>1, <2>4
<1>14. CASE state \in {"PAUSE_DR", "PAUSE_IR"}
  <2>1. state' \in {"EXIT2_DR", "EXIT2_IR"} /\ ~rdy'
    BY <1>5, <1>14 DEF Step, ScanDone
  <2>2. b0 = idles + ir + 3 + len
    BY <1>3, <1>6, <1>14 DEF BehindAt
  <2>3. b1 = idles + ir + 4 + len
    BY <1>3, <1>6, <2>1 DEF BehindAt
  <2>4. b0 \in Int /\ b1 = b0 + 1
    BY <1>7, <2>2, <2>3
  <2>. QED BY <1>8, <1>14, <2>1, <2>4
<1>15. CASE state \in {"EXIT2_DR", "EXIT2_IR"}
  <2>1. state' \in {"UPDATE_DR", "UPDATE_IR"} /\ ~rdy'
    BY <1>5, <1>15 DEF Step, ScanDone
  <2>2. b0 = idles + ir + 4 + len
    BY <1>3, <1>6, <1>15 DEF BehindAt
  <2>3. b1 = idles + ir + 5 + len
    BY <1>3, <1>6, <2>1 DEF BehindAt
  <2>4. b0 \in Int /\ b1 = b0 + 1
    BY <1>7, <2>2, <2>3
  <2>. QED BY <1>8, <1>15, <2>1, <2>4
<1>16. CASE state \in {"UPDATE_DR", "UPDATE_IR"}
  <2>1. state' = "RUN_TEST_IDLE" /\ rdy'
    BY <1>5, <1>16 DEF Step, ScanDone
  <2>2. b0 = idles + ir + 5 + len
    BY <1>3, <1>6, <1>16 DEF BehindAt
  <2>3. a0 = p0 - b0 /\ a1 = p1 /\ p0 = idles + len + ir + 6 + p1
    BY <1>1, <1>6, <1>16, <2>1
  <2>4. a0 \in Int /\ a1 = a0 - 1
    BY <1>7, <2>2, <2>3
  <2>. QED BY <2>1, <2>4
<1>. QED BY <1>4, <1>9, <1>10, <1>11, <1>12, <1>13, <1>14, <1>15, <1>16
     DEF TapStates, BeforeShift

(* TCK is the parity of the half periods; two of them are a falling edge.   *)
LEMMA TckCounts ==
  ASSUME time \in Nat, time' = time + 1, tck = Half % 2,
         tck' = IF time' % HalfPeriod = 0 THEN 1 - tck ELSE tck
  PROVE  /\ Half \in Nat /\ Half' \in Nat /\ tck' = (Half' % 2)
         /\ Falls \in Int /\ FallsBefore \in Int
         /\ Falls' = IF tck = 1 /\ tck' = 0 THEN Falls + 1 ELSE Falls
<1>1. HalfPeriod \in Nat \ {0} /\ FallsBefore \in Int
  <2>1. HalfPeriod \in Nat \ {0}
    BY ClockAssumption DEF ClockAssumption
  <2>2. 100 \div HalfPeriod \in Nat
    BY <2>1, Divides
  <2>. QED BY <2>1, <2>2 DEF FallsBefore
<1>2. PICK n \in Nat, m \in Nat :
        n = Half /\ m = Half' /\ m = IF time' % HalfPeriod = 0 THEN n + 1 ELSE n
  <2>1. Half = time \div HalfPeriod /\ Half' = time' \div HalfPeriod
    BY DEF Half
  <2>2. time \div HalfPeriod \in Nat
    BY <1>1, Divides
  <2>3. (time + 1) \div HalfPeriod =
          IF (time + 1) % HalfPeriod = 0 THEN (time \div HalfPeriod) + 1 ELSE time \div HalfPeriod
    BY <1>1, HalfPeriodEnds
  <2>. QED BY <2>1, <2>2, <2>3
<1>3. /\ n % 2 \in {0, 1} /\ (n + 1) % 2 = 1 - (n % 2)
      /\ (n + 1) \div 2 = IF n % 2 = 1 THEN (n \div 2) + 1 ELSE n \div 2
  BY <1>2
<1>4. tck = n % 2 /\ tck' = (m % 2)
  BY <1>2, <1>3
<1>5. m \div 2 = IF tck = 1 /\ tck' = 0 THEN (n \div 2) + 1 ELSE n \div 2
  BY <1>2, <1>3, <1>4
<1>6. Falls = (n \div 2) - FallsBefore /\ Falls' = (m \div 2) - FallsBefore
  BY <1>2 DEF Falls, FallsBefore
<1>7. n \div 2 \in Int /\ m \div 2 \in Int
  BY <1>2
<1>. QED BY <1>1, <1>2, <1>4, <1>5, <1>6, <1>7

(* No falling edge of TCK comes in iteration 101: they come at even times.  *)
LEMMA NoFallAtFirst ==
  ASSUME NEW h \in Nat \ {0}, 101 % h = 0
  PROVE  (101 \div h) % 2 = 1
<1>1. PICK n \in Nat : n = 101 \div h /\ 101 = n * h
  BY Divides
<1>2. CASE n % 2 = 0
  <2>1. PICK c \in Nat : n = 2 * c
    BY <1>1, <1>2
  <2>2. c * h \in Nat /\ (2 * c) * h = 2 * (c * h)
    BY <2>1
  <2>3. 101 = 2 * (c * h)
    BY <1>1, <2>1, <2>2
  <2>. QED BY <2>2, <2>3
<1>. QED BY <1>1, <1>2

(* What an iteration does to the driver after time 100.                     *)
LEMMA DriverIterates ==
  ASSUME StepInv, DeliverInv, Feed, script' = script, seq # <<>>
  PROVE  /\ past_tck' = tck'
         /\ \/ past_tck = 1 /\ tck' = 0 /\ ~rdy /\ DriveFalling(Head(seq)) /\ Shifts
            \/ ~(past_tck = 1 /\ tck' = 0) /\ Settles /\ idle' = idle
<1>1. past_tck' = tck'
  BY DEF Feed, Drive
<1>2. CASE past_tck = 1 /\ tck' = 0
  <2>1. DriveFalling(Head(seq)) /\ ~rdy
    BY <1>2 DEF Feed, Drive, StepInv, WaitingInv, DrivingInv
  <2>2. Shifts
    BY <1>2, <2>1 DEF Feed, Shifts
  <2>. QED BY <1>1, <1>2, <2>1, <2>2
<1>3. CASE ~(past_tck = 1 /\ tck' = 0)
  <2>1. rdy' = FALSE /\ UNCHANGED <<state, tms, tdi, bits, idle>>
    BY <1>3 DEF Feed, Drive
  <2>2. seq' = IF rdy THEN Tail(seq) ELSE seq
    BY <1>3 DEF Feed
  <2>. QED BY <1>1, <1>3, <2>1, <2>2 DEF Settles
<1>. QED BY <1>2, <1>3

(* Between the edges the script does not fall back, nor does a pop make it. *)
LEMMA NoneFallsBack ==
  ASSUME NEW left, AddsUp(left), StepInv, DeliverInv, CounterInv, script \in Scripts, seq # <<>>,
         Settles, idle' = idle
  PROVE  /\ \/ Ahead(left)' = Ahead(left)
            \/ Ahead(left) \in Int /\ Ahead(left)' \in Int /\ Ahead(left)' <= Ahead(left)
         /\ state' = "TEST_LOGIC_RESET" => Popped' = Popped
<1>1. /\ rdy => state = "RUN_TEST_IDLE"
      /\ Popped' = IF rdy THEN Popped + 1 ELSE Popped
  BY Pop
<1>2. script' = script /\ state' = state /\ bits' = bits /\ ~rdy'
  BY DEF Settles
<1>3. CASE rdy
  <2>1. left[script][Popped + 1] \in Nat /\ idle \in Nat
    <3>1. idle \in 0 .. NumIdle - 1
      BY <1>1, <1>3 DEF CounterInv
    <3>. QED BY <3>1, CyclesOfHead
  <2>2. Ahead(left) = left[script][Popped + 1]
    BY <1>1, <1>3 DEF Ahead
  <2>3. Behind' = idle
    BY <1>1, <1>2, <1>3 DEF Behind, BehindAt
  <2>4. Ahead(left)' = left[script][Popped + 1] - idle
    <3>1. state' # "TEST_LOGIC_RESET" /\ left[script'][Popped'] = left[script][Popped + 1]
      BY <1>1, <1>2, <1>3
    <3>2. Ahead(left)' = left[script'][Popped'] - Behind'
      BY <1>2, <3>1 DEF Ahead
    <3>. QED BY <2>3, <3>1, <3>2
  <2>. QED BY <1>1, <1>2, <1>3, <2>1, <2>2, <2>4
<1>4. CASE ~rdy
  <2>1. seq' = seq /\ Popped' = Popped /\ Current' = Current
    BY <1>2, <1>4 DEF Settles, Popped, Current
  <2>2. Behind' = Behind
    BY <1>2, <2>1 DEF Behind, IrCycle
  <2>3. Ahead(left)' = Ahead(left)
    BY <1>2, <1>4, <2>1, <2>2 DEF Ahead
  <2>. QED BY <2>1, <2>3
<1>. QED BY <1>3, <1>4

LEMMA IterateInTime ==
  ASSUME NEW left, FitsIn(left), StepInv, StepInv', DeliverInv, CounterInv, TimingInv(left), Iterate
  PROVE  TimingInv(left)'
<1>1. /\ time \in Nat /\ time' = time + 1 /\ sim = "debug" /\ sim' = "debug" /\ script' = script
      /\ tck' = IF time' % HalfPeriod = 0 THEN 1 - tck ELSE tck
      /\ time' > 100 => Feed
      /\ time' <= 100 => LeftAlone
  <2>1. time \in Nat /\ tck \in {0, 1}
    BY DEF StepInv, PinInv
  <2>2. /\ time' = time + 1 /\ sim = "debug" /\ sim' = sim /\ script' = script
        /\ tck' = IF time' % HalfPeriod = 0 THEN 1 - tck ELSE tck
        /\ IF time' > 100 THEN Feed ELSE LeftAlone
    BY DEF Iterate
  <2>. QED BY <2>1, <2>2
<1>2. /\ AddsUp(left) /\ script \in Scripts /\ tck = Half % 2
      /\ state = "TEST_LOGIC_RESET" => Popped = 0
      /\ time > 100 /\ seq # <<>> => past_tck = tck
      /\ time >= 100 /\ seq # <<>> => Falls + Ahead(left) <= left[script][0] + 1
  BY <1>1 DEF FitsIn, TimingInv
<1>3. /\ tck' = (Half' % 2) /\ Falls \in Int /\ FallsBefore \in Int
      /\ Falls' = IF tck = 1 /\ tck' = 0 THEN Falls + 1 ELSE Falls
  BY <1>1, <1>2, TckCounts
<1>4. CASE time' <= 100
  <2>1. UNCHANGED <<seq, state, rdy>> /\ state = "TEST_LOGIC_RESET" /\ ~rdy
    BY <1>1, <1>4 DEF LeftAlone, driverVars, StepInv, DrivingInv, WaitingInv
  <2>2. Popped' = 0
    BY <1>1, <1>2, <2>1 DEF Popped
  <2>3. time' = 100 /\ seq' # <<>> => Falls' + Ahead(left)' <= left[script'][0] + 1
    <3>. SUFFICES ASSUME time' = 100, seq' # <<>> PROVE Falls' + Ahead(left)' <= left[script'][0] + 1
      OBVIOUS
    <3>1. Falls' = 0
      BY <1>3 DEF Falls, Half, FallsBefore
    <3>2. Ahead(left)' = left[script][0] + 1
      BY <1>1, <2>1 DEF Ahead
    <3>3. left[script][0] \in Nat
      BY <1>2, <2>1, CyclesOfHead
    <3>. QED BY <1>1, <3>1, <3>2, <3>3
  <2>4. time' \in Nat /\ ~(time' > 100)
    BY <1>1, <1>4
  <2>5. time' >= 100 => time' = 100
    BY <2>4
  <2>. QED BY <1>1, <1>2, <1>3, <2>1, <2>2, <2>3, <2>4, <2>5 DEF TimingInv
<1>5. CASE time' > 100 /\ seq = <<>>
  <2>1. UNCHANGED <<seq, state, rdy>>
    BY <1>1, <1>5 DEF Feed, driverVars
  <2>2. ~rdy
    <3>1. rdy => Popped + 1 <= Len(script)
      BY DEF DeliverInv, DataInv, Due, Delivered
    <3>. QED BY <1>5, <3>1, HeadOfQueue DEF DeliverInv
  <2>3. Popped' = Popped
    BY <1>1, <2>1 DEF Popped
  <2>. QED BY <1>1, <1>2, <1>3, <1>5, <2>1, <2>2, <2>3 DEF TimingInv
<1>6. CASE time' > 100 /\ seq # <<>>
  <2>1. /\ past_tck' = tck'
        /\ \/ past_tck = 1 /\ tck' = 0 /\ ~rdy /\ DriveFalling(Head(seq)) /\ Shifts
           \/ ~(past_tck = 1 /\ tck' = 0) /\ Settles /\ idle' = idle
    BY <1>1, <1>6, DriverIterates
  <2>2. Falls + Ahead(left) <= left[script][0] + 1 /\ left[script][0] \in Nat
    BY <1>1, <1>2, <1>6, CyclesOfHead
  <2>3. CASE past_tck = 1 /\ tck' = 0 /\ ~rdy /\ DriveFalling(Head(seq)) /\ Shifts
    <3>1. Ahead(left) \in Int /\ Ahead(left)' = Ahead(left) - 1 /\ state' # "TEST_LOGIC_RESET"
      BY <1>1, <1>2, <1>6, <2>3, EdgeBringsForward
    <3>2. Falls' + Ahead(left)' <= left[script'][0] + 1
      BY <1>1, <1>3, <2>2, <3>1
    <3>3. rdy' => time' % HalfPeriod = 0
      <4>1. rdy' => state # "TEST_LOGIC_RESET"
        BY <2>3 DEF DriveFalling, ScanDone
      <4>2. state # "TEST_LOGIC_RESET" => tck = 1
        BY <1>6, <2>3 DEF StepInv, DrivingInv
      <4>. QED BY <1>1, <2>3, <4>1, <4>2
    <3>. QED BY <1>1, <1>2, <1>3, <2>1, <2>3, <3>1, <3>2, <3>3 DEF TimingInv
  <2>4. CASE ~(past_tck = 1 /\ tck' = 0) /\ Settles /\ idle' = idle
    <3>1. /\ \/ Ahead(left)' = Ahead(left)
             \/ Ahead(left) \in Int /\ Ahead(left)' \in Int /\ Ahead(left)' <= Ahead(left)
          /\ state' = "TEST_LOGIC_RESET" => Popped' = Popped
      BY <1>2, <1>6, <2>4, NoneFallsBack
    <3>2. Falls' = Falls
      <4>1. CASE time > 100
        BY <1>2, <1>3, <1>6, <2>4, <4>1
      <4>2. CASE time = 100
        <5>. SUFFICES ASSUME tck = 1, tck' = 0 PROVE FALSE
          BY <1>3
        <5>1. 101 % HalfPeriod = 0 /\ time' = 101
          BY <1>1, <4>2
        <5>2. HalfPeriod \in Nat \ {0}
          BY ClockAssumption DEF ClockAssumption
        <5>3. (101 \div HalfPeriod) % 2 = 1
          BY <5>1, <5>2, NoFallAtFirst
        <5>. QED BY <1>3, <5>1, <5>3 DEF Half
      <4>. QED BY <1>1, <1>6, <4>1, <4>2
    <3>3. Falls' + Ahead(left)' <= left[script'][0] + 1
      BY <1>1, <1>3, <2>2, <3>1, <3>2
    <3>4. ~rdy' /\ state' = state
      BY <2>4 DEF Settles
    <3>. QED BY <1>1, <1>2, <1>3, <2>1, <3>1, <3>3, <3>4 DEF TimingInv
  <2>. QED BY <2>1, <2>3, <2>4
<1>. QED BY <1>1, <1>4, <1>5, <1>6

(* As long as there is a transaction, an edge is needed for it, unless it   *)
(* has just been reported as done.                                          *)
LEMMA EdgeNeeded ==
  ASSUME NEW left, AddsUp(left), StepInv, DeliverInv, CounterInv, script \in Scripts, seq # <<>>
  PROVE  Ahead(left) \in Int /\ Ahead(left) >= IF rdy THEN 0 ELSE 1
<1>1. PICK p0 \in Nat, p1 \in Nat, ir \in {0, 1}, len \in Nat \ {0}, idles \in Nat \ {0} :
        /\ p0 = left[script][Popped] /\ p1 = left[script][Popped + 1]
        /\ ir = IrCycle(Current) /\ len = Current.len /\ idles = NumIdle
        /\ p0 = idles + len + ir + 6 + p1
  BY CyclesOfHead DEF CyclesOf
<1>2. rdy \in BOOLEAN /\ (rdy => state = "RUN_TEST_IDLE") /\ left[script][0] \in Nat
  BY CyclesOfHead DEF StepInv, WaitingInv, DrivingInv
<1>3. CASE state = "TEST_LOGIC_RESET"
  <2>1. ~rdy /\ Ahead(left) = left[script][0] + 1
    BY <1>2, <1>3 DEF Ahead
  <2>. QED BY <1>2, <2>1
<1>4. CASE rdy
  <2>1. Ahead(left) = p1
    BY <1>1, <1>2, <1>4 DEF Ahead
  <2>. QED BY <1>1, <1>4, <2>1
<1>5. CASE state # "TEST_LOGIC_RESET" /\ ~rdy
  <2>1. Ahead(left) = p0 - BehindAt(state, idle, bits, ir, len)
    BY <1>1, <1>5 DEF Ahead, Behind
  <2>2. PICK b : b = BehindAt(state, idle, bits, ir, len)
    OBVIOUS
  <2>3. ir \in Nat /\ len \in Nat /\ idles \in Nat /\ NumIdle = idles /\ p0 \in Nat /\ p1 \in Nat
    BY <1>1, SMTT(30)
  <2>4. b \in Int /\ b <= idles + ir + 5 + len
    <3>1. CASE state = "RUN_TEST_IDLE"
      <4>1. b = idle
        BY <2>2, <3>1 DEF BehindAt
      <4>2. idle \in 0 .. NumIdle - 1
        BY <3>1 DEF CounterInv
      <4>. QED BY <2>3, <4>1, <4>2
    <3>2. CASE state \in {"SHIFT_DR", "SHIFT_IR"}
      <4>1. b = NumIdle + ir + 2 + bits
        BY <2>2, <3>2 DEF BehindAt
      <4>2. bits \in 0 .. len - 1
        BY <1>1, <3>2 DEF DeliverInv, ScanningInv, InShift
      <4>. QED BY <2>3, <4>1, <4>2
    <3>3. CASE state \notin {"RUN_TEST_IDLE", "SHIFT_DR", "SHIFT_IR"}
      <4>1. b \in {NumIdle, NumIdle + 1, NumIdle + ir + 1, NumIdle + ir + 2 + len, NumIdle + ir + 3 + len,
                   NumIdle + ir + 4 + len, NumIdle + ir + 5 + len}
        BY <2>2, <3>3 DEF BehindAt
      <4>. QED BY <2>3, <4>1
    <3>. QED BY <3>1, <3>2, <3>3
  <2>5. p0 = idles + len + ir + 6 + p1
    BY <1>1
  <2>6. p0 - b >= 1
    BY <2>3, <2>4, <2>5
  <2>. QED BY <1>5, <2>1, <2>2, <2>3, <2>4, <2>6
<1>. QED BY <1>2, <1>3, <1>4, <1>5

(* The end comes after the last edge that the script needs.                 *)
LEMMA QueueEmptied ==
  ASSUME NEW left, FitsIn(left), StepInv, DeliverInv, CounterInv, TimingInv(left), time = TimeLimit
  PROVE  seq = <<>>
<1>1. CASE sim # "debug"
  BY <1>1, HeadOfQueue, EmptySeq DEF DeliverInv, DataInv, TimingInv
<1>2. CASE sim = "debug"
  <2>. SUFFICES ASSUME seq # <<>> PROVE FALSE
    OBVIOUS
  <2>1. /\ AddsUp(left) /\ script \in Scripts /\ tck = Half % 2
        /\ rdy => time % HalfPeriod = 0 /\ tck = 0
        /\ time >= 100 => Falls + Ahead(left) <= left[script][0] + 1
    BY <1>2 DEF FitsIn, TimingInv
  <2>2. PICK h \in Nat \ {0}, n \in Nat, before \in Nat, total \in Nat, needed \in Nat :
          /\ h = HalfPeriod /\ n = 100 \div h /\ before = n \div 2 /\ before = FallsBefore
          /\ total = left[script][0] /\ needed = 2 * (before + 1 + total)
    <3>1. HalfPeriod \in Nat \ {0}
      BY ClockAssumption DEF ClockAssumption
    <3>2. 100 \div HalfPeriod \in Nat
      BY <3>1, Divides
    <3>3. (100 \div HalfPeriod) \div 2 \in Nat
      BY <3>2
    <3>4. left[script][0] \in Nat
      BY <2>1, CyclesOfHead
    <3>5. 2 * ((100 \div HalfPeriod) \div 2 + 1 + left[script][0]) \in Nat
      BY <3>3, <3>4
    <3>. QED BY <3>1, <3>2, <3>3, <3>4, <3>5 DEF FallsBefore
  <2>3. h \in Nat /\ h # 0 /\ n \in Nat /\ before \in Nat /\ total \in Nat /\ needed \in Nat
    BY <2>2
  <2>4. needed = 2 * (before + 1 + total) /\ n <= 2 * before + 1
    <3>1. before = n \div 2 /\ needed = 2 * (before + 1 + total)
      BY <2>2
    <3>. QED BY <2>3, <3>1
  <2>5. needed * h < TimeLimit
    BY <2>1, <2>2 DEF FitsIn
  <2>6. PICK half \in Nat, r \in 0 .. h - 1 :
          half = Half /\ r = TimeLimit % h /\ TimeLimit = half * h + r
    <3>1. TimeLimit \in Nat
      BY ClockAssumption DEF ClockAssumption
    <3>2. /\ TimeLimit \div HalfPeriod \in Nat /\ TimeLimit % HalfPeriod \in 0 .. HalfPeriod - 1
          /\ TimeLimit = (TimeLimit \div HalfPeriod) * HalfPeriod + (TimeLimit % HalfPeriod)
      BY <2>2, <3>1, Divides
    <3>3. Half = TimeLimit \div HalfPeriod
      BY DEF Half
    <3>4. HalfPeriod = h
      BY <2>2
    <3>. QED BY <3>2, <3>3, <3>4
  <2>7. time >= 100
    <3>1. n + 1 <= needed /\ n + 1 \in Nat
      BY <2>3, <2>4
    <3>2. (n + 1) * h <= needed * h
      BY <2>3, <3>1, ProductGrows
    <3>3. 100 = n * h + (100 % h) /\ 100 % h \in 0 .. h - 1
      BY <2>2, Divides
    <3>4. (n + 1) * h = n * h + h /\ n * h \in Nat /\ needed * h \in Nat
      BY <2>2
    <3>5. TimeLimit \in Nat
      BY ClockAssumption DEF ClockAssumption
    <3>. QED BY <2>2, <2>5, <3>2, <3>3, <3>4, <3>5
  <2>8. PICK a \in Int : a = Ahead(left) /\ a >= IF rdy THEN 0 ELSE 1
    BY <2>1, EdgeNeeded
  <2>9. (half \div 2) - before + a <= total + 1
    <3>1. Falls = (half \div 2) - before
      BY <2>2, <2>6 DEF Falls
    <3>. QED BY <2>1, <2>2, <2>7, <2>8, <3>1
  <2>10. CASE rdy
    <3>1. r = 0 /\ half % 2 = 0
      BY <2>1, <2>2, <2>6, <2>10
    <3>2. half <= needed
      BY <2>6, <2>8, <2>9, <2>10, <2>3, <2>4, <3>1
    <3>3. half \in Nat
      BY <2>6
    <3>4. half * h <= needed * h /\ half * h \in Nat /\ needed * h \in Nat
      BY <2>3, <3>2, <3>3, ProductGrows
    <3>. QED BY <2>5, <2>6, <3>1, <3>4
  <2>11. CASE ~rdy
    <3>1. half \in Nat /\ half + 1 \in Nat
      BY <2>6
    <3>2. half + 1 <= needed
      BY <2>8, <2>9, <2>11, <2>3, <2>4, <3>1
    <3>3. (half + 1) * h <= needed * h
      BY <2>3, <3>2, <3>1, ProductGrows
    <3>4. (half + 1) * h = half * h + h /\ half * h \in Nat /\ needed * h \in Nat
      BY <2>2
    <3>. QED BY <2>2, <2>5, <2>6, <3>3, <3>4, SMTT(30)
  <2>. QED BY <2>10, <2>11
<1>. QED BY <1>1, <1>2

LEMMA FittingScriptIsInTime ==
  ASSUME StateCleared, NEW left, FitsIn(left)
  PROVE  Spec => []ScriptFits
<1>. DEFINE Inv == StepInv /\ DeliverInv /\ CounterInv /\ TimingInv(left)
<1>1. Init => Inv
  <2>. SUFFICES ASSUME Init PROVE Inv
    OBVIOUS
  <2>1. StepInv /\ DeliverInv
    BY StepInit, DeliverInit
  <2>2. /\ state = "TEST_LOGIC_RESET" /\ time = 0 /\ tck = 0 /\ ~rdy /\ seq = script
        /\ script \in (IF sim = "debug" THEN Scripts ELSE {<<>>})
    BY DEF StateCleared, Init
  <2>3. CounterInv
    BY <2>2, ClockAssumption DEF ClockAssumption, Init, CrgInit, CounterInv, EndTime
  <2>4. Popped = 0 /\ Half % 2 = 0
    <3>1. HalfPeriod \in Nat \ {0} /\ Popped \in Nat
      BY <2>1, ClockAssumption, HeadOfQueue DEF ClockAssumption, DeliverInv
    <3>2. 0 \div HalfPeriod = 0
      BY <3>1
    <3>3. Len(seq) = Len(script) /\ Len(script) \in Nat
      BY <2>1, <2>2, HeadOfQueue DEF DeliverInv
    <3>. QED BY <2>2, <3>2, <3>3 DEF Half, Popped
  <2>. QED BY <2>1, <2>2, <2>3, <2>4 DEF TimingInv
<1>2. Inv /\ [Next]_vars => Inv'
  <2>1. ASSUME Inv, Iterate PROVE Inv'
    <3>1. StepInv'
      BY <2>1, IterateInStep
    <3>2. TimingInv(left)'
      BY <2>1, <3>1, IterateInTime
    <3>. QED BY <2>1, <3>1, <3>2, IterateDelivers, CountersIterate
  <2>2. ASSUME Inv, IterateDefault PROVE Inv'
    <3>1. StepInv' /\ DeliverInv' /\ CounterInv'
      BY <2>2, DefaultKeeps
    <3>. QED BY <2>2, <3>1 DEF TimingInv, IterateDefault
  <2>3. ASSUME Inv, UNCHANGED vars PROVE Inv'
    <3>1. StepInv' /\ DeliverInv' /\ CounterInv'
      BY <2>3, StutterKeeps
    <3>2. UNCHANGED <<sim, script, time, tck, seq, past_tck, rdy, bits, idle, state>>
      BY <2>3 DEF vars, driverVars
    <3>3. Popped' = Popped /\ Current' = Current /\ Half' = Half /\ Falls' = Falls
      BY <3>2 DEF Popped, Current, Half, Falls, FallsBefore
    <3>4. Behind' = Behind
      BY <3>2, <3>3 DEF Behind, IrCycle
    <3>5. Ahead(left)' = Ahead(left)
      BY <3>2, <3>3, <3>4 DEF Ahead
    <3>. QED BY <2>3, <3>1, <3>2, <3>3, <3>5 DEF TimingInv
  <2>. QED BY <2>1, <2>2, <2>3 DEF Next
<1>3. Inv => ScriptFits
  <2>. SUFFICES ASSUME Inv, time = TimeLimit PROVE Len(latched) = Len(script) /\ seq = <<>>
    BY DEF ScriptFits
  <2>1. seq = <<>>
    BY QueueEmptied
  <2>2. Popped = Len(script) /\ Len(script) \in Nat
    BY <2>1, HeadOfQueue DEF DeliverInv
  <2>3. Len(latched) = Due /\ Due <= Len(script) /\ Due \in {Popped, Popped + 1}
    BY DEF DeliverInv, DataInv, Delivered, Due
  <2>. QED BY <2>1, <2>2, <2>3
<1>. QED BY <1>1, <1>2, <1>3, PTL DEF Spec

(* The loop runs long enough for every script whose last falling edge comes *)
(* before its end: num_idle, the bits and six or seven more cycles for each *)
(* transaction, after those that pass before time 100 and one to leave      *)
(* TEST_LOGIC_RESET (sim_main.cpp:36-65, 79, 96-104, driver.cpp:5-65).      *)
THEOREM ScriptIsInTime ==
  ASSUME StateCleared, InTime
  PROVE  Spec => []ScriptFits
<1>1. FitsIn(CyclesLeft)
  BY ScriptsFit
<1>. HIDE DEF CyclesLeft
<1>. QED BY <1>1, FittingScriptIsInTime
=============================================================================
