---------------------------- MODULE IbexSocProofs ----------------------------
(***************************************************************************)
(* Proofs about IbexSoc: the bus with its RAM, LED register and debug      *)
(* module is an atomic memory, for every number of masters, every size of  *)
(* the RAM and of the LED's region, every width of a word, and any         *)
(* commands that keep to the memory map.                                   *)
(***************************************************************************)
EXTENDS SocPorts, Basics, SequenceTheorems

-----------------------------------------------------------------------------
(* Part 1: the shared bus. *)

(* The registers' arithmetic is exact inside the counter's width.          *)
LEMMA SignedInRange ==
  ASSUME NEW n \in CountsRange
  PROVE  Signed(n) = n
  <1>1. Half \in Nat \ {0} /\ n \in -Half .. Half - 1
    BY HalfAssumption DEF CountsRange
  <1> QED
    BY <1>1, WrapFits DEF Signed

(* The systems the shared bus is correct in. *)
BusFits == Mapped /\ Disjoint /\ ~StallIdle /\ Half > 1

(* What makes the registered routing right: at most one transaction is in   *)
(* flight on the whole bus, its master is the registered grant, and exactly *)
(* the slave it addressed acknowledges in this cycle and is selected.       *)
InFlight ==
  \A m \in Masters : owed[m] # <<>> =>
    /\ Len(owed[m]) = 1
    /\ gnt1 = {m}
    /\ wbs_ack # {} /\ ss1 = wbs_ack
    /\ \A s \in wbs_ack : Hit(s, Head(owed[m]).addr)

NoStrayAck == wbs_ack # {} => \E m \in Masters : owed[m] # <<>>

PoliteStall == wbs_stall \subseteq wbs_stb

IInv == TypeOK /\ CountsExact /\ InFlight /\ NoStrayAck /\ PoliteStall

-----------------------------------------------------------------------------
(* The combinational logic. *)

(* The arbiter grants at most one master. *)
LEMMA OneGrant ==
  ASSUME NEW m \in gnt
  PROVE  gnt = {m}
  <1>1. m \in Masters /\ Masters \subseteq Int
    BY NumAssumption DEF gnt, Masters
  <1>2. \A k \in gnt : k <= m /\ m <= k
    BY DEF gnt
  <1>3. \A k \in gnt : k \in Int
    BY <1>1 DEF gnt
  <1>4. \A k \in gnt : k = m
    BY <1>1, <1>2, <1>3
  <1> QED
    BY <1>4

LEMMA Granted ==
  ASSUME NEW m \in Masters, core_gnt(m)
  PROVE  gnt = {m} /\ req[m] /\ cyc /\ stb /\ wbs_stall = {}
  <1>1. req[m] /\ m \in gnt /\ ~stall
    BY DEF core_gnt, CoreGnt, wbm_stall
  <1>2. gnt = {m}
    BY <1>1, OneGrant
  <1> QED
    BY <1>1, <1>2 DEF stall, stb, cyc, gnt

(* A master that sees its command accepted addresses one slave, which       *)
(* accepts it; a slave accepts only what a master sees accepted.            *)
LEMMA Accepted ==
  ASSUME BusFits, TypeOK, PoliteStall
  PROVE  /\ \A m \in Masters : core_gnt(m) =>
              /\ wbs_stb = {s \in Slaves : Hit(s, cmd[m].addr)}
              /\ wbs_stb \ wbs_stall = wbs_stb
              /\ wbs_stb # {}
         /\ (\A m \in Masters : ~core_gnt(m)) => wbs_stb \ wbs_stall = {}
  <1>1. ASSUME NEW m \in Masters, core_gnt(m)
        PROVE  /\ wbs_stb = {s \in Slaves : Hit(s, cmd[m].addr)}
               /\ wbs_stb \ wbs_stall = wbs_stb
               /\ wbs_stb # {}
    <2>1. gnt = {m} /\ cyc /\ stb /\ wbs_stall = {}
      BY <1>1, Granted
    <2>2. wbs_stb = {s \in Slaves : Hit(s, cmd[m].addr)}
      BY <2>1 DEF wbs_stb, ss
    <2>3. cmd[m] \in Commands
      BY DEF TypeOK
    <2>4. \E s \in Slaves : Hit(s, cmd[m].addr)
      BY <2>3 DEF BusFits, Mapped
    <2> QED
      BY <2>1, <2>2, <2>4
  <1>2. ASSUME \A m \in Masters : ~core_gnt(m), NEW s \in wbs_stb, s \notin wbs_stall
        PROVE  FALSE
    <2>1. PICK m \in gnt : req[m]
      BY <1>2 DEF wbs_stb, stb
    <2>2. gnt = {m} /\ m \in Masters
      BY <2>1, OneGrant DEF gnt
    <2>3. stall
      BY <1>2, <2>1, <2>2 DEF core_gnt, CoreGnt, wbm_stall
    <2>4. PICK t \in wbs_stall : TRUE
      BY <2>3 DEF stall
    <2>5. /\ s \in Slaves /\ Hit(s, cmd[m].addr)
          /\ t \in Slaves /\ Hit(t, cmd[m].addr)
      BY <1>2, <2>2, <2>4 DEF PoliteStall, wbs_stb, ss
    <2>6. cmd[m].addr \in 0 .. Space - 1
      BY <2>2, BusCommandsAssumption DEF TypeOK
    <2>7. s = t
      BY <2>5, <2>6 DEF BusFits, Disjoint
    <2> QED
      BY <1>2, <2>4, <2>7
  <1> QED
    BY <1>1, <1>2

(* In the invariant an answer is for the one master that waits. *)
LEMMA Answered ==
  ASSUME IInv, NEW m \in Masters
  PROVE  /\ wbm_cyc(m) \in BOOLEAN /\ wbm_ack(m) \in BOOLEAN /\ core_gnt(m) \in BOOLEAN
         /\ owed[m] \in Seq(Commands) /\ Len(owed[m]) \in Nat
         /\ owed[m] = <<>> <=> Len(owed[m]) = 0
         /\ wbm_cyc(m) /\ wbm_ack(m) <=> owed[m] # <<>>
         /\ rvalid(m) <=> owed[m] # <<>>
  <1>1. owed[m] \in Seq(Commands) /\ counts[m] = Len(owed[m]) /\ req[m] \in BOOLEAN
    BY DEF IInv, TypeOK, CountsExact
  <1>2. Len(owed[m]) \in Nat /\ (owed[m] = <<>> <=> Len(owed[m]) = 0)
    BY <1>1, EmptySeq, LenProperties
  <1>3. wbm_cyc(m) \in BOOLEAN /\ wbm_ack(m) \in BOOLEAN /\ core_gnt(m) \in BOOLEAN
    BY <1>1 DEF wbm_cyc, WbCyc, wbm_ack, core_gnt, CoreGnt
  <1>4. ASSUME owed[m] # <<>>
        PROVE  wbm_cyc(m) /\ wbm_ack(m)
    <2>1. gnt1 = {m} /\ wbs_ack # {}
      BY <1>4 DEF IInv, InFlight
    <2>2. counts[m] > 0
      BY <1>1, <1>2, <1>4
    <2> QED
      BY <2>1, <2>2 DEF wbm_cyc, WbCyc, wbm_ack, ack
  <1>5. ASSUME wbm_ack(m)
        PROVE  owed[m] # <<>>
    <2>1. m \in gnt1 /\ wbs_ack # {}
      BY <1>5 DEF wbm_ack, ack
    <2>2. PICK k \in Masters : owed[k] # <<>>
      BY <2>1 DEF IInv, NoStrayAck
    <2>3. gnt1 = {k}
      BY <2>2 DEF IInv, InFlight
    <2> QED
      BY <2>1, <2>2, <2>3
  <1>6. rvalid(m) <=> wbm_cyc(m) /\ wbm_ack(m)
    BY <1>3 DEF rvalid, CoreRvalid
  <1> QED
    BY <1>1, <1>2, <1>3, <1>4, <1>5, <1>6
-----------------------------------------------------------------------------
(* One edge: what was in flight is answered, what is granted takes its      *)
(* place.                                                                   *)
LEMMA OwedStep ==
  ASSUME IInv, OwedEdge, NEW m \in Masters
  PROVE  /\ owed'[m] = IF core_gnt(m) THEN <<cmd[m]>> ELSE <<>>
         /\ owed'[m] \in Seq(Commands)
         /\ Len(owed'[m]) = IF core_gnt(m) THEN 1 ELSE 0
  <1> DEFINE kept  == IF rvalid(m) /\ owed[m] # <<>> THEN Tail(owed[m]) ELSE owed[m]
             taken == IF core_gnt(m) THEN <<cmd[m]>> ELSE <<>>
  <1>1. owed'[m] = kept \o taken
    BY DEF OwedEdge
  <1>2. kept = <<>>
    <2>1. CASE owed[m] = <<>>
      BY <2>1
    <2>2. CASE owed[m] # <<>>
      <3>1. Len(owed[m]) = 1 /\ owed[m] \in Seq(Commands) /\ rvalid(m)
        BY <2>2, Answered DEF IInv, InFlight
      <3>2. Tail(owed[m]) \in Seq(Commands) /\ Len(Tail(owed[m])) = 0
        BY <2>2, <3>1, HeadTailProperties
      <3> QED
        BY <2>2, <3>1, <3>2, EmptySeq
    <2> QED
      BY <2>1, <2>2
  <1>3. cmd[m] \in Commands
    BY DEF IInv, TypeOK
  <1>4. taken \in Seq(Commands) /\ Len(taken) = IF core_gnt(m) THEN 1 ELSE 0
    BY <1>3, EmptySeq
  <1> HIDE DEF kept
  <1>5. owed'[m] = taken
    BY <1>1, <1>2, <1>4, ConcatEmptySeq
  <1> QED
    BY <1>4, <1>5

LEMMA CountsStep ==
  ASSUME BusFits, IInv, CountsEdge, OwedEdge
  PROVE  counts' \in [Masters -> CountsRange] /\ CountsExact'
  <1> SUFFICES ASSUME NEW m \in Masters
               PROVE  counts'[m] \in CountsRange /\ counts'[m] = Len(owed'[m])
    BY DEF CountsEdge, CountsExact
  <1> DEFINE next == NextCounts(counts[m], req[m], core_gnt(m), wbm_cyc(m), wbm_ack(m))
  <1>1. counts'[m] = next
    BY DEF CountsEdge
  <1>2. /\ counts[m] = Len(owed[m]) /\ Len(owed[m]) \in Nat
        /\ owed[m] = <<>> <=> Len(owed[m]) = 0
        /\ wbm_cyc(m) /\ wbm_ack(m) <=> owed[m] # <<>>
        /\ req[m] \in BOOLEAN /\ core_gnt(m) \in BOOLEAN
        /\ wbm_cyc(m) \in BOOLEAN /\ wbm_ack(m) \in BOOLEAN
    BY Answered DEF IInv, TypeOK, CountsExact
  <1>3. owed[m] # <<>> => Len(owed[m]) = 1
    BY DEF IInv, InFlight
  <1>4. Half \in Nat /\ Half > 1
    BY HalfAssumption DEF BusFits
  <1>5. CASE owed[m] = <<>>
    <2>1. /\ counts[m] = 0 /\ ~(wbm_cyc(m) /\ wbm_ack(m))
      BY <1>2, <1>5
    <2>2. next \in CountsRange /\ next = IF req[m] /\ core_gnt(m) THEN 1 ELSE 0
      <3>1. 0 \in CountsRange /\ 1 \in CountsRange
        BY <1>4 DEF CountsRange
      <3>2. CASE req[m] /\ core_gnt(m)
        <4>1. next = Signed(1)
          BY <2>1, <3>2 DEF NextCounts
        <4> QED
          BY <3>1, <3>2, <4>1, SignedInRange
      <3>3. CASE ~(req[m] /\ core_gnt(m))
        BY <2>1, <3>1, <3>3 DEF NextCounts
      <3> QED
        BY <3>2, <3>3
    <2>3. Len(owed'[m]) = IF core_gnt(m) THEN 1 ELSE 0
      BY OwedStep
    <2>4. core_gnt(m) => req[m]
      BY DEF core_gnt, CoreGnt
    <2> HIDE DEF next
    <2> QED
      BY <1>1, <2>2, <2>3, <2>4
  <1>6. CASE owed[m] # <<>>
    <2>1. counts[m] = 1 /\ wbm_cyc(m) /\ wbm_ack(m)
      BY <1>2, <1>3, <1>6
    <2>2. next \in CountsRange /\ next = IF req[m] /\ core_gnt(m) THEN 1 ELSE 0
      <3>1. CASE req[m] /\ core_gnt(m)
        <4>1. next = 1
          BY <2>1, <3>1 DEF NextCounts
        <4>2. 1 \in CountsRange
          BY <1>4 DEF CountsRange
        <4> QED
          BY <3>1, <4>1, <4>2
      <3>2. CASE ~(req[m] /\ core_gnt(m))
        <4>1. next = Signed(0) /\ 0 \in CountsRange
          BY <1>4, <2>1, <3>2 DEF NextCounts, CountsRange
        <4> QED
          BY <3>2, <4>1, SignedInRange
      <3> QED
        BY <3>1, <3>2
    <2>3. Len(owed'[m]) = IF core_gnt(m) THEN 1 ELSE 0
      BY OwedStep
    <2>4. core_gnt(m) => req[m]
      BY DEF core_gnt, CoreGnt
    <2> HIDE DEF next
    <2> QED
      BY <1>1, <2>2, <2>3, <2>4
  <1> QED
    BY <1>5, <1>6

(* After an edge the registers describe what was granted at it. *)
LEMMA RoutingStep ==
  ASSUME BusFits, IInv, Tick
  PROVE  InFlight' /\ NoStrayAck'
  <1>1. \A m \in Masters : owed'[m] = IF core_gnt(m) THEN <<cmd[m]>> ELSE <<>>
    BY OwedStep DEF Tick
  <1>2. wbs_ack' = wbs_stb \ wbs_stall
    BY DEF Tick, SlavesEdge
  <1>3. ASSUME NEW m \in Masters, owed'[m] # <<>>
        PROVE  /\ Len(owed'[m]) = 1
               /\ gnt1' = {m}
               /\ wbs_ack' # {} /\ ss1' = wbs_ack'
               /\ \A s \in wbs_ack' : Hit(s, Head(owed'[m]).addr)
    <2>1. core_gnt(m) /\ owed'[m] = <<cmd[m]>>
      BY <1>1, <1>3
    <2>2. gnt = {m} /\ cyc /\ stb
      BY <2>1, Granted
    <2>3. /\ wbs_stb = {s \in Slaves : Hit(s, cmd[m].addr)}
          /\ wbs_ack' = wbs_stb /\ wbs_stb # {}
      BY <1>2, <2>1, Accepted DEF IInv
    <2>4. gnt1' = {m} /\ ss1' = wbs_stb
      BY <2>2 DEF Tick, GrantEdge, SelectEdge, wbs_stb
    <2>5. Len(owed'[m]) = 1 /\ Head(owed'[m]) = cmd[m]
      BY <2>1
    <2> QED
      BY <2>3, <2>4, <2>5
  <1>4. InFlight'
    BY <1>3 DEF InFlight, Hit, RangeHit
  <1>5. NoStrayAck'
    <2> SUFFICES ASSUME wbs_ack' # {}
                 PROVE  \E m \in Masters : owed'[m] # <<>>
      BY DEF NoStrayAck
    <2>1. PICK m \in Masters : core_gnt(m)
      BY <1>2, Accepted DEF IInv
    <2>2. Len(owed'[m]) = 1
      BY <2>1, OwedStep DEF Tick
    <2>3. owed'[m] # <<>>
      <3>1. Len(<<>>) = 0
        BY EmptySeq
      <3> QED
        BY <2>2, <3>1
    <2> QED
      BY <2>3
  <1> QED
    BY <1>4, <1>5

LEMMA TypeStep ==
  ASSUME BusFits, IInv, Tick
  PROVE  TypeOK'
  <1>1. counts' \in [Masters -> CountsRange]
    BY CountsStep DEF Tick
  <1>2. owed' \in [Masters -> Seq(Commands)]
    BY OwedStep DEF Tick, OwedEdge
  <1>3. gnt \subseteq Masters /\ ss \subseteq Slaves /\ wbs_stb \subseteq Slaves
    BY DEF gnt, ss, wbs_stb
  <1>4. gnt1' \subseteq Masters /\ ss1' \subseteq Slaves /\ wbs_ack' \subseteq Slaves
    BY <1>3 DEF Tick, GrantEdge, SelectEdge, SlavesEdge, IInv, TypeOK
  <1>5. /\ rst' \in BOOLEAN
        /\ req' \in [Masters -> BOOLEAN] /\ cmd' \in [Masters -> Commands]
        /\ wbs_stall' \subseteq Slaves
    BY StallAssumption DEF Tick, CoresDrive, Asked, SlavesDrive
  <1> QED
    BY <1>1, <1>2, <1>4, <1>5 DEF TypeOK
LEMMA TickInv ==
  ASSUME BusFits, IInv, Tick
  PROVE  IInv'
  <1>1. TypeOK'
    BY TypeStep
  <1>2. CountsExact'
    BY CountsStep DEF Tick
  <1>3. InFlight' /\ NoStrayAck'
    BY RoutingStep
  <1>4. PoliteStall'
    BY DEF Tick, SlavesDrive, PoliteStall, BusFits
  <1> QED
    BY <1>1, <1>2, <1>3, <1>4 DEF IInv

-----------------------------------------------------------------------------
LEMMA InitInv ==
  ASSUME BusFits, Init
  PROVE  IInv
  <1>1. 0 \in CountsRange /\ <<>> \in Seq(Commands) /\ Len(<<>>) = 0
    BY HalfAssumption, EmptySeq DEF CountsRange
  <1>2. TypeOK
    BY <1>1, StallAssumption DEF Init, Asked, TypeOK
  <1>3. CountsExact /\ InFlight /\ NoStrayAck
    BY <1>1 DEF Init, CountsExact, InFlight, NoStrayAck
  <1>4. PoliteStall
    BY DEF Init, PoliteStall, BusFits
  <1> QED
    BY <1>2, <1>3, <1>4 DEF IInv

LEMMA ResetInv ==
  ASSUME BusFits, Reset
  PROVE  IInv'
  <1>1. 0 \in CountsRange /\ <<>> \in Seq(Commands) /\ Len(<<>>) = 0
    BY HalfAssumption, EmptySeq DEF CountsRange
  <1>2. TypeOK'
    BY <1>1, StallAssumption DEF Reset, Asked, SlavesDrive, TypeOK
  <1>3. CountsExact' /\ InFlight' /\ NoStrayAck'
    BY <1>1 DEF Reset, CountsExact, InFlight, NoStrayAck
  <1>4. PoliteStall'
    BY DEF Reset, SlavesDrive, PoliteStall, BusFits
  <1> QED
    BY <1>2, <1>3, <1>4 DEF IInv

LEMMA NextInv ==
  ASSUME BusFits, IInv, [Next]_vars
  PROVE  IInv'
  <1>1. CASE Tick
    BY <1>1, TickInv
  <1>2. CASE Reset
    BY <1>2, ResetInv
  <1>3. CASE UNCHANGED vars
    BY <1>3 DEF vars, IInv, TypeOK, CountsExact, InFlight, NoStrayAck, PoliteStall,
                wbs_stb, ss, gnt, stb, cyc, wbm_cyc, Hit
  <1> QED
    BY <1>1, <1>2, <1>3 DEF Next

(* The inductive invariant: one transaction in flight, routed by gnt1 and   *)
(* ss1 to its master and its slave.                                         *)
THEOREM Invariance ==
  ASSUME BusFits
  PROVE  Spec => []IInv
  <1>1. Init => IInv
    BY InitInv
  <1>2. IInv /\ [Next]_vars => IInv'
    BY NextInv
  <1> QED
    BY <1>1, <1>2, PTL DEF Spec

(* Every register of the interconnect keeps its type.                       *)
THEOREM TypeCorrect ==
  ASSUME BusFits
  PROVE  Spec => []TypeOK
  <1>1. IInv => TypeOK
    BY DEF IInv
  <1> QED
    BY <1>1, Invariance, PTL

(* Every master's converter counts what it is owed, whatever the others do. *)
THEOREM CountersAreExact ==
  ASSUME BusFits
  PROVE  Spec => []CountsExact
  <1>1. IInv => CountsExact
    BY DEF IInv
  <1> QED
    BY <1>1, Invariance, PTL

(* An acknowledge reaches the master that waits for it, and no other.       *)
THEOREM AnswersReachOwner ==
  ASSUME BusFits
  PROVE  Spec => []AnswerReachesOwner
  <1>1. IInv => AnswerReachesOwner
    <2> SUFFICES ASSUME IInv, NEW m \in Masters, wbm_cyc(m), wbm_ack(m)
                 PROVE  owed[m] # <<>> /\ \A k \in Masters \ {m} : owed[k] = <<>>
      BY DEF AnswerReachesOwner
    <2>1. owed[m] # <<>>
      BY Answered
    <2>2. gnt1 = {m}
      BY <2>1 DEF IInv, InFlight
    <2>3. \A k \in Masters \ {m} : owed[k] = <<>>
      BY <2>2 DEF IInv, InFlight
    <2> QED
      BY <2>1, <2>3
  <1> QED
    BY <1>1, Invariance, PTL

(* The data of an answer comes from the slave the request addressed.        *)
THEOREM AnswersMatchRequests ==
  ASSUME BusFits
  PROVE  Spec => []AnswerMatchesRequest
  <1>1. IInv => AnswerMatchesRequest
    BY DEF IInv, InFlight, AnswerMatchesRequest
  <1> QED
    BY <1>1, Invariance, PTL

(* Masters and slaves agree on which command is accepted.                   *)
THEOREM AccessesHappenOnce ==
  ASSUME BusFits
  PROVE  Spec => []AcceptedOnce
  <1>1. IInv => AcceptedOnce
    <2> SUFFICES ASSUME IInv
                 PROVE  wbs_stb \ wbs_stall # {} <=> \E m \in Masters : core_gnt(m)
      BY DEF AcceptedOnce
    <2>1. CASE \E m \in Masters : core_gnt(m)
      BY <2>1, Accepted DEF IInv
    <2>2. CASE \A m \in Masters : ~core_gnt(m)
      BY <2>2, Accepted DEF IInv
    <2> QED
      BY <2>1, <2>2
  <1> QED
    BY <1>1, Invariance, PTL

(* Every grant is followed by its answer in the next cycle, unless by reset.*)
THEOREM AnswersComeNextCycle ==
  ASSUME BusFits
  PROVE  Spec => AnsweredNextCycle
  <1>1. ASSUME IInv, IInv', [Next]_vars
        PROVE  [\A m \in Masters : core_gnt(m) /\ ~rst' => rvalid(m)']_vars
    <2> SUFFICES ASSUME Tick, NEW m \in Masters, core_gnt(m)
                 PROVE  rvalid(m)'
      BY <1>1 DEF Next, Reset
    <2>1. Len(owed'[m]) = 1 /\ owed'[m] # <<>>
      BY <1>1, OwedStep, EmptySeq DEF Tick
    <2>2. gnt1' = {m} /\ wbs_ack' # {}
      BY <1>1, <2>1 DEF IInv, InFlight
    <2>3. counts'[m] = 1
      BY <1>1, <2>1 DEF IInv, CountsExact
    <2> QED
      BY <2>2, <2>3 DEF rvalid, CoreRvalid, wbm_cyc, WbCyc, wbm_ack, ack
  <1> QED
    BY <1>1, Invariance, PTL DEF Spec, AnsweredNextCycle

-----------------------------------------------------------------------------
(* Part 2: the bus with its slaves. *)

(* The slaves of the SoC tie their STALL to zero (wb_spramx32.sv:41,        *)
(* wb_led.sv:26, and the bridge before a debug module that grants at once). *)
SocFits == BusFits /\ Stallable = {}

SocInv == IInv /\ SocTypeOK /\ wbs_stall = {}

-----------------------------------------------------------------------------
(* The arithmetic of the memory map. *)

LEMMA ModBelow ==
  ASSUME NEW x \in Nat, NEW n \in Nat \ {0}
  PROVE  x % n <= x
  BY SMTT(30)

LEMMA ProductAtLeast ==
  ASSUME NEW n \in Nat \ {0}, NEW d \in Int, d >= 1
  PROVE  n * d >= n
  BY SMTT(30)

LEMMA Distributes ==
  ASSUME NEW n \in Int, NEW x \in Int, NEW y \in Int
  PROVE  n * (x - y) = n * x - n * y
  BY SMTT(30)

(* The low bits of an address in an aligned region are its offset. *)
LEMMA OffsetIsLowBits ==
  ASSUME NEW n \in Nat \ {0}, NEW b \in Nat, NEW a \in Nat,
         b % n = 0, b <= a, a < b + n
  PROVE  a % n = a - b
  <1>1. PICK k \in Int : b = n * k
    <2>1. b = n * (b \div n) /\ b \div n \in Int
      BY SMTT(30)
    <2> QED
      BY <2>1
  <1>2. PICK l \in Int : a = (n * l) + (a % n)
    <2>1. a = (n * (a \div n)) + (a % n) /\ a \div n \in Int
      BY SMTT(30)
    <2> QED
      BY <2>1
  <1>3. a % n \in 0 .. n - 1
    BY SMTT(30)
  <1> DEFINE low == a % n
             above == n * l
  <1>4. a = above + low /\ low \in 0 .. n - 1 /\ above \in Int
    BY <1>2, <1>3
  <1>5. n * (l - k) = above - b /\ n * (k - l) = b - above
    BY <1>1, Distributes
  <1>6. l - k >= 1 => above - b >= n
    <2>1. l - k >= 1 => n * (l - k) >= n
      BY ProductAtLeast
    <2> HIDE DEF above
    <2> QED
      BY <1>5, <2>1
  <1>7. k - l >= 1 => b - above >= n
    <2>1. k - l >= 1 => n * (k - l) >= n
      BY ProductAtLeast
    <2> HIDE DEF above
    <2> QED
      BY <1>5, <2>1
  <1>8. l = k => above = b
    BY <1>1
  <1> HIDE DEF low, above
  <1>9. low = a - b
    BY <1>4, <1>6, <1>7, <1>8
  <1> QED
    BY <1>9 DEF low

(* A hit lies in the region, also when base + size wraps around. *)
LEMMA HitInRegion ==
  ASSUME NEW s \in Slaves, NEW a \in 0 .. Space - 1, Hit(s, a)
  PROVE  base_addr[s] <= a /\ a < base_addr[s] + size[s]
  <1>1. base_addr[s] \in Nat /\ size[s] \in Nat /\ Space \in Nat \ {0}
    BY RegionAssumption, SpaceAssumption
  <1>2. (base_addr[s] + size[s]) % Space <= base_addr[s] + size[s]
    BY <1>1, ModBelow
  <1>3. (base_addr[s] + size[s]) % Space \in Nat
    BY <1>1, SMTT(30)
  <1> QED
    BY <1>1, <1>2, <1>3 DEF Hit, RangeHit

LEMMA SlaveNumbers == Dm \in Slaves /\ Ram \in Slaves /\ Led \in Slaves /\ Slaves = {Dm, Ram, Led}
  BY SocAssumption DEF Slaves, Dm, Ram, Led

LEMMA RamOffset ==
  ASSUME NEW c \in Commands, Hit(Ram, c.addr)
  PROVE  RamAddr(c.addr) = c.addr - base_addr[Ram] /\ RamAddr(c.addr) \in 0 .. RamWords - 1
  <1>1. c.addr \in 0 .. Space - 1 /\ c.addr \in Nat
    BY BusCommandsAssumption, SpaceAssumption
  <1>2. base_addr[Ram] <= c.addr /\ c.addr < base_addr[Ram] + RamWords
    BY <1>1, HitInRegion, SlaveNumbers, MapAssumption
  <1>3. base_addr[Ram] \in Nat /\ RamWords \in Nat \ {0} /\ base_addr[Ram] % RamWords = 0
    BY RegionAssumption, SlaveNumbers, SocAssumption, MapAssumption, SpaceAssumption
  <1>4. RamAddr(c.addr) = c.addr - base_addr[Ram]
    BY <1>1, <1>2, <1>3, OffsetIsLowBits DEF RamAddr
  <1> QED
    BY <1>1, <1>2, <1>3, <1>4

LEMMA LedOffset ==
  ASSUME NEW c \in Commands, Hit(Led, c.addr)
  PROVE  LedSelect(c.addr) <=> c.addr = base_addr[Led]
  <1>1. c.addr \in 0 .. Space - 1 /\ c.addr \in Nat
    BY BusCommandsAssumption, SpaceAssumption
  <1>2. base_addr[Led] <= c.addr /\ c.addr < base_addr[Led] + LedWords
    BY <1>1, HitInRegion, SlaveNumbers, MapAssumption
  <1>3. base_addr[Led] \in Nat /\ LedWords \in Nat \ {0} /\ base_addr[Led] % LedWords = 0
    BY RegionAssumption, SlaveNumbers, SocAssumption, MapAssumption, SpaceAssumption
  <1>4. c.addr % LedWords = c.addr - base_addr[Led]
    BY <1>1, <1>2, <1>3, OffsetIsLowBits
  <1> QED
    BY <1>1, <1>3, <1>4 DEF LedSelect

-----------------------------------------------------------------------------
(* What the slaves see. *)

(* A granted command reaches one slave, the one its address hits.           *)
LEMMA SeenByOne ==
  ASSUME SocFits, IInv, NEW m \in Masters, core_gnt(m)
  PROVE  \E s \in Slaves :
           /\ Hit(s, cmd[m].addr) /\ \A t \in Slaves \ {s} : ~Hit(t, cmd[m].addr)
           /\ wbs_stb = {s}
           /\ Seen(s) = {cmd[m]} /\ \A t \in Slaves \ {s} : Seen(t) = {}
  <1>1. gnt = {m} /\ wbs_stb = {s \in Slaves : Hit(s, cmd[m].addr)} /\ wbs_stb # {}
    BY Granted, Accepted DEF SocFits, IInv
  <1>2. PICK s \in Slaves : Hit(s, cmd[m].addr)
    BY <1>1
  <1>3. cmd[m].addr \in 0 .. Space - 1
    BY BusCommandsAssumption DEF IInv, TypeOK
  <1>4. \A t \in Slaves \ {s} : ~Hit(t, cmd[m].addr)
    BY <1>2, <1>3 DEF SocFits, BusFits, Disjoint
  <1>5. wbs_stb = {s}
    BY <1>1, <1>2, <1>4
  <1>6. Seen(s) = {cmd[m]} /\ \A t \in Slaves \ {s} : Seen(t) = {}
    BY <1>1, <1>5 DEF Seen
  <1> QED
    BY <1>2, <1>4, <1>5, <1>6

LEMMA SeenByNone ==
  ASSUME SocFits, SocInv, \A m \in Masters : ~core_gnt(m)
  PROVE  \A s \in Slaves : Seen(s) = {}
  <1>1. wbs_stb \ wbs_stall = {}
    BY Accepted DEF SocFits, SocInv, IInv
  <1>2. wbs_stall = {}
    BY DEF SocInv
  <1>3. wbs_stb = {}
    BY <1>1, <1>2
  <1> QED
    BY <1>3 DEF Seen

-----------------------------------------------------------------------------
(* What an edge does to the slaves' data. *)

CommandType(c) == c.we \in BOOLEAN /\ c.be \subseteq Lanes /\ c.wdata \in Words

LEMMA MemIdle ==
  ASSUME SocTypeOK, MemEdge, Seen(Ram) = {}
  PROVE  mem' = mem
  BY DEF SocTypeOK, MemEdge

LEMMA MemServes ==
  ASSUME SocTypeOK, MemEdge, NEW c \in Commands, Seen(Ram) = {c},
         RamAddr(c.addr) \in 0 .. RamWords - 1
  PROVE  mem' = IF c.we THEN [mem EXCEPT ![RamAddr(c.addr)] = Merged(@, c)] ELSE mem
  <1> DEFINE writes(w) == {d \in Seen(Ram) : d.we /\ RamAddr(d.addr) = w}
  <1>1. mem' = [w \in 0 .. RamWords - 1 |->
                  IF writes(w) = {} THEN mem[w] ELSE Merged(mem[w], CHOOSE d \in writes(w) : TRUE)]
    BY DEF MemEdge
  <1>2. mem \in [0 .. RamWords - 1 -> Words] /\ c.we \in BOOLEAN
    BY SocAssumption DEF SocTypeOK
  <1>3. CASE ~c.we
    <2>1. \A w : writes(w) = {}
      BY <1>3
    <2> HIDE DEF writes
    <2> QED
      BY <1>1, <1>2, <1>3, <2>1
  <1>4. CASE c.we
    <2>1. \A w : writes(w) = IF w = RamAddr(c.addr) THEN {c} ELSE {}
      BY <1>4
    <2> HIDE DEF writes
    <2>2. \A w \in 0 .. RamWords - 1 :
            mem'[w] = IF w = RamAddr(c.addr) THEN Merged(mem[w], c) ELSE mem[w]
      BY <1>1, <2>1
    <2> QED
      BY <1>1, <1>2, <1>4, <2>2
  <1> QED
    BY <1>2, <1>3, <1>4

LEMMA LedIdle ==
  ASSUME LedEdge, \A c \in Seen(Led) : ~(c.we /\ LedSelect(c.addr))
  PROVE  led' = led
  BY DEF LedEdge

LEMMA LedServes ==
  ASSUME LedEdge, NEW c, Seen(Led) = {c}, c.we, LedSelect(c.addr)
  PROVE  led' = Low(c.wdata)
  BY DEF LedEdge

LEMMA QServes ==
  ASSUME QEdge, NEW c, Seen(Ram) = {c}
  PROVE  q' = mem[RamAddr(c.addr)]
  BY DEF QEdge
-----------------------------------------------------------------------------
(* The invariant. *)

LEMMA WordsAreWords ==
  /\ \A c \in Commands, old \in Words : Merged(old, c) \in Words
  /\ \A c \in Commands : Low(c.wdata) \in 0 .. LedStates - 1
  <1>1. ASSUME NEW c \in Commands, NEW old \in Words
        PROVE  Merged(old, c) \in Words
    BY SocAssumption DEF Merged, Words
  <1>2. ASSUME NEW c \in Commands
        PROVE  Low(c.wdata) \in 0 .. LedStates - 1
    <2>1. c.wdata[0] \in Nat /\ LedStates \in Nat \ {0}
      BY SocAssumption DEF Words
    <2>2. \A x \in Nat, n \in Nat \ {0} : x % n \in 0 .. n - 1
      BY SMTT(30)
    <2> QED
      BY <2>1, <2>2 DEF Low
  <1> QED
    BY <1>1, <1>2

LEMMA SlavesType ==
  ASSUME SocFits, SocInv
  PROVE  /\ MemEdge => mem' \in [0 .. RamWords - 1 -> Words]
         /\ QEdge => q' \in Words
         /\ LedEdge => led' \in 0 .. LedStates - 1
  <1>1. \A m \in Masters : cmd[m] \in Commands
    BY DEF SocInv, IInv, TypeOK
  <1>2. CASE \A m \in Masters : ~core_gnt(m)
    <2>1. Seen(Ram) = {} /\ Seen(Led) = {}
      BY <1>2, SeenByNone, SlaveNumbers
    <2> QED
      BY <2>1, MemIdle, LedIdle DEF SocInv, SocTypeOK, QEdge
  <1>3. ASSUME NEW m \in Masters, core_gnt(m)
        PROVE  /\ MemEdge => mem' \in [0 .. RamWords - 1 -> Words]
               /\ QEdge => q' \in Words
               /\ LedEdge => led' \in 0 .. LedStates - 1
    <2>1. PICK s \in Slaves : /\ Hit(s, cmd[m].addr)
                              /\ Seen(s) = {cmd[m]} /\ \A t \in Slaves \ {s} : Seen(t) = {}
      BY <1>3, SeenByOne DEF SocInv
    <2>2. MemEdge => mem' \in [0 .. RamWords - 1 -> Words]
      <3>1. CASE s = Ram
        <4>1. RamAddr(cmd[m].addr) \in 0 .. RamWords - 1
          BY <1>1, <2>1, <3>1, RamOffset
        <4> QED
          BY <1>1, <2>1, <3>1, <4>1, MemServes, WordsAreWords DEF SocInv, SocTypeOK
      <3>2. CASE s # Ram
        BY <2>1, <3>2, MemIdle, SlaveNumbers DEF SocInv, SocTypeOK
      <3> QED
        BY <3>1, <3>2
    <2>3. QEdge => q' \in Words
      <3>1. CASE s = Ram
        BY <1>1, <2>1, <3>1, RamOffset, QServes DEF SocInv, SocTypeOK
      <3>2. CASE s # Ram
        BY <2>1, <3>2, SlaveNumbers DEF SocInv, SocTypeOK, QEdge
      <3> QED
        BY <3>1, <3>2
    <2>4. LedEdge => led' \in 0 .. LedStates - 1
      <3>1. Seen(Led) \subseteq Commands
        BY <1>1, <2>1, SlaveNumbers
      <3> QED
        BY <3>1, WordsAreWords DEF LedEdge, SocInv, SocTypeOK
    <2> QED
      BY <2>2, <2>3, <2>4
  <1> QED
    BY <1>2, <1>3

LEMMA SocInitInv ==
  ASSUME SocFits, SocInit
  PROVE  SocInv
  <1>1. IInv
    BY InitInv DEF SocFits, SocInit
  <1>2. SocTypeOK
    BY <1>1, SocAssumption DEF SocInit, SocTypeOK, IInv
  <1>3. wbs_stall = {}
    BY DEF SocInit, Init, SocFits
  <1> QED
    BY <1>1, <1>2, <1>3 DEF SocInv

LEMMA SocNextInv ==
  ASSUME SocFits, SocInv, [SocNext]_socVars
  PROVE  SocInv'
  <1>1. [Next]_vars
    BY DEF SocNext, SocTick, SocReset, Next, socVars
  <1>2. IInv'
    BY <1>1, NextInv DEF SocFits, SocInv
  <1>3. SocTypeOK'
    <2>1. CASE SocTick
      BY <1>2, <2>1, SlavesType DEF SocTick, SocTypeOK, IInv
    <2>2. CASE SocReset
      <3>1. led' \in 0 .. LedStates - 1
        BY <2>2, SocAssumption DEF SocReset
      <3>2. mem' \in [0 .. RamWords - 1 -> Words] /\ q' \in Words
        BY <2>2, SlavesType DEF SocReset, SocInv, SocTypeOK
      <3> QED
        BY <1>2, <3>1, <3>2 DEF SocTypeOK, IInv
    <2>3. CASE UNCHANGED socVars
      BY <1>2, <2>3 DEF socVars, SocInv, SocTypeOK, IInv
    <2> QED
      BY <2>1, <2>2, <2>3 DEF SocNext
  <1>4. wbs_stall' = {}
    BY DEF SocNext, SocTick, SocReset, Tick, Reset, SlavesDrive, SocFits, SocInv, socVars, vars
  <1> QED
    BY <1>2, <1>3, <1>4 DEF SocInv

LEMMA SocInvariance ==
  ASSUME SocFits
  PROVE  SocSpec => []SocInv
  <1>1. SocInit => SocInv
    BY SocInitInv
  <1>2. SocInv /\ [SocNext]_socVars => SocInv'
    BY SocNextInv
  <1> QED
    BY <1>1, <1>2, PTL DEF SocSpec

(* The registers of the bus and of its slaves keep their types: the RAM     *)
(* holds words, the LED register what fits in it.                           *)
THEOREM SocTypeCorrect ==
  ASSUME SocFits
  PROVE  SocSpec => []SocTypeOK
  <1>1. SocInv => SocTypeOK
    BY DEF SocInv
  <1> QED
    BY <1>1, SocInvariance, PTL
-----------------------------------------------------------------------------
(* The refinement of the atomic memory. *)

Store   == [mem |-> mem, led |-> led]
Pending == [m \in Masters |-> IF owed[m] = <<>> THEN <<>> ELSE <<Answer(m)>>]

(* Whoever is owed an answer gets it in this cycle. *)
LEMMA AllAnswered ==
  IInv => {m \in Masters : rvalid(m)} = {m \in Masters : owed[m] # <<>>}
  BY Answered

LEMMA NothingRemains ==
  ASSUME IInv
  PROVE  Memory!Remaining = Memory!Nothing
  <1>1. \A x : Tail(<<x>>) = <<>>
    OBVIOUS
  <1>2. \A m \in Masters :
          (IF m \in {k \in Masters : rvalid(k)} THEN Tail(Pending[m]) ELSE Pending[m]) = <<>>
    BY <1>1, AllAnswered DEF Pending
  <1> QED
    BY <1>2 DEF Memory!Remaining, Memory!Nothing, Pending

(* What a granted command does to the store is what the map says.           *)
LEMMA StoreServes ==
  ASSUME SocFits, SocInv, MemEdge, LedEdge, NEW m \in Masters, core_gnt(m)
  PROVE  Store' = MapStored(Store, cmd[m])
  <1> DEFINE c == cmd[m]
  <1> SUFFICES Store' = MapStored(Store, c)
    OBVIOUS
  <1>1. c \in Commands /\ c.we \in BOOLEAN
    BY SocAssumption DEF SocInv, IInv, TypeOK
  <1>2. PICK s \in Slaves :
          /\ Hit(s, c.addr) /\ \A t \in Slaves \ {s} : ~Hit(t, c.addr)
          /\ Seen(s) = {c} /\ \A t \in Slaves \ {s} : Seen(t) = {}
    BY SeenByOne DEF SocInv
  <1> HIDE DEF c
  <1>3. s = Dm \/ s = Ram \/ s = Led
    BY <1>2, SlaveNumbers
  <1>4. Ram # Led /\ Ram # Dm /\ Led # Dm
    BY DEF Ram, Led, Dm
  <1>5. CASE s = Ram
    <2>1. led' = led
      BY <1>2, <1>4, <1>5, LedIdle, SlaveNumbers
    <2>2. /\ mem' = IF c.we THEN [mem EXCEPT ![RamAddr(c.addr)] = Merged(@, c)] ELSE mem
          /\ RamAddr(c.addr) = c.addr - base_addr[Ram]
      BY <1>1, <1>2, <1>5, MemServes, RamOffset DEF SocInv
    <2>3. Hit(Ram, c.addr) /\ ~Hit(Led, c.addr)
      BY <1>2, <1>4, <1>5, SlaveNumbers
    <2>4. CASE ~c.we
      BY <2>1, <2>2, <2>4 DEF Store, MapStored
    <2>5. CASE c.we
      <3>1. MapStored(Store, c) =
              [Store EXCEPT !.mem[c.addr - base_addr[Ram]] =
                 [l \in Lanes |-> IF l \in c.be THEN c.wdata[l] ELSE @[l]]]
        BY <2>3, <2>5 DEF MapStored
      <3>2. mem' = [mem EXCEPT ![c.addr - base_addr[Ram]] =
                 [l \in Lanes |-> IF l \in c.be THEN c.wdata[l] ELSE @[l]]]
        BY <2>2, <2>5 DEF Merged
      <3> QED
        BY <2>1, <3>1, <3>2 DEF Store
    <2> QED
      BY <1>1, <2>4, <2>5
  <1>6. CASE s = Led
    <2>1. mem' = mem
      BY <1>2, <1>4, <1>6, MemIdle, SlaveNumbers DEF SocInv
    <2>2. Hit(Led, c.addr) /\ ~Hit(Ram, c.addr) /\ (LedSelect(c.addr) <=> c.addr = base_addr[Led])
      BY <1>1, <1>2, <1>4, <1>6, SlaveNumbers, LedOffset
    <2>3. CASE c.we /\ c.addr = base_addr[Led]
      <3>1. led' = c.wdata[0] % LedStates
        BY <1>2, <1>6, <2>2, <2>3, LedServes DEF Low
      <3>2. MapStored(Store, c) = [Store EXCEPT !.led = c.wdata[0] % LedStates]
        BY <2>2, <2>3 DEF MapStored
      <3> QED
        BY <2>1, <3>1, <3>2 DEF Store
    <2>4. CASE ~(c.we /\ c.addr = base_addr[Led])
      <3>1. led' = led
        BY <1>2, <1>6, <2>2, <2>4, LedIdle
      <3>2. MapStored(Store, c) = Store
        BY <1>1, <2>2, <2>4 DEF MapStored
      <3> QED
        BY <2>1, <3>1, <3>2 DEF Store
    <2> QED
      BY <2>3, <2>4
  <1>7. CASE s = Dm
    <2>1. ~Hit(Ram, c.addr) /\ ~Hit(Led, c.addr) /\ Seen(Ram) = {} /\ Seen(Led) = {}
      BY <1>2, <1>4, <1>7, SlaveNumbers
    <2>2. mem' = mem /\ led' = led
      BY <2>1, MemIdle, LedIdle DEF SocInv
    <2>3. MapStored(Store, c) = Store
      BY <1>1, <2>1 DEF MapStored
    <2> QED
      BY <2>2, <2>3 DEF Store
  <1> QED
    BY <1>3, <1>5, <1>6, <1>7

(* What the bus shows its master in the next cycle is what the map finds now. *)
LEMMA AnswerIsFound ==
  ASSUME SocFits, SocInv, SocInv', SocTick, NEW m \in Masters, core_gnt(m)
  PROVE  /\ owed'[m] # <<>> /\ Answer(m)' = MapFound(Store, cmd[m])
         /\ \A k \in Masters \ {m} : owed'[k] = <<>>
  <1> DEFINE c == cmd[m]
  <1>1. c \in Commands /\ c.we \in BOOLEAN
    BY SocAssumption DEF SocInv, IInv, TypeOK
  <1>2. PICK s \in Slaves :
          /\ Hit(s, c.addr) /\ \A t \in Slaves \ {s} : ~Hit(t, c.addr)
          /\ wbs_stb = {s}
          /\ Seen(s) = {c} /\ \A t \in Slaves \ {s} : Seen(t) = {}
    BY SeenByOne DEF SocInv
  <1>3. owed'[m] = <<c>> /\ owed'[m] # <<>> /\ Head(owed'[m]) = c
    <2>1. owed'[m] = <<c>>
      BY OwedStep DEF SocInv, SocTick, Tick
    <2> QED
      BY <2>1
  <1>4. gnt1' = {m} /\ \A k \in Masters \ {m} : owed'[k] = <<>>
    BY <1>3 DEF SocInv, IInv, InFlight
  <1>5. ss1' = {s}
    <2>1. wbs_ack' = {s}
      BY <1>2 DEF SocTick, Tick, SlavesEdge, SocInv
    <2> QED
      BY <1>3, <2>1 DEF SocInv, IInv, InFlight
  <1> HIDE DEF c
  <1>6. wbm_dat(m)' = Driven(s)'
    <2>1. \A t \in {s} : t <= t
      BY <1>2 DEF Slaves
    <2>2. (CHOOSE u \in {s} : \A t \in {s} : t <= u) = s
      BY <2>1
    <2> QED
      BY <1>4, <1>5, <2>2 DEF wbm_dat, dat_rd, DataOf
  <1> SUFFICES Answer(m)' = MapFound(Store, c)
    BY <1>3, <1>4 DEF c
  <1>7. CASE c.we
    BY <1>1, <1>3, <1>7 DEF Answer, MapFound
  <1>8. CASE ~c.we
    <2>1. Answer(m)' = Driven(s)'
      BY <1>3, <1>6, <1>8 DEF Answer
    <2>2. Ram # Led /\ Ram # Dm /\ Led # Dm
      BY DEF Ram, Led, Dm
    <2>3. CASE s = Ram
      <3>1. q' = mem[RamAddr(c.addr)]
        BY <1>2, <2>3, QServes DEF SocTick
      <3>2. RamAddr(c.addr) = c.addr - base_addr[Ram] /\ Hit(Ram, c.addr) /\ ~Hit(Led, c.addr)
        BY <1>1, <1>2, <2>2, <2>3, RamOffset, SlaveNumbers
      <3> QED
        BY <1>3, <1>4, <1>8, <2>1, <2>2, <2>3, <3>1, <3>2 DEF Driven, MapFound, Store
    <2>4. CASE s = Led
      <3>1. led' = led
        BY <1>2, <1>8, <2>4, LedIdle DEF SocTick
      <3>2. Hit(Led, c.addr) /\ ~Hit(Ram, c.addr)
        BY <1>2, <2>2, <2>4, SlaveNumbers
      <3> QED
        BY <1>3, <1>4, <1>8, <2>1, <2>2, <2>4, <3>1, <3>2 DEF Driven, Extended, MapFound, Store
    <2>5. CASE s = Dm
      <3>1. ~Hit(Led, c.addr) /\ ~Hit(Ram, c.addr)
        BY <1>2, <2>2, <2>5, SlaveNumbers
      <3> QED
        BY <1>3, <1>4, <1>8, <2>1, <2>2, <2>5, <3>1 DEF Driven, MapFound
    <2> QED
      BY <1>2, <2>3, <2>4, <2>5, SlaveNumbers
  <1> QED
    BY <1>1, <1>7, <1>8
LEMMA TickIsMemoryCycle ==
  ASSUME SocFits, SocInv, SocInv', SocTick
  PROVE  Memory!Cycle
  <1>1. rst' = FALSE
    BY DEF SocTick, Tick
  <1>2. {m \in Masters : rvalid(m)}' = {m \in Masters : owed'[m] # <<>>}
    <2>1. (IInv => {m \in Masters : rvalid(m)} = {m \in Masters : owed[m] # <<>>})'
      BY AllAnswered, PTL
    <2> QED
      BY <2>1 DEF SocInv
  <1>3. /\ {m \in Masters : rvalid(m)}' \in SUBSET Masters
        /\ \A p \in {m \in Masters : rvalid(m)}' : Pending'[p] # <<>>
    BY <1>2 DEF Pending
  <1>4. CASE \A m \in Masters : ~core_gnt(m)
    <2>1. mem' = mem /\ led' = led
      BY <1>4, SeenByNone, SlaveNumbers, MemIdle, LedIdle DEF SocTick, SocInv
    <2>2. \A m \in Masters : owed'[m] = <<>>
      BY <1>4, OwedStep DEF SocInv, SocTick, Tick
    <2>3. Pending' = Memory!Remaining
      BY <2>2, NothingRemains DEF Pending, Memory!Nothing, SocInv
    <2>4. Memory!Quiet
      BY <2>1, <2>3 DEF Memory!Quiet, Pending
    <2> QED
      BY <1>1, <1>3, <2>4 DEF Memory!Cycle, Pending
  <1>5. ASSUME NEW m \in Masters, core_gnt(m)
        PROVE  Memory!Cycle
    <2>1. Store' = MapStored(Store, cmd[m])
      BY <1>5, StoreServes DEF SocTick
    <2>2. /\ owed'[m] # <<>> /\ Answer(m)' = MapFound(Store, cmd[m])
          /\ \A k \in Masters \ {m} : owed'[k] = <<>>
      BY <1>5, AnswerIsFound
    <2>3. Pending' = [Memory!Nothing EXCEPT ![m] = <<MapFound(Store, cmd[m])>>]
      BY <2>2 DEF Pending, Memory!Nothing
    <2>4. Append(<<>>, MapFound(Store, cmd[m])) = <<MapFound(Store, cmd[m])>>
      OBVIOUS
    <2>5. Pending' = [Memory!Remaining EXCEPT ![m] = Append(@, MapFound(Store, cmd[m]))]
      BY <2>3, <2>4, NothingRemains DEF Memory!Nothing, SocInv
    <2>6. cmd[m] \in Commands
      BY DEF SocInv, IInv, TypeOK
    <2>7. \E p \in Masters, c \in Commands : Memory!Access(p, c)
      BY <2>1, <2>5, <2>6 DEF Memory!Access, Store, Pending
    <2> QED
      BY <1>1, <1>3, <2>7 DEF Memory!Cycle, Pending
  <1> QED
    BY <1>4, <1>5

(* A reset either comes before the edge of its cycle, or after a write of   *)
(* that cycle.                                                              *)
LEMMA ResetIsMemoryReset ==
  ASSUME SocFits, SocInv, SocReset
  PROVE  Memory!Reset
  <1>1. rst' = TRUE /\ led' = 0 /\ \A m \in Masters : owed'[m] = <<>>
    BY DEF SocReset, Reset
  <1>2. \A m \in Masters : ~rvalid(m)'
    <2>1. \A m \in Masters : req'[m] = FALSE /\ counts'[m] = 0
      BY DEF SocReset, Reset
    <2> QED
      BY <2>1 DEF rvalid, CoreRvalid, wbm_cyc, WbCyc
  <1>3. Pending' = Memory!Nothing
    BY <1>1 DEF Pending, Memory!Nothing
  <1>4. \/ Store' = MapCleared(Store)
        \/ \E c \in Commands : Store' = MapCleared(MapStored(Store, c))
    <2>1. CASE mem' = mem
      BY <1>1, <2>1 DEF Store, MapCleared
    <2>2. CASE MemEdge /\ mem' # mem
      <3>1. PICK m \in Masters : core_gnt(m)
        BY <2>2, SeenByNone, SlaveNumbers, MemIdle DEF SocInv
      <3>2. PICK s \in Slaves :
              /\ Hit(s, cmd[m].addr) /\ \A t \in Slaves \ {s} : ~Hit(t, cmd[m].addr)
              /\ Seen(s) = {cmd[m]} /\ \A t \in Slaves \ {s} : Seen(t) = {}
        BY <3>1, SeenByOne DEF SocInv
      <3>3. s = Ram
        BY <2>2, <3>2, SlaveNumbers, MemIdle DEF SocInv
      <3> DEFINE c == cmd[m]
      <3>4. c \in Commands
        BY DEF SocInv, IInv, TypeOK
      <3>5. RamAddr(c.addr) = c.addr - base_addr[Ram] /\ RamAddr(c.addr) \in 0 .. RamWords - 1
        BY <3>2, <3>3, <3>4, RamOffset
      <3>6. mem' = IF c.we THEN [mem EXCEPT ![RamAddr(c.addr)] = Merged(@, c)] ELSE mem
        BY <2>2, <3>2, <3>3, <3>4, <3>5, MemServes DEF SocInv
      <3>7. Hit(Ram, c.addr) /\ Seen(Ram) = {c}
        BY <3>2, <3>3
      <3> HIDE DEF c
      <3>8. c.we
        BY <2>2, <3>6
      <3>9. MapStored(Store, c) =
              [Store EXCEPT !.mem[c.addr - base_addr[Ram]] =
                 [l \in Lanes |-> IF l \in c.be THEN c.wdata[l] ELSE @[l]]]
        <4>1. ~Hit(Led, c.addr)
          BY <3>2, <3>3, SlaveNumbers DEF c, Ram, Led
        <4> QED
          BY <3>7, <3>8, <4>1 DEF MapStored
      <3>10. mem' = [mem EXCEPT ![c.addr - base_addr[Ram]] =
                 [l \in Lanes |-> IF l \in c.be THEN c.wdata[l] ELSE @[l]]]
        BY <3>5, <3>6, <3>8 DEF Merged
      <3>11. Store' = MapCleared(MapStored(Store, c))
        BY <1>1, <3>9, <3>10 DEF Store, MapCleared
      <3> QED
        BY <3>4, <3>11
    <2> QED
      BY <2>1, <2>2 DEF SocReset
  <1> QED
    BY <1>1, <1>2, <1>3, <1>4 DEF Memory!Reset, Store, Pending

(* The converters, the arbiter, the routing registers and the slaves        *)
(* together are one atomic memory for all masters: an answer is what its    *)
(* read found when it was granted, whatever is written before it arrives.   *)
THEOREM SocIsAtomicMemory ==
  ASSUME SocFits
  PROVE  SocSpec => AtomicMemory
  <1>1. SocInit => Memory!Init
    <2> SUFFICES ASSUME SocInit
                 PROVE  Memory!Init
      OBVIOUS
    <2>1. rst = TRUE /\ \A m \in Masters : owed[m] = <<>> /\ req[m] = FALSE /\ counts[m] = 0
      BY DEF SocInit, Init
    <2>2. \A m \in Masters : ~rvalid(m)
      BY <2>1 DEF rvalid, CoreRvalid, wbm_cyc, WbCyc
    <2> QED
      BY <2>1, <2>2 DEF Memory!Init, Memory!Nothing
  <1>2. SocInv /\ SocInv' /\ [SocNext]_socVars => [Memory!Next]_Memory!vars
    <2> SUFFICES ASSUME SocInv, SocInv', [SocNext]_socVars
                 PROVE  [Memory!Next]_Memory!vars
      OBVIOUS
    <2>1. CASE SocTick
      BY <2>1, TickIsMemoryCycle DEF Memory!Next
    <2>2. CASE SocReset
      BY <2>2, ResetIsMemoryReset DEF Memory!Next
    <2>3. CASE UNCHANGED socVars
      BY <2>3 DEF socVars, vars, Memory!vars, Answer, wbm_dat, dat_rd, DataOf, Driven, Extended,
                  rvalid, CoreRvalid, wbm_cyc, WbCyc, wbm_ack, ack
    <2> QED
      BY <2>1, <2>2, <2>3 DEF SocNext
  <1>3. SocSpec => []SocInv
    BY SocInvariance
  <1> QED
    BY <1>1, <1>2, <1>3, PTL DEF SocSpec, AtomicMemory, Memory!Spec
-----------------------------------------------------------------------------
(* Part 3: the converters between their neighbours in the SoC.              *)

(* An acknowledge is routed to a master that waits for one.                 *)
LEMMA AckHasOwner ==
  ASSUME IInv, NEW m \in Masters, wbm_ack(m)
  PROVE  owed[m] # <<>> /\ wbm_cyc(m)
  <1>1. m \in gnt1 /\ wbs_ack # {}
    BY DEF wbm_ack, ack
  <1>2. PICK k \in Masters : owed[k] # <<>>
    BY <1>1 DEF IInv, NoStrayAck
  <1>3. gnt1 = {k}
    BY <1>2 DEF IInv, InFlight
  <1> QED
    BY <1>1, <1>2, <1>3, Answered

LEMMA WatchedAckHasOwner ==
  IInv /\ wbm_ack(Watched) => owed[Watched] # <<>> /\ wbm_cyc(Watched)
  BY AckHasOwner, WatchedAssumption

LEMMA AtMostOneOwed ==
  ASSUME IInv, NEW m \in Masters
  PROVE  owed[m] = <<>> \/ \E c \in Commands : owed[m] = <<c>>
  <1>1. owed[m] \in Seq(Commands) /\ (owed[m] # <<>> => Len(owed[m]) = 1)
    BY DEF IInv, TypeOK, InFlight
  <1> SUFFICES ASSUME owed[m] # <<>>
               PROVE  \E c \in Commands : owed[m] = <<c>>
    OBVIOUS
  <1>2. Len(owed[m]) = 1 /\ owed[m][1] \in Commands
    BY <1>1, ElementOfSeq
  <1>3. owed[m] = <<owed[m][1]>>
    BY <1>1, <1>2
  <1> QED
    BY <1>2, <1>3

OwedLines == [i \in 1 .. Len(owed[Watched]) |-> ToBus(owed[Watched][i])]

LEMMA OwedLinesShape ==
  /\ owed[Watched] = <<>> => OwedLines = <<>>
  /\ \A c : owed[Watched] = <<c>> => OwedLines = <<ToBus(c)>>
  <1>1. ASSUME owed[Watched] = <<>> PROVE OwedLines = <<>>
    <2>1. Len(owed[Watched]) = 0
      BY <1>1, EmptySeq
    <2> QED
      BY <2>1 DEF OwedLines
  <1>2. ASSUME NEW c, owed[Watched] = <<c>> PROVE OwedLines = <<ToBus(c)>>
    <2>1. Len(owed[Watched]) = 1 /\ owed[Watched][1] = c
      BY <1>2
    <2>2. OwedLines = [i \in 1 .. 1 |-> ToBus(owed[Watched][i])]
      BY <2>1 DEF OwedLines
    <2> QED
      BY <2>1, <2>2
  <1> QED
    BY <1>1, <1>2

LEMMA OwedLinesStep ==
  ASSUME IInv, IInv', OwedEdge
  PROVE  /\ OwedLines' = IF core_gnt(Watched) THEN <<ToBus(cmd[Watched])>> ELSE <<>>
         /\ owed[Watched] # <<>> => Tail(OwedLines) = <<>>
         /\ Len(OwedLines') <= 1
         /\ owed'[Watched] # <<>> => OwedLines' # <<>>
  <1> USE WatchedAssumption
  <1>1. owed'[Watched] = IF core_gnt(Watched) THEN <<cmd[Watched]>> ELSE <<>>
    BY OwedStep
  <1>2. (/\ owed[Watched] = <<>> => OwedLines = <<>>
         /\ \A c : owed[Watched] = <<c>> => OwedLines = <<ToBus(c)>>)'
    BY OwedLinesShape, PTL
  <1>3. OwedLines' = IF core_gnt(Watched) THEN <<ToBus(cmd[Watched])>> ELSE <<>>
    BY <1>1, <1>2
  <1>4. owed[Watched] # <<>> => Tail(OwedLines) = <<>>
    <2> SUFFICES ASSUME owed[Watched] # <<>>
                 PROVE  Tail(OwedLines) = <<>>
      OBVIOUS
    <2>1. PICK c \in Commands : owed[Watched] = <<c>>
      BY AtMostOneOwed
    <2>2. OwedLines = <<ToBus(c)>>
      BY <2>1, OwedLinesShape
    <2> QED
      BY <2>2
  <1>5. Len(<<>>) = 0 /\ Len(<<ToBus(cmd[Watched])>>) = 1 /\ <<ToBus(cmd[Watched])>> # <<>>
    BY EmptySeq
  <1> QED
    BY <1>1, <1>3, <1>4, <1>5

LEMMA ConverterInit ==
  ASSUME SocFits, SocInit
  PROVE  Converter!Init
  <1> USE WatchedAssumption
  <1>1. /\ rst = TRUE /\ counts[Watched] = 0 /\ owed[Watched] = <<>>
        /\ req[Watched] = FALSE /\ gnt1 = {}
    BY DEF SocInit, Init
  <1>2. cmd[Watched] \in Commands
    BY MayAskAssumption DEF SocInit, Init, Asked
  <1>3. wbm_ack(Watched) = FALSE
    BY <1>1 DEF wbm_ack
  <1>4. wbm_stall(Watched) \in BOOLEAN
    BY DEF wbm_stall, stall
  <1>5. OwedLines = <<>>
    BY <1>1, OwedLinesShape
  <1> QED
    BY <1>1, <1>2, <1>3, <1>4, <1>5 DEF Converter!Init, OwedLines

LEMMA ConverterTick ==
  ASSUME SocFits, SocInv, SocInv', Tick
  PROVE  Converter!Tick
  <1> USE WatchedAssumption
  <1>1. /\ IInv /\ IInv' /\ CountsEdge /\ OwedEdge /\ CoresDrive /\ rst' = FALSE
    BY DEF SocInv, Tick
  <1>2. /\ Converter!gnt = core_gnt(Watched) /\ Converter!cyc = wbm_cyc(Watched)
        /\ Converter!rvalid = rvalid(Watched) /\ Converter!stb = req[Watched]
    BY DEF Converter!gnt, Converter!CoreGnt, core_gnt, CoreGnt,
           Converter!cyc, Converter!WbCyc, wbm_cyc, WbCyc, Converter!stb,
           Converter!rvalid, Converter!CoreRvalid, rvalid, CoreRvalid
  <1>3. Converter!CountsEdge
    <2>1. counts'[Watched] = NextCounts(counts[Watched], req[Watched], core_gnt(Watched),
                                        wbm_cyc(Watched), wbm_ack(Watched))
      BY <1>1 DEF CountsEdge
    <2>2. \A n, r, g, y, a :
            Converter!NextCounts(n, r, g, y, a) = NextCounts(n, r, g, y, a)
      BY DEF Converter!NextCounts, NextCounts, Converter!Signed, Signed
    <2> QED
      BY <1>2, <2>1, <2>2 DEF Converter!CountsEdge
  <1>4. Converter!OwedEdge
    <2>1. Converter!BusCommand(cmd[Watched]) = ToBus(cmd[Watched])
      BY DEF Converter!BusCommand, ToBus, Converter!WbSel, WbSel
    <2>2. /\ OwedLines' = IF core_gnt(Watched) THEN <<ToBus(cmd[Watched])>> ELSE <<>>
          /\ owed[Watched] # <<>> => Tail(OwedLines) = <<>>
      BY <1>1, OwedLinesStep
    <2>3. rvalid(Watched) <=> owed[Watched] # <<>>
      BY <1>1, Answered
    <2>4. owed[Watched] = <<>> => OwedLines = <<>>
      BY OwedLinesShape
    <2>5. core_gnt(Watched) <=> req[Watched] /\ ~wbm_stall(Watched)
      BY DEF core_gnt, CoreGnt
    <2>6. core_gnt(Watched) => wbm_cyc(Watched)
      BY <2>5 DEF wbm_cyc, WbCyc
    <2>7. (IF rvalid(Watched) THEN Tail(OwedLines) ELSE OwedLines) = <<>>
      BY <2>2, <2>3, <2>4
    <2>8. <<>> \o <<ToBus(cmd[Watched])>> = <<ToBus(cmd[Watched])>> /\ <<>> \o <<>> = <<>>
      OBVIOUS
    <2>9. OwedLines' = IF wbm_cyc(Watched)
                       THEN (IF rvalid(Watched) THEN Tail(OwedLines) ELSE OwedLines)
                              \o (IF req[Watched] /\ ~wbm_stall(Watched)
                                  THEN <<ToBus(cmd[Watched])>> ELSE <<>>)
                       ELSE <<>>
      BY <2>2, <2>5, <2>6, <2>7, <2>8
    <2> QED
      BY <1>2, <2>1, <2>9 DEF Converter!OwedEdge, OwedLines
  <1>5. Converter!CoreDrives
    <2>1. req'[Watched] \in BOOLEAN
      BY <1>1 DEF CoresDrive
    <2>2. cmd'[Watched] \in Commands
      BY <1>1, MayAskAssumption DEF CoresDrive, Asked
    <2>3. req[Watched] /\ ~core_gnt(Watched) => req'[Watched] /\ cmd'[Watched] = cmd[Watched]
      BY <1>1 DEF CoresDrive
    <2> QED
      BY <1>2, <2>1, <2>2, <2>3 DEF Converter!CoreDrives
  <1>6. Converter!BusDrives
    <2>1. wbm_stall(Watched)' \in BOOLEAN /\ wbm_ack(Watched)' \in BOOLEAN
      BY DEF wbm_stall, stall, wbm_ack, ack
    <2>2. wbm_ack(Watched)' => owed'[Watched] # <<>> /\ wbm_cyc(Watched)'
      <3>1. (IInv /\ wbm_ack(Watched) => owed[Watched] # <<>> /\ wbm_cyc(Watched))'
        BY WatchedAckHasOwner, PTL
      <3> QED
        BY <1>1, <3>1
    <2>3. /\ Len(OwedLines') <= 1 /\ (owed'[Watched] # <<>> => OwedLines' # <<>>)
          /\ Len(OwedLines') \in Nat
      <3>1. OwedLines' = IF core_gnt(Watched) THEN <<ToBus(cmd[Watched])>> ELSE <<>>
        BY <1>1, OwedLinesStep
      <3>2. Len(OwedLines') \in Nat
        BY <3>1, EmptySeq
      <3> QED
        BY <1>1, <3>2, OwedLinesStep
    <2>4. ~(Len(OwedLines') >= 2)
      BY <2>3
    <2>5. Converter!cyc' = wbm_cyc(Watched)'
      BY DEF Converter!cyc, Converter!WbCyc, wbm_cyc, WbCyc
    <2> HIDE DEF OwedLines
    <2>6. wbm_ack(Watched)' \/ FALSE' => Converter!cyc' /\ OwedLines' # <<>>
      BY <2>2, <2>3, <2>5
    <2> QED
      BY <2>1, <2>4, <2>6 DEF Converter!BusDrives, OwedLines
  <1> QED
    BY <1>1, <1>3, <1>4, <1>5, <1>6 DEF Converter!Tick

LEMMA ConverterReset ==
  ASSUME SocFits, Reset
  PROVE  Converter!Reset
  <1> USE WatchedAssumption
  <1>1. /\ rst' = TRUE /\ counts'[Watched] = 0 /\ owed'[Watched] = <<>>
        /\ req'[Watched] = FALSE /\ gnt1' = {}
    BY DEF Reset
  <1>2. cmd'[Watched] \in Commands
    BY MayAskAssumption DEF Reset, Asked
  <1>3. wbm_ack(Watched)' = FALSE
    BY <1>1 DEF wbm_ack
  <1>4. wbm_stall(Watched)' \in BOOLEAN
    BY DEF wbm_stall, stall
  <1>5. OwedLines' = <<>>
    <2>1. (owed[Watched] = <<>> => OwedLines = <<>>)'
      BY OwedLinesShape, PTL
    <2> QED
      BY <1>1, <2>1
  <1> QED
    BY <1>1, <1>2, <1>3, <1>4, <1>5 DEF Converter!Reset, OwedLines

(* The converter of every master lives in the environment that Core2Wb      *)
(* assumes.                                                                 *)
LEMMA ConverterFits ==
  ASSUME SocFits
  PROVE  SocSpec => Converter!Spec
  <1>1. SocInit => Converter!Init
    BY ConverterInit
  <1>2. SocInv /\ SocInv' /\ [SocNext]_socVars => [Converter!Next]_Converter!vars
    <2> SUFFICES ASSUME SocInv, SocInv', [SocNext]_socVars
                 PROVE  [Converter!Next]_Converter!vars
      OBVIOUS
    <2>1. CASE SocTick
      BY <2>1, ConverterTick DEF SocTick, Converter!Next
    <2>2. CASE SocReset
      BY <2>2, ConverterReset DEF SocReset, Converter!Next
    <2>3. CASE UNCHANGED socVars
      BY <2>3 DEF socVars, vars, Converter!vars, wbm_stall, stall, gnt, wbm_cyc, WbCyc,
                  wbm_ack, ack
    <2> QED
      BY <2>1, <2>2, <2>3 DEF SocNext
  <1> QED
    BY <1>1, <1>2, SocInvariance, PTL DEF SocSpec, Converter!Spec

(* The debug module's bridge.                                               *)
LEMMA GrantedLines ==
  ASSUME NEW m \in Masters, gnt = {m}
  PROVE  BusLines = ToBus(cmd[m])
  <1>1. \A k \in Masters : gnt \subseteq {k} <=> k = m
    OBVIOUS
  <1>2. (CHOOSE k \in Masters : gnt \subseteq {k}) = m
    BY <1>1
  <1> QED
    BY <1>2 DEF BusLines

LEMMA LinesAreCommand ==
  ASSUME cmd \in [Masters -> Commands]
  PROVE  BusLines \in {ToBus(c) : c \in Commands}
  <1>1. \E k \in Masters : gnt \subseteq {k}
    <2>1. CASE gnt = {}
      BY <2>1, NumAssumption DEF Masters
    <2>2. CASE gnt # {}
      <3>1. PICK m \in gnt : TRUE
        BY <2>2
      <3>2. m \in Masters /\ gnt = {m}
        BY <3>1, OneGrant DEF gnt
      <3> QED
        BY <3>2
    <2> QED
      BY <2>1, <2>2
  <1>2. (CHOOSE k \in Masters : gnt \subseteq {k}) \in Masters
    BY <1>1
  <1> QED
    BY <1>2 DEF BusLines

LEMMA DmOwesShape ==
  /\ Dm \notin wbs_ack => DmOwes = <<>>
  /\ Dm \in wbs_ack => DmOwes # <<>> /\ Tail(DmOwes) = <<>>
  BY DEF DmOwes

LEMMA DmOwesStep ==
  ASSUME SocFits, SocInv, Tick
  PROVE  DmOwes' = IF Dm \in wbs_stb THEN <<BusLines>> ELSE <<>>
  <1>1. BusFits /\ IInv /\ TypeOK /\ PoliteStall /\ OwedEdge /\ wbs_stall = {}
    BY DEF SocFits, SocInv, IInv, Tick
  <1>2. wbs_ack' = wbs_stb
    BY <1>1 DEF Tick, SlavesEdge
  <1>3. CASE Dm \in wbs_stb
    <2>1. PICK m \in Masters : core_gnt(m)
      BY <1>1, <1>3, Accepted
    <2>2. gnt = {m}
      BY <2>1, Granted
    <2>3. \A k \in Masters \ {m} : ~core_gnt(k)
      BY <2>2, Granted
    <2>4. owed'[m] = <<cmd[m]>> /\ \A k \in Masters \ {m} : owed'[k] = <<>>
      BY <1>1, <2>1, <2>3, OwedStep
    <2>5. \A k \in Masters : owed'[k] # <<>> <=> k = m
      BY <2>4
    <2>6. (CHOOSE k \in Masters : owed'[k] # <<>>) = m
      BY <2>5
    <2>7. Head(owed'[m]) = cmd[m]
      BY <2>4
    <2>8. DmOwes' = <<ToBus(cmd[m])>>
      <3>1. DmOwes' = <<ToBus(Head(owed'[CHOOSE k \in Masters : owed'[k] # <<>>]))>>
        BY <1>2, <1>3, Zenon DEF DmOwes
      <3> QED
        BY <2>6, <2>7, <3>1
    <2> QED
      BY <1>3, <2>2, <2>8, GrantedLines
  <1>4. CASE Dm \notin wbs_stb
    BY <1>2, <1>4 DEF DmOwes
  <1> QED
    BY <1>3, <1>4

LEMMA AckInCycle ==
  ASSUME IInv, wbs_ack # {}
  PROVE  cyc
  <1>1. PICK m \in Masters : owed[m] # <<>>
    BY DEF IInv, NoStrayAck
  <1> QED
    BY <1>1, Answered DEF cyc

LEMMA BridgeInit ==
  ASSUME SocFits, SocInit
  PROVE  Bridge!Init
  <1>1. /\ rst = TRUE /\ wbs_ack = {} /\ wbs_stall = {}
        /\ \A m \in Masters : req[m] = FALSE /\ counts[m] = 0
    BY DEF SocFits, SocInit, Init
  <1>2. cyc = FALSE
    BY <1>1 DEF cyc, wbm_cyc, WbCyc
  <1>3. (Dm \in wbs_stb) = FALSE
    BY <1>2 DEF wbs_stb
  <1>4. DmOwes = <<>>
    BY <1>1, DmOwesShape
  <1>5. cmd \in [Masters -> Commands]
    BY MayAskAssumption DEF SocInit, Init, Asked
  <1> QED
    BY <1>1, <1>2, <1>3, <1>4, <1>5, LinesAreCommand DEF Bridge!Init

LEMMA BridgeTick ==
  ASSUME SocFits, SocInv, SocInv', Tick
  PROVE  Bridge!Tick
  <1>1. /\ IInv /\ IInv' /\ rst' = FALSE /\ wbs_stall = {} /\ wbs_stall' = {}
        /\ wbs_ack' = wbs_stb
    BY DEF SocInv, Tick, SlavesEdge
  <1>2. Dm \in wbs_stb => cyc
    BY DEF wbs_stb
  <1>3. cyc \in BOOLEAN /\ cyc' \in BOOLEAN
    BY DEF cyc
  <1>4. DmOwes' = IF Dm \in wbs_stb THEN <<BusLines>> ELSE <<>>
    BY DmOwesStep
  <1>5. Bridge!stall = FALSE
    BY <1>1 DEF Bridge!stall, Bridge!BridgeStall
  <1>6. Bridge!RespEdge
    BY <1>1, <1>2, <1>5 DEF Bridge!RespEdge, Bridge!NextResp
  <1>7. (IF DmOwes # <<>> THEN Tail(DmOwes) ELSE DmOwes) = <<>>
    BY DmOwesShape
  <1>8. <<>> \o <<BusLines>> = <<BusLines>> /\ <<>> \o <<>> = <<>>
    OBVIOUS
  <1> HIDE DEF DmOwes, BusLines
  <1>9. Bridge!WaitingEdge
    <2>1. DmOwes' = (IF DmOwes # <<>> THEN Tail(DmOwes) ELSE DmOwes)
                      \o (IF cyc /\ Dm \in wbs_stb THEN <<BusLines>> ELSE <<>>)
      BY <1>2, <1>4, <1>7, <1>8
    <2> QED
      BY <1>1, <2>1 DEF Bridge!WaitingEdge, Bridge!core_req
  <1>10. Bridge!OwedEdge
    <2>1. DmOwes # <<>> => Bridge!ack
      <3>1. DmOwes # <<>> => Dm \in wbs_ack
        BY DmOwesShape
      <3>2. Dm \in wbs_ack => cyc
        BY <1>1, AckInCycle
      <3> QED
        BY <3>1, <3>2 DEF Bridge!ack, Bridge!BridgeAck
    <2>2. (IF (Bridge!ack \/ Bridge!wb_err) /\ DmOwes # <<>> THEN Tail(DmOwes) ELSE DmOwes)
            = <<>>
      BY <1>7, <2>1
    <2>3. DmOwes' = IF cyc
                    THEN (IF (Bridge!ack \/ Bridge!wb_err) /\ DmOwes # <<>>
                          THEN Tail(DmOwes) ELSE DmOwes)
                           \o (IF Dm \in wbs_stb THEN <<BusLines>> ELSE <<>>)
                    ELSE <<>>
      BY <1>2, <1>4, <1>8, <2>2
    <2> QED
      BY <1>5, <2>3 DEF Bridge!OwedEdge
  <1>11. Bridge!MasterDrives
    <2>1. BusLines' \in {ToBus(c) : c \in Commands}
      <3>1. (cmd \in [Masters -> Commands] => BusLines \in {ToBus(c) : c \in Commands})'
        BY LinesAreCommand, PTL
      <3>2. cmd' \in [Masters -> Commands]
        BY <1>1 DEF IInv, TypeOK
      <3> QED
        BY <3>1, <3>2
    <2>2. (Dm \in wbs_stb)' => cyc'
      BY DEF wbs_stb
    <2> QED
      BY <1>3, <1>5, <2>1, <2>2 DEF Bridge!MasterDrives
  <1>12. Bridge!SlaveDrives
    BY <1>1 DEF Bridge!SlaveDrives
  <1> QED
    BY <1>1, <1>6, <1>9, <1>10, <1>11, <1>12 DEF Bridge!Tick

LEMMA BridgeReset ==
  ASSUME SocFits, SocInv', Reset
  PROVE  Bridge!Reset
  <1>1. /\ rst' = TRUE /\ wbs_ack' = {} /\ wbs_stall' = {}
        /\ \A m \in Masters : req'[m] = FALSE /\ counts'[m] = 0
    BY DEF SocInv, Reset
  <1>2. cyc' = FALSE
    BY <1>1 DEF cyc, wbm_cyc, WbCyc
  <1>3. (Dm \in wbs_stb)' = FALSE
    BY <1>2 DEF wbs_stb
  <1>4. DmOwes' = <<>>
    BY <1>1 DEF DmOwes
  <1>5. BusLines' \in {ToBus(c) : c \in Commands}
    <2>1. (cmd \in [Masters -> Commands] => BusLines \in {ToBus(c) : c \in Commands})'
      BY LinesAreCommand, PTL
    <2>2. cmd' \in [Masters -> Commands]
      BY DEF SocInv, IInv, TypeOK
    <2> QED
      BY <2>1, <2>2
  <1> QED
    BY <1>1, <1>2, <1>3, <1>4, <1>5 DEF Bridge!Reset

LEMMA BridgeFits ==
  ASSUME SocFits
  PROVE  SocSpec => Bridge!Spec
  <1>1. SocInit => Bridge!Init
    BY BridgeInit
  <1>2. SocInv /\ SocInv' /\ [SocNext]_socVars => [Bridge!Next]_Bridge!vars
    <2> SUFFICES ASSUME SocInv, SocInv', [SocNext]_socVars
                 PROVE  [Bridge!Next]_Bridge!vars
      OBVIOUS
    <2>1. CASE SocTick
      BY <2>1, BridgeTick DEF SocTick, Bridge!Next
    <2>2. CASE SocReset
      BY <2>2, BridgeReset DEF SocReset, Bridge!Next
    <2>3. CASE UNCHANGED socVars
      BY <2>3 DEF socVars, vars, Bridge!vars, cyc, wbm_cyc, WbCyc, wbs_stb, ss, Hit, RangeHit,
                  stb, gnt, BusLines, ToBus, WbSel, DmOwes
    <2> QED
      BY <2>1, <2>2, <2>3 DEF SocNext
  <1> QED
    BY <1>1, <1>2, SocInvariance, PTL DEF SocSpec, Bridge!Spec

(* The converters of the SoC live in the environments that Core2Wb and      *)
(* Wb2Core assume, for every master, any commands and any memory map that   *)
(* fits: what those modules prove of a converter holds of it in the SoC.    *)
THEOREM ComponentsAlwaysFit ==
  ASSUME SocFits
  PROVE  SocSpec => ComponentsFit
  BY ConverterFits, BridgeFits, PTL DEF ComponentsFit

-----------------------------------------------------------------------------
(* Part 4: what is proved of the converters alone, inside the SoC.  The     *)
(* modules of their proofs are instantiated like the converters are in      *)
(* SocPorts.                                                                *)
VerifiedConverter == INSTANCE Core2WbProofs WITH
  MaxOwed    <- 2,
  ErrAnswers <- FALSE,
  None       <- NoData,
  req        <- req[Watched],
  cmd        <- cmd[Watched],
  counts     <- counts[Watched],
  stall      <- wbm_stall(Watched),
  ack        <- wbm_ack(Watched),
  err        <- FALSE,
  owed       <- [i \in 1 .. Len(owed[Watched]) |-> ToBus(owed[Watched][i])]

VerifiedBridge == INSTANCE Wb2CoreProofs WITH
  Commands   <- {ToBus(c) : c \in Commands},
  MaxWaiting <- 1,
  Prompt     <- TRUE,
  cyc        <- cyc,
  stb        <- Dm \in wbs_stb,
  cmd        <- BusLines,
  gnt        <- Dm \notin wbs_stall,
  core_rvalid <- TRUE,
  err        <- FALSE,
  resp       <- Dm \in wbs_ack,
  waiting    <- DmOwes,
  owed       <- DmOwes

LEMMA ConverterIsVerified ==
  ASSUME SocFits
  PROVE  SocSpec => VerifiedConverter!Spec
  <1>1. Converter!Init => VerifiedConverter!Init
    BY DEF Converter!Init, VerifiedConverter!Init
  <1>2. [Converter!Next]_Converter!vars => [VerifiedConverter!Next]_VerifiedConverter!vars
    BY DEF Converter!Next, VerifiedConverter!Next, Converter!vars, VerifiedConverter!vars,
           Converter!Tick, VerifiedConverter!Tick, Converter!Reset, VerifiedConverter!Reset,
           Converter!CountsEdge, VerifiedConverter!CountsEdge, Converter!OwedEdge, VerifiedConverter!OwedEdge,
           Converter!CoreDrives, VerifiedConverter!CoreDrives, Converter!BusDrives, VerifiedConverter!BusDrives,
           Converter!gnt, VerifiedConverter!gnt, Converter!CoreGnt, VerifiedConverter!CoreGnt,
           Converter!cyc, VerifiedConverter!cyc, Converter!WbCyc, VerifiedConverter!WbCyc,
           Converter!rvalid, VerifiedConverter!rvalid, Converter!CoreRvalid, VerifiedConverter!CoreRvalid,
           Converter!stb, VerifiedConverter!stb, Converter!NextCounts, VerifiedConverter!NextCounts,
           Converter!Signed, VerifiedConverter!Signed,
           Converter!BusCommand, VerifiedConverter!BusCommand, Converter!WbSel, VerifiedConverter!WbSel
  <1> QED BY <1>1, <1>2, ConverterFits, PTL DEF Converter!Spec, VerifiedConverter!Spec

LEMMA BridgeIsVerified ==
  ASSUME SocFits
  PROVE  SocSpec => VerifiedBridge!Spec
  <1>1. Bridge!Init => VerifiedBridge!Init
    BY DEF Bridge!Init, VerifiedBridge!Init
  <1>2. [Bridge!Next]_Bridge!vars => [VerifiedBridge!Next]_VerifiedBridge!vars
    BY DEF Bridge!Next, VerifiedBridge!Next, Bridge!vars, VerifiedBridge!vars,
           Bridge!Tick, VerifiedBridge!Tick, Bridge!Reset, VerifiedBridge!Reset,
           Bridge!RespEdge, VerifiedBridge!RespEdge, Bridge!WaitingEdge, VerifiedBridge!WaitingEdge,
           Bridge!OwedEdge, VerifiedBridge!OwedEdge, Bridge!MasterDrives, VerifiedBridge!MasterDrives,
           Bridge!SlaveDrives, VerifiedBridge!SlaveDrives, Bridge!core_req, VerifiedBridge!core_req,
           Bridge!stall, VerifiedBridge!stall, Bridge!BridgeStall, VerifiedBridge!BridgeStall,
           Bridge!ack, VerifiedBridge!ack, Bridge!BridgeAck, VerifiedBridge!BridgeAck,
           Bridge!wb_err, VerifiedBridge!wb_err, Bridge!BridgeErr, VerifiedBridge!BridgeErr,
           Bridge!NextResp, VerifiedBridge!NextResp
  <1> QED BY <1>1, <1>2, BridgeFits, PTL DEF Bridge!Spec, VerifiedBridge!Spec

(* Every port of Ibex and of the debugger is a memory port although its     *)
(* master shares the bus with others of higher priority: what is granted is *)
(* answered once, later, in order; its counter is exact; CYC frames its     *)
(* transactions, and what waits is held (core2wb.sv behind                  *)
(* wb_interconnect_sharedbus.sv).  Half is 16 in the SoC.                   *)
THEOREM PortsAreMemoryPorts ==
  ASSUME SocFits, Half > 2
  PROVE  SocSpec =>
           /\ VerifiedConverter!PortRefinement
           /\ []VerifiedConverter!CountsExact /\ []VerifiedConverter!CycFrames
           /\ VerifiedConverter!StalledRequestHeld
  <1>1. VerifiedConverter!PeerFits /\ FALSE \in BOOLEAN /\ 2 \in Nat \ {0} /\ Half \in Nat \ {0}
    BY HalfAssumption DEF VerifiedConverter!PeerFits
  <1>2. \A c \in Commands :
          /\ DOMAIN c = {"addr", "we", "be", "wdata"}
          /\ c.we \in BOOLEAN /\ c.be \subseteq Lanes
    BY CommandFieldsAssumption, SocAssumption
  <1>3. NoData \notin {VerifiedConverter!CoreMeaning(c) : c \in Commands}
    BY NoDataAssumption DEF Converter!CoreMeaning, VerifiedConverter!CoreMeaning
  <1>4. VerifiedConverter!Spec => VerifiedConverter!PortRefinement
    BY ONLY <1>1, <1>2, <1>3, VerifiedConverter!ImplementsMemPort
  <1>5. VerifiedConverter!Spec => []VerifiedConverter!CountsExact
    BY ONLY <1>1, <1>2, <1>3, VerifiedConverter!CounterIsExact
  <1>6. VerifiedConverter!Spec => []VerifiedConverter!CycFrames
    BY ONLY <1>1, <1>2, <1>3, VerifiedConverter!CycFramesTransactions
  <1>7. VerifiedConverter!Spec => VerifiedConverter!StalledRequestHeld
    BY ONLY <1>1, <1>2, <1>3, VerifiedConverter!StalledRequestsAreHeld
  <1> QED BY ONLY <1>4, <1>5, <1>6, <1>7, ConverterIsVerified, SocFits

(* The debug module answers, through its bridge, exactly the master that    *)
(* addressed it, with the answer to that very command (wb2core.sv behind    *)
(* wb_interconnect_sharedbus.sv, wb_dm_top.sv:84-91).                       *)
THEOREM BridgeAnswersOwner ==
  ASSUME SocFits
  PROVE  SocSpec => []VerifiedBridge!AnswersOwner
  <1>1. \A c \in {ToBus(d) : d \in Commands} : DOMAIN c = {"adr", "we", "sel", "dat"} /\ c.we \in BOOLEAN
    BY SocAssumption DEF ToBus
  <1>2. 1 \in Nat \ {0} /\ TRUE \in BOOLEAN /\ Half \in Nat \ {0}
    BY HalfAssumption
  <1>3. VerifiedBridge!Spec => []VerifiedBridge!AnswersOwner
    BY ONLY <1>1, <1>2, VerifiedBridge!AnswersAreOwners
  <1> QED BY ONLY <1>3, BridgeIsVerified, SocFits
=============================================================================
