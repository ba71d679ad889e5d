---------------------------- MODULE Core2WbProofs ----------------------------
(***************************************************************************)
(* Proofs about Core2Wb, for every counter width, set of commands and bus  *)
(* peer that answers with ACK only and keeps the number of outstanding     *)
(* transactions below the sign bit of the counter.                         *)
(***************************************************************************)
EXTENDS Core2Wb, Basics, SequenceTheorems

-----------------------------------------------------------------------------
(* The functions of ConverterLogic. *)

(* The registers' arithmetic is exact inside the counter's width.          *)
LEMMA SignedInRange ==
  ASSUME NEW n \in CountsRange
  PROVE  Signed(n) = n
  <1>1. Half \in Nat \ {0} /\ n \in -Half .. Half - 1
    BY HalfAssumption DEF CountsRange
  <1> QED
    BY <1>1, WrapFits DEF Signed

(* As long as a grant does not reach the sign bit and an acknowledge does   *)
(* not come when nothing is outstanding, the counter moves by the           *)
(* difference of the two (core2wb.sv:40-43).                                *)
LEMMA NextCountsExact ==
  ASSUME NEW n \in Nat, n < Half,
         NEW r \in BOOLEAN, NEW g \in BOOLEAN,
         NEW y \in BOOLEAN, NEW a \in BOOLEAN,
         r /\ g => n + 1 < Half,
         y /\ a => n > 0
  PROVE  /\ NextCounts(n, r, g, y, a) \in CountsRange
         /\ NextCounts(n, r, g, y, a)
              = n + (IF r /\ g THEN 1 ELSE 0)
                       - (IF y /\ a THEN 1 ELSE 0)
  <1>1. Half \in Nat /\ Half > 0
    BY HalfAssumption
  <1>2. CASE r /\ g /\ ~(y /\ a)
    <2>1. n + 1 \in CountsRange
      BY <1>1, <1>2 DEF CountsRange
    <2> QED
      BY <1>2, <2>1, SignedInRange DEF NextCounts
  <1>3. CASE ~(r /\ g) /\ y /\ a
    <2>1. n - 1 \in CountsRange
      BY <1>1, <1>3 DEF CountsRange
    <2> QED
      BY <1>3, <2>1, SignedInRange DEF NextCounts
  <1>4. CASE (r /\ g) <=> (y /\ a)
    <2>1. n \in CountsRange
      BY <1>1 DEF CountsRange
    <2>2. NextCounts(n, r, g, y, a) = n
      BY <1>4 DEF NextCounts
    <2> QED
      BY <1>4, <2>1, <2>2
  <1> QED
    BY <1>2, <1>3, <1>4

-----------------------------------------------------------------------------

(* The bus peers core2wb is correct with. *)
PeerFits == ~ErrAnswers /\ MaxOwed < Half

(* What the peer keeps to: no ERR, answers only to an accepted command, and *)
(* STALL when it can accept no more.                                        *)
PeerKept ==
  /\ err = FALSE
  /\ ack => owed # <<>>
  /\ Len(owed) <= MaxOwed
  /\ Len(owed) = MaxOwed => stall

(* CountsExact is not inductive alone: the counter is exact only because    *)
(* the peer keeps to its side.                                              *)
IInv == TypeOK /\ CountsExact /\ PeerKept

-----------------------------------------------------------------------------
(* What the invariant says of the queue in a state. *)
LEMMA OwedFacts ==
  ASSUME IInv
  PROVE  /\ owed \in Seq(BusCommands)
         /\ Len(owed) \in Nat
         /\ owed = <<>> <=> Len(owed) = 0
         /\ cmd \in Commands
         /\ req \in BOOLEAN /\ gnt \in BOOLEAN /\ cyc \in BOOLEAN
         /\ rvalid \in BOOLEAN /\ ack \in BOOLEAN /\ stall \in BOOLEAN
  BY EmptySeq, LenProperties DEF IInv, TypeOK, gnt, cyc, rvalid, CoreGnt, WbCyc, CoreRvalid

(* The invariant gives the meaning of CYC and of the answer. *)
LEMMA InvCyc ==
  ASSUME IInv
  PROVE  /\ cyc <=> req \/ owed # <<>>
         /\ rvalid <=> cyc /\ ack
         /\ rvalid => owed # <<>>
  <1>1. counts = Len(owed) /\ err = FALSE /\ (ack => owed # <<>>)
    BY DEF IInv, CountsExact, PeerKept
  <1>2. ack \in BOOLEAN /\ cyc \in BOOLEAN
    BY OwedFacts
  <1>3. counts > 0 <=> owed # <<>>
    BY <1>1, OwedFacts
  <1> QED
    BY <1>1, <1>2, <1>3 DEF cyc, rvalid, WbCyc, CoreRvalid

(* What one edge does to the queue: at most one in, at most one out. *)
LEMMA OwedStep ==
  ASSUME IInv, OwedEdge
  PROVE  /\ owed' \in Seq(BusCommands)
         /\ Len(owed') = Len(owed) + (IF req /\ gnt THEN 1 ELSE 0)
                                   - (IF cyc /\ ack THEN 1 ELSE 0)
  <1> DEFINE kept  == IF rvalid THEN Tail(owed) ELSE owed
             taken == IF stb /\ ~stall THEN <<BusCommand(cmd)>> ELSE <<>>
  <1>1. owed \in Seq(BusCommands) /\ Len(owed) \in Nat /\ cmd \in Commands
    BY OwedFacts
  <1>2. CASE cyc
    <2>1. owed' = kept \o taken
      BY <1>2 DEF OwedEdge
    <2>2. /\ kept \in Seq(BusCommands)
          /\ Len(kept) = Len(owed) - (IF rvalid THEN 1 ELSE 0)
      BY <1>1, InvCyc, HeadTailProperties
    <2>3. BusCommand(cmd) \in BusCommands
      BY <1>1 DEF BusCommands
    <2>4. /\ taken \in Seq(BusCommands)
          /\ Len(taken) = IF stb /\ ~stall THEN 1 ELSE 0
      BY <2>3
    <2>5. (stb /\ ~stall) <=> (req /\ gnt)
      BY DEF stb, gnt, CoreGnt
    <2>6. rvalid <=> (cyc /\ ack)
      BY InvCyc
    <2>7. kept \o taken \in Seq(BusCommands) /\ Len(kept \o taken) = Len(kept) + Len(taken)
      BY <2>2, <2>4, ConcatProperties
    <2>8. /\ Len(kept) = Len(owed) - (IF cyc /\ ack THEN 1 ELSE 0)
          /\ Len(taken) = IF req /\ gnt THEN 1 ELSE 0
      BY <2>2, <2>4, <2>5, <2>6
    <2>9. owed' \in Seq(BusCommands) /\ Len(owed') = Len(kept) + Len(taken)
      BY <2>1, <2>7
    <2> HIDE DEF kept, taken
    <2> QED
      BY <1>1, <2>8, <2>9
  <1>3. CASE ~cyc
    <2>1. ~req /\ owed = <<>> /\ owed' = <<>>
      BY <1>3, InvCyc, OwedFacts DEF OwedEdge
    <2> QED
      BY <1>3, <2>1, EmptySeq
  <1> QED
    BY <1>2, <1>3

-----------------------------------------------------------------------------
LEMMA Empty == 0 \in CountsRange /\ <<>> \in Seq(BusCommands) /\ Len(<<>>) = 0
  <1>1. 0 \in CountsRange
    BY HalfAssumption DEF CountsRange
  <1> QED
    BY <1>1, EmptySeq

LEMMA InitInv ==
  ASSUME PeerFits, Init
  PROVE  IInv
  <1>1. TypeOK
    BY Empty DEF Init, TypeOK
  <1>2. CountsExact /\ PeerKept
    BY EmptySeq, MaxOwedAssumption DEF Init, CountsExact, PeerKept
  <1> QED
    BY <1>1, <1>2 DEF IInv

LEMMA TickInv ==
  ASSUME PeerFits, IInv, Tick
  PROVE  IInv'
  <1>1. /\ owed' \in Seq(BusCommands)
        /\ Len(owed') = Len(owed) + (IF req /\ gnt THEN 1 ELSE 0)
                                  - (IF cyc /\ ack THEN 1 ELSE 0)
    BY OwedStep DEF Tick
  <1>2. /\ Len(owed) \in Nat /\ counts = Len(owed)
        /\ Len(owed) <= MaxOwed /\ MaxOwed \in Nat /\ MaxOwed < Half /\ Half \in Nat
        /\ Len(owed) = MaxOwed => stall
    BY OwedFacts, HalfAssumption, MaxOwedAssumption
    DEF IInv, CountsExact, PeerKept, PeerFits
  <1>3. req /\ gnt => Len(owed) + 1 <= MaxOwed
    BY <1>2 DEF gnt, CoreGnt
  <1>4. cyc /\ ack => Len(owed) > 0
    BY <1>2, InvCyc, OwedFacts
  <1>5. counts' \in CountsRange /\ counts' = Len(owed')
    <2>1. req \in BOOLEAN /\ gnt \in BOOLEAN /\ cyc \in BOOLEAN /\ ack \in BOOLEAN
      BY OwedFacts
    <2>2. counts' = NextCounts(counts, req, gnt, cyc, ack)
      BY DEF Tick, CountsEdge
    <2>3. req /\ gnt => counts + 1 < Half
      BY <1>2, <1>3
    <2>4. counts \in Nat /\ counts < Half /\ (cyc /\ ack => counts > 0)
      BY <1>2, <1>4
    <2> QED
      BY <1>1, <1>2, <2>1, <2>2, <2>3, <2>4, NextCountsExact, ZenonT(60)
  <1>6. TypeOK'
    BY <1>1, <1>5 DEF TypeOK, Tick, CoreDrives, BusDrives
  <1>7. PeerKept'
    <2>1. err' = FALSE
      BY DEF Tick, BusDrives, PeerFits
    <2>2. ack' => owed' # <<>>
      BY DEF Tick, BusDrives
    <2>3. Len(owed') <= MaxOwed
      BY <1>1, <1>2, <1>3
    <2>4. Len(owed') = MaxOwed => stall'
      BY <1>2, <2>3 DEF Tick, BusDrives
    <2> QED
      BY <2>1, <2>2, <2>3, <2>4 DEF PeerKept
  <1> QED
    BY <1>5, <1>6, <1>7 DEF IInv, CountsExact

LEMMA ResetInv ==
  ASSUME PeerFits, Reset
  PROVE  IInv'
  <1>1. TypeOK'
    BY Empty DEF Reset, TypeOK
  <1>2. CountsExact' /\ PeerKept'
    BY EmptySeq, MaxOwedAssumption DEF Reset, CountsExact, PeerKept
  <1> QED
    BY <1>1, <1>2 DEF IInv

LEMMA NextInv ==
  ASSUME PeerFits, IInv, [Next]_vars
  PROVE  IInv'
  <1>1. CASE Tick
    BY <1>1, TickInv
  <1>2. CASE Reset
    BY <1>2, ResetInv
  <1>3. CASE UNCHANGED vars
    BY <1>3 DEF vars, IInv, TypeOK, CountsExact, PeerKept
  <1> QED
    BY <1>1, <1>2, <1>3 DEF Next

(* The inductive invariant holds throughout. *)
THEOREM Invariance ==
  ASSUME PeerFits
  PROVE  Spec => []IInv
  <1>1. Init => IInv
    BY InitInv
  <1>2. IInv /\ [Next]_vars => IInv'
    BY NextInv
  <1> QED
    BY <1>1, <1>2, PTL DEF Spec

(* Every variable of the converter keeps its type; in particular the        *)
(* counter never leaves the width core2wb.sv:15 declares.                   *)
THEOREM TypeCorrect ==
  ASSUME PeerFits
  PROVE  Spec => []TypeOK
  <1>1. IInv => TypeOK
    BY DEF IInv
  <1> QED
    BY <1>1, Invariance, PTL

(* The counter of outstanding transactions is exact (core2wb.sv:36-43).     *)
THEOREM CounterIsExact ==
  ASSUME PeerFits
  PROVE  Spec => []CountsExact
  <1>1. IInv => CountsExact
    BY DEF IInv
  <1> QED
    BY <1>1, Invariance, PTL

(* CYC is asserted from a request to the last answer, no longer and no      *)
(* shorter (core2wb.sv:45).                                                 *)
THEOREM CycFramesTransactions ==
  ASSUME PeerFits
  PROVE  Spec => []CycFrames
  <1>1. IInv => CycFrames
    BY InvCyc DEF CycFrames
  <1> QED
    BY <1>1, Invariance, PTL

(* A stalled request is held on the bus, SEL included, although the core    *)
(* may change the byte enables of a waiting read (core2wb.sv:24), whatever  *)
(* the peer does.                                                           *)
THEOREM StalledRequestsAreHeld == Spec => StalledRequestHeld
  <1>1. ASSUME Tick, cyc, stb, stall
        PROVE  /\ cyc' /\ stb'
               /\ BusCommand(cmd').adr = BusCommand(cmd).adr
               /\ BusCommand(cmd').we = BusCommand(cmd).we
               /\ BusCommand(cmd').sel = BusCommand(cmd).sel
               /\ cmd.we => BusCommand(cmd') = BusCommand(cmd)
    <2>1. /\ req' /\ cmd'.addr = cmd.addr /\ cmd'.we = cmd.we
          /\ cmd.we => cmd' = cmd
      BY <1>1 DEF Tick, CoreDrives, gnt, CoreGnt, stb
    <2>2. cyc' /\ stb'
      BY <2>1 DEF cyc, WbCyc, stb
    <2>3. /\ BusCommand(cmd').sel = BusCommand(cmd).sel
          /\ cmd.we => BusCommand(cmd') = BusCommand(cmd)
      BY <2>1 DEF BusCommand, WbSel
    <2> QED
      BY <2>1, <2>2, <2>3 DEF BusCommand
  <1>2. [Next]_vars =>
          [cyc /\ stb /\ stall /\ ~rst' =>
             /\ cyc' /\ stb'
             /\ BusCommand(cmd').adr = BusCommand(cmd).adr
             /\ BusCommand(cmd').we = BusCommand(cmd).we
             /\ BusCommand(cmd').sel = BusCommand(cmd).sel
             /\ cmd.we => BusCommand(cmd') = BusCommand(cmd)]_vars
    BY <1>1 DEF Next, Reset
  <1> QED
    BY <1>2, PTL DEF Spec, StalledRequestHeld
-----------------------------------------------------------------------------
(* The refinement of the memory port.                                       *)

Meanings(q) == [i \in 1 .. Len(q) |-> BusMeaning(q[i])]

LEMMA SameMeaning ==
  ASSUME NEW c \in Commands
  PROVE  BusMeaning(BusCommand(c)) = CoreMeaning(c)
  BY DEF BusMeaning, BusCommand, CoreMeaning, WbSel

LEMMA MeaningsOfTail ==
  ASSUME NEW q \in Seq(BusCommands), q # <<>>
  PROVE  Meanings(Tail(q)) = Tail(Meanings(q))
  BY HeadTailProperties, LenProperties DEF Meanings

LEMMA MeaningsOfConcat ==
  ASSUME NEW q \in Seq(BusCommands), NEW c \in Commands
  PROVE  Meanings(q \o <<BusCommand(c)>>) = Meanings(q) \o <<CoreMeaning(c)>>
  BY SameMeaning, ConcatProperties, LenProperties DEF Meanings, BusCommands
(* One clock edge is a cycle of the port. *)
LEMMA TickIsCycle ==
  ASSUME PeerFits, IInv, IInv', Tick
  PROVE  Port!Cycle
  <1> DEFINE kept == IF rvalid THEN Tail(owed) ELSE owed
  <1>1. /\ owed \in Seq(BusCommands) /\ cmd \in Commands
        /\ rvalid => owed # <<>>
        /\ ~cyc => owed = <<>> /\ ~req /\ ~rvalid
    BY OwedFacts, InvCyc
  <1>2. kept \in Seq(BusCommands)
    BY <1>1, HeadTailProperties
  <1>3. Meanings(kept) = IF rvalid THEN Tail(Meanings(owed)) ELSE Meanings(owed)
    BY <1>1, MeaningsOfTail
  <1>4. Meanings(owed') = Meanings(kept) \o (IF gnt THEN <<CoreMeaning(cmd)>> ELSE <<>>)
    <2>1. Meanings(kept) \in Seq({BusMeaning(b) : b \in BusCommands})
      BY <1>2, LenProperties, ElementOfSeq DEF Meanings
    <2>2. Meanings(kept) \o <<>> = Meanings(kept) /\ kept \o <<>> = kept
      BY <1>2, <2>1, ConcatEmptySeq
    <2>3. CASE gnt
      <3>1. owed' = kept \o <<BusCommand(cmd)>>
        BY <1>1, <2>3 DEF Tick, OwedEdge, gnt, CoreGnt, stb
      <3> HIDE DEF kept
      <3> QED
        BY <1>1, <1>2, <2>3, <3>1, MeaningsOfConcat
    <2>4. CASE ~gnt
      <3>1. owed' = kept
        BY <1>1, <2>2, <2>4 DEF Tick, OwedEdge, gnt, CoreGnt, stb
      <3> HIDE DEF kept
      <3> QED
        BY <2>2, <2>4, <3>1
    <2> QED
      BY <2>3, <2>4
  <1>5. rvalid' \in BOOLEAN /\ (rvalid' => Meanings(owed') # <<>>)
    <2>1. rvalid' \in BOOLEAN /\ (rvalid' => owed' # <<>>)
      BY DEF Tick, BusDrives, rvalid, CoreRvalid, cyc, WbCyc
    <2>2. owed' # <<>> => Meanings(owed') # <<>>
      <3>1. owed' \in Seq(BusCommands)
        BY DEF IInv, TypeOK
      <3> QED
        BY <3>1, EmptySeq, LenProperties DEF Meanings
    <2> QED
      BY <2>1, <2>2
  <1>6. Port!Granted = IF gnt THEN <<CoreMeaning(cmd)>> ELSE <<>>
    BY <1>1, NoneAssumption DEF Port!Granted
  <1>7. (IF gnt THEN CoreMeaning(cmd) ELSE None)' \in {CoreMeaning(c) : c \in Commands} \cup {None}
    BY DEF Tick, CoreDrives, CoreMeaning
  <1>8. Meanings(owed') = (IF rvalid THEN Tail(Meanings(owed)) ELSE Meanings(owed)) \o Port!Granted
    BY <1>3, <1>4, <1>6
  <1> QED
    BY <1>5, <1>7, <1>8 DEF Port!Cycle, Meanings, Tick
(* A reset, and power-up, leave the port without transactions. *)
LEMMA ResetIsReset ==
  ASSUME Reset
  PROVE  Port!Reset
  <1>1. Meanings(owed') = <<>> /\ rvalid' = FALSE
    BY Empty DEF Reset, Meanings, rvalid, CoreRvalid
  <1>2. (IF gnt THEN CoreMeaning(cmd) ELSE None)' \in {CoreMeaning(c) : c \in Commands} \cup {None}
    BY DEF Reset, CoreMeaning
  <1> QED
    BY <1>1, <1>2 DEF Port!Reset, Meanings, Reset

LEMMA InitIsInit ==
  ASSUME Init
  PROVE  Port!Init
  <1>1. Meanings(owed) = <<>> /\ rvalid = FALSE
    BY Empty DEF Init, Meanings, rvalid, CoreRvalid
  <1>2. (IF gnt THEN CoreMeaning(cmd) ELSE None) \in {CoreMeaning(c) : c \in Commands} \cup {None}
    BY DEF Init
  <1> QED
    BY <1>1, <1>2 DEF Port!Init, Meanings, Init

(* The converter and a fitting peer implement the memory port: whatever was *)
(* granted is answered once, later than its grant, in order, and with the   *)
(* meaning the core gave it.                                                *)
THEOREM ImplementsMemPort ==
  ASSUME PeerFits
  PROVE  Spec => PortRefinement
  <1>1. Init => Port!Init
    BY InitIsInit
  <1>2. IInv /\ IInv' /\ [Next]_vars => [Port!Next]_Port!vars
    <2> SUFFICES ASSUME IInv, IInv', [Next]_vars
                 PROVE  [Port!Next]_Port!vars
      OBVIOUS
    <2>1. CASE Tick
      BY <2>1, TickIsCycle DEF Port!Next
    <2>2. CASE Reset
      BY <2>2, ResetIsReset DEF Port!Next
    <2>3. CASE UNCHANGED vars
      BY <2>3 DEF vars, Port!vars, gnt, rvalid, cyc
    <2> QED
      BY <2>1, <2>2, <2>3 DEF Next
  <1>3. Spec => []IInv
    BY Invariance
  <1> QED
    BY <1>1, <1>2, <1>3, PTL DEF Spec, PortRefinement, Port!Spec
=============================================================================
