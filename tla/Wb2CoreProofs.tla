---------------------------- MODULE Wb2CoreProofs ----------------------------
(***************************************************************************)
(* Proofs about Wb2Core, for every slave that answers in the cycle after   *)
(* its grant and every master.                                             *)
(***************************************************************************)
EXTENDS Wb2Core, TLAPS, SequenceTheorems

(* resp stands for the one command in flight, on both sides the same.       *)
InFlight ==
  /\ owed = waiting
  /\ Len(waiting) <= 1
  /\ resp <=> waiting # <<>>
  /\ waiting # <<>> => core_rvalid

IInv == TypeOK /\ InFlight

-----------------------------------------------------------------------------
LEMMA EmptyByLength ==
  ASSUME NEW s \in Seq(Commands)
  PROVE  Len(s) \in Nat /\ (s = <<>> <=> Len(s) = 0)
  BY EmptySeq, LenProperties

(* A slave that answers at once owes, after an edge, what was granted at it. *)
LEMMA WaitingStep ==
  ASSUME Prompt, IInv, Tick
  PROVE  /\ waiting' = IF core_req /\ gnt THEN <<cmd>> ELSE <<>>
         /\ owed' = waiting'
         /\ waiting' \in Seq(Commands) /\ Len(waiting') <= 1
         /\ core_req /\ gnt <=> waiting' # <<>>
  <1> DEFINE taken == IF core_req /\ gnt THEN <<cmd>> ELSE <<>>
  <1>1. /\ cmd \in Commands /\ waiting \in Seq(Commands) /\ owed = waiting
        /\ Len(waiting) \in Nat /\ Len(waiting) <= 1
        /\ resp <=> waiting # <<>>
        /\ waiting # <<>> => core_rvalid
    BY LenProperties DEF IInv, TypeOK, InFlight
  <1>2. waiting # <<>> => Tail(waiting) = <<>>
    <2> SUFFICES ASSUME waiting # <<>>
                 PROVE  Tail(waiting) = <<>>
      OBVIOUS
    <2>1. Tail(waiting) \in Seq(Commands) /\ Len(Tail(waiting)) = Len(waiting) - 1
      BY <1>1, HeadTailProperties
    <2>2. Len(waiting) = 1
      BY <1>1, EmptyByLength
    <2>3. Len(Tail(waiting)) = 0
      BY <2>1, <2>2
    <2> QED
      BY <2>1, <2>3, EmptyByLength
  <1>3. /\ taken \in Seq(Commands) /\ Len(taken) <= 1
        /\ core_req /\ gnt <=> taken # <<>>
    BY <1>1
  <1>4. taken \in Seq(Commands) /\ <<>> \o taken = taken
    BY <1>3, ConcatEmptySeq
  <1>5. waiting' = taken
    BY <1>1, <1>2, <1>4 DEF Tick, WaitingEdge
  <1>6. owed' = taken
    <2>1. CASE cyc
      <3>1. owed # <<>> => ack \/ wb_err
        BY <1>1, <2>1 DEF ack, wb_err, BridgeAck, BridgeErr
      <3>2. stb /\ ~stall <=> core_req /\ gnt
        BY <2>1 DEF core_req, stall, BridgeStall
      <3>3. owed' = (IF (ack \/ wb_err) /\ owed # <<>> THEN Tail(owed) ELSE owed) \o taken
        BY <2>1, <3>2 DEF Tick, OwedEdge
      <3>4. (IF (ack \/ wb_err) /\ owed # <<>> THEN Tail(owed) ELSE owed) = <<>>
        BY <1>1, <1>2, <3>1
      <3> QED
        BY <1>4, <3>3, <3>4
    <2>2. CASE ~cyc
      BY <2>2 DEF Tick, OwedEdge, core_req
    <2> QED
      BY <2>1, <2>2
  <1> QED
    BY <1>3, <1>5, <1>6

LEMMA TickInv ==
  ASSUME Prompt, IInv, Tick
  PROVE  IInv'
  <1>1. /\ owed' = waiting' /\ waiting' \in Seq(Commands) /\ Len(waiting') <= 1
        /\ core_req /\ gnt <=> waiting' # <<>>
    BY WaitingStep
  <1>2. resp' \in BOOLEAN /\ (resp' <=> core_req /\ gnt)
    BY DEF Tick, RespEdge, NextResp, core_req, stall, BridgeStall
  <1>3. waiting' # <<>> => core_rvalid'
    BY DEF Tick, SlaveDrives
  <1>4. TypeOK'
    BY <1>1, <1>2 DEF TypeOK, Tick, MasterDrives, SlaveDrives
  <1> QED
    BY <1>1, <1>2, <1>3, <1>4 DEF IInv, InFlight

LEMMA ResetInv ==
  ASSUME Reset
  PROVE  IInv'
  <1>1. <<>> \in Seq(Commands) /\ Len(<<>>) = 0
    BY EmptySeq
  <1>2. TypeOK'
    BY <1>1 DEF Reset, TypeOK
  <1>3. InFlight'
    BY <1>1 DEF Reset, InFlight
  <1> QED
    BY <1>2, <1>3 DEF IInv

LEMMA InitInv ==
  ASSUME Init
  PROVE  IInv
  <1>1. <<>> \in Seq(Commands) /\ Len(<<>>) = 0
    BY EmptySeq
  <1>2. TypeOK
    BY <1>1 DEF Init, TypeOK
  <1>3. InFlight
    BY <1>1 DEF Init, InFlight
  <1> QED
    BY <1>2, <1>3 DEF IInv

(* One command is in flight at most, and resp marks it.                     *)
THEOREM Invariance ==
  ASSUME Prompt
  PROVE  Spec => []IInv
  <1>1. Init => IInv
    BY InitInv
  <1>2. IInv /\ [Next]_vars => IInv'
    <2> SUFFICES ASSUME IInv, [Next]_vars
                 PROVE  IInv'
      OBVIOUS
    <2>1. CASE Tick
      BY <2>1, TickInv
    <2>2. CASE Reset
      BY <2>2, ResetInv
    <2>3. CASE UNCHANGED vars
      BY <2>3 DEF vars, IInv, TypeOK, InFlight
    <2> QED
      BY <2>1, <2>2, <2>3 DEF Next
  <1> QED
    BY <1>1, <1>2, PTL DEF Spec

(* The bridge answers its master exactly when it owes it an answer, and     *)
(* with the answer to that command (wb2core.sv:16-23 and 35-39).            *)
THEOREM AnswersAreOwners ==
  ASSUME Prompt
  PROVE  Spec => []AnswersOwner
  <1>1. IInv => AnswersOwner
    BY DEF IInv, TypeOK, InFlight, AnswersOwner, ack, wb_err, BridgeAck, BridgeErr
  <1> QED
    BY <1>1, Invariance, PTL
=============================================================================
