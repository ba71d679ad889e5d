----------------------------- MODULE MCSharedBus -----------------------------
(***************************************************************************)
(* Instances of SharedBus for TLC: slave regions of two addresses in a     *)
(* space of eight, the first slave with the higher base address as in the  *)
(* parameters of ibex_soc.                                                 *)
(***************************************************************************)
EXTENDS SharedBus, TLC

MCLanes == {0}
TwoBase == (0 :> 4) @@ (1 :> 0)
TwoSize == (0 :> 2) @@ (1 :> 2)

At(as) == {[addr |-> a] : a \in as}

(* The first address of one region and the last of the other; 7 belongs to  *)
(* none.                                                                   *)
TwoMapped   == At({1, 4})
TwoUnmapped == At({0, 7})

(* Every core asks for everything. *)
MCMayAsk == [m \in Masters |-> Commands]
=============================================================================
