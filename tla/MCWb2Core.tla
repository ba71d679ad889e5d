------------------------------ MODULE MCWb2Core ------------------------------
(***************************************************************************)
(* Instances of Wb2Core for TLC: a read and two writes.                    *)
(***************************************************************************)
EXTENDS Wb2Core, TLC

CONSTANTS a1, a2, d1

MCLanes    == {0}
MCCommands ==
  { [adr |-> a1, we |-> FALSE, sel |-> {0}, dat |-> d1],
    [adr |-> a1, we |-> TRUE,  sel |-> {},  dat |-> d1],
    [adr |-> a2, we |-> TRUE,  sel |-> {0}, dat |-> d1] }
=============================================================================
