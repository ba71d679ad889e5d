------------------------------ MODULE MCIbexSoc ------------------------------
(***************************************************************************)
(* An instance of SocPorts for TLC: two lanes of two bits (0 and 3), two    *)
(* words of RAM, two of LED and one of the debug module, in the order of   *)
(* the addresses of ibex_soc.sv:25-32 (RAM, LED, debug module).            *)
(***************************************************************************)
EXTENDS SocPorts, TLC

MCLanes == {0, 1}
MCBytes == {0, 3}
MCBase  == (Dm :> 6) @@ (Ram :> 0) @@ (Led :> 4)
MCSize  == (Dm :> 1) @@ (Ram :> 2) @@ (Led :> 2)

Word(lo, hi) == (0 :> lo) @@ (1 :> hi)
MCVMem == (0 :> Word(0, 3)) @@ (1 :> Word(3, 0))

Read(a)         == [addr |-> a, we |-> FALSE, be |-> MCLanes, wdata |-> Word(0, 0)]
Write(a, be, w) == [addr |-> a, we |-> TRUE, be |-> be, wdata |-> w]

(* The debugger writes a whole RAM word and the LED; the core writes one    *)
(* byte, writes past the LED's word, and reads RAM, LED and debug module;   *)
(* it fetches from RAM.                                                     *)
Debugger == {Write(1, MCLanes, Word(0, 0)), Write(4, MCLanes, Word(3, 0))}
Data     == {Write(1, {1}, Word(3, 3)), Write(5, MCLanes, Word(0, 0)), Read(1), Read(4), Read(6)}
Fetch    == {Read(1)}

MCCommands == Debugger \cup Data \cup Fetch
MCMayAsk   == (0 :> Debugger) @@ (1 :> Data) @@ (2 :> Fetch)
=============================================================================
