---------------------------- MODULE MCJtagDriver ----------------------------
(***************************************************************************)
(* Instances of JtagDriver for TLC.                                        *)
(***************************************************************************)
EXTENDS JtagDriver

IR(req) == [mode |-> "JTAG_IR", req |-> req, len |-> Len(req)]
DR(req) == [mode |-> "JTAG_DR", req |-> req, len |-> Len(req)]

MCIntGarbage == {0, 3}
ZeroState    == {"TEST_LOGIC_RESET"}
AnyTapState  == TapStates
AnyState     == TapStates \cup {"no state"}

(* The script of sim_main.cpp:36-65: IR is 5 bits, IDCODE 32, DMI 41.       *)
Bits(n, ones) == [i \in 1 .. n |-> IF i - 1 \in ones THEN 1 ELSE 0]
IDCODE == IR(Bits(5, {0}))
DMI    == IR(Bits(5, {0, 4}))

(* dmi_t: op is bits 0-1, data 2-33, address 34-40. *)
Dmi(address, data, op) ==
  DR(Bits(41, op \cup {2 + d : d \in data} \cup {34 + a : a \in address}))
DTM_READ  == {0}
DTM_WRITE == {1}

(* Addresses, fields of dmcontrol_t, and command_t with cmdtype 0.          *)
DMSTATUS  == {0, 4}
DMCONTROL == {4}
COMMAND   == {0, 1, 2, 4}
DATA0     == {2}
dmactive  == {0}
haltreq   == {31}
DCSR      == {4, 5, 7, 8, 9, 10}
command   == {17} \cup DCSR

DebugScript ==
  << IDCODE, DR(Bits(32, {})), DMI,
     Dmi(DMSTATUS, {}, DTM_READ),
     DR(Bits(41, {})),
     Dmi(DMCONTROL, dmactive, DTM_WRITE),
     Dmi(DMCONTROL, dmactive \cup haltreq, DTM_WRITE),
     Dmi(COMMAND, command, DTM_WRITE),
     Dmi(DATA0, command, DTM_READ),
     DR(Bits(41, {})) >>
RealScript == {DebugScript}

(* It, and every one and two of these short scans. *)
Short     == {IR(<<1, 0>>), IR(<<0>>), DR(<<0, 1, 1>>), DR(<<1>>)}
MCScripts == {DebugScript} \cup {<<t>> : t \in Short} \cup {<<t, u>> : t, u \in Short}

(* The conditions under which ScriptFits and ScansAfterReset are proved hold*)
(* of the scripts and of the synchronizer.                                  *)
ASSUME ResetIsInTime    == ResetInTime
ASSUME ScriptsAreInTime == InTime
=============================================================================
