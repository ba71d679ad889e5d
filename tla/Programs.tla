------------------------------ MODULE Programs ------------------------------
(***************************************************************************)
(* The programs of soc/fpga/arty-a7-100/sw from the reset vector on: the   *)
(* start-up code clears BSS and then one of the programs runs.  Several    *)
(* programs share the start-up code and main.c; one is loaded.  "heap" is  *)
(* a client of the heap that is linked to the benchmarks.                  *)
(***************************************************************************)
EXTENDS Crt0, Fib, Crc32, Aes, BeebsHeap, LedProgram

CONSTANTS Loaded   \* the programs that may be loaded

ASSUME LoadedAssumption == Loaded \subseteq {"fib", "led", "crc_32", "nettle-aes", "heap"}

VARIABLE program

startVars == <<bss_start, bss_end, pc, x26, mem, loaded>>
crcOwn    == <<seed, oldcrc32, n, r, register>>

programsVars == <<program, startVars, fib, mainVars, crcOwn, aesVars, heapVars, ledVars>>

-----------------------------------------------------------------------------
(* All of BSS is tried with fib, one BSS with the others. *)
ProgramsInit ==
  /\ program \in Loaded /\ Init
  /\ program # "fib" => bss_start = 1 /\ bss_end = 2 /\ \A x \in DOMAIN loaded : loaded[x] = 0
  /\ FibInit /\ CrcInit /\ AesInit /\ HeapInit /\ LedInit
  /\ program # "crc_32" => r = {}
  /\ program # "nettle-aes" => call = OwnCall
  /\ program # "heap" => \A a \in DOMAIN memory : memory[a] = 0

StartUp == Next /\ UNCHANGED <<program, fib, mainVars, crcOwn, aesVars, heapVars, ledVars>>

InMain(p) == program = p /\ pc = "main_entry" /\ UNCHANGED <<program, startVars>>

RunFib == InMain("fib")    /\ FibTurn /\ UNCHANGED <<mainVars, crcOwn, aesVars, heapVars, ledVars>>
Crc    == InMain("crc_32") /\ CrcNext /\ UNCHANGED <<fib, aesVars, heapVars, ledVars>>
Heap   == InMain("heap")   /\ HeapNext /\ UNCHANGED <<fib, mainVars, crcOwn, aesVars, ledVars>>

LedStep(A) == InMain("led") /\ A /\ UNCHANGED <<fib, mainVars, crcOwn, aesVars, heapVars>>
Led        == LedStep(LedNext)

NettleAes == InMain("nettle-aes") /\ AesNext /\ UNCHANGED <<fib, crcOwn, heapVars, ledVars>>

ProgramsNext == StartUp \/ RunFib \/ Crc \/ NettleAes \/ Heap \/ Led

(* The core executes its next instruction sooner or later; nothing makes    *)
(* the debugger write.                                                      *)
ProgramsSpec ==
  /\ ProgramsInit /\ [][ProgramsNext]_programsVars
  /\ WF_programsVars(StartUp) /\ WF_programsVars(LedStep(LedProgramNext))
=============================================================================
