----------------------------- MODULE LedProgram -----------------------------
(***************************************************************************)
(* The program sw/led: a loop that increments the LED register once a      *)
(* second, while the debugger may write the register over the bus.  A step *)
(* is a bus access, or a turn of the delay loop.                           *)
(***************************************************************************)
EXTENDS Integers

CONSTANTS
  Loops,      \* what usleep_ibex may compute as the number of turns
  ULONG_MAX,  \* loops is an unsigned long
  LedMax,     \* the largest value of the LED register
  MaxSeconds  \* bound: increments

ASSUME LedAssumption ==
  /\ ULONG_MAX \in Nat \ {0} /\ LedMax \in Nat \ {0} /\ MaxSeconds \in Nat
  /\ Loops \subseteq 0 .. ULONG_MAX

VARIABLES
  lpc,        \* what the program does next
  loops,      \* the counter of delay_loop_ibex
  read,       \* the value of *var that is incremented
  led,        \* the LED register
  seconds,
  asked, turns,  \* history: loops at the call of delay_loop_ibex, turns since
  foreign     \* history: has the debugger written since the program read?

ledVars == <<lpc, loops, read, led, seconds, asked, turns, foreign>>

LedValue == 0 .. LedMax

-----------------------------------------------------------------------------
(* Slips for the checks to detect. *)
MoreTurnsBelowZero(counter) == counter # 0 /\ counter # ULONG_MAX
CountedDownNever(counter)   == counter
LoadNever                   == UNCHANGED read

(* *var = 0 *)
ClearLed ==
  /\ lpc = "clear"
  /\ led' = 0 /\ lpc' = "usleep"
  /\ UNCHANGED <<loops, read, seconds, asked, turns, foreign>>

(* usleep_ibex: the turns that take so many microseconds at 50 MHz, when a  *)
(* turn takes 8 cycles.                                                     *)
Usleep ==
  /\ lpc = "usleep" /\ seconds < MaxSeconds
  /\ loops' \in Loops
  /\ asked' = loops' /\ turns' = 0
  /\ lpc' = "delay"
  /\ UNCHANGED <<read, led, seconds, foreign>>

CountedDown(counter) == (counter - 1) % (ULONG_MAX + 1)   \* addi %1, %1, -1
MoreTurns(counter)   == counter # 0                       \* bnez

(* The counter is decremented before it is tested. More turns than it can   *)
(* count are not told apart.                                                *)
DelayTurn ==
  /\ lpc = "delay"
  /\ loops' = CountedDown(loops)
  /\ turns' = IF turns > ULONG_MAX + 1 THEN turns ELSE turns + 1
  /\ lpc' = IF MoreTurns(loops') THEN "delay" ELSE "load"
  /\ UNCHANGED <<read, led, seconds, asked, foreign>>

Load == read' = led

LoadLed ==
  /\ lpc = "load" /\ Load
  /\ foreign' = FALSE /\ lpc' = "store"
  /\ UNCHANGED <<loops, led, seconds, asked, turns>>

StoreLed ==
  /\ lpc = "store"
  /\ led' = (read + 1) % (LedMax + 1)
  /\ seconds' = seconds + 1 /\ lpc' = "usleep"
  /\ UNCHANGED <<loops, read, asked, turns, foreign>>

(* The debug module writes the register over its own bus port, in any       *)
(* cycle that the core does not use.                                        *)
DebuggerWrite ==
  /\ led' \in LedValue /\ foreign' = TRUE
  /\ UNCHANGED <<lpc, loops, read, seconds, asked, turns>>

LedInit ==
  /\ lpc = "clear" /\ loops = 0 /\ read = 0 /\ led = 0 /\ seconds = 0
  /\ asked = 0 /\ turns = 0 /\ foreign = FALSE

LedProgramNext == ClearLed \/ Usleep \/ DelayTurn \/ LoadLed \/ StoreLed
LedNext        == LedProgramNext \/ DebuggerWrite

LedSpec == LedInit /\ [][LedNext]_ledVars

-----------------------------------------------------------------------------
(* Every second shows one more than the LED showed, whoever wrote that; a   *)
(* write of the debugger is lost only when it falls between the program's   *)
(* read and its store (led.c:47).                                           *)
CountsUnlessRaced ==
  [][lpc = "store" /\ lpc' = "usleep" => led' = (led + 1) % (LedMax + 1) \/ foreign]_ledVars

(* The delay loop makes as many turns as it is asked for - but all that its *)
(* counter can count when it is asked for none, since it decrements before  *)
(* it tests (led.c:11-23).                                                  *)
TurnsAsAsked == lpc = "load" => turns = IF asked = 0 THEN ULONG_MAX + 1 ELSE asked

(* Every call of usleep returns, and the LED is then read and written,      *)
(* however often the debugger writes (led.c:11-47).                         *)
SecondEnds == lpc = "delay" ~> lpc = "usleep"
=============================================================================
