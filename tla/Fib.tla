-------------------------------- MODULE Fib ---------------------------------
(***************************************************************************)
(* main of sw/fib: F10 in 9 turns of a loop.                               *)
(***************************************************************************)
EXTENDS Integers

VARIABLE fib   \* the local variables of main

(* Slips for the checks to detect. *)
FibMoreToTen(k) == k <= 10

FibMore(k) == k < 10

FibTurn ==
  /\ FibMore(fib.i)
  /\ fib' = [a |-> fib.b, b |-> fib.a + fib.b, i |-> fib.i + 1, y |-> fib.a + fib.b]

FibInit == fib = [a |-> 0, b |-> 1, i |-> 1, y |-> 0]
FibSpec == FibInit /\ [][FibTurn]_fib

-----------------------------------------------------------------------------
(* "F10 = 55" when the loop ends (fib.c:8-13).                              *)
FibIsF10 == ~FibMore(fib.i) => fib.y = 55
=============================================================================
