------------------------------- MODULE Embench -------------------------------
(***************************************************************************)
(* The common main.c of the Embench programs sw/crc_32 and sw/nettle-aes:  *)
(* the benchmark's body runs WARMUP_HEAT times, then once more for the     *)
(* result, which is verified; then the core waits for ever.                *)
(***************************************************************************)
EXTENDS Integers

CONSTANTS
  WarmupHeats,   \* what WARMUP_HEAT may be defined as
  NoResult       \* the result before there is one

ASSUME HeatAssumption == WarmupHeats \subseteq Nat

VARIABLES
  at,       \* the call that main is in
  rpt,      \* iterations of benchmark_body that are left
  busy,     \* is an iteration under way?
  result, correct

mainVars == <<at, rpt, busy, result, correct>>

LOCAL_SCALE_FACTOR == 1
CPU_MHZ            == 1

MainInit == at = "main" /\ rpt = 0 /\ busy = FALSE /\ result = NoResult /\ correct = FALSE

(* initialise_board and initialise_benchmark change no state. *)
WarmCaches ==
  /\ at = "main"
  /\ at' = "warm_caches" /\ rpt' \in WarmupHeats
  /\ UNCHANGED <<busy, result, correct>>

InBody == at \in {"warm_caches", "benchmark"}

(* An iteration of benchmark_body begins and ends. *)
BeginBody == InBody /\ ~busy /\ rpt > 0 /\ busy' = TRUE  /\ UNCHANGED <<at, rpt, result, correct>>
EndBody   == InBody /\ busy /\ busy' = FALSE /\ rpt' = rpt - 1 /\ UNCHANGED <<at, result, correct>>

(* benchmark_body returns r: to warm_caches, which drops it, or to main. *)
ReturnToMain(r) ==
  /\ InBody /\ ~busy /\ rpt = 0
  /\ IF at = "warm_caches"
     THEN at' = "benchmark" /\ rpt' = LOCAL_SCALE_FACTOR * CPU_MHZ /\ UNCHANGED result
     ELSE at' = "verify_benchmark" /\ result' = r /\ UNCHANGED rpt
  /\ UNCHANGED <<busy, correct>>

(* verify_benchmark says ok. *)
Verify(ok) ==
  /\ at = "verify_benchmark"
  /\ correct' = ok /\ at' = "wfi"
  /\ UNCHANGED <<rpt, busy, result>>

-----------------------------------------------------------------------------
(* A benchmark that has run computed what its own verify_benchmark expects  *)
(* (main.c:27-37, crc_32.c:207-211, nettle-aes.c:1119-1133).                *)
BenchmarkVerifies == at = "wfi" => correct
=============================================================================
