------------------------------- MODULE MemPort -------------------------------
(***************************************************************************)
(* What a core memory interface promises to the core that drives it (the   *)
(* comments on the instr_ and data_ ports in rtl/wb_ibex_top.sv): a        *)
(* request that is granted is answered exactly once, later than the cycle  *)
(* of its grant, and answers come in the order of the grants.              *)
(*                                                                         *)
(* A state is one clock cycle: what is granted and answered in it, and the *)
(* transactions granted earlier that still wait for their answer.          *)
(***************************************************************************)
EXTENDS Sequences

CONSTANTS
  Transactions,  \* what a core may ask for
  None           \* no transaction

VARIABLES
  reset,         \* is the interface being reset in this cycle?
  queue,         \* granted and not yet answered, oldest first
  granted,       \* the transaction granted in this cycle, or None
  answered       \* is the oldest transaction answered in this cycle?

vars == <<reset, queue, granted, answered>>

Init ==
  /\ reset = TRUE
  /\ queue = <<>>
  /\ granted \in Transactions \cup {None}
  /\ answered = FALSE

Granted == IF granted = None THEN <<>> ELSE <<granted>>

Cycle ==
  /\ reset' = FALSE
  /\ queue' = (IF answered THEN Tail(queue) ELSE queue) \o Granted
  /\ granted' \in Transactions \cup {None}
  /\ answered' \in BOOLEAN
  /\ answered' => queue' # <<>>

(* Only a reset may forget transactions. *)
Reset ==
  /\ reset' = TRUE
  /\ queue' = <<>>
  /\ granted' \in Transactions \cup {None}
  /\ answered' = FALSE

Next == Cycle \/ Reset

Spec == Init /\ [][Next]_vars
=============================================================================
