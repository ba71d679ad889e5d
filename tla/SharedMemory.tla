---------------------------- MODULE SharedMemory ----------------------------
(***************************************************************************)
(* What the memory system of the SoC promises to its masters: accesses     *)
(* happen one at a time, each at once and as a whole in the cycle of its   *)
(* grant; a read is answered later with what it found then.  Nothing that  *)
(* happens between the grant and the answer can change the answer.         *)
(***************************************************************************)
EXTENDS Sequences

CONSTANTS
  Ports,        \* who accesses the memory
  Commands,     \* records [addr, we, be, wdata]
  Stored(_, _), \* Stored(store, c): the store after command c
  Found(_, _),  \* Found(store, c): the answer to command c
  Cleared(_)    \* Cleared(store): what a reset leaves of the store

VARIABLES
  reset,        \* is the system being reset in this cycle?
  store,        \* the contents of memory and device registers
  pending,      \* per port: answers due, oldest first
  answered      \* the ports that get their oldest answer in this cycle

vars == <<reset, store, pending, answered>>

Nothing == [p \in Ports |-> <<>>]

Init ==
  /\ reset = TRUE
  /\ pending = Nothing /\ answered = {}

Remaining == [p \in Ports |-> IF p \in answered THEN Tail(pending[p]) ELSE pending[p]]

Quiet == store' = store /\ pending' = Remaining

Access(p, c) ==
  /\ store' = Stored(store, c)
  /\ pending' = [Remaining EXCEPT ![p] = Append(@, Found(store, c))]

Cycle ==
  /\ reset' = FALSE
  /\ Quiet \/ \E p \in Ports, c \in Commands : Access(p, c)
  /\ answered' \in SUBSET Ports
  /\ \A p \in answered' : pending'[p] # <<>>

(* A reset drops every answer; the access of its last cycle may have been   *)
(* performed or not.                                                        *)
Reset ==
  /\ reset' = TRUE
  /\ \/ store' = Cleared(store)
     \/ \E c \in Commands : store' = Cleared(Stored(store, c))
  /\ pending' = Nothing /\ answered' = {}

Next == Cycle \/ Reset

Spec == Init /\ [][Next]_vars
=============================================================================
