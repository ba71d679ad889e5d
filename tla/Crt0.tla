-------------------------------- MODULE Crt0 --------------------------------
(***************************************************************************)
(* The start-up code of the example programs, crt0.S of sw/led (the same   *)
(* in sw/fib, sw/crc_32 and sw/nettle-aes): the loop that clears BSS       *)
(* before main.  Addresses count words; a step is an instruction.          *)
(***************************************************************************)
EXTENDS Integers

CONSTANTS
  MemWords,  \* the words of memory around BSS
  Values     \* what they may hold

ASSUME MemAssumption == MemWords \in Nat \ {0} /\ 0 \in Values

VARIABLES
  bss_start, bss_end,  \* from link.ld: BSS is bss_start .. bss_end - 1
  pc, x26, mem,
  loaded               \* history: memory as it was loaded

vars == <<bss_start, bss_end, pc, x26, mem, loaded>>

(* Slips for the checks to detect. *)
BssEmptyNever     == FALSE
MoreWordsShort(x) == x < bss_end - 1

BssEmpty     == x26 >= bss_end     \* bge x26, x27
MoreWords(x) == x <= bss_end       \* ble x26, x27

Enter ==
  /\ pc = "_start"
  /\ pc' = IF BssEmpty THEN "main_entry" ELSE "zero_loop"
  /\ UNCHANGED <<x26, mem>>

StoreWord ==
  /\ pc = "zero_loop"
  /\ mem' = [mem EXCEPT ![x26] = 0]
  /\ pc' = "addi" /\ UNCHANGED x26

SameWord == pc = "addi" /\ pc' = "ble" /\ UNCHANGED <<x26, mem>>   \* no addi

NextWord ==
  /\ pc = "addi"
  /\ x26' = x26 + 1
  /\ pc' = "ble" /\ UNCHANGED mem

Branch ==
  /\ pc = "ble"
  /\ pc' = IF MoreWords(x26) THEN "zero_loop" ELSE "main_entry"
  /\ UNCHANGED <<x26, mem>>

Next == (Enter \/ StoreWord \/ NextWord \/ Branch) /\ UNCHANGED <<bss_start, bss_end, loaded>>

(* BSS lies below the last word: link.ld puts the stack after it. *)
Init ==
  /\ bss_end \in 0 .. MemWords - 1 /\ bss_start \in 0 .. bss_end
  /\ loaded \in [0 .. MemWords - 1 -> Values] /\ mem = loaded
  /\ x26 = bss_start /\ pc = "_start"

Spec == Init /\ [][Next]_vars /\ WF_vars(Next)

-----------------------------------------------------------------------------
Bss == bss_start .. bss_end - 1

(* A C program starts with all of its BSS zero (crt0.S:46-56).              *)
BssZeroAtMain == pc = "main_entry" => \A w \in Bss : mem[w] = 0

(* main is reached (crt0.S:43-61).                                          *)
MainReached == <>(pc = "main_entry")

(* The loop clears nothing that is not BSS, except that it clears the word  *)
(* at _bss_end when there is a BSS (ble where the end is exclusive,         *)
(* crt0.S:50-55).                                                           *)
OverrunIsOneWord ==
  \A w \in DOMAIN mem \ Bss :
    mem[w] = loaded[w] \/ (w = bss_end /\ Bss # {})
=============================================================================
