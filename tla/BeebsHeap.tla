----------------------------- MODULE BeebsHeap ------------------------------
(***************************************************************************)
(* The heap of beebsc.c, a library of sw/crc_32 and sw/nettle-aes: memory  *)
(* is handed out upwards and never taken back.  The client may do what C   *)
(* lets it; no benchmark of this repository allocates anything, so all of  *)
(* the client is assumed.  The unit of memory is a char.                   *)
(***************************************************************************)
EXTENDS Integers

CONSTANTS
  Heaps,      \* what init_heap_beebs may be called with: [heap, heap_size]
  Sizes,      \* what may be asked for
  Chars,      \* what a char may hold, 0 among them
  TopAddress, \* of memory
  MaxCalls    \* bound: calls that allocate

(* A heap is a block of memory, and its address is not NULL. *)
ASSUME HeapAssumption ==
  /\ Sizes \subseteq Nat /\ TopAddress \in Nat /\ MaxCalls \in Nat
  /\ Heaps \subseteq [heap : Nat \ {0}, heap_size : Nat]
  /\ \A h \in Heaps : h.heap + h.heap_size <= TopAddress + 1

VARIABLES
  heap_ptr, heap_end, heap_requested,
  memory,
  copying,    \* the loop of realloc_beebs, if it runs: [old, new, done]
  calls,
  base,       \* history: the heap that was given; 0 before
  blocks,     \* history: the client's blocks, with what it knows is in them
  refused     \* history: was a request larger than what was left?

heapVars == <<heap_ptr, heap_end, heap_requested, memory, copying, calls, base, blocks, refused>>

NULL == 0
Idle == copying = {}

-----------------------------------------------------------------------------
(* Slips for the checks to detect. *)
RequestedIfGiven(size) ==
  heap_requested' = IF heap_ptr + size > heap_end THEN heap_requested ELSE heap_requested + size
FitsByStart(size) == ~(heap_ptr >= heap_end) /\ size # 0
AdvanceNever(size)   == heap_ptr' = heap_ptr

Requested(size) == heap_requested' = heap_requested + size
Fits(size)      == ~(heap_ptr + size > heap_end) /\ size # 0
Advance(size)   == heap_ptr' = heap_ptr + size

InitHeap ==
  \E h \in Heaps :
    /\ Idle
    /\ heap_ptr' = h.heap /\ heap_end' = h.heap + h.heap_size /\ heap_requested' = 0
    /\ base' = h.heap /\ blocks' = {} /\ refused' = FALSE
    /\ UNCHANGED <<memory, copying, calls>>

(* The part that malloc_beebs and realloc_beebs have in common. *)
Request(size) ==
  /\ Idle /\ calls < MaxCalls /\ calls' = calls + 1
  /\ Requested(size)
  /\ refused' = (refused \/ (size # 0 /\ heap_ptr + size > heap_end))
  /\ IF Fits(size) THEN Advance(size) ELSE UNCHANGED heap_ptr
  /\ UNCHANGED <<heap_end, base>>

New(size, holds) == [at |-> heap_ptr, size |-> size, holds |-> holds]

Malloc ==
  \E size \in Sizes :
    /\ Request(size)
    /\ blocks' = IF Fits(size) THEN blocks \cup {New(size, <<>>)} ELSE blocks
    /\ UNCHANGED <<memory, copying>>

(* malloc_beebs and memset. *)
Calloc ==
  \E nmemb \in Sizes, size \in Sizes :
    LET bytes == nmemb * size
        fresh == heap_ptr .. heap_ptr + bytes - 1
    IN  /\ Request(bytes)
        /\ IF Fits(bytes)
           THEN /\ memory' = [a \in DOMAIN memory |-> IF a \in fresh THEN 0 ELSE memory[a]]
                /\ blocks' = blocks \cup {New(bytes, [o \in 0 .. bytes - 1 |-> 0])}
           ELSE UNCHANGED <<memory, blocks>>
        /\ UNCHANGED copying

(* realloc_beebs (NULL, size) *)
ReallocNull ==
  \E size \in Sizes :
    /\ Request(size)
    /\ blocks' = IF Fits(size) THEN blocks \cup {New(size, <<>>)} ELSE blocks
    /\ UNCHANGED <<memory, copying>>

(* Up to the loop.  The old block is the client's no more. *)
Realloc ==
  \E b \in blocks, size \in Sizes :
    /\ Request(size)
    /\ IF Fits(size)
       THEN /\ copying' = {[old |-> b, new |-> New(size, <<>>), done |-> 0]}
            /\ blocks' = blocks \ {b}
       ELSE UNCHANGED <<copying, blocks>>
    /\ UNCHANGED memory

(* The loop copies as many chars as the new block has, whatever the size of *)
(* the old one.                                                             *)
CopyChar ==
  \E c \in copying :
    /\ c.done < c.new.size
    /\ memory' = [memory EXCEPT ![c.new.at + c.done] = memory[c.old.at + c.done]]
    /\ copying' = {[c EXCEPT !.done = @ + 1]}
    /\ UNCHANGED <<heap_ptr, heap_end, heap_requested, calls, base, blocks, refused>>

(* What the client knows of the old block it expects of the new one. *)
Kept(b, size) == [o \in {x \in DOMAIN b.holds : x < size} |-> b.holds[o]]

ReallocReturns ==
  \E c \in copying :
    /\ c.done = c.new.size
    /\ copying' = {}
    /\ blocks' = blocks \cup {[c.new EXCEPT !.holds = Kept(c.old, c.new.size)]}
    /\ UNCHANGED <<heap_ptr, heap_end, heap_requested, memory, calls, base, refused>>

(* free_beebs does nothing, and the client forgets the block. *)
Free ==
  \E b \in blocks :
    /\ Idle
    /\ blocks' = blocks \ {b}
    /\ UNCHANGED <<heap_ptr, heap_end, heap_requested, memory, copying, calls, base, refused>>

(* The client writes into a block. *)
ClientWrite ==
  \E b \in blocks, c \in Chars : \E o \in 0 .. b.size - 1 :
    /\ Idle
    /\ memory' = [memory EXCEPT ![b.at + o] = c]
    /\ blocks' = (blocks \ {b}) \cup
                 {[b EXCEPT !.holds = [x \in DOMAIN @ \cup {o} |-> IF x = o THEN c ELSE @[x]]]}
    /\ UNCHANGED <<heap_ptr, heap_end, heap_requested, copying, calls, base, refused>>

HeapInit ==
  /\ heap_ptr = NULL /\ heap_end = NULL /\ heap_requested = 0
  /\ \E c \in Chars : memory = [a \in 1 .. TopAddress |-> c]
  /\ copying = {} /\ calls = 0 /\ base = NULL /\ blocks = {} /\ refused = FALSE

HeapNext ==
  \/ InitHeap \/ Malloc \/ Calloc \/ ReallocNull \/ Realloc \/ CopyChar \/ ReallocReturns
  \/ Free \/ ClientWrite

HeapSpec == HeapInit /\ [][HeapNext]_heapVars

-----------------------------------------------------------------------------
check_heap_beebs == base + heap_requested <= heap_end

(* check_heap_beebs tells whether everything asked for since the last call  *)
(* of init_heap_beebs was available, also when a smaller request was met    *)
(* after one that was not (beebsc.c:69-78, 97-98, 138-139).                 *)
CheckExact == check_heap_beebs <=> ~refused

CharsOf(b) == b.at .. b.at + b.size - 1

(* The client's blocks lie in the heap and have no char in common           *)
(* (beebsc.c:90-104, 111-123, 131-159).                                     *)
BlocksDisjoint ==
  /\ \A b \in blocks : CharsOf(b) \subseteq base .. heap_end - 1
  /\ \A b, c \in blocks : b # c => CharsOf(b) \cap CharsOf(c) = {}

(* A block holds what was written into it, zeros after calloc_beebs, and    *)
(* what the old block held after realloc_beebs (beebsc.c:119-120, 149-155). *)
ContentsKept == \A b \in blocks : \A o \in DOMAIN b.holds : memory[b.at + o] = b.holds[o]

(* realloc_beebs, which does not know the size of the old block, reads      *)
(* nothing after the end of the heap ("it must be big enough",              *)
(* beebsc.c:144-155).                                                       *)
ReadsInHeap ==
  \A c \in copying : \A o \in 0 .. c.new.size - 1 : c.old.at + o \in base .. heap_end - 1
=============================================================================
