--------------------------- MODULE ProgramProofs ----------------------------
(***************************************************************************)
(* Proofs about Crt0, Fib, LedProgram, BeebsHeap and KeyReversal: for      *)
(* every memory and BSS, every width of the counter and of the LED         *)
(* register, heaps of every size and any sequence of calls, every number   *)
(* of rounds.                                                              *)
(***************************************************************************)
EXTENDS Crt0, Fib, LedProgram, BeebsHeap, KeyReversal, TLAPS

(* Words from bss_start up to w - 1 are cleared; nothing else was written   *)
(* than these and, when there is a BSS, the word at its end.                *)
ClearedBelow(w) == \A a \in bss_start .. w - 1 : mem[a] = 0

LoopInv ==
  /\ MemWords \in Nat
  /\ bss_start \in Nat /\ bss_end \in Nat /\ bss_start <= bss_end /\ bss_end < MemWords
  /\ x26 \in bss_start .. bss_end + 1
  /\ DOMAIN mem = 0 .. MemWords - 1
  /\ pc \in {"_start", "zero_loop", "addi", "ble", "main_entry"}
  /\ pc = "_start" => x26 = bss_start
  /\ pc \in {"zero_loop", "addi", "ble"} => bss_start < bss_end
  /\ pc \in {"zero_loop", "addi"} => x26 <= bss_end
  /\ pc \in {"zero_loop", "ble"} => ClearedBelow(x26)
  /\ pc = "addi" => ClearedBelow(x26 + 1)
  /\ pc = "main_entry" => ClearedBelow(bss_end)
  /\ \A a \in DOMAIN mem :
       mem[a] = loaded[a] \/ (bss_start < bss_end /\ a \in bss_start .. bss_end)

LEMMA LoopInit == Init => LoopInv
BY MemAssumption DEF MemAssumption, Init, LoopInv, ClearedBelow

LEMMA LoopStep == LoopInv /\ [Next]_vars => LoopInv'
<1>. SUFFICES ASSUME LoopInv, [Next]_vars PROVE LoopInv'
  OBVIOUS
<1>. USE DEF LoopInv, ClearedBelow
<1>1. CASE Enter /\ UNCHANGED <<bss_start, bss_end, loaded>>
  BY <1>1 DEF Enter, BssEmpty
<1>2. CASE StoreWord /\ UNCHANGED <<bss_start, bss_end, loaded>>
  <2>1. x26 \in DOMAIN mem /\ mem' = [mem EXCEPT ![x26] = 0] /\ pc' = "addi" /\ pc = "zero_loop"
        /\ UNCHANGED <<x26, bss_start, bss_end, loaded>>
    BY <1>2 DEF StoreWord
  <2>2. ASSUME NEW a \in bss_start .. x26 + 1 - 1 PROVE mem'[a] = 0
    BY <2>1
  <2>. QED BY <2>1, <2>2
<1>3. CASE NextWord /\ UNCHANGED <<bss_start, bss_end, loaded>>
  BY <1>3 DEF NextWord
<1>4. CASE Branch /\ UNCHANGED <<bss_start, bss_end, loaded>>
  <2>1. /\ pc = "ble" /\ UNCHANGED <<x26, mem, bss_start, bss_end, loaded>>
        /\ pc' = IF x26 <= bss_end THEN "zero_loop" ELSE "main_entry"
    BY <1>4 DEF Branch, MoreWords
  <2>2. CASE x26 <= bss_end
    <3>1. bss_start < bss_end
      BY <2>1, <2>2
    <3>. QED BY <2>1, <2>2, <3>1
  <2>3. CASE x26 > bss_end
    BY <2>1, <2>3
  <2>. QED BY <2>2, <2>3
<1>5. CASE UNCHANGED vars
  BY <1>5 DEF vars
<1>. QED BY <1>1, <1>2, <1>3, <1>4, <1>5 DEF Next

LEMMA LoopInvariant == Spec => []LoopInv
BY LoopInit, LoopStep, PTL DEF Spec

(* A C program starts with all of its BSS zero (crt0.S:46-56), for every    *)
(* place and size of BSS and every memory.                                  *)
THEOREM BssIsZero == Spec => []BssZeroAtMain
<1>1. LoopInv => BssZeroAtMain
  BY DEF LoopInv, ClearedBelow, BssZeroAtMain, Bss
<1>. QED BY <1>1, LoopInvariant, PTL

(* The loop writes nothing outside BSS but the word at its end              *)
(* (crt0.S:50-55).                                                          *)
THEOREM OverrunIsBounded == Spec => []OverrunIsOneWord
<1>1. ASSUME LoopInv PROVE OverrunIsOneWord
  <2>1. ASSUME NEW w \in DOMAIN mem \ Bss PROVE mem[w] = loaded[w] \/ (w = bss_end /\ Bss # {})
    <3>1. CASE mem[w] = loaded[w]
      BY <3>1
    <3>2. CASE bss_start < bss_end /\ w \in bss_start .. bss_end
      <4>1. bss_start \in Bss /\ w = bss_end
        BY <1>1, <3>2 DEF LoopInv, Bss
      <4>. QED BY <4>1
    <3>. QED BY <1>1, <3>1, <3>2 DEF LoopInv
  <2>. QED BY <2>1 DEF OverrunIsOneWord
<1>. QED BY <1>1, LoopInvariant, PTL

-----------------------------------------------------------------------------
(* The counter and the turns add up to what was asked for, or to one more   *)
(* than the counter can hold once it has wrapped from zero.                 *)
DelayInv ==
  /\ loops \in 0 .. ULONG_MAX /\ asked \in 0 .. ULONG_MAX /\ turns \in Nat
  /\ lpc \in {"clear", "usleep", "delay", "load", "store"}
  /\ lpc = "delay" => \/ turns = 0 /\ loops = asked
                      \/ loops # 0 /\ turns + loops = IF asked = 0 THEN ULONG_MAX + 1 ELSE asked
  /\ TurnsAsAsked

LEMMA DelayInit == LedInit => DelayInv
BY LedAssumption DEF LedAssumption, LedInit, DelayInv, TurnsAsAsked

LEMMA CountedDownIs ==
  ASSUME NEW c \in 0 .. ULONG_MAX
  PROVE  CountedDown(c) = IF c = 0 THEN ULONG_MAX ELSE c - 1
BY LedAssumption DEF LedAssumption, CountedDown

LEMMA DelayStep == DelayInv /\ [LedNext]_ledVars => DelayInv'
<1>. SUFFICES ASSUME DelayInv, [LedNext]_ledVars PROVE DelayInv'
  OBVIOUS
<1>. USE DEF DelayInv, TurnsAsAsked
<1>1. CASE Usleep
  BY <1>1, LedAssumption DEF LedAssumption, Usleep
<1>2. CASE DelayTurn
  <2>1. ULONG_MAX \in Nat \ {0}
    BY LedAssumption DEF LedAssumption
  <2>2. loops' = IF loops = 0 THEN ULONG_MAX ELSE loops - 1
    BY <1>2, CountedDownIs DEF DelayTurn
  <2>3. turns <= ULONG_MAX /\ turns' = turns + 1 /\ asked' = asked
    BY <1>2, <2>1 DEF DelayTurn
  <2>4. lpc = "delay" /\ lpc' = IF loops' # 0 THEN "delay" ELSE "load"
    BY <1>2 DEF DelayTurn, MoreTurns
  <2>. QED BY <2>1, <2>2, <2>3, <2>4
<1>3. CASE ClearLed \/ LoadLed \/ StoreLed \/ DebuggerWrite \/ UNCHANGED ledVars
  BY <1>3 DEF ClearLed, LoadLed, StoreLed, DebuggerWrite, ledVars
<1>. QED BY <1>1, <1>2, <1>3 DEF LedNext, LedProgramNext

(* The delay loop makes as many turns as it is asked for, and one more than *)
(* an unsigned long can hold when it is asked for none (led.c:11-23).       *)
THEOREM DelayIsAsAsked == LedSpec => []TurnsAsAsked
<1>1. DelayInv => TurnsAsAsked
  BY DEF DelayInv
<1>. QED BY <1>1, DelayInit, DelayStep, PTL DEF LedSpec

-----------------------------------------------------------------------------
(* Between its read and its store the program holds what the LED shows,     *)
(* unless the debugger wrote.                                               *)
ReadIsLed == lpc = "store" => read = led \/ foreign

LEMMA ReadStep == ReadIsLed /\ [LedNext]_ledVars => ReadIsLed'
BY DEF ReadIsLed, LedNext, LedProgramNext, ClearLed, Usleep, DelayTurn, LoadLed, Load, StoreLed,
       DebuggerWrite, ledVars

(* Only a write of the debugger between the program's read and its store    *)
(* is lost (led.c:47).                                                      *)
THEOREM OnlyRacesAreLost == LedSpec => CountsUnlessRaced
<1>1. LedInit => ReadIsLed
  BY DEF LedInit, ReadIsLed
<1>2. ASSUME ReadIsLed, [LedNext]_ledVars, lpc = "store", lpc' = "usleep"
      PROVE  led' = (led + 1) % (LedMax + 1) \/ foreign
  <2>1. StoreLed
    BY <1>2 DEF LedNext, LedProgramNext, ClearLed, Usleep, DelayTurn, LoadLed, DebuggerWrite, ledVars
  <2>. QED BY <1>2, <2>1 DEF StoreLed, ReadIsLed
<1>3. ReadIsLed /\ [LedNext]_ledVars
        => [lpc = "store" /\ lpc' = "usleep" => led' = (led + 1) % (LedMax + 1) \/ foreign]_ledVars
  BY <1>2
<1>. QED BY <1>1, <1>3, ReadStep, PTL DEF LedSpec, CountsUnlessRaced

-----------------------------------------------------------------------------

(* Pointers and the account that check_heap_beebs rests on: while nothing   *)
(* was refused, what was asked for is what was handed out.                  *)
Accounts ==
  /\ heap_ptr \in Nat /\ heap_end \in Nat /\ heap_requested \in Nat /\ base \in Nat
  /\ base <= heap_ptr /\ heap_ptr <= heap_end /\ heap_end <= TopAddress + 1
  /\ heap_end # NULL => base # NULL
  /\ refused  => base + heap_requested > heap_end
  /\ ~refused => base + heap_requested = heap_ptr

(* HeapAssumption in parts. *)
LEMMA SizesAreNat == Sizes \subseteq Nat /\ TopAddress \in Nat
BY HeapAssumption DEF HeapAssumption

LEMMA AHeapIsBelowTop ==
  ASSUME NEW h \in Heaps
  PROVE  /\ h.heap \in Nat \ {0} /\ h.heap_size \in Nat
         /\ h.heap + h.heap_size <= TopAddress + 1
BY HeapAssumption DEF HeapAssumption

LEMMA AccountsInit == HeapInit => Accounts
BY SizesAreNat DEF HeapInit, Accounts, NULL

LEMMA AccountsRequest ==
  ASSUME Accounts, NEW size \in Nat, Request(size)
  PROVE  Accounts'
<1>1. refused' <=> refused \/ (size # 0 /\ heap_ptr + size > heap_end)
  BY DEF Request
<1>2. heap_requested' = heap_requested + size /\ UNCHANGED <<heap_end, base>>
  BY DEF Request, Requested
<1>3. heap_ptr' = IF heap_ptr + size > heap_end \/ size = 0 THEN heap_ptr ELSE heap_ptr + size
  BY DEF Request, Fits, Advance, Accounts
<1>4. size = 0 \/ heap_ptr + size > heap_end \/ heap_ptr + size <= heap_end
  BY DEF Accounts
<1>. QED BY <1>1, <1>2, <1>3, <1>4, SizesAreNat DEF Accounts, NULL

LEMMA AccountsStep ==
  ASSUME Accounts, [HeapNext]_heapVars
  PROVE  Accounts'
<1>. USE SizesAreNat
<1>1. CASE InitHeap
  <2>1. PICK h \in Heaps : heap_ptr' = h.heap /\ heap_end' = h.heap + h.heap_size
                           /\ heap_requested' = 0 /\ base' = h.heap /\ refused' = FALSE
    BY <1>1 DEF InitHeap
  <2>2. h.heap \in Nat \ {0} /\ h.heap_size \in Nat /\ h.heap + h.heap_size <= TopAddress + 1
    BY AHeapIsBelowTop
  <2>. QED BY <2>1, <2>2 DEF Accounts, NULL
<1>2. CASE \E size \in Nat : Request(size)
  BY <1>2, AccountsRequest
<1>3. CASE UNCHANGED <<heap_ptr, heap_end, heap_requested, base, refused>>
  BY <1>3 DEF Accounts, NULL
<1>4. Malloc \/ ReallocNull \/ Realloc => \E size \in Nat : Request(size)
  BY DEF Malloc, ReallocNull, Realloc
<1>5. ASSUME Calloc PROVE \E size \in Nat : Request(size)
  <2>1. PICK nmemb \in Sizes, size \in Sizes : Request(nmemb * size)
    BY <1>5 DEF Calloc
  <2>2. \A a, b \in Nat : a * b \in Nat
    OBVIOUS
  <2>. QED BY <2>1, <2>2
<1>6. CopyChar \/ ReallocReturns \/ Free \/ ClientWrite \/ UNCHANGED heapVars
        => UNCHANGED <<heap_ptr, heap_end, heap_requested, base, refused>>
  BY DEF CopyChar, ReallocReturns, Free, ClientWrite, heapVars
<1>. QED BY <1>1, <1>2, <1>3, <1>4, <1>5, <1>6 DEF HeapNext

(* check_heap_beebs tells exactly whether a request was refused             *)
(* (beebsc.c:69-78), for every heap and every sequence of calls.            *)
THEOREM CheckIsExact == HeapSpec => []CheckExact
<1>1. Accounts => CheckExact
  BY DEF Accounts, CheckExact, check_heap_beebs
<1>. QED BY <1>1, AccountsInit, AccountsStep, PTL DEF HeapSpec

-----------------------------------------------------------------------------
(* A block is a record that lies in lo .. hi - 1, has a char, and of which  *)
(* the client knows chars.                                                  *)
Placed(b, lo, hi) ==
  /\ b = [at |-> b.at, size |-> b.size, holds |-> b.holds]
  /\ b.at \in Nat /\ b.size \in Nat \ {0}
  /\ lo <= b.at /\ b.at + b.size <= hi
  /\ DOMAIN b.holds \subseteq 0 .. b.size - 1

Apart(b, c) == b.at + b.size <= c.at \/ c.at + c.size <= b.at

Holds(b) == \A o \in DOMAIN b.holds : memory[b.at + o] = b.holds[o]

BlocksInv ==
  /\ \A b \in blocks : Placed(b, base, heap_ptr) /\ Holds(b)
  /\ \A b, c \in blocks : b # c => Apart(b, c)

(* While realloc_beebs copies, the old block is as it was, the new one is   *)
(* apart from it and from all others, and has what was copied.              *)
CopyInv ==
  \A c \in copying :
    /\ c = [old |-> c.old, new |-> c.new, done |-> c.done]
    /\ c.done \in 0 .. c.new.size
    /\ Placed(c.old, base, c.new.at) /\ Placed(c.new, base, heap_ptr) /\ Holds(c.old)
    /\ c.new.holds = <<>>
    /\ \A b \in blocks : Apart(b, c.new)
    /\ \A o \in DOMAIN c.old.holds : o < c.done => memory[c.new.at + o] = c.old.holds[o]

HeapInv ==
  /\ Accounts
  /\ DOMAIN memory = 1 .. TopAddress
  /\ BlocksInv /\ CopyInv

LEMMA InvInit == HeapInit => HeapInv
BY AccountsInit DEF HeapInit, HeapInv, BlocksInv, CopyInv

(* What a request that is met hands out lies above all blocks.              *)
LEMMA HandedOut ==
  ASSUME HeapInv, NEW size \in Nat, NEW holds, DOMAIN holds \subseteq 0 .. size - 1,
         Request(size), Fits(size)
  PROVE  /\ Placed(New(size, holds), base', heap_ptr')
         /\ \A b \in blocks : Placed(b, base', heap_ptr') /\ Apart(b, New(size, holds))
         /\ Accounts' /\ copying = {}
<1>1. Accounts' /\ copying = {}
  BY AccountsRequest DEF HeapInv, Request, Idle
<1>2. base' = base /\ heap_ptr' = heap_ptr + size /\ size # 0 /\ base <= heap_ptr
      /\ heap_ptr \in Nat /\ base \in Nat
  BY DEF Request, Fits, Advance, HeapInv, Accounts
<1>3. Placed(New(size, holds), base', heap_ptr')
  BY <1>2 DEF Placed, New
<1>4. ASSUME NEW b \in blocks PROVE Placed(b, base', heap_ptr') /\ Apart(b, New(size, holds))
  BY <1>2 DEF HeapInv, BlocksInv, Placed, Apart, New
<1>. QED BY <1>1, <1>3, <1>4

(* A new block joins the others.                                            *)
LEMMA BlockJoins ==
  ASSUME HeapInv, NEW size \in Nat, NEW holds, DOMAIN holds \subseteq 0 .. size - 1,
         Request(size), Fits(size),
         DOMAIN memory' = 1 .. TopAddress,
         \A a \in 1 .. TopAddress : a < heap_ptr => memory'[a] = memory[a],
         \A o \in DOMAIN holds : memory'[heap_ptr + o] = holds[o],
         blocks' = blocks \cup {New(size, holds)}, UNCHANGED copying
  PROVE  HeapInv'
<1>. DEFINE fresh == New(size, holds)
<1>1. /\ Placed(fresh, base', heap_ptr')
      /\ \A b \in blocks : Placed(b, base', heap_ptr') /\ Apart(b, fresh)
      /\ Accounts' /\ copying = {}
  BY HandedOut
<1>2. ASSUME NEW b \in blocks PROVE Holds(b)'
  <2>1. Placed(b, base, heap_ptr) /\ Holds(b)
    BY DEF HeapInv, BlocksInv
  <2>2. heap_ptr <= TopAddress + 1 /\ heap_ptr \in Nat /\ base \in Nat
    BY SizesAreNat DEF HeapInv, Accounts
  <2>3. base # 0
    BY <2>1, <2>2 DEF HeapInv, Accounts, NULL, Placed
  <2>4. ASSUME NEW o \in DOMAIN b.holds PROVE memory'[b.at + o] = b.holds[o]
    <3>1. b.at + o \in 1 .. TopAddress /\ b.at + o < heap_ptr
      BY <2>1, <2>2, <2>3, SizesAreNat DEF Placed
    <3>. QED BY <3>1, <2>1 DEF Holds
  <2>. QED BY <2>4 DEF Holds
<1>3. PICK f : f = fresh
  OBVIOUS
<1>4. f.at = heap_ptr /\ f.holds = holds /\ blocks' = blocks \cup {f}
  BY <1>3 DEF New
<1>5. Holds(f)'
  BY <1>4 DEF Holds
<1>6. \A b \in blocks : Apart(b, f) /\ Apart(f, b) /\ Placed(b, base', heap_ptr') /\ Holds(b)'
  BY <1>1, <1>2, <1>3 DEF Apart
<1>7. Placed(f, base', heap_ptr')
  BY <1>1, <1>3
<1>8. \A b, c \in blocks : b # c => Apart(b, c)
  BY DEF HeapInv, BlocksInv
<1>9. BlocksInv'
  BY <1>4, <1>5, <1>6, <1>7, <1>8 DEF BlocksInv
<1>. QED BY <1>1, <1>9 DEF HeapInv, CopyInv

(* A request that is not met changes no block.                              *)
LEMMA Unmet ==
  ASSUME HeapInv, NEW size \in Nat, Request(size), ~Fits(size),
         UNCHANGED <<memory, blocks, copying>>
  PROVE  HeapInv'
<1>1. Accounts' /\ UNCHANGED <<base, heap_ptr>>
  BY AccountsRequest DEF Request, HeapInv
<1>. QED BY <1>1 DEF HeapInv, BlocksInv, CopyInv, Placed, Holds, Apart

(* What is written apart from a block leaves it as it is.                   *)
LEMMA WrittenApart ==
  ASSUME HeapInv, NEW b, NEW a \in Int, NEW v,
         Placed(b, base, heap_ptr), Holds(b), a \notin CharsOf(b),
         memory' = [memory EXCEPT ![a] = v]
  PROVE  Holds(b)'
<1>1. base # 0 /\ base \in Nat /\ heap_ptr \in Nat /\ heap_ptr <= TopAddress + 1
  BY SizesAreNat DEF HeapInv, Accounts, Placed, NULL
<1>2. ASSUME NEW o \in DOMAIN b.holds PROVE memory'[b.at + o] = b.holds[o]
  <2>1. b.at + o \in CharsOf(b) /\ b.at + o \in 1 .. TopAddress
    BY <1>1, SizesAreNat DEF Placed, CharsOf
  <2>2. memory'[b.at + o] = memory[b.at + o]
    BY <2>1 DEF HeapInv
  <2>. QED BY <2>2 DEF Holds
<1>. QED BY <1>2 DEF Holds

LEMMA InvMalloc == ASSUME HeapInv, Malloc \/ ReallocNull PROVE HeapInv'
<1>1. PICK size \in Sizes :
        /\ Request(size)
        /\ blocks' = IF Fits(size) THEN blocks \cup {New(size, <<>>)} ELSE blocks
        /\ UNCHANGED <<memory, copying>>
  BY DEF Malloc, ReallocNull
<1>2. size \in Nat /\ DOMAIN <<>> = {}
  BY SizesAreNat
<1>3. CASE Fits(size)
  <2>. DEFINE nothing == <<>>
  <2>1. DOMAIN nothing = {} /\ blocks' = blocks \cup {New(size, nothing)}
    BY <1>1, <1>2, <1>3
  <2>. HIDE DEF nothing
  <2>. QED BY <1>1, <1>2, <1>3, <2>1, BlockJoins DEF HeapInv
<1>. QED BY <1>1, <1>2, <1>3, Unmet

LEMMA InvCalloc == ASSUME HeapInv, Calloc PROVE HeapInv'
<1>1. PICK nmemb \in Sizes, size \in Sizes :
        LET bytes == nmemb * size
            fresh == heap_ptr .. heap_ptr + bytes - 1
        IN  /\ Request(bytes)
            /\ IF Fits(bytes)
               THEN /\ memory' = [a \in DOMAIN memory |-> IF a \in fresh THEN 0 ELSE memory[a]]
                    /\ blocks' = blocks \cup {New(bytes, [o \in 0 .. bytes - 1 |-> 0])}
               ELSE UNCHANGED <<memory, blocks>>
            /\ UNCHANGED copying
  BY DEF Calloc
<1>2. PICK bytes \in Nat : bytes = nmemb * size
  BY SizesAreNat
<1>3. CASE Fits(bytes)
  <2>. DEFINE zeros == [o \in 0 .. bytes - 1 |-> 0]
  <2>1. /\ memory' = [a \in 1 .. TopAddress |-> IF a \in heap_ptr .. heap_ptr + bytes - 1 THEN 0 ELSE memory[a]]
        /\ blocks' = blocks \cup {New(bytes, zeros)} /\ UNCHANGED copying /\ Request(bytes)
    BY <1>1, <1>2, <1>3 DEF HeapInv
  <2>2. heap_ptr \in Nat \ {0} /\ heap_ptr + bytes <= TopAddress + 1
    BY <1>3, SizesAreNat DEF HeapInv, Accounts, Fits, NULL
  <2>3. \A o \in 0 .. bytes - 1 : memory'[heap_ptr + o] = 0
    <3>1. ASSUME NEW o \in 0 .. bytes - 1
          PROVE  heap_ptr + o \in 1 .. TopAddress /\ heap_ptr + o \in heap_ptr .. heap_ptr + bytes - 1
      BY <2>2, SizesAreNat
    <3>. QED BY <3>1, <2>1
  <2>4. \A a \in 1 .. TopAddress : a < heap_ptr => memory'[a] = memory[a]
    BY <2>1, <2>2, SizesAreNat
  <2>5. DOMAIN zeros = 0 .. bytes - 1 /\ \A o \in DOMAIN zeros : memory'[heap_ptr + o] = zeros[o]
    BY <2>3
  <2>6. DOMAIN memory' = 1 .. TopAddress
    BY <2>1
  <2>. HIDE DEF zeros
  <2>. QED BY <2>1, <2>4, <2>5, <2>6, <1>3, BlockJoins
<1>. QED BY <1>1, <1>2, <1>3, Unmet

(* The new block lies above the old one and all others.                     *)
LEMMA InvRealloc == ASSUME HeapInv, Realloc PROVE HeapInv'
<1>1. PICK b \in blocks, size \in Sizes :
        /\ Request(size)
        /\ IF Fits(size)
           THEN /\ copying' = {[old |-> b, new |-> New(size, <<>>), done |-> 0]}
                /\ blocks' = blocks \ {b}
           ELSE UNCHANGED <<copying, blocks>>
        /\ UNCHANGED memory
  BY DEF Realloc
<1>2. size \in Nat
  BY SizesAreNat
<1>3. CASE Fits(size)
  <2>1. PICK nothing : nothing = <<>> /\ DOMAIN nothing = {}
    OBVIOUS
  <2>2. PICK f : f = New(size, nothing)
    OBVIOUS
  <2>3. /\ Placed(f, base', heap_ptr')
        /\ \A x \in blocks : Placed(x, base', heap_ptr') /\ Apart(x, f)
        /\ Accounts'
    BY <1>1, <1>2, <1>3, <2>1, <2>2, HandedOut
  <2>4. f.at = heap_ptr /\ f.holds = <<>> /\ base' = base /\ base \in Nat
    BY <1>1, <2>1, <2>2 DEF New, Request, HeapInv, Accounts
  <2>5. \A x \in blocks : Holds(x)'
    BY <1>1 DEF HeapInv, BlocksInv, Holds
  <2>6. BlocksInv'
    BY <1>1, <1>3, <2>3, <2>5 DEF HeapInv, BlocksInv
  <2>7. copying' = {[old |-> b, new |-> f, done |-> 0]}
    BY <1>1, <1>3, <2>1, <2>2
  <2>8. Placed(b, base', f.at)
    BY <2>4 DEF HeapInv, BlocksInv
  <2>9. 0 \in 0 .. f.size /\ \A o \in DOMAIN b.holds : ~(o < 0)
    BY <2>3, <2>8 DEF Placed
  <2>10. CopyInv'
    <3>1. ASSUME NEW c \in copying'
          PROVE  c.old = b /\ c.new = f /\ c.done = 0
                 /\ c = [old |-> c.old, new |-> c.new, done |-> c.done]
      BY <2>7
    <3>2. \A x \in blocks' : Apart(x, f)
      BY <2>3, <1>1, <1>3
    <3>. QED BY <3>1, <3>2, <2>3, <2>4, <2>5, <2>8, <2>9 DEF CopyInv
  <2>. QED BY <1>1, <2>3, <2>6, <2>10 DEF HeapInv
<1>. QED BY <1>1, <1>2, <1>3, Unmet

(* A char is written into the new block, apart from all others.             *)
LEMMA InvCopyChar == ASSUME HeapInv, CopyChar PROVE HeapInv'
<1>1. PICK c \in copying :
        /\ c.done < c.new.size
        /\ memory' = [memory EXCEPT ![c.new.at + c.done] = memory[c.old.at + c.done]]
        /\ copying' = {[c EXCEPT !.done = @ + 1]}
        /\ UNCHANGED <<heap_ptr, heap_end, heap_requested, calls, base, blocks, refused>>
  BY DEF CopyChar
<1>2. /\ c = [old |-> c.old, new |-> c.new, done |-> c.done] /\ c.done \in 0 .. c.new.size
      /\ Placed(c.old, base, c.new.at) /\ Placed(c.new, base, heap_ptr) /\ Holds(c.old)
      /\ c.new.holds = <<>>
      /\ \A b \in blocks : Apart(b, c.new)
      /\ \A o \in DOMAIN c.old.holds : o < c.done => memory[c.new.at + o] = c.old.holds[o]
  BY DEF HeapInv, CopyInv
<1>3. /\ c.new.at \in Nat /\ c.new.size \in Nat /\ c.done \in Nat /\ base \in Nat /\ base # 0
      /\ heap_ptr \in Nat /\ heap_ptr <= TopAddress + 1
  BY <1>2, SizesAreNat DEF HeapInv, Accounts, Placed, NULL
<1>4. c.new.at + c.done \in 1 .. TopAddress /\ c.new.at + c.done \in CharsOf(c.new)
  BY <1>1, <1>2, <1>3, SizesAreNat DEF Placed, CharsOf
<1>5. ASSUME NEW b \in blocks PROVE Placed(b, base, heap_ptr) /\ Holds(b)'
  <2>1. Placed(b, base, heap_ptr) /\ Holds(b)
    BY DEF HeapInv, BlocksInv
  <2>2. Apart(b, c.new) /\ b.at \in Nat /\ b.size \in Nat
    BY <1>2, <2>1 DEF Placed
  <2>3. c.new.at + c.done \notin CharsOf(b)
    BY <1>1, <1>3, <2>2 DEF Apart, CharsOf
  <2>4. c.new.at + c.done \in Int
    BY <1>3
  <2>. QED BY <1>1, <2>1, <2>3, <2>4, WrittenApart
<1>6. Holds(c.old)'
  <2>1. c.new.at + c.done \notin CharsOf(c.old)
    BY <1>2, <1>3, <1>4 DEF CharsOf, Placed
  <2>2. Placed(c.old, base, heap_ptr)
    BY <1>2, <1>3 DEF Placed
  <2>3. Holds(c.old)
    BY <1>2
  <2>4. c.new.at + c.done \in Int
    BY <1>3
  <2>. QED BY <1>1, <2>1, <2>2, <2>3, <2>4, WrittenApart
<1>7. ASSUME NEW o \in DOMAIN c.old.holds, o < c.done + 1
      PROVE  memory'[c.new.at + o] = c.old.holds[o]
  <2>1. o \in Nat
    BY <1>2 DEF Placed
  <2>2. CASE o = c.done
    BY <1>1, <1>2, <1>4, <2>2 DEF HeapInv, Holds
  <2>3. CASE o < c.done
    <3>1. base <= c.new.at /\ c.new.at + c.new.size <= heap_ptr
      BY <1>2 DEF Placed
    <3>2. c.new.at + o \in 1 .. TopAddress /\ c.new.at + o # c.new.at + c.done
      BY <1>1, <1>3, <2>1, <2>3, <3>1, SizesAreNat
    <3>3. memory'[c.new.at + o] = memory[c.new.at + o]
      BY <1>1, <3>2 DEF HeapInv
    <3>. QED BY <1>2, <2>3, <3>3
  <2>. QED BY <1>7, <1>3, <2>1, <2>2, <2>3
<1>8. ASSUME NEW d \in copying'
      PROVE  d.old = c.old /\ d.new = c.new /\ d.done = c.done + 1
             /\ d = [old |-> d.old, new |-> d.new, done |-> d.done]
  BY <1>1, <1>2
<1>9. c.done + 1 \in 0 .. c.new.size
  BY <1>1, <1>3
<1>10. CopyInv'
  BY <1>1, <1>2, <1>6, <1>7, <1>8, <1>9 DEF CopyInv
<1>11. Accounts' /\ DOMAIN memory' = 1 .. TopAddress
  BY <1>1, AccountsStep DEF HeapInv, HeapNext
<1>12. BlocksInv'
  BY <1>1, <1>5 DEF HeapInv, BlocksInv
<1>. QED BY <1>10, <1>11, <1>12 DEF HeapInv

(* The loop is through: what the client knew of the old block is in the new *)
(* one, as far as that goes.                                                *)
LEMMA InvReallocReturns == ASSUME HeapInv, ReallocReturns PROVE HeapInv'
<1>1. PICK c \in copying :
        /\ c.done = c.new.size
        /\ copying' = {}
        /\ blocks' = blocks \cup {[c.new EXCEPT !.holds = Kept(c.old, c.new.size)]}
        /\ UNCHANGED <<heap_ptr, heap_end, heap_requested, memory, calls, base, refused>>
  BY DEF ReallocReturns
<1>2. /\ Placed(c.new, base, heap_ptr) /\ Placed(c.old, base, c.new.at)
      /\ \A b \in blocks : Apart(b, c.new)
      /\ \A o \in DOMAIN c.old.holds : o < c.done => memory[c.new.at + o] = c.old.holds[o]
  BY DEF HeapInv, CopyInv
<1>3. PICK k : k = Kept(c.old, c.new.size)
  OBVIOUS
<1>4. PICK f : f = [c.new EXCEPT !.holds = k]
  OBVIOUS
<1>5. /\ DOMAIN k = {x \in DOMAIN c.old.holds : x < c.new.size}
      /\ \A o \in DOMAIN k : k[o] = c.old.holds[o]
  BY <1>3 DEF Kept
<1>6. f = [at |-> c.new.at, size |-> c.new.size, holds |-> k]
  BY <1>2, <1>4 DEF Placed
<1>7. f.at = c.new.at /\ f.size = c.new.size /\ f.holds = k
  BY <1>6
<1>8. DOMAIN k \subseteq 0 .. f.size - 1
  BY <1>2, <1>5, <1>7 DEF Placed
<1>9. Placed(f, base, heap_ptr)
  BY <1>2, <1>6, <1>7, <1>8 DEF Placed
<1>10. Holds(f)
  BY <1>1, <1>2, <1>5, <1>7 DEF Holds
<1>11. \A b \in blocks : Apart(b, f) /\ Apart(f, b)
  BY <1>2, <1>7 DEF Apart
<1>12. blocks' = blocks \cup {f}
  BY <1>1, <1>3, <1>4
<1>13. Accounts'
  BY <1>1, AccountsStep DEF HeapInv, HeapNext
<1>14. BlocksInv'
  BY <1>1, <1>9, <1>10, <1>11, <1>12 DEF HeapInv, BlocksInv, Holds
<1>. QED BY <1>1, <1>13, <1>14 DEF HeapInv, CopyInv

LEMMA InvClientWrite == ASSUME HeapInv, ClientWrite PROVE HeapInv'
<1>1. PICK b \in blocks, v \in Chars : \E o \in 0 .. b.size - 1 :
        /\ copying = {}
        /\ memory' = [memory EXCEPT ![b.at + o] = v]
        /\ blocks' = (blocks \ {b}) \cup
                     {[b EXCEPT !.holds = [x \in DOMAIN @ \cup {o} |-> IF x = o THEN v ELSE @[x]]]}
        /\ UNCHANGED <<heap_ptr, heap_end, heap_requested, copying, calls, base, refused>>
  BY DEF ClientWrite, Idle
<1>2. PICK o \in 0 .. b.size - 1 :
        /\ copying = {}
        /\ memory' = [memory EXCEPT ![b.at + o] = v]
        /\ blocks' = (blocks \ {b}) \cup
                     {[b EXCEPT !.holds = [x \in DOMAIN b.holds \cup {o} |-> IF x = o THEN v ELSE b.holds[x]]]}
        /\ UNCHANGED <<heap_ptr, heap_end, heap_requested, copying, calls, base, refused>>
  BY <1>1
<1>3. Placed(b, base, heap_ptr) /\ Holds(b)
  BY DEF HeapInv, BlocksInv
<1>4. PICK k : k = [x \in DOMAIN b.holds \cup {o} |-> IF x = o THEN v ELSE b.holds[x]]
  OBVIOUS
<1>5. PICK f : f = [b EXCEPT !.holds = k]
  OBVIOUS
<1>6. f = [at |-> b.at, size |-> b.size, holds |-> k]
  BY <1>3, <1>5 DEF Placed
<1>7. f.at = b.at /\ f.size = b.size /\ f.holds = k /\ DOMAIN k = DOMAIN b.holds \cup {o}
  BY <1>4, <1>6
<1>8. Placed(f, base, heap_ptr)
  BY <1>3, <1>6, <1>7 DEF Placed
<1>9. base \in Nat /\ base # 0 /\ heap_ptr \in Nat /\ heap_ptr <= TopAddress + 1
  BY <1>3, SizesAreNat DEF HeapInv, Accounts, Placed, NULL
<1>10. Holds(f)'
  <2>1. ASSUME NEW x \in DOMAIN k PROVE memory'[b.at + x] = k[x]
    <3>1. x \in 0 .. b.size - 1 /\ b.at + x \in 1 .. TopAddress
      BY <1>3, <1>7, <1>9, SizesAreNat DEF Placed
    <3>2. CASE x = o
      BY <1>2, <1>4, <3>1, <3>2 DEF HeapInv
    <3>3. CASE x # o
      <4>1. x \in DOMAIN b.holds /\ k[x] = b.holds[x]
        BY <1>4, <1>7, <3>3
      <4>2. b.at + x # b.at + o
        BY <3>1, <3>3, <1>3 DEF Placed
      <4>. QED BY <1>2, <1>3, <3>1, <4>1, <4>2 DEF HeapInv, Holds
    <3>. QED BY <3>2, <3>3
  <2>. QED BY <1>7, <2>1 DEF Holds
<1>11. ASSUME NEW c \in blocks, c # b
       PROVE  Placed(c, base, heap_ptr) /\ Holds(c)' /\ Apart(c, f) /\ Apart(f, c)
  <2>1. Placed(c, base, heap_ptr) /\ Holds(c) /\ Apart(b, c) /\ Apart(c, b)
    BY <1>11 DEF HeapInv, BlocksInv
  <2>2. b.at + o \notin CharsOf(c) /\ b.at + o \in Int
    BY <1>3, <2>1 DEF Apart, CharsOf, Placed
  <2>3. Holds(c)'
    BY <1>2, <2>1, <2>2, WrittenApart
  <2>. QED BY <2>1, <2>3, <1>7 DEF Apart
<1>12. blocks' = (blocks \ {b}) \cup {f}
  BY <1>2, <1>4, <1>5
<1>13. BlocksInv'
  <2>1. \A c, d \in blocks : c # d => Apart(c, d)
    BY DEF HeapInv, BlocksInv
  <2>. QED BY <1>2, <1>8, <1>10, <1>11, <1>12, <2>1 DEF BlocksInv
<1>14. Accounts' /\ DOMAIN memory' = 1 .. TopAddress
  BY <1>2, AccountsStep DEF HeapInv, HeapNext
<1>. QED BY <1>2, <1>13, <1>14 DEF HeapInv, CopyInv

LEMMA InvStep == HeapInv /\ [HeapNext]_heapVars => HeapInv'
<1>. SUFFICES ASSUME HeapInv, [HeapNext]_heapVars PROVE HeapInv'
  OBVIOUS
<1>1. ASSUME InitHeap PROVE HeapInv'
  <2>1. Accounts'
    BY <1>1, AccountsStep DEF HeapInv, HeapNext
  <2>. QED BY <1>1, <2>1 DEF InitHeap, Idle, HeapInv, BlocksInv, CopyInv
<1>2. ASSUME Free PROVE HeapInv'
  <2>1. Accounts'
    BY <1>2, AccountsStep DEF HeapInv, HeapNext
  <2>. QED BY <1>2, <2>1 DEF Free, Idle, HeapInv, BlocksInv, CopyInv, Holds
<1>3. ASSUME UNCHANGED heapVars PROVE HeapInv'
  BY <1>3 DEF heapVars, HeapInv, Accounts, BlocksInv, CopyInv, Holds
<1>. QED BY <1>1, <1>2, <1>3, InvMalloc, InvCalloc, InvRealloc, InvCopyChar, InvReallocReturns,
            InvClientWrite DEF HeapNext

LEMMA HeapInvariant == HeapSpec => []HeapInv
BY InvInit, InvStep, PTL DEF HeapSpec

(* Blocks lie in the heap and have no char in common (beebsc.c:90-159),     *)
(* whatever is allocated, reallocated and freed, in every order.            *)
THEOREM BlocksAreDisjoint == HeapSpec => []BlocksDisjoint
<1>1. ASSUME HeapInv PROVE BlocksDisjoint
  <2>1. ASSUME NEW b \in blocks PROVE CharsOf(b) \subseteq base .. heap_end - 1
    BY <1>1 DEF HeapInv, BlocksInv, Placed, CharsOf, Accounts
  <2>2. ASSUME NEW b \in blocks, NEW c \in blocks, b # c PROVE CharsOf(b) \cap CharsOf(c) = {}
    BY <1>1, <2>2 DEF HeapInv, BlocksInv, Placed, Apart, CharsOf
  <2>. QED BY <2>1, <2>2 DEF BlocksDisjoint
<1>. QED BY <1>1, HeapInvariant, PTL

(* A block holds what was written into it, calloc_beebs cleared or          *)
(* realloc_beebs copied (beebsc.c:119-120, 149-155).                        *)
THEOREM ContentsAreKept == HeapSpec => []ContentsKept
<1>1. HeapInv => ContentsKept
  BY DEF HeapInv, BlocksInv, ContentsKept, Holds
<1>. QED BY <1>1, HeapInvariant, PTL

(* "it must be big enough" (beebsc.c:144-155): the old block ends where the *)
(* new one begins at the latest, so as many chars as the new one has are    *)
(* left in the heap after its start.                                        *)
THEOREM ReadsAreInHeap == HeapSpec => []ReadsInHeap
<1>1. ASSUME HeapInv PROVE ReadsInHeap
  <2>1. ASSUME NEW c \in copying, NEW o \in 0 .. c.new.size - 1
        PROVE  c.old.at + o \in base .. heap_end - 1
    <3>1. Placed(c.old, base, c.new.at) /\ Placed(c.new, base, heap_ptr)
          /\ heap_ptr <= heap_end /\ heap_ptr \in Nat /\ heap_end \in Nat /\ base \in Nat
      BY <1>1 DEF HeapInv, CopyInv, Accounts
    <3>. QED BY <3>1 DEF Placed
  <2>. QED BY <2>1 DEF ReadsInHeap
<1>. QED BY <1>1, HeapInvariant, PTL

-----------------------------------------------------------------------------
(* Group g holds what group rounds - g held when it has been swapped: when  *)
(* it is one of the first t groups or one of the last t groups.             *)
Mirrored(t, g) == g < t \/ g > rounds - t

GroupsAt(t) ==
  \A g \in 0 .. rounds, k \in 0 .. 3 :
    dst[4 * g + k] = IF Mirrored(t, g) THEN src[4 * (rounds - g) + k] ELSE src[4 * g + k]

ReversalInv ==
  /\ rounds \in Nat /\ 0 .. 4 * rounds + 3 \subseteq Index
  /\ \E t \in Nat :
       /\ i = 4 * t /\ j = 4 * (rounds - t) /\ 2 * t <= rounds + 1
       /\ GroupsAt(t)

LEMMA InitReversed == ReversalInit => ReversalInv
  <1> SUFFICES ASSUME ReversalInit PROVE ReversalInv
    OBVIOUS
  <1>1. rounds \in Nat /\ i = 4 * 0 /\ j = 4 * (rounds - 0) /\ 2 * 0 <= rounds + 1
    BY DEF ReversalInit
  <1>2. GroupsAt(0)
    BY <1>1 DEF ReversalInit, GroupsAt, Mirrored
  <1> QED BY <1>1, <1>2 DEF ReversalInit, ReversalInv

(* A swap leaves every word but those of the two groups alone.              *)
LEMMA SwapReversed == ReversalInv /\ SwapGroup => ReversalInv'
  <1> SUFFICES ASSUME ReversalInv, SwapGroup PROVE ReversalInv'
    OBVIOUS
  <1>1. PICK t \in Nat :
          i = 4 * t /\ j = 4 * (rounds - t) /\ 2 * t <= rounds + 1 /\ GroupsAt(t)
    BY DEF ReversalInv
  <1>2. rounds \in Nat /\ rounds' = rounds /\ src' = src /\ i < j
        /\ 0 .. 4 * rounds + 3 \subseteq Index
    BY DEF ReversalInv, SwapGroup
  <1>3. i' = 4 * (t + 1) /\ j' = 4 * (rounds - (t + 1)) /\ 2 * (t + 1) <= rounds + 1
    BY <1>1, <1>2 DEF SwapGroup
  <1>4. ASSUME NEW g \in 0 .. rounds, NEW k \in 0 .. 3
        PROVE  dst'[4 * g + k] = IF Mirrored(t + 1, g) THEN src[4 * (rounds - g) + k]
                                                       ELSE src[4 * g + k]
    <2>1. /\ 4 * g + k \in Index
          /\ dst'[4 * g + k] =
               IF 4 * g + k \in i .. i + 3 THEN dst[j + ((4 * g + k) - i)]
               ELSE IF 4 * g + k \in j .. j + 3 THEN dst[i + ((4 * g + k) - j)]
               ELSE dst[4 * g + k]
      BY <1>2 DEF SwapGroup, Swapped
    <2>2. CASE g = t
      <3>1. 4 * g + k \in i .. i + 3 /\ j + ((4 * g + k) - i) = 4 * (rounds - t) + k
        BY <1>1, <1>2, <2>2
      <3>2. rounds - t \in 0 .. rounds /\ ~Mirrored(t, rounds - t) /\ Mirrored(t + 1, g)
        BY <1>1, <1>2, <2>2 DEF Mirrored
      <3>3. dst[4 * (rounds - t) + k] = src[4 * (rounds - t) + k]
        BY <1>1, <3>2 DEF GroupsAt
      <3> QED BY <2>1, <2>2, <3>1, <3>2, <3>3
    <2>3. CASE g = rounds - t
      <3>1. /\ 4 * g + k \notin i .. i + 3 /\ 4 * g + k \in j .. j + 3
            /\ i + ((4 * g + k) - j) = 4 * t + k
        BY <1>1, <1>2, <2>3
      <3>2. t \in 0 .. rounds /\ ~Mirrored(t, t) /\ Mirrored(t + 1, g) /\ rounds - g = t
        BY <1>1, <1>2, <2>3 DEF Mirrored
      <3>3. dst[4 * t + k] = src[4 * t + k]
        BY <1>1, <3>2 DEF GroupsAt
      <3> QED BY <2>1, <2>3, <3>1, <3>2, <3>3
    <2>4. CASE g # t /\ g # rounds - t
      <3>1. 4 * g + k \notin i .. i + 3 /\ 4 * g + k \notin j .. j + 3
        BY <1>1, <1>2, <2>4
      <3>2. Mirrored(t + 1, g) <=> Mirrored(t, g)
        BY <1>1, <1>2, <2>4 DEF Mirrored
      <3>3. dst[4 * g + k] = IF Mirrored(t, g) THEN src[4 * (rounds - g) + k] ELSE src[4 * g + k]
        BY <1>1 DEF GroupsAt
      <3> QED BY <2>1, <3>1, <3>2, <3>3
    <2> QED BY <2>2, <2>3, <2>4
  <1>5. GroupsAt(t + 1)'
    BY <1>2, <1>4 DEF GroupsAt, Mirrored
  <1> QED BY <1>2, <1>3, <1>5 DEF ReversalInv

LEMMA ReversedAtEnd == ReversalInv => GroupsReversed
  <1> SUFFICES ASSUME ReversalInv, i >= j, NEW g \in 0 .. rounds, NEW k \in 0 .. 3
               PROVE  dst[4 * g + k] = src[rounds * 4 - 4 * g + k]
    BY DEF GroupsReversed, Groups, Copied
  <1>1. PICK t \in Nat :
          i = 4 * t /\ j = 4 * (rounds - t) /\ 2 * t <= rounds + 1 /\ GroupsAt(t)
    BY DEF ReversalInv
  <1>2. rounds \in Nat /\ 4 * (rounds - g) + k = rounds * 4 - 4 * g + k
    BY DEF ReversalInv
  <1>3. Mirrored(t, g) \/ rounds - g = g
    BY <1>1, <1>2 DEF Mirrored
  <1>4. dst[4 * g + k] = IF Mirrored(t, g) THEN src[4 * (rounds - g) + k] ELSE src[4 * g + k]
    BY <1>1 DEF GroupsAt
  <1> QED BY <1>2, <1>3, <1>4

(* Reversing in place ends with what copying in the opposite order gives,   *)
(* for every number of rounds (nettle-aes.c:881-898).                       *)
THEOREM InPlaceIsCopied == ReversalSpec => []GroupsReversed
  <1>1. ReversalInv /\ UNCHANGED reversalVars => ReversalInv'
    BY DEF ReversalInv, GroupsAt, Mirrored, reversalVars
  <1> QED BY InitReversed, SwapReversed, ReversedAtEnd, <1>1, PTL DEF ReversalSpec

-----------------------------------------------------------------------------
(* Fib: a, b and y are the numbers of Fibonacci that i counts.              *)
FibInv ==
  fib \in { [a |-> 0,  b |-> 1,  i |-> 1,  y |-> 0],  [a |-> 1,  b |-> 1,  i |-> 2, y |-> 1],
            [a |-> 1,  b |-> 2,  i |-> 3,  y |-> 2],  [a |-> 2,  b |-> 3,  i |-> 4, y |-> 3],
            [a |-> 3,  b |-> 5,  i |-> 5,  y |-> 5],  [a |-> 5,  b |-> 8,  i |-> 6, y |-> 8],
            [a |-> 8,  b |-> 13, i |-> 7,  y |-> 13], [a |-> 13, b |-> 21, i |-> 8, y |-> 21],
            [a |-> 21, b |-> 34, i |-> 9,  y |-> 34], [a |-> 34, b |-> 55, i |-> 10, y |-> 55] }

(* fib.c:8-13: when the loop ends y is F10.                                 *)
THEOREM LoopEndsAtF10 == FibSpec => []FibIsF10
<1>1. FibInit => FibInv
  BY DEF FibInit, FibInv
<1>2. FibInv /\ [FibTurn]_fib => FibInv'
  BY DEF FibInv, FibTurn, FibMore
<1>3. FibInv => FibIsF10
  BY DEF FibInv, FibIsF10, FibMore
<1>. QED BY <1>1, <1>2, <1>3, PTL DEF FibSpec
=============================================================================
