# A verification project for ibex_wb

ibex_wb puts the RISC-V core Ibex and its debug module on a pipelined Wishbone
bus and builds a small system on chip from them. This directory models the part
of it that is the repository's own logic - the protocol converters, the
interconnect, the slaves, the JTAG driver and the reset generator of the
simulations, and the programs that run on the core - in TLA+, checks the models
with TLC and proves the main results with TLAPS.

Run a check with `tlc -config <cfg> <module>`, for example
`tlc -config SharedBus.cfg MCSharedBus`, and a proof with `tlapm <module>`.

## 1. The system

| Component (source) | State it keeps | What it does |
|---|---|---|
| `core2wb` (`rtl/core2wb.sv`) | `counts`, signed | Core memory port to Wishbone master: request/grant to CYC, STB, STALL; ACK or ERR to rvalid. |
| `wb2core` (`rtl/wb2core.sv`) | `resp` | Wishbone slave to core memory port, for the debug module. |
| Shared bus (`soc/common/rtl/wb_interconnect_sharedbus.sv`) | `gnt1`, `ss1` | Priority arbiter, range decoder, response routing by the registered grant and select. |
| Crossbar wrapper (`soc/common/rtl/wb_interconnect_xbar.sv`) | none of its own | Turns base and size into address and mask for `wbxbar` (submodule wb2axip, absent). |
| RAM (`wb_spramx32.sv`, `spramx32.sv`) | `mem`, `q`, `ack` | Byte writes; reads sampled at the grant. |
| LED (`wb_led.sv`) | `led`, `ack` | One word register; reads sampled at the answer. |
| SoC (`ibex_soc.sv`) | - | 3 masters (0 debugger's system bus access, 1 data, 2 instructions), 3 slaves (0 debug module, 1 RAM, 2 LED), memory map, reset. |
| `wb_ibex_top`, `wb_dm_top` | - | Wire `ibex_top` and `dm_top` (submodules, absent) to converters. |
| JTAG driver (`sim/debug/src`) | driver state, counters, queue | Open loop through the TAP states, scans a queue of transactions; loop makes the clock and pops the queue. |
| Default simulation (`sim/default/src`) | time | Clock and reset pulse only. |
| Clock and reset generator (`crg.sv`, `clkgen_50mhz.sv`, `sync_reset.sv`) | `clk`, `q` | Halves the clock; asynchronous assertion, synchronous release of reset. |
| Start-up code (`sw/*/crt0.S`, `link.ld`) | registers, memory | Clears BSS before `main`. |
| LED and Fibonacci programs (`sw/led`, `sw/fib`) | locals, the LED register | Increment the LED once a second; F10. |
| Benchmark frame (`sw/crc_32/main.c`, the same in `sw/nettle-aes`) | result, `correct` | Warm caches, run the body, verify. |
| CRC benchmark (`sw/crc_32/crc_32.c`) | `seed`, checksum | 1024 random octets through the table-driven CRC. |
| AES benchmark (`sw/nettle-aes/nettle-aes.c`) | two key schedules, three texts | Key expansion, encryption, key inversion, decryption. |
| BEEBS library (`sw/*/beebsc.c`) | `seed`; heap pointer, `heap_requested` | Random numbers; a heap that is never given back. |
| Checker and formal testbenches (`wb_checker.sv`, `fv/`) | - | Assertions and assumptions on the buses. |

How they interact: cores and debug module request through `core2wb`; the
interconnect connects one master per cycle to the slave its address selects;
the slave acknowledges one clock later, while another master may already hold
the bus; the answer is routed by what the interconnect registered. There is no
call, message queue or callback in the hardware - everything happens at a
common clock edge, and the difficulty is in what overlaps: the request of one
cycle with the answer to an earlier one, several masters, resets in between. In
the debug simulation the program and the TAP see each other only through TCK,
TMS and TDI. Software is sequential: start-up code calls `main`, `main` calls
the benchmark; the only other actor is the debugger, which reads and writes the
same addresses through the debug module's own port, between any two accesses of
the program.

What is hard, and what must hold:

* **Counting.** A transfer granted in the cycle in which another is
  acknowledged, preemption, back-to-back transfers, the width of the counter:
  `counts` must equal what is outstanding, or CYC is dropped early (an answer is
  lost) or never (the bus is lost).
* **Routing.** `gnt1` and `ss1` are right only if every answer comes exactly one
  cycle after its request. Answers must reach the owner, from the right slave.
* **Sampling.** The RAM and the LED sample reads in different cycles, with other
  masters' writes in between; together they must still be a memory.
* **STALL and hold.** What waits under STALL must not change; a slave must
  perform exactly what the master saw accepted.
* **Errors, unmapped addresses, slow slaves.** The code assumes them away; the
  assumptions must be known.
* **Open-loop JTAG.** The driver never looks at the TAP, and must know its state;
  and it must not start while the SoC is still in reset, which ends two edges of
  a slower clock after the pin.
* **Read, add, write.** The LED program's increment is a load and a store.
* **Optimised ciphers.** The AES code fuses substitution, row shift and column
  mixing into tables of words, orders the words of a round differently for both
  directions, reverses the subkeys in place and multiplies most of them. Each
  is right only together with the others, and the program tests one key size.
* **Edges of arithmetic.** A delay of zero turns, a seed that must be back at its
  start for each iteration, a 32-bit checksum shifted by octets, a heap bound.

PROJECT.json lists each hazard at its line, with the properties that cover it.

## 2. The modules

```
ConverterLogic     wires and next-state functions of both converters
  Core2Wb          core2wb with its core and bus peer    implements MemPort
  Wb2Core          wb2core with its master and slave
  SharedBus        interconnect + core2wb per master + slaves' handshake
    IbexSoc        SharedBus + RAM, LED, debug module    implements SharedMemory
      SocPorts     the converters inside it              implements Core2Wb, Wb2Core
AddressDecode      range decoder, used by SharedBus and
  AddressMap       against the crossbar's mask decoder
Crg                clock and reset generator
  JtagDriver       both simulations: loop, queue, driver, TAP, Crg
Programs           the reset vector, then one of the programs
  Crt0             the BSS loop
  Fib              the loop of fib.c
  LedProgram       the LED loop and the debugger
  Crc32, Aes       the benchmarks, with
    Embench        main.c
    Words, Crc32Table, AesData, Rijndael     bit vectors and the tables
    KeyReversal    the swaps of the subkeys
                                              Aes implements Fips197
  BeebsHeap        the heap and a client
MemPort, SharedMemory, Fips197            abstract specifications
MCCore2Wb, MCWb2Core, MCSharedBus, MCIbexSoc, MCJtagDriver, MCPrograms
                                          TLC instances
Basics                                    facts about numbers, induction, recursion
Core2WbProofs, Wb2CoreProofs, IbexSocProofs, AddressMapProofs, JtagProofs,
ProgramProofs, BenchmarkProofs            proofs
```

**Hardware convention.** In the hardware modules a state is one clock cycle: the
registers and the inputs in that cycle. Combinational outputs are operators of
the state, named like the wires. A step is a rising edge: `Tick` gives every
register its next value (one conjunct `...Edge` per register) and lets the
environment choose the next inputs (`...Drive(s)`); `Reset` is a cycle with reset
asserted, possible at any time. An SVA `a |=> b` is `[][a => b']_vars`. A bit
vector is the set of its indices. Reset is asynchronous in the code; here it
takes effect at the next cycle boundary, before or after the edge where that
makes a difference (the RAM, which has no reset).

**Core2Wb.** Register `counts` (`core2wb.sv:36-43`), outputs `gnt`, `cyc`, `stb`,
`rvalid`, `BusCommand` (`:17-34`, `:45`). The core and the bus peer do what the
assumptions of `fv/core2wb/fv_core2wb.sv` allow; the peer also answers only what
it accepted, in order, at a later edge, and stalls at `MaxOwed` outstanding. `owed`
is the peer's queue. `ErrAnswers` lets it answer with ERR. `MemPort` is what the
comments on the ports of `wb_ibex_top.sv:193-211` promise the core: the mapping
takes the granted request from the core's lines and the queue from the bus
commands, so it also says that commands are translated and not reordered. A
reset is visible in `MemPort`; otherwise any lost transaction could pass for one.

**Wb2Core.** Register `resp`; the slave grants, answers in order, and drives
anything on rvalid while it owes nothing (`wb_dm_top.sv:86` ties it to 1). The
master may drop CYC at any time it is not stalled. `Prompt` says that the slave
answers in the cycle after its grant.

**SharedBus.** Registers `counts` per master, `gnt1`, `ss1`, and the acknowledge of
each slave; wires `cyc`, `gnt`, `stb`, `ss`, `stall`, `wbm_ack`, ... as in the source. A
master asks at will, holds its request until the grant, and waits with at most
`MaxOutstanding` answers open. A slave in `Stallable` may stall, while unaddressed
only with `StallIdle`. `owed` is history, for the properties. No slave of the SoC
drives ERR (`wb_spramx32.sv:42`, `wb_led.sv:27`, `wb_dm_top.sv:87`), so the wires of
err are left out.

**IbexSoc.** Adds `mem`, `q` and `led`. `SharedMemory` is the abstract promise: an
access happens at once in the cycle of its grant, its answer is fixed then and
arrives later; a reset drops answers and clears the LED. The mapping gives each
port the answer the bus *will* show (`wbm_dat`), so a change between grant and
answer is a violation. `MapStored` and `MapFound` state the memory map in terms of
addresses, independently of the slaves' own address bits. The debug module's
memory is external; its reads are `NoData`.

**SocPorts.** Puts the two converters back into the SoC. `Converter` is `Core2Wb` with
the lines of the master `Watched` and the answers the interconnect routes to it,
`Bridge` is `Wb2Core` with the shared lines of the bus and the debug module's select.
`ComponentsFit` says that `IbexSoc` implements both specifications: the assumptions of
the formal testbenches, under which each converter is verified alone, are guarantees
of the rest of the SoC.

**AddressMap.** A state is a region and an address; both decoders are evaluated on
it. A mask is the number that the wrapper computes and `Bit` takes its bits, so that its
arithmetic modulo 2^`Width` is there. `wbxbar`'s compare of the masked address is external, taken from how the
wrapper parameterises it.

**JtagDriver.** A step is one iteration of the loop of `sim_main.cpp`: time, TCK,
the queue (`Feed`: front, pop, drive), the driver (`Drive`), then the TAP at a rising
edge, read with the TMS and TDI of that iteration. The TAP is the IEEE 1149.1
machine, external. A request is the sequence of its bits; `req >>= 1` shifts in a
zero. `latched` is history: what the TAP's registers were updated with. The
uninitialised members (`driver.hpp:36` sets only `rdy`) start with any value of
`StateGarbage` and `IntGarbage`, `past_tck` with either, and the TAP in any state of
`TapGarbage`. The loop starts at time 0: the reset pulse, which resets the TAP,
too, then the driver after time 100; the rising edges of TCK in between, at TMS = 0, take
the TAP to Run-Test/Idle. The loop of `sim/default` is the same
loop without driver (`IterateDefault`); `sim` says which program runs. At its end the
module states what its two properties about time ask of the constants: `InTime`,
that the last falling edge of TCK a script needs - the sum of `CyclesOf` over its
scans, `CyclesOfLast` - comes before the time limit, and `ResetInTime`, that the reset pulse leaves time for all stages of the synchronizer.
`MCJtagDriver` has TLC evaluate both for the real script and clock.

**Crg.** Part of every iteration of the loop, for the SoC's clock is made from it:
`CrgEdge` is a level of the pin `clk100mhz`; `clk` changes at its rising edges, the
synchronizer `q` shifts at the rising edges of `clk` and is cleared without clock. `q`
starts with any content.

**Programs.** `program` names the program in memory; `Crt0` runs first, one action
per instruction of its loop, addresses in words. When it has reached
`main_entry`, the steps of the loaded program follow. `RunFib` is a turn of `fib.c`'s
loop, which is the module `Fib`.

**Embench.** `main.c`, `support.h` and the iteration loop: `WarmCaches` for each of
`WARMUP_HEAT` (the makefiles define 0), the body once more, `Verify`. `busy` and `rpt` are the loops' state.

**Crc32.** A step is one octet of `rand_beebs` (`NextSeed`: the 31 bits that count, made in
half words to stay within TLC's integers) through `UPDC32`. A word is the set of its
bits. `register` is history: the serial shift register that the comments of
`crc_32.c` describe, fed the same octets. The table is a CONSTANT `crc_32_tab`;
`Crc32Table` holds the 256 entries of the source for TLC.

**Aes.** A step is a subkey, a swap of groups, a multiplied subkey, or a round; both
directions share the code as `_nettle_aes_encrypt` and `_nettle_aes_decrypt` share its
shape. `AesCalls` are the calls: the benchmark's own, and the functions used as a
library with other key sizes and lengths, since the code serves them. `Exit` is
the code's `exit (1)`. The tables of `AesData` are written as the rule that makes
them; each of their entries was compared with the literal in the source. `Fips197`
is the cipher of the standard in its own terms: columns, SubBytes, ShiftRows,
MixColumns, AddRoundKey, and the inverse cipher with the round keys of the
cipher backwards; `Rijndael` has the field arithmetic. The mapping reads a word as a
column of octets, and takes the subkeys as they were first made (`expanded`) for the
schedule, so that it is the refinement that says what inverting and mixing them is for.

**BeebsHeap.** An action per function, two for `realloc_beebs` of an old block and of
NULL, and its copying loop char by char; `check_heap_beebs` is an operator of
the state. No program allocates, so the client is an assumption: it passes only
pointers it got, writes only inside its blocks, and asks for `Sizes`. `blocks` is what it
knows: where its blocks are and which chars of them it can rely on.

**LedProgram.** A step is a bus access or a turn of the delay loop; `DebuggerWrite`
may come between any two. `usleep_ibex` computes any of `Loops`.

## 3. The runs

| Run | Checks | Bounds |
|---|---|---|
| `core2wb` | `TypeOK`, `CountsExact`, `CycFrames`, `StalledRequestHeld`, `PortRefinement`, `BusReleased` | 4 commands (reads and writes, partial and full lanes), 2 addresses, counter of 3 bits (Half = 4), at most 3 outstanding |
| `core2wb_err` (violated) | `CycFrames` with ERR answers | one command |
| `core2wb_pending` (violated) | `PendingSupported` | the real width, pending = 16 |
| `sharedbus` | `CountsExact`, `AnswerReachesOwner`, `AnswerMatchesRequest`, `AcceptedOnce`, `AnsweredNextCycle`, `ServedAfterOthers` | 3 masters, 2 slaves one of which stalls, first and last addresses of their regions, MaxOutstanding = 2 |
| `sharedbus_unmapped` (violated) | `EveryStbAnswered` | 2 masters, one mapped and one unmapped address |
| `ibex_soc` | `SocTypeOK`, `AtomicMemory`, `ComponentsFit` | the data port's converter and the debug module's bridge are looked at; 3 masters, 3 slaves, 2 lanes, 2 words of RAM, 2 words of LED region, two byte values; the debugger writes, the data port reads and writes, the instruction port reads |
| `wb2core` | `AnswersOwner` | 3 commands, a slave that owes at most 2 answers |
| `address_map` | `InterchangeableIffPlain` | every base, size and address of 4 bits |
| `jtag_driver` | `TypeOK`, `InStep`, `DeliveredInOrder`, `BusyAvoided`, `ResetSynchronised`, `ScansAfterReset`, `ScriptFits` | the real script, num_idle, TCK, time limit and reset stages; and all scripts of 1 or 2 scans out of 4 (IR and DR, 1 to 3 bits); counters that start at 0 or 3; any state of the TAP and any content of the synchronizer; the default simulation for 60 time units |
| `jtag_front` (violated) | `FrontExists` | the real script |
| `jtag_uninit` (violated) | `DeliveredInOrder` from any `state` | as `jtag_driver` |
| `programs`: start-up | `BssZeroAtMain`, `OverrunIsOneWord`, `MainReached` | every BSS and content of 5 words |
| Fibonacci | `FibIsF10` | none |
| CRC | `CrcIsShiftRegister`, `BenchmarkVerifies` | the real 1024 octets, WARMUP_HEAT 0 and 1 |
| AES | `CipherRefinement`, `RoundTrip`, `KeysInBounds` (and `BenchmarkVerifies`) | the benchmark's call; key sizes 15, 16, 20, 24, 32, 33 and a length that is no multiple of 16 |
| heap | `CheckExact`, `BlocksDisjoint`, `ContentsKept`, `ReadsInHeap` | heaps of 3 octets at 3 and 4 octets at 1, sizes 0 to 3, at most 3 calls, two characters |
| LED | `TurnsAsAsked`, `CountsUnlessRaced`, `SecondEnds` | 0 to 3 turns, counter of 3 bits, LED of 2 bits, 2 increments |

Why the bounds are enough. The converter's behaviour depends on whether 0, 1 or
more transfers are outstanding and on the limit of the counter, all of which
three outstanding in a three-bit counter meet; `core2wb_pending` uses the real
width because the width is the question, and the theorems of section 5 hold for
every width. On the shared bus an answer takes one cycle, so no master ever has
more than one outstanding, which `MaxOutstanding = 2` does not enforce but TLC
finds; three masters give the case "before, self, after" of the arbiter, and two
slaves the difference between the slave addressed before and now (three, those
of the SoC, are in `ibex_soc`). In IbexSoc the commands are chosen so that
every kind of pair meets at an address: byte write against word write, either
against a read, LED write against LED read, a write past the LED's word. The JTAG
scans need one bit (no repeated shift), several bits, IR and DR, and every
ordered pair of them for what one scan leaves behind for the next. In `IbexSoc`
idle ports keep their command lines (nobody looks at them), which only saves
states.

For the programs: every BSS and memory content is tried with `fib`, one of them with the other
programs. A BSS of 0 to 4 words meets the empty loop, the loop that ends
at once, the overrun and its absence. The CRC and the AES of the benchmark are
deterministic and run at their real size; the other key sizes are each kind that
`aes_set_encrypt_key` tells apart (too short, truncated, exact, too long). A heap
needs a refused request after and before a granted one, a block that fits
exactly, one of size 0, and a `realloc` that grows and one that shrinks, which 3
calls on 3 or 4 octets give; the theorems of section 5 hold for every heap. For
the delay loop, `ULONG_MAX` = 7 stands for 2^32 - 1: what matters is the wrap at
zero. The reset pulse covers more edges than the synchronizer has stages, and
its release falls at one phase of the halved clock, that of the code.

`CHECK_DEADLOCK FALSE` is set only for JtagDriver and Programs, which end. A
hardware clock never stops.

**Liveness and fairness.** `PeerAnswers` (core2wb): weak fairness of a clock
edge at which the peer owes nothing or answers. `wb_checker.sv:77-89` demands an
answer within 16 cycles; no fairness is assumed of the core. `ClockRuns` (shared
bus): weak fairness of an edge after which no slave stalls; no slave of the SoC
stalls at all. Neither excludes resets, therefore the properties allow `rst` as an
outcome. `ServedAfterOthers` is conditional, on the masters before it requesting
no more, because the arbiter's priority is fixed and starvation is by design. In
Programs the fairness is that of the start-up code and of the LED program: the
core executes its next instruction. The debugger gets none, for nothing makes it write, and
`SecondEnds` holds however often it does. `CrcNext` and `AesNext` have no fairness,
because no property is about their end. JtagDriver needs none: its loop is bounded
by time, and what must have happened is stated at its end (`ScriptFits`).

## 4. Where code and documentation disagree

Each has a run that shows the shortest behaviour.

1. `core2wb_err`: ERR does not decrement `counts`; CYC stays asserted for ever.
   `doc/timing1.json` releases CYC after ACK or ERR. The shared bus's slaves never
   drive ERR; the crossbar may.
2. `core2wb_pending`: the counter holds `pending - 1` transactions, not `pending`.
3. `sharedbus_unmapped`: an access to no slave hangs its master, and with it all
   masters of lower priority. It does not occur with programs that stay in the map.
4. `jtag_front`: `front()` of the empty queue from time 9542 to the end.
5. `jtag_uninit`: `state` and `past_tck` are not initialised. The passing JTAG run
   assumes `state` to be zero, which fresh memory often but not certainly is.

Limits of the code that the passing runs state as an assumption, and that matter
when a part is reused:

* STALL is the OR of all slaves, but a slave obeys only its own: with a slave that
  stalls while it is not addressed (`StallIdle = TRUE`) `AcceptedOnce` fails. No slave
  of the SoC stalls.
* `wb2core` passes on an answer only in the cycle after the grant: with a slower
  slave (`Prompt = FALSE`) `AnswersOwner` fails. The debug module answers at once.
* `delay_loop_ibex` with 0 turns makes 2^32 turns (over 11 minutes at 50 MHz);
  `TurnsAsAsked` says that this is the only exception. `usleep_ibex` of 0
  microseconds asks for it; `led.c` asks for a second.
* The LED program loses a debugger's write between its load and its store, and
  no other (`CountsUnlessRaced`).
* Key sizes between the valid ones are truncated, not refused; the schedule is then
  that of the smaller size (`CipherRefinement`).
* The LED ignores the byte lanes. The map of `SharedMemory` assumes word accesses
  (`MapAssumption`), as the comment in `wb_led.sv:1` asks.
* `debug_defs.hpp:123` gives `DPC` the number 0x7c1, where the RISC-V debug
  specification has 0x7b1. Nothing uses it.
* The BSS loop clears the word at `_bss_end`, too; `OverrunIsOneWord` says that
  this is all it does too much. In the present link maps nothing follows BSS.

## 5. What is proved

TLAPS proves the following for every value of the constants that satisfies the
named assumptions.

**Core2WbProofs.** `NextCountsExact`: while the number of outstanding transactions,
before and after, fits below `Half`, `NextCounts` is exact in spite of its wrap; the
lemma behind the counters of both this module and the bus. Assumption `PeerFits`: the peer owes fewer than `Half` answers
(`MaxOwed < Half`) and does not answer ERR - the runs `core2wb_pending` and
`core2wb_err` show that both are needed. `IInv` is `TypeOK`, `CountsExact`, the bound on the length of
`owed`, and the fact that answers come only to what is owed during CYC; the count
alone is not inductive, since an answer to nothing would take it below zero.
From it: `TypeCorrect`, `CounterIsExact`, `CycFramesTransactions`, and
`ImplementsMemPort`, that every initial state and step of `Core2Wb` is one of
`MemPort` under the mapping. `StalledRequestsAreHeld` needs neither the invariant nor
the assumption: it is about one edge, before any peer.

**IbexSocProofs, the bus.** Assumption `BusFits`: every command meets exactly one slave
(`Mapped`, `Disjoint`), no slave stalls while unaddressed, `Half > 1`. `IInv` is `TypeOK`,
`CountsExact`, `InFlight` (a master is owed at most one answer, and if it is, that
answer is in the acknowledge registers now, `gnt1` names the master, `ss1` the slave
its command addressed, and no other master is owed any), `NoStrayAck` (an
acknowledge is owed to somebody) and `PoliteStall`. `InFlight` is the heart: it is
what "assume that the response is exactly one cycle after the request" in the
source means. From it follow `CountersAreExact`, `AnswersReachOwner`,
`AnswersMatchRequests`, `AccessesHappenOnce` and `AnswersComeNextCycle`, for any number
of masters and slaves and any map.

**IbexSocProofs, the SoC.** Assumption `SocFits`: `BusFits`, and no slave stalls (those of the SoC
tie STALL to zero). `SocIsAtomicMemory`: bus, RAM, LED and debug module implement
`SharedMemory`, for any number of masters, sizes of RAM and LED region, width and
commands that keep to the map; `SocTypeCorrect` on the way. `SocInv` adds to `IInv` of the
bus only types and the absent STALL, for `InFlight` already says where every answer
is. The argument: a granted command is seen by exactly one slave (`SeenByOne`); the
low bits of an address in an aligned region are its offset (`OffsetIsLowBits`, which
fails for a region that is not aligned to its size), hence what the slave does to its
data is what the map says (`StoreServes`); and what the bus shows an edge later is
what the map found at the grant (`AnswerIsFound`), although the RAM sampled it before the
edge and the LED shows it after. A reset takes effect before or after the RAM's edge.

`ComponentsAlwaysFit`: every step of the SoC is, to any one `core2wb` in it and to the debug
module's `wb2core`, a step of their own specifications, with peers that obey the
assumptions of `fv/core2wb` and `fv/wb2core`. For a converter: an acknowledge finds its
master owed something (`WatchedAckHasOwner`), never comes without CYC (`AckInCycle`), and
`InFlight` leaves at most one open (`AtMostOneOwed`); a preempted master sees STALL, and a
command under STALL is held. For the bridge: the shared lines are those of the one
granted master (`LinesAreCommand`), and its only open answer is the one due now
(`DmOwesStep`). So what is proved about a converter alone holds of it in the SoC, and
two theorems say that: they apply those of `Core2WbProofs` and `Wb2CoreProofs`, instantiated with
the SoC's lines. `PortsAreMemoryPorts`: every port, preempted or not, is a memory port with
an exact counter, CYC that frames its transactions and requests that are held, if the counter
counts to 2 (`Half > 2`; 16 in the code). `BridgeAnswersOwner`: the debug module answers exactly
the master that addressed it.

**AddressMapProofs.** `AlwaysInterchangeableIffPlain`, for every width: on a plain region
both decoders select the same addresses; on every other there is an address that
tells them apart, and the proof says which (`RegionsCompared`). `MaskHitOfPower`: the mask of a
size 2^k compares exactly the quotients by 2^k, which for an aligned base are the
range. `UnreachableRegion`: a region that ends at or above the top is never in range,
while the mask decoder selects its base (and so does one of size zero). `OddRegion`: a size that
is no power of two leaves a zero in size - 1 below its leading one (`HoleInSize`), which
is a one in the mask; the address that far above the base is in range and not selected.
`MisalignedRegion`: the mask decoder rounds the base down, the range decoder does
not. The bits of a number and powers of two are recursive functions; `Pow2Equation` gets
the recursion from `Basics`.

**Basics.** The library's induction theorems have an operator as a parameter, which the
provers cannot instantiate. `SetInduction` (a set with 0 and all successors of its members
has every natural number) and `RecursionExists` (a function on the naturals may be given
value by value) say the same with sets and functions, from the
library's theorem that < is well-founded; the address map, the sums over scripts, the
checksum and the AES key schedule rest on them.

**JtagProofs.** For every script, clock ratio, `num_idle`, number of synchronizer
stages, and any state of the TAP and content of counters and registers.
`ResetIsSynchronised`: a stage holds a one only after more edges with the pin high than
there are stages before it (`SynchronizerInv`). What is about the driver assumes
`StateCleared` (its `state` starts as TEST_LOGIC_RESET); `jtag_uninit` shows that it is
needed. `StepInv`: before the driver moves, TMS is low and the TAP waits where the reset
pulse has put it; from then on the driver sees every edge of TCK, and `rdy` is set only
while TCK is low, so that the iteration that pops loses no edge. From it `DriverIsInStep`.
`RestInv` relates `idle`, which counts falling edges, to the cycles the TAP has rested:
`BusyIsAvoided`. `DeliverInv` relates the bits in the TAP, those left in the queue's head
and the transaction as it was queued, and allows one delivered scan more than were
popped, from the TAP's update to the pop: `DeliveredOnceInOrder`. With the ranges of the
counters (`CounterInv`) it gives `TypeCorrect`.

Two of its theorems are about time. `ScansComeAfterReset` assumes `ResetInTime`: `ResetInv`
says where the two halved clocks and the pulse are at each iteration, and that stage k
holds a one from the k-th edge of `clk` after the pulse on; `NotLatchedInv`, that the
TAP is updated with nothing before the driver is called. `ScriptIsInTime` assumes
`InTime`: a transaction takes `num_idle` + its bits + 6 falling edges of TCK, one more if
it goes to IR, and the last of them comes before the end. `TimingInv`: the
falling edges so far, and those that the state of the driver and the rest of the
queue still need (`Ahead`), are together at most what the script needs. The sums
`CyclesOfLast` are recursive functions over the script; `CyclesOfLastAddUp` proves from
`RecursionExists` that they are sums, so nothing about a script is assumed but the
inequality. That the driver misses no edge in
its first iteration, 101, when `past_tck` may be anything, is `NoFallAtFirst`: TCK falls at even
multiples of the half period, and 101 is odd. The real script needs 471 cycles and is
through at time 9541 of 10000.

**Wb2CoreProofs.** Before a prompt slave, the bridge owes an answer exactly when
`resp` is set and CYC was kept, and the answer is the slave's oldest:
`AnswersAreOwners`.

**ProgramProofs.** Start-up: `LoopInv` relates `x26` to what is cleared so far:
`BssIsZero` and `OverrunIsBounded` for every memory and BSS. LED: `DelayInv`, counter and turns
add up to what was asked for, or to 2^w once the counter has wrapped from zero:
`DelayIsAsAsked`, for every width. `ReadIsLed` - between load and store the value read is
the register's unless the debugger wrote - gives `OnlyRacesAreLost`, an action property.
Fibonacci: `LoopEndsAtF10`, from the pairs of numbers that the loop's turns meet.

Key reversal: `InPlaceIsCopied`, for every number of rounds, even or odd, the swaps of
`_nettle_aes_invert` in place end with what its copying branch would give. After t
swaps the outer t groups are mirrored and the inner ones untouched (`GroupsAt`); the
middle group, if there is one, is its own mirror image.

Heap, for every size and number of calls: `HeapInv` is the accounting (`Accounts`: until a
request is refused, what was asked for is what was handed out, and after that it
is more than the heap has), the blocks (`BlocksInv`: they lie between the start and the
pointer, apart from each other, and hold what the client relies on), and the
copying loop (`CopyInv`: what it has copied so far, from a block that lies wholly below the
new one). Disjointness is not inductive without the pointer as a bound, and the
reads of `realloc_beebs`, which takes as many chars as the *new* size from a block that may
be smaller, stay in the heap only because the new block lies above it. From it:
`CheckIsExact`, `BlocksAreDisjoint`, `ContentsAreKept`, `ReadsAreInHeap`.

**BenchmarkProofs.** CRC: `TableDrivenCrc`: for every table whose entries are what eight shifts
make of their index (the assumption `TableIsPolynomial`, which TLC evaluates for the
code's table), the octet-wise checksum equals the serial register after any
number of octets. The argument is that a shift is linear over exclusive or
(`Shift1Xor`, `Shift8Xor`), so that eight of them act separately on the lowest octet, which the
table knows, and on the rest, which they only shift (`Shift8High`).

`ChecksumVerifies`: `verify_benchmark` is content, for every `WARMUP_HEAT` and every table
that fits the polynomial. What 1024 octets of the generator make of a shift register is
a closed computation of the constants in the source; `FedTimes` doubles it ten times and TLC
evaluates it once (`KnownChecksum`). What is proved is that the program does that
computation whenever it is called: `VerifiedInv` says that seed and register are what n octets
make of seed 0 and ones (`After`, by `RecursionExists`), in the runs that warm the caches as
in the last one, and that main verifies only what such a run has left. A seed that is not
set back breaks it.

AES, for every key size and length the functions are called with: key, texts and
tables are those of the source; of them the proof uses only what TLC evaluates once
(`TablesAssumption`, `DataAssumption`): key and texts are octets, the S-boxes are those of the
standard and inverse to each other, the tables hold words, the rcon are the powers of x.
`AesInv` has, for each place of the program, which subkeys are final, which are still
to be reversed or multiplied, and which block and text are being worked on. From it
`KeysStayInBounds`: key, rcon and subkeys are indexed within their arrays for
every size, the truncated ones included.

`AesIsFips197`: every step of the program is one of `Fips197` or a stutter. A word is a
column of octets (`Joined`, `OctetAt`), the exclusive or of four table entries is
MixColumns of ShiftRows of SubBytes of a column, because multiplication is linear
over exclusive or; and the decryption's rounds are those of the inverse
cipher, because the subkeys were multiplied by the inverse MixColumns (linearity
again) after `InPlaceIsCopied`'s swaps.

`DecryptionUndoesEncryption`: `RoundTripInv` relates a block that is being decrypted to the
states which the same block went through in encryption, backwards; each round of the
inverse cipher undoes one round (InvSubBytes after SubBytes, InvShiftRows after
ShiftRows, and InvMixColumns after MixColumns by the product of the two matrices). The
induction over rounds and blocks is that of the program's steps.

`CipherVerifies`: the benchmark's own call ends with the ciphertext that
`verify_benchmark` compares with, however often the caches were warmed. The subkeys of its key
and the words after every round of its sixteen blocks are closed computations
(`OwnSubkeys`, `OwnWords`), whose end TLC compares once with the array in the source
(`KnownCipher`); proved is that these are the subkeys the program makes
(`OwnSubkeysAreMade`) and that `RoundTripInv`, which says of every block that some trace of
the cipher's rounds leads from plaintext to ciphertext, leaves only that ciphertext
(`OwnCipher`), because a trace is determined by its start. That decryption gives the plaintext
back is `RoundTripInv` again, and `CipherVerifiedInv` relates it to `main.c`.

Composition. `ProgramsStep`: a step of `Programs` is, to each part, one of its own steps or
none, since programs share no variable but `program` and `pc`, and a program moves only
behind the start-up code. `ProgramsAreTheirParts`: therefore the composed program
satisfies the specification of every part, and the theorems above hold of what the run
`programs` checks. For CRC and AES, which are initialised the same way but moved
only when loaded, this is conditional on the program; `AesInPrograms` and
`BenchmarksVerify` remove the condition, with `AesPartInv` and `VerifiedPartInv`.

**Only model-checked.** The liveness properties `BusReleased`, `ServedAfterOthers`,
`MainReached` and `SecondEnds`, for the prover has no ENABLED. Every invariant, action
property and refinement of a passing run is a theorem. The closed computations on the
source's own data - that the 256 entries of the table fit the polynomial, that the tables of
the AES are those of the standard, that 1024 octets give the known checksum and sixteen
blocks the known ciphertext - are assumptions (`TableIsPolynomial`, `TablesAssumption`,
`KnownChecksum`, `KnownCipher`) which mention no variable and no bound; evaluating them is
a complete check, and TLC does it at the start of the run `programs`.

## 6. What is not modelled

* `wbxbar`, `ibex_top`, `dm_top`, `dmi_jtag`: submodules whose source is not here. The
  first is the SoC's default interconnect, so what is said of the bus holds for
  the configuration `WBInterconnet = 0`.
* Unknown values (X, Z) of the checker; timing, clock domains, FPGA primitives.
* Instructions of the core: programs are modelled from their C source, the
  start-up loop and the delay loop from their assembly.
* The end of the benchmarks as a liveness property: the fairness of their steps is
  ENABLED of actions that compute rounds, which TLC evaluates too slowly.
* The copying branch of `_nettle_aes_invert`, which no caller reaches; it is
  `Copied`, what the other branch is compared with.
* The heap with sizes whose sum wraps in `size_t`; `exit` beyond the fact that it ends the program.
* Straight-line code without state of its own: the board functions, headers that only
  declare, `main`s that call one function.
* The sources under `sim/debug/not-used`, which no build takes.
* TDO and the monitor: nothing reads them.
* Generated IP, constraints, scripts, linker maps beyond the BSS symbols.

## 7. Plan

Done: the converters, the shared bus, the SoC's memory, the converters in the SoC, the
decoders, both simulation loops with the JTAG driver and the reset generator, and all
programs; the safety proofs of all of them, and of the programs as composed; the refinements of
the memory port, of the atomic memory, of the two converters by the SoC and of FIPS 197.

Left, in this order:

1. `Crossbar`: masters with `core2wb` before an external crossbar that answers
   unmapped addresses with ERR and reorders across masters; that core2wb loses the
   bus after the first ERR, and what holds without one.
2. Liveness of the whole SoC: the instruction port makes progress when data port
   and debugger leave gaps.
3. Proofs: the ordering of item 1, with the lemmas on the counters that are there.
