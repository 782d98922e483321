# Simulateur-ARM: a TLA+ model

A specification, in TLA+, of the ARMv5 instruction set simulator of this
repository: modules TLC checks on small instances, and proofs TLAPS checks for
every value of the constants. Every definition is translated from the C source;
the `map` of `PROJECT.json` names the lines.

## 1. The system

`arm_simulator` is one process. main creates a memory and a processor core and
starts two threads. One accepts a debugger (gdb's remote protocol over TCP) and
executes its packets, among them "step" and "continue", which run the guest. The
other accepts connections of `send_irq` and raises an exception on the core for
every byte. The threads share memory and core under one mutex. When the debugger
closes its connection, its thread ends, main destroys core and memory and returns.

| Component | State | Operations | What must hold | Hard about it |
|---|---|---|---|---|
| registers (`registers.c`) | 38 words | read, write by register number, through the current mode; the same for the user bank, cpsr, spsr | a mode sees its own bank and no other | one table of indices for 7 modes; -1 as an index |
| memory (`memory.c`, macros of `util.h`) | words, byte order, the descriptor that holds them | create, read and write of 1, 2, 4 bytes | an array of bytes in either order, never left | lanes, swaps, odd sizes, a shift by the word's width; a descriptor allocated with the size of a pointer |
| core (`arm_core.c`) | registers, memory, cycle count | register access with the pc's offset, fetch | links and fetches agree on the pc | order of +4, bit 1, -4 |
| exceptions (`arm_exception.c`) | none of its own | `arm_exception(code)` | status and link of what is interrupted are kept in the mode entered | order of save and mode switch; nesting |
| instructions (`arm_instruction.c`, `arm_data_processing.c`, `arm_load_store.c`, `arm_branch_other.c`) | none | `arm_step` | a failed condition does nothing; only exceptions give privilege | each decoder looks at the condition at its own place |
| simulator (`arm_simulator.c`) | mutex, threads, sockets | listeners, main | exclusion, no use after destruction, delivery, termination | interleaving, starvation, shutdown |
| debugger's protocol (`gdb_protocol.c`, `scanner.l`) | last packet, last result | one handler per packet | a packet sees one state of the core; a breakpoint stops | stale results, retransmission, dead connection; register numbers read by two functions |
| scanner (`scanner.l`, `scanner.c` as flex generates it) | the buffer, the automaton's state, the invalid characters | match, refill, the rules | the tokens of the rules whatever the pieces of the stream, each before the next read | a NUL like the end of the buffer, text moved and buffer grown |
| `send_irq.c` | none | send one byte | the byte is raised | the mutex may never be free, the descriptors run out |
| trace (`trace.c`, `trace_location.h`) | flags, last address, stack of locations | one line for each access; push and pop around a call | marks and positions are those of the access | calls nested in arguments, in an order C leaves open; the debugger's own accesses |
| debug (`debug.c`, `debug.h`) | a sorted table of file names, a cache in each statement | insert, search | a statement prints exactly if its file was named and fits in the table | the bounds of the search; the full table leaves names out or is written past its end |

Calls go down the list of the repository's README: `gdb_protocol` calls
`arm_step` and register and memory functions, the decoders call `arm_core`, which
calls `registers` and `memory`. Nothing calls back. The only shared state is the
core and the memory, and the only synchronisation the mutex and the join.

## 2. The modules

| Module | Models | Correspondence |
|---|---|---|
| `ArmConstants` | `arm_constants.h`, `registers.h`, `trace.h` | numbers as in the code; the status word is squeezed, see section 4 |
| `RegisterFile` | `registers.c` as operators on the array | operators have the functions' names; `Outside` is the index 255 that -1 becomes, `Garbage` what is read there |
| `Registers` | the same as a state machine | one action per function; `corrupt` after a write outside the array |
| `BankedRegisters` | abstract: banks by mode | what `registers.c` promises, without slots |
| `Memory` | `memory.c` | one action per function; a word is four lanes; `block` is what malloc gave for the descriptor, `overrun` if an access left an allocation |
| `ByteMemory` | abstract: an array of bytes | what `memory.c` promises in either byte order |
| `Words` | the integers of C that stand for bits | powers of two, the bits of a number, `&`, `\|` and `^` as recursive functions that proofs can follow |
| `BitFields` | `get_bits`, `set_bits`, `clr_bit` as memory.c uses them | the macros on integers of a scaled width, with the shift by the word's width as a choice |
| `Processor` | `arm_core.c`, `arm_exception.c`, the control of all decoders, the debugger's register writes | one action per kind of instruction, each a whole `arm_step`; `Interrupted` is `arm_exception` by the irq thread |
| `Simulator` | `arm_simulator.c`, `send_irq.c`, the lock in `gdb_protocol.c`, cont, step | an action is a blocking call or what a thread does between two |
| `Alu` | operands, results and flags of `arm_data_processing.c`, `asr` and `ror`, `condition` | one action, a whole data processing instruction; a shift that C leaves undefined is a choice |
| `Transfers` | `arm_load_store.c`: addressing modes, sizes, block transfers | an action for each of its two functions, and `Compute` between them |
| `Branches` | `arm_branch` between two fetches | the action is the fetch and the instruction, with the pc's corrections |
| `Trace` | `trace.c`, the macros of `trace_location.h`, what `arm_core.c` traces | an evaluation of nested calls: the call and its `END_LOCATION` are two steps where C leaves their order open, and any call that is not ended may end next |
| `DebugFiles` | `debug.c`, `debug.h` | one action for an option, for a statement and for a turn of the search; after a write past the table a statement prints or not |
| `Scanner` | `scanner.c`: tables, match, refill of the buffer | actions are turns of the loops of `yylex` and `yy_get_next_buffer` |
| `TokenStream` | abstract: the rules of `scanner.l` on a stream | the longest match, delivered before more input is asked for |
| `GdbLink` | the scanner's rules and the answers of `gdb_protocol.c` above the tokens, and the debugger's side | one action per rule; a packet starts its handler, which ends in an action of its own or never; the line may damage a packet, the user interrupt |
| `RequestAnswer` | abstract: one execution and one answer for each request | what the protocol promises the debugger |
| `GdbPackets` | frames, checksums, hexadecimal and binary contents in `gdb_protocol.c` | one action per handler; the array of the packet and the member behind it, the sixteen registers, the numbers of registers in the two readings |
| `Connections` | the sockets of `arm_simulator.c` and `send_irq.c` | an action is a call that may block, on the mutex too, or fail for want of a descriptor |
| `Execution` | `Branches`, `Trace`, `DebugFiles`, `Alu`, `Transfers`, `BitFields` side by side | names their properties; what is proved of them is proved of this module |
| `Connection` | `GdbLink`, `Scanner`, `GdbPackets`, `Connections` side by side | the same for the debugger's connection |
| `MCRegisters`, `MCMemory`, `MCProcessor`, `MCSimulator` | | constants for TLC |
| `MCExecution`, `MCConnection` | | the parts of `Execution` and `Connection`, one at a time, section 3 |
| `WordsProofs`, `RegistersProofs`, `MemoryProofs`, `ProcessorProofs`, `SimulatorProofs`, `GdbLinkProofs`, `ExecutionProofs`, `ConnectionProofs` | | section 5 |

`Registers` and `Processor` extend `RegisterFile`; `Registers` instantiates
`BankedRegisters` and `Memory` instantiates `ByteMemory`, with a refinement
mapping. `BitFields`, `Alu` and `Transfers` extend `Words`. `BitFields` justifies the lanes of `Memory`: what the macros do to bits
is there `GetLanes` and `SetLanes`. `Simulator` keeps of the core the pc and the
kind of the instruction there; the registers are `Processor`'s.

`Scanner` instantiates `TokenStream` and `GdbLink` instantiates `RequestAnswer`. The
three levels of the connection meet at their alphabets: `Scanner` turns characters
into the tokens of `TokenStream`, `GdbLink` handles those tokens with a packet
reduced to the number of its request and whether its checksum is right, and
`GdbPackets` is the text in such a packet. `Connections` refines the sockets that
`Simulator` takes as given, and the descriptors it leaves out.

In `Processor` the guest is any program. What an instruction computes or loads is
any of `Values`, so the model has every control decision and no arithmetic but
that of the pc, the links, the block addresses and the status word: `Alu`, `Transfers`
and `Branches` say what is computed, on registers of one mode. Histories
(`entered`, `tainted`, `fetched`, `last`) only serve the properties. Guest
programs reach user mode only with the debugger's help: MSR is undefined in this
simulator, so the model's programs cannot write the cpsr either.

## 3. What the runs check

| Run | Question | Result |
|---|---|---|
| `Registers_banks` | does the array implement the banks, in legal and illegal modes? | holds: `BankingRule` (refinement), `TypeOK` |
| `Memory_bytes` | do words implement bytes in both orders, with 6 bytes in 2 words? where may accesses leave what is allocated? | holds: `ByteAddressing` (refinement), `NoOverrun` |
| `Processor_banks` | privilege, banks, links and conditions, for all inputs | holds: `UserModeConfined`, `HiddenBanksKept`, `BranchLinks`, `ConditionGates`, `TypeOK` |
| `Processor_nested` | exceptions that nest and return, with interrupts and debugger writes | holds: `SavedStatus`, `ReturnRestores`, `LegalMode`, `WildNeedsIllegalMode` |
| `Simulator_threads` | what mutex and join protect, with deadlock checked | holds: `Exclusion`, `PeekedIsExecuted`, `DebuggerUsesLive`, `NoByteLost`, `TypeOK` |
| `Simulator_progress` | does a handler give the mutex back, do interrupts arrive and does the process end? | holds under the premises the properties state: `HandlersRelease`, `DeliveredOnceFree`, `EndsWithDebugger` |
| `Execution` | what instructions compute, load, store and branch to; the fields of words; the trace; the debug messages | holds, see below |
| `Connection` | the debugger's connection from the stream to executed requests; `send_irq`'s connections | holds, see below |
| `Processor_vector` | does an exception go to its vector? | violated |
| `Processor_condition` | does a failed condition do nothing? | violated |
| `Simulator_starved` | does an interrupt reach a running simulator? | violated |
| `Debug_named` | does every file that an option names print its messages? | violated |

`MCExecution` and `MCConnection` run `Execution` and `Connection`. The components share
no state: a behaviour is one of the component `part` names, chosen in the initial
state, with the others' variables left alone, and the properties are those of the
components.

* `ShiftsAreArithmetic` (`Alu`): the second operand and its carry are those of the
  architecture, every form, value, amount and carry before included, but for two lists
  of exceptions. `OperandDeviates`: LSR #0 and ASR #0 give the value unshifted and not
  shifted by 32, ROR #0 is not RRX ("non codée", arm_data_processing.c:150), a register
  of 32 or more and ASR by 0 of a negative number are undefined in C.
  `CarryDeviates`: ROR #0 keeps C, ASR by a register above 32 clears it.
* `ConditionsOfSum` (`Alu`): after an addition the conditions tell the sum that does
  not fit the word: carry, overflow, and its order relative to zero.
* `StoredIsLoaded` (`Transfers`): a load brings back what a store put at its address,
  for every pair of forms and whichever of base, index and data coincide.
* `StackRestores` (`Transfers`): a block store and the opposite block load restore
  registers and base, and the announced end of a block is where it ends.
* `WritesReplaceLanes`, `ReadsTakeLanes` (`BitFields`): a byte or half written replaces
  its lanes and no other bit, with the detour for bit 31, and one read is its lanes.
* `BranchesReach` (`Branches`): the fetch after a branch is at its target, for every
  pc and every offset but the most negative; a call's link is the next instruction.
* `StackFollowsCalls`, `LinesTellTheAccess` (`Trace`): the stack of locations holds as
  many places as calls are not ended, each the line of the statement, also where the
  outer `END_LOCATION` pops before the inner one; marks and positions of lines
  are those of their access, whatever the debugger did between.
* `PrintsSelected` (`DebugFiles`): a debug statement prints exactly if its file was
  named by an option and not left out by the full table, with the cache or without,
  until a name is written past the table.
* `CutsIntoTokens`, `InsideBuffer` (`Scanner`): the generated scanner implements
  `TokenStream`, with its liveness, for every cut of the stream into pieces, and
  stays in its buffer.
* `ExactlyOnce`, `AlwaysAnswered`, `ExcessPaidByInterrupts` (`GdbLink`): until the user
  interrupts, the link implements `RequestAnswer` whatever packets are damaged; it
  always answers, provided that handlers end (continue may not); and after interrupts, the executions in excess and the answers that
  lag are bounded by their number.
* `WritesWhatIsMeant`, `AnswersAreDue` (`GdbPackets`): a binary write puts the bytes that
  were escaped and no other; the register that "P" names in hexadecimal is as written,
  for hosts and targets of both byte orders; "p" answers with the register of the
  decimal number it reads, r15's offset taken off; the simulator ends exactly at a
  number above 15 so read; and every answer that fits the packet is framed as it should be.
* `ConnectedIsRaised` (`Connections`): provided that the thread gets the mutex each time
  it waits (`GetsMutex`) and that senders close (`SendersClose`), a connected `send_irq`
  has its exception raised, in order, or the process has used up its descriptors.

The four violations are disagreements between documents and code:

* `arm_exception` writes the vector through the user bank after the mode has
  changed, and that write is ignored outside user mode. README:43 calls the module
  an "exception vector provider"; no exception reaches its vector, and after the
  mode changed the guest goes on with the next instruction.
* The report (`Documents demandés`, page 3) says every decoder tests the
  condition. BL writes its link first; MRS whose condition fails is undefined; SWI
  and the offset forms of transfers never look.
* The mutex is held for the whole of cont, so that a byte of `send_irq`, described
  in README:64 as a command for a running simulator, waits until the guest stops.
* The usage text (arm_simulator.c:130) offers debug messages "on a per source file
  basis"; with 64 names in the table, a name that sorts last is left out without a word,
  and any other is written past the table.

Other facts the model makes visible, without a document that says otherwise: the
link of SWI and of interrupts is 4 beyond the architecture's, since the pc is read
4 beyond its value; a return from the mode of a RESET loads a saved status of
zero, a mode that does not exist, where a later access of r13, r14 or the spsr
leaves the array (`LegalMode` says when the mode is one that exists, and
`WildNeedsIllegalMode` that no access leaves the array then); an interrupt byte in the
window between main's destruction and its return is raised on a destroyed core
(`dangling` in `Simulator`); the three fields of the memory's descriptor are written to
a block that malloc was asked for with the size of one pointer.

In the modules from `Alu` on: subtractions and comparisons always set C (`~CarryFrom` is
-1 or -2), so that LO never passes after CMP, and find overflow by the rule of
additions, so that LT may be wrong; a post-indexed transfer of a word or byte uses
the base already moved and does not write it back, those of half words do as the
architecture says; the most negative branch offset, its own negation, goes forward;
a condition that fails leaves a store to write at address -1, where memory refuses
it; an answer of more than 1020 characters, which "PacketSize=400" allows, is framed
over the member `len` behind the packet; an interrupt's character is answered by a
request of retransmission that the debugger takes for its next request, executed
twice; the first traced access is marked sequential if the debugger set the pc 4
beyond the initial `last_address`; the debugger's "pa" reads a decimal number in which there
is none, and is answered with r0, where "Pa" writes r10, and "p16" to "p99" end the
simulator by an assertion; and a simulator serves as many `send_irq`
as it has descriptors left, then `Accept` ends it.

## 4. Bounds

* The status word keeps its mode, bits 5 to 9 and one flag (Z), 11 bits:
  `WordSize = 2048`. The words of registers are as wide, so that -1, wrap-around
  and the pc's bit 1 are there. The other flags are combined with Z only in
  `condition`, and which flag decides makes no difference to control.
* `Registers_banks`: three operations. Any wrong slot shows in a write, a change
  of mode and a read. Registers 7, 8, 12, 13, 14, 15 are the edges of the ranges
  in `getRegister`; the modes are all seven and the illegal mode zero.
* `Memory_bytes`: 6 bytes, the last word half used; addresses up to 8, so that
  aligned, unaligned, last, and out of range all occur; two byte values; a block of one
  pointer, which the descriptor leaves, and one of three, which it fits.
* `Processor_banks`: two instructions, one event, every decoder, r8, r14 and pc.
  A wrong bank shows within one instruction after one change of mode.
  `Processor_nested`: three instructions, two events, fewer inputs: entry, nested
  entry, return.
* `Simulator_threads`: two addresses in memory and one outside, every program,
  every packet, two senders (interchangeable, hence symmetry). The packets are not
  counted, the state space is finite. `Simulator_progress` and `Simulator_starved`
  need no symmetry and have one address and three kinds of packets.
* `Execution`: words of four bits for what instructions compute: every form, operand
  and amount of the shifter with MOV, then every operation, two operands and flags with
  the operand not shifted; 8 bits for transfers, with bytes of 2 bits, a memory of 16
  bytes, registers that hold addresses in it and out of it; two single transfers in a
  row name two registers, three block transfers or computations use the list {0, 2}
  from the bases 255 (which wraps), 8 and 4; lanes of two bits, one call on every word;
  6 bits and offsets of three for branches, all pcs; calls nested three deep for the
  trace, on 16 addresses that wrap; four names for a table of three. `Debug_named`: three
  names for a table of two. The theorems of section 5 need none of these.
* `Connection`: four requests, two damaged packets and four interrupts, more than fill
  the buffer of invalid characters; a stream of any length of which the scanner keeps
  four characters of all eight classes, or five of the four that make packets, in a
  buffer of two that doubles twice; packets of 12 characters, which the answers of
  memory outgrow by one byte, around a memory of five bytes read and written at its
  start, in it and at its end, with the bytes NUL and `}`; three words on which +4 and -4
  carry, and seven numbers of registers, those that the two readings tell apart and
  those above 15 in one or both, for both byte orders; four senders on five descriptors, of
  which the servers and the debugger take three.
* CHECK_DEADLOCK is FALSE where counters end the behaviours (`Registers_banks`,
  `Processor_*`, `Execution`, `Connection`); it is on in the others, where a process that is over stutters.

Fairness (`Simulator`): weak fairness of main, of each of the two threads and of
a connected `send_irq`, since the system's scheduler runs a thread that can run. No fairness is
assumed of the debugger or of the guest: a guest may run forever. pthread mutexes
promise no order, so `WeakSpec` has none. Of the debugger's thread, what it does of
itself is fair (`Serve`), and not the read that the debugger's next packet ends, so that
a debugger may stay at its prompt; `HandlersRelease`, `DeliveredOnceFree` and
`EndsWithDebugger` state as premises what they need of the debugger and the guest.
`FairSpec` adds strong fairness of the lock, to show that starvation is not the
mutex's fault.

In `Connection` the threads of `arm_simulator.c` and the scanner in one of them run
when they can, a debugger reads what is written to it and answers it, and a `send_irq`
that has connected sends its byte; nothing is assumed of the debugger's requests,
of the user, of the stream's next piece, of a `send_irq` not yet started, of the end of
a handler or of the connection of a `send_irq`, nor of the mutex: `AlwaysAnswered` and
`ConnectedIsRaised` state these three as premises. The
fairness of each component holds while its part runs.

## 5. Proofs

All are checked by TLAPS, for every value of the constants that satisfies the
named assumptions of the modules (word size a multiple of 2048, registers and
values in range, 0 an address).

* `RegistersProofs`: `TypeCorrect`, and `ArrayImplementsBanks`: the initial state
  and every action map to the abstract ones. Its first lemmas give the slot of a
  register in each mode; those on what a write leaves are with `ProcessorProofs`.
* `MemoryProofs`: `MemoryStaysInBounds` (types and bounds are inductive, from the
  alignment and the rounded size) and `WordsImplementBytes`.
* `ProcessorProofs`: `SavedStatus` and `LegalMode` are not inductive alone: a
  return loads a saved status, so that the saved words must be of legal modes too
  (`SavedLegal`), and a write outside the array must be excluded
  (`WildNeedsIllegalMode`). `IInv` is their conjunction with the types. A lemma per
  primitive (`PutEffect`, `PutCpsrEffect`, `PutSpsrEffect`, `ExceptionEffect`) says
  what happens to status words; `Keeps` carries through an instruction that mode,
  control bits and saved status stay, and `InstructionShape` reduces every
  instruction to three cases: registers that keep these and then perhaps an
  exception (`Kept`), a return (`Returned`), the exit (`Exited`). From this shape
  follow the invariant and three action properties: `UserConfined`,
  `ReturnRestoresEntry` and `AccessesStayInArray` (in a mode that exists every slot
  an access names is one of the array, and an instruction that starts in such a mode
  writes there only, in the mode of the exception it raises too). The second half of the module says
  what one instruction leaves of the registers: `FailedConditionGates` follows them
  from the fetch to the end of each decoder; `LinkIsNextInstruction` needs that bit 1
  of the fetch address is clear, whatever the pc was, and stays so when it wraps
  (`BitOne`, `NextAddress`); `OtherBanksWait` carries `Apart`, that the slots which the
  mode cannot name hold what they held, through every write of an instruction.
* `SimulatorProofs`: who holds the mutex agrees with where the threads are, and
  main has left the join only when the debugger's thread is done. From these:
  `MutualExclusion`, `BreakpointsHold`, `JoinProtectsDebugger`. A second inductive
  invariant follows a byte of `send_irq`: the thread that read one knows whose it
  is (`Served`). From it: `TypeCorrect` and `BytesKept`.
* `GdbLinkProofs`: `LinkIsExactlyOnce`. The invariant says, for each phase of the
  debugger, which tokens may be on the two lines, and that what a packet's number, the
  last packet, the running handler and the last execution are agree with the current request. It holds
  until the first interrupt; every step before maps to a step of `RequestAnswer` or
  leaves its variables alone, and interrupts only grow. After an interrupt there is no
  such list of contents: `LinkExcessIsPaid` rests on `LagInv`, which bounds what the lines
  may hold by counting. Each token is worth the answers it may still bring; an
  answer on its way, or to come once a prefix of the debugger's tokens is received,
  is late by no more requests than there are answers behind it paid by interrupts
  (`AnswersLate`, `ComingLate`), and on a line without faults, the refusals and
  demands under way and the executions made sum to no more than the requests and the
  interrupts (`Excess`). A step of the debugger or the simulator reads one token and
  writes some; what it writes is paid by what it reads. The answer of a handler that runs
  is counted as written (`Line`), so that the handler's end changes nothing (`LineKept`).
* `ExecutionProofs`, first half: `TableIsSortedSet` (insertion keeps the table sorted and loses no
  name that an option gave but those after all of the full table) and `SearchDecides`, whose
  invariant says that a name in the table lies
  between the bounds of its search and that the caches are right. `BranchesArrive`: the
  corrections of the pc cancel on aligned words of any width, and the offset's sign
  bit, tested by hand in the code, gives its signed value. `LocationsFollowCalls`: the
  stack holds one place for each open call, and a pop of another call's place is right
  since the calls nested in a statement are on its line (`Sequenced`). `TraceTellsTheAccess` adds
  that `last_address` is that of the last line seen.
* `WordsProofs`: the arithmetic of bits, for every width. Quotients and remainders are
  unique (`Quotient`), divide twice (`TwoDivisions`) and powers of two add (`PowerOfSum`);
  a number is the sum of its bits, two numbers with the same bits are equal, and `&`,
  `|` and `^` work bit by bit.
* `ExecutionProofs`, second half: what instructions compute and move. `ShiftersShift` and
  `ConditionsTell` rest on `AluInv`: the two properties are about the last operation and the
  flags it left, so that types and the two together are inductive. A word splits at the
  bit where it is shifted (`Parts`); each form of the operand puts these parts together
  again (`ShifterGives`), and the carry is the bit at the cut (`CarryOutIs`, `RightCarries`). For sums, the four flags are
  defined by the code from the bits of operands and result, and
  `SumArithmetic` reads the conditions off the signed and unsigned sums.
  `WritesReplace` and `ReadsTake` follow the macros bit by bit (`SetBitsIs`, `Cleared`), with
  the value that the shift by the word's width happens to give, and put the bits into
  lanes again (`SameLanes`).
  `LoadsBringBack` rests on `MovesInv`: registers are words, memory is bytes, and memory
  still holds the last store's value where its address is in range (`StoredKept`), since a block
  store forgets it. The four bytes of a word are its digits (`BytesMake`, `WrittenIsRead`), whatever
  is read for want of an access has the size asked for (`ReadGives`), and extending a
  value keeps its bytes (`ExtendedIs`). `StacksRestore` adds `PushKept`: as long as its base
  stands where the push left it, memory holds each register of the list at its address. The
  addresses of a list are distinct even when they wrap (`AtIs`), so that each word has its own
  bytes (`SavedIs`), and the four addressing modes pair up (`BlockAddressesAre`).
* `ConnectionProofs`, first part: the texts of the packets. `AnswersFollowRequests` (a word
  written in hexadecimal reads back in any byte orders, the 4 added to r15 is taken off
  whatever carries, a number of one or two digits is read as each handler reads it, and
  what is sent is the frame of what was meant: `HexDigits`, `WordsCross`, `FourTakenOff`,
  `Numbers`, `FrameShape`, `Framed`) and
  `WritesArrive` (the walk over an escaped content finds its bytes: `Unescaped`).
* `ConnectionProofs`, second part: the scanner. `TokensFollowRules` shows that each step of
  flex's engine is a step of `TokenStream` or a stutter, and `ScannerStaysInside` that it
  stays in its buffer. The invariant `ScanInv` says what each place of `yylex` knows: in
  the matching loop, that the automaton is in the state (`StateOf`) of the characters
  it has read (`Read`) and remembers the first of them; at a found action, that it is
  the first token of the text in hand and may be delivered (`Cut`), or a NUL to look
  at; at a refill, that the whole text is read and nothing cuts it. It rests on the
  compressed tables, expanded row by row (`Transitions`), on what a jam says of
  the words that continue a text (`SingleJam`, `PacketEnds`, `ReadWaits`), on the automaton
  that is recomputed over the moved text (`Previous`) and on the doubling of the buffer (`Growth`).
* `ConnectionProofs`, last part: the connections of `send_irq`. `RaisedInOrder` is the safety
  in `ConnectedIsRaised`, with the mutex: exceptions are raised once for each connection and in their
  order, and descriptors run out only after the exceptions that `Limit` allows. The
  invariant lines up the connections made: raised, the one that waits, the queue
  (`Lined`); and counts the descriptors of those that were shut down (`DescriptorsKept`).

The provers cannot instantiate the induction theorems of the library. Where a
definition recurs, `WordsProofs` proves induction as a fact about sets of naturals
(`Least`, `Induction`, `UpTo`), from the well-founded order of the naturals, and derives what
a recursive function or a fold of sequences computes (`Recursion`, and in `ConnectionProofs`
`FlattenParts`, `Previous`, `Doubling`).

The theorems about `Alu`, `Transfers` and `BitFields` are about the specifications of these
modules, under their named assumptions (`AluAssumption`: words no wider than the byte that
holds an amount can count; `TransfersAssumption`: words of at least 8 bits, a multiple of four, memory
smaller than the greatest address, registers among r0 to r14); `MCExecution` assumes them of
its values, so that TLC evaluates them.

Every safety property of a passing run is a theorem. Only model-checked: all liveness
(`AlwaysAnswered`, `ConnectedIsRaised`, `HandlersRelease`, `DeliveredOnceFree`, `EndsWithDebugger`,
and the fairness in `CutsIntoTokens`), which is out of the prover's reach; and the four violations, which
are counterexamples.

## 6. Not modelled, and why

* The fixed answers of `query` and `set_thread`, the numbers in a stop reason and
  `target_exception`, which a continue that executes nothing reports again.
* Values and cycles in the lines of the trace, and the texts printed by debug
  statements; names in `arm_constants.c`, options of main other than `--debug`.
* Of `csapp.c` (third party), the wrappers this program does not call; of `scanner.c`,
  the interface of flex for several buffers; the character that
  `YY_DO_BEFORE_ACTION` saves while a rule runs.
* Data processing on the pc, and block transfers with it, in `Alu` and `Transfers`:
  `Processor` has them, with any values.
* Tests, example guests, and `arm.c`, whose function is empty.
* A guest that modifies its code does so in `Simulator` (an executed instruction
  may store any instruction anywhere), not in `Processor`, which has no memory.
* Allocation failures; connections that are not `send_irq`'s or the debugger's.

## 7. Plan

Done, in order of importance: register banks and memory with their abstract
specifications; the processor with exceptions; the threads; what instructions
compute and transfer; the connection with the debugger, with its two abstract
specifications; trace, debug messages and descriptors; proofs of the safety of
each, and of all four refinements' steps.

What could follow: `Processor` composed with `Alu` and `Transfers` on one register file;
stop reasons, with `target_exception`, once a document says what a continue should
report.
