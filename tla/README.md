# Verification of dis

TLA+ models, TLC runs and TLAPS proofs of `dis`, the 6502/65C02 disassembler in
this repository. The C sources are under `src/src/`, their design document is
`src/docs/design.md`. The program is sequential: what makes it hard is not
concurrency but 16-bit address arithmetic, overlapping code, input files in any
order and of any quality, allocation that fails half way, and the long sequences
of steps between a byte of a file and a line of the listing.

## 1. The system and its parts

    file --> hexfile.c / rp6502file.c --> memory.c        (loading)
                     | base, end              | MemRead
                     v                        v
    dis.c main --> analyze.c  <---------> disassemble.c <--> opcode tables of vrEmu6502.c
                     | marks                  | lengths, next address
                     v                        v
                printAnalyzed             DisRange         (listing)

| part | state it keeps | operations | what makes it correct |
|---|---|---|---|
| `analyze.c` | flags and caller count of each address, worklist, out-of-range count | AnalyzeNew, AnalyzeAddEntry, AnalyzeRun, queries | marks exactly what control flow reaches; counts exactly; terminates; stays inside its arrays; loses only what it cannot store |
| `disassemble.c` | the selected CPU model | DisInit, DisInstLen, DisOne, DisRange, DisFlowOf | lengths and targets agree with the CPU; the sweep is gapless and stops at the wrap |
| opcode tables | none after vrEmu6502New | lookups | five models, no opcode without a length |
| `memory.c` | table of at most 16 regions, default byte, buffers | MapROM, MapRAM, MapFill, MapResetVector, MapVectorPage, MemSetDefaultFill, MemRead, MemWrite | behaves as one byte per address; newest region wins; never past the end of a buffer that has a byte |
| `hexfile.c` | line buffer, run address, last address, byte count | readHexFile | last record wins; extent and run address are those of the records |
| `rp6502file.c` | section end, code extent, which vector bytes were seen | readRp6502File | only checked chunks of the section reach memory; entry lies in the code range; vectors do not stretch it |
| `dis.c` | the words read, how far main has come, the walk of printAnalyzed | main, printAnalyzed | the command is honoured; each byte of the range is shown once and in order, each instruction start and each target is shown or noted; what the file loads from the entry point on is shown |
| rest of `vrEmu6502.c` | registers, flags, pins, cycles left | Reset, SetPC, Tick, InstCycle, the pins | executes what the decoder decodes; interrupts return to where they came from; no request is lost |

The parts interact by calls only: the readers call MemWrite, the decoder reads
through a callback that is MemRead, the analysis calls the decoder, main calls
them all in turn. The shared state is memory, written while loading and only
read afterwards. The executing half of `vrEmu6502.c` is linked and never called by dis.
It is modelled because it is what the decoder has to agree with: `disassemble.c:64`
asks that a disassembler "stay in step with the CPU", and `design.md` decides the
length of BRK by what `brk()` executes.

## 2. Modules

| module | models | role |
|---|---|---|
| `Opcodes` | tables of `vrEmu6502.c`, vrEmu6502New, opcodeToAddrMode, opcodeToMnemonicStr | constant: addressing function and mnemonic class of each opcode of each model |
| `Disassemble` | `disassemble.c` | pure operators: lengths, next address, control flow, targets |
| `Analyze` | `analyze.c` | state machine, one action per iteration of the inner loop |
| `Reachability` | what `analyze.h` promises | abstract specification that Analyze implements |
| `AnalyzeProofs` | | the inductive invariant of Analyze and the theorems read off it; that it implements Reachability, what is dropped, and the exact counts |
| `Listing` | printAnalyzed of `dis.c`, DisRange of `disassemble.c` | extends Analyze with the two walks over the range |
| `Dis` | main of `dis.c`, from its first argument to its end | extends Listing; composes the command line, the loaded file, the analysis and the listing |
| `DisProofs` | | what a turn of either walk keeps; the inductive invariant of main and the theorems read off it |
| `Loading`, `RomLoading` | what the readers promise main | operators: the memory, the range and the entry point that a list of records comes to |
| `Memory` | `memory.c` | region table and buffers |
| `FlatMemory` | what a user of `memory.c` sees | abstract specification that Memory implements |
| `MemoryProofs` | | the inductive invariant of Memory, and that it implements FlatMemory |
| `HexFile` | `hexfile.c` | extends Memory with the reader, one action per line |
| `Rp6502File` | `rp6502file.c`, its CRC included | extends Memory with the reader, one action per outcome of a turn of its loop |
| `HexFileProofs`, `Rp6502FileProofs` | | the inductive invariants of the readers: what they leave is what Loading and RomLoading promise; that the reader's checksum is CRC-32 |
| `Cpu6502` | the executing half of `vrEmu6502.c`: control | extends Disassemble; clock tick, interrupts, and each class of instruction |
| `Cpu6502Proofs` | | the inductive invariant of Cpu6502: decoder and CPU agree, returns come home, the analysis is sound for the CPU |
| `Alu` | the executing half of `vrEmu6502.c`: values | registers, flags and a page of memory, while a straight routine runs |
| `AluRoutines` | | extends Alu with twenty-seven routines, the clients of its instructions, and what holds before each instruction of each of them |
| `AluProofs`, `AluRoutineProofs` | | what each instruction of Alu computes, for all operands; that the routines do their tasks, for all operands |
| `MCAnalyze`, `MCDis`, `MCMemory`, `MCHexFile`, `MCRp6502File`, `MCCpu6502`, `MCAlu` | | the instances TLC checks |

How they compose: `Dis` extends `Listing`, which extends `Analyze`, which extends
`Disassemble`. `HexFile` and `Rp6502File` extend `Memory`. The two halves meet in
`Loading` and `RomLoading`: the readers are checked to leave memory, range and entry
point as promised there, and proved to (`Promise == INSTANCE ...`), and `Dis` starts its analysis from
the same operators at the program's own size (`Reader == INSTANCE ...`).

### How state and actions correspond to the code

**Analyze.** `flags` is four sets, one for each bit: `instr`, `func`, `label`,
`queued`. `work` is the part of the array that is in use and `workCap` what is
allocated. `pc` is the local variable of the inner loop, `NoPc` between two
trails. `entries` is a history variable, the addresses AnalyzeAddEntry accepted.
`AnalyzeRun`, `Pop` and `Return` are the outer loop; `EndTrail`, `TraceCall`,
`TraceJump` and `TraceOther` are the inner loop's iterations, each with all it
does: the mark, the counts, `push` and the next address. `push` is a disjunction
of its five ends: out of range, queued before, stored, stored after growing, and
dropped because realloc failed. `AnalyzeNew(lo > hi)` answers NULL; every function
of a NULL analysis does nothing, which is what they do in the model with an empty
range.

**Disassemble.** The memory is a function on the addresses that are backed, as
small as a program; others read as MemRead's default 0. Addresses and bytes are
the program's own, 16 and 8 bits wide, with every cast (`Wrap16`, `Int8`). The text
of an instruction is left out.

**Opcodes.** The tables are generated by their regularities (undocumented opcodes,
RMB/SMB/BBR/BBS columns, WAI/STP). They were compared entry by entry with the five
tables in C. A mnemonic is kept only where it decides a length or a flow.

**Listing.** `lines` is a history variable, the lines of the listing that stand for
bytes or name an address: code, data, the header of the entry point or of another
function with its callers, a label, and the note on a start that was stepped over.
`PrintData` and `PrintInstruction` are the two kinds of turns of printAnalyzed's loop;
`addr` is its 32-bit address, which the note adds to without wrapping while the lookup
wraps. `StartSweep` and `Emit` are DisRange, with `consumed` and the 16-bit length.

**Dis.** `argv` and `argi` are the arguments and the place of the loop over them; `Arg...`
are its turns. A file is the list of records its reader finds in it, or one the reader
refuses. `phase` is how far main has come. `lo` is main's `base`, which is also the only
entry point main ever adds, `hi` its `end`. Every call of the allocator can fail: the malloc
of vrEmu6502New, called by DisInit (`Loads`, after which `cpu` is `NoCpu`), AnalyzeNew's
(`NoAnalysis`), and the worklist's (`push`). Without a CPU every instruction has length 0:
an analysed listing is data from end to end, and a flat one has no line (`Blind`).

**Memory.** A buffer is named by the table entry that uses it; the two static
buffers of the vector helpers are shared by all their calls, as in the code. The
number of addresses is a parameter (`Space`, 2^16 in the program), so that TLC can
look at every address. A region of length 0 covers one address and its buffer has no
byte: what is read there is `Unset`, memory that belongs to no buffer. Each mapping has a buffer of its own: two regions on one
caller's buffer (mirrored RAM) are not modelled.

**HexFile, Rp6502File.** A line is what the parser makes of it. For HEX it keeps the
pairs of digits the line buffer holds from column 9 on, because a record with fewer
digits than its count reads what an earlier line left there; what was never written
(`Unset`) is any byte. For ROMs an item is a line and the payload after it, and `offset` is
ftell counted from the first item. A line has one byte there, a byte `Base` values,
an address two bytes. `Rp6502Crc32` works nibble by nibble with the code's own table,
a word of 32 bits being the set of those that are 1; `RomLoading` has CRC-32 bit by bit.

**Cpu6502.** One action for each way vrEmu6502Tick can go: `Elapse`, `TakeNmi`,
`TakeInt`, and one for each class of instruction, told apart by what they do to the
program counter, the stack and the interrupt flag (`ExecTable` in Opcodes). `Execute` is
the part all of them share. What is left out is overapproximated: a conditional branch
goes either way, a pushed register is any byte, TXS loads any of `StackPointers`, cycles are
"none left" or "some left" (which is also InstCycle, which drops them). Stores write
neither into code nor onto the stack. `Reset`, `SetPC` and `SetPins` are the calls of
the client, at any time between ticks. `depth`, `frames` and `onPath` are history:
which bytes of the stack are whose return address, and whether control has gone only
where the decoder follows it. `frames` is a set, and a frame is known by the depth of the
stack with it; the one on top is at `depth`. `TablesAssumption` says that decoder and CPU
look opcodes up in the same tables, as `vrEmu6502New` arranges it.

**Alu.** What Cpu6502 leaves out: `cpu` is A, X, Y, the flags N, V, D, Z, C and a page of
memory. The functions of the code that work on all of it (`adc`, `sbcd`, `asl`, `Compare`...)
are operators from one such record to the next, with the 8- and 16-bit casts of the C, and
each kind of instruction is an action. `routine` is a short program of the kind a 6502
programmer writes, which is the client that shows whether the flags one instruction leaves
are the ones the next needs. `RoutinesAssumption` says which instructions there are, in
which modes, and that a branch leads into its routine; what runs before an instruction is
otherwise free. `AluRoutines` has the `Library` of routines, and TLC runs them on its operands.
Both families are there: the 65C02 corrects decimal results differently and takes Z, N and V from
them. A CPU_6502U is stored as a CPU_6502 with other opcodes (`StoredModel`), and so is of the NMOS family.

## 3. Runs

| run | instance and bounds | shows |
|---|---|---|
| `analyze` | every program of five bytes in page zero over JSR, BNE, RTS, 0 and $fe, and of three bytes up to $ffff; no DisInit; entry points added in any order, between traversals too; `InitialCap` 1, `CallerMax` 1 | type, Sound, Complete, TargetsExact, CallersExact, OutOfRangeExact, WorklistSafe, NeverTakenBack, Terminates, refinement of Reachability |
| `dis` | every command of up to three words out of seven; ROMs in page zero of six bytes over BIT, JSR, BNE, 0, 1, RTS, so that most jump into operands; HEX files up to $fffe, over the top to 1, with a range of no byte; up to three records out of six in every order and over one another; malloc, calloc and realloc may fail at every call, DisInit's malloc included; `CallerMax` 2 | OnlyDroppedMissing, InOrder, ShownToTheEnd, EveryStartShown, TargetsShown, CallerCounts, CommandHonoured, LoadedListed, Finishes |
| `memory` | 8 addresses, 2 regions, lengths 0 and 3 at 1 and 6, 2 byte values; a region of length 0 has an address and no byte | ReadsInBounds, refinement of FlatMemory |
| `hexfile` | every file of three lines out of eleven; 8 addresses | LastRecordWins, ExtentExact, OrdinaryFilesListed |
| `rp6502file` | every ROM of three items out of twenty-one, three kinds of group header; 16 addresses, vectors at 10 to 15, XRAM at 16 to 31 | RomImageExact, OnlyGoodChunks, CodeExtentExact, EntryRight |
| `cpu6502` | each of the 256 opcodes of the five models once, two operands, in mid-memory and across $ffff; 36 looping programs of the W65C02 with CLI, WAI, a 1-cycle NOP, PLA, BRK, JSR, a handler that uses the stack and one that does not; two calls of the client at any time, eight instructions, stack pointer 0 so that the stack wraps at once | cpu_TypeOK, InReach, StepsAsDecoded, ReturnsHome, PinsServed |
| `alu` | twenty-seven routines, binary and decimal, for a 6502, a 6502 with the undocumented opcodes and a 65C02; operands at the edges of bytes and of digits, every byte to be converted | SumsRight, DifferencesRight, BitsRight |

The bounds are small and the interesting cases happen in them: with one slot the
worklist grows at the second push, with a caller count that saturates at 1 the
second JSR saturates it; three bytes at the top of memory wrap; two regions overlap,
hide one another and fill their table; three records can come in any order, over one
another and across the top; three chunks make a gap, a vector in two halves and a
chunk after a bad one. Two calls of the client are an NMI within the handler of an
interrupt, or a request that is taken back; eight instructions lead through a handler and
home. In the page-zero programs an operand byte is also the address of another byte of
the program, so that every target is in reach of the others. Three words put `--cpu`
last, before an option, and twice. The decimal operands have the digits 0, 1, 5 and 9,
with which every nibble carries, borrows and does neither.

Five runs check one statement of the sources each, which the program does not keep:

| run | statement | what happens |
|---|---|---|
| `dis_overlap` | `analyze.h:13` "Whatever is never reached is data" | bytes of an overlapping instruction past the end of the first one are printed as data although control reaches them |
| `dis_below` | `dis.c:234` "control-flow targets outside the loaded range were not followed" | a ROM's reset vector points past its first routine: calls of that routine are counted as outside and not followed, because the range starts at the entry point |
| `hex_top` | `dis.c:179` "back the whole address space" | `$ffff` is not backed |
| `rp6502_gap` | `rp6502file.c:229` "A vector pointing outside the loaded code ... fall back" | a vector into a gap between chunks is taken |
| `hex_zero` | `design.md:86` "the first such record's load address becomes the run address", `test_hexfile.c:115` the same | a first record at $0000 is passed over, because 0 stands for "not set": the next one gives the run address, and without one the file is refused. `ExtentExact` of run `hexfile` states the rule of the code |

Remarks without a run of their own:

- JMP (indirect) of an NMOS part (`vrEmu6502.c:695-698`): the comment tells of the bug that
  takes the high byte of the target from the pointer's own page. The code applies it to the
  operand instead (`read16Bug` on pc), so that JMP ($03ff) reads $0400, not $0300, and an
  operand at the end of a page is read wrong. In Cpu6502 (`JumpTargets`) as it is; dis never executes it.
- Nobody asks whether vrEmu6502New got its memory. Without a CPU DisInstLen answers 0 and
  DisRange returns at once: dis then lists the whole range as data, or nothing with
  `--linear`, and exits with 0.
- A region of length 0 (`memory.c:53`) covers the one address it is mapped at, and MemRead and
  MemWrite index `data[0]` there, past a buffer that has no byte. dis maps no such region.
- main says "out of memory" also when AnalyzeNew answers NULL because the end of the
  range lies below its start (`dis.c:224`), which a HEX record across the top of memory
  brings about; `NoAnalysis` in Dis is that step.
- The note on a start that is stepped over (`dis.c:97`) prints a sum that does not wrap.
  It never shows: a ROM's range ends below $fffa, a HEX range that reaches $ffff starts at
  1 or above, and the byte at $ffff, which nothing backs, is BRK. The proof of
  `EveryStartShown` needs exactly this.
- ARR (`vrEmu6502.c:1799-1805`) is commented "(sets V)", but `(bool)ac & 0x80` is 0 for
  every value, so V is always cleared. Alu has it as it is.
- parseUint32 says of a sign and of strtoul's own 0x prefix that "neither belongs here"
  (`rp6502file.c:82`). It refuses only a sign that comes first: `$0x10`, `$ 10` and `$ +5`
  still are numbers. Numbers are not modelled digit by digit.

### Fairness

Analyze assumes weak fairness of the steps of a traversal that is running, Dis of
the steps of main: sequential code that nothing else can hold up. Cpu6502 assumes it
of Tick: the client keeps the clock running, which is all a CPU can ask for (when the
bound on instructions is reached, nothing is promised). No fairness is assumed of the
callers of the analysis: adding entry points and calling AnalyzeRun are never forced,
nor is any other call of the CPU's client. The readers, the memory and Alu have no
liveness property.

## 4. Proofs

All of them hold for every set of inputs, every table of opcodes, every size of memory
and every capacity, as far as the assumptions of the modules go: `TableAssumption` (each
opcode has an addressing mode and a mnemonic), `InputsAssumption` (images and ranges are
well typed), `BoundsAssumption` (capacity and maximum are positive), `MemoryAssumption`
(more addresses than the vectors take, 0 is a byte, `Unset` is none, there is a region); `LinesAssumption`
and `ItemsAssumption` (lines and items are as long and as wide as their parsers leave
them; a ROM's addresses have two bytes); and for Dis `TablesAssumption` (the
models of the command line exist, opcode 0 is BRK), `OptionsAssumption` (no model is named
like an option) and `CommandsAssumption` (a chunk lies within memory, a HEX record has
fewer than 256 bytes); for Cpu6502 its `InputsAssumption` (the addresses reached are closed
under control flow, and the stack is no code) and `TablesAssumption` (decoder and CPU share
their tables); for Alu `RoutinesAssumption`, and for what its routines compute
`LibraryAssumption` (a routine is the one of the library with its name; decimal operands have
decimal digits, the divisor is from 1 to 128, the bitwise sum is of single bytes). TLC
evaluates each of them in the runs.

**Analyze.** Whether the allocator fails or not, unless said otherwise:

| theorem | states |
|---|---|
| AnalyzeProofs!TypeCorrect | Spec => []TypeOK |
| AnalyzeProofs!WorklistIsSafe | Spec => []WorklistSafe |
| AnalyzeProofs!Soundness | Spec => []Sound |
| AnalyzeProofs!Completeness | Spec => []Complete |
| AnalyzeProofs!Monotonicity | Spec => NeverTakenBack |
| AnalyzeProofs!Targets | Spec => []TargetsExact |
| AnalyzeProofs!Refinement | Spec => ImplementsReachability, if the allocator does not fail (if it does, the traversal may return with frontier left, which OnlyDropped bounds) |
| AnalyzeProofs!OnlyDropped | Spec => []OnlyDroppedMissing |
| AnalyzeProofs!OutOfRangeCount | Spec => []OutOfRangeExact |
| AnalyzeProofs!CallerCount | Spec => []CallersExact |

The inductive invariant is

    IInv == TypeOK /\ WorklistSafe /\ Pending /\ Accounted /\ Contained

TypeOK alone is inductive once the decoder's lemmas are there. Soundness needs
`Contained`: not only what is marked but also what is queued and being traced lies
in every set of addresses that holds the entry points and is closed under control
flow; `Reach` is the intersection of these sets, so no induction over paths is
needed. Completeness needs the other direction: `Pending` says that what is queued and can be
decoded is marked, on the worklist or being traced, and so is what a marked instruction
falls through to; `Accounted` that, unless the allocator fails, the accepted entry points
and the targets in range of marked instructions are queued. When the traversal has
returned nothing is waiting, so the marked set is itself one of the closed sets, and
`Reach` is contained in it. Each step of AnalyzeRun has a lemma (`PopStep`,
`EndTrailStep`, `TraceCallStep`, `TraceJumpStep`, `TraceOtherStep`), and so have the
decoder's lengths and targets (`LenType`, `TargetType`, `FlowType`).

For the refinement the state of Reachability is read off that of Analyze: the graph is the
decoder's, the seeds are the accepted entry points that decode, the marked nodes are
`instr`. A trace step has to mark an address of the frontier, which `Contained` does not
say; the second invariant `Justified` does: what is queued or being traced and decodes is an
entry point or a successor of a marked instruction. `Pending` and `Accounted` then show
that AnalyzeRun returns with an empty frontier. The counts are cardinalities of sets of
marked instructions, and a step adds one instruction that was not marked.

**Memory.** TypeCorrect (memTypeOK), InBounds (ReadsInBounds) and Refinement
(ImplementsFlat) rest on `MInv`, which adds to the types that every region has a buffer
(`Backed`) that is its own or one of the two of the helpers (`Placed`) and is as long as
the region, or has no byte, and then the region has one address (`Fits`). That address
is the exception in InBounds, and is "unbacked" in FlatMemory. The refinement has one lemma for each operation: a new region changes
the addresses it covers, a full table none, and a vector helper, which writes its static
bytes whether the table is full or not, only those its earlier regions show.

**Dis.** `DInv` joins three things main keeps: what the phase says of command, file and
range (`CommandOK`, `Loaded`, `Blank`), the invariant of the analysis while main drives
it (`Traced`: each step of main on it is a step of Analyze, or of its Init for the range
that was loaded, so the lemmas of AnalyzeProofs are used as they are), and the page
(`Paged`). The page is `Ordered` (spans follow one another), `Marked` (each line
says what the analysis says of its address) and, for the sweep, `Swept`; from `Whole`, the
end of the walk, unless the sweep had no CPU to begin with (`Blind`), follow the theorems about a
finished listing: LinesInOrder,
ListingShowsTheEnd, ListingShowsEveryStart, ListingShowsTargets, ListingCountsCallers,
ListingShowsTheFile, ListingLosesOnlyDropped, and ListingTypeCorrect. `CommandIsHonoured`
has an invariant of its own (`WordsRead`): what the words read so far have set. DisProofs first
proves what a turn of either walk keeps, then which turn main takes.

**HexFile, Rp6502File.** The properties compare memory and range with what Loading and
RomLoading make of the whole list of records, by greatest and least elements of sets of
places. `HInv` and `RInv` say the same of the records themselves: `Written`, that each
address has the byte of a record such that no later one covers it, or 0 if none does;
`Started`, that the run address is that of a record such that all before it are at 0;
`Reached` and `Bounded`, that the ends of the range are ends of records that no other one
passes; `Seen`, which of the vector's bytes were covered. Each of them is kept when the list
grows by one record, so that no induction over the file is needed, and a CHOOSE appears only
where the theorems are read off. `Imaged` is what main maps before it calls a reader, one
region of RAM up to the last address but one, and the lemmas of MemoryProofs say what a write
does to it. HexFileProofs has HexTypeCorrect, LastRecordIsRead, ExtentIsExact and
OrdinaryFilesAreListed; Rp6502FileProofs has RpTypeCorrect, RomImageIsExact, CodeExtentIsExact
and EntryIsRight, whichever chunks the CRC lets through.

Which those are is `GoodChunksOnly`. `GInv` adds to RInv where the reader stands
(`Progress`): `offset` is the length of the items behind it, the end of the section is that of
the group's header, and it is done only where the section or the file ends. With it, each
turn of the loop takes the very item that the promise looks at next. The checksums of code and promise are the same by
`SameCrc`: an entry of the reader's table is what four shifts of the register make of four
bits (`TableRight`, checked entry by entry), so a lookup is four shifts, two lookups are a
byte, and the two folds over the data agree. That last step is an induction over the length of
the data. The induction theorems of the library, which take a predicate as a parameter,
cannot be used here; `Induction` speaks of sets of numbers instead and follows from Nat being
well founded, and `Recursion` gives from it the values of a fold after each byte.

**Cpu6502.** `IInv == Registers /\ Closed /\ FramesRight /\ InReach`.

| theorem | states |
|---|---|
| CpuTypeCorrect | Spec => []cpu_TypeOK |
| PathIsInReach | Spec => []InReach |
| InStepWithDecoder | Spec => StepsAsDecoded |
| ReturnsComeHome | Spec => ReturnsHome |

`InReach` is not inductive: a return takes its address from memory. `FramesRight` says that
the bytes of each frame are still in the stack, at a distance from sp that does not change
with pushes and pulls modulo 256, that frames differ in depth, and that one which keeps the
path leads into `reach`. A push wraps onto the oldest bytes, so the guard of `Intact`, 253
bytes of depth, is what makes `FramesRight` inductive. `Closed` says that what is reached
stays as decoded: stack and code do not meet, so a push changes no instruction
(`FollowsSame`). What the decoder makes of an opcode and what the CPU does with it come
together in `TablesAgree`: for every model and every one of the 256 opcodes, its length, its
flow and the target are those of the class of instruction executed; the proof goes
through the rows and columns by which the tables are generated. Each action then has a
lemma, and the steps of the decoder follow from the same facts.

**Alu.** The type invariant is inductive, and it is all that the rest needs: whatever ran
before, an instruction finds bytes. Each theorem is about every step, hence about every
operand, of every routine of legal instructions:

| theorem | states |
|---|---|
| AluTypeCorrect | registers and memory stay bytes, `at` in the routine |
| EveryAddition | ADC, RRA: result + 256 * carry is the sum, V says whether the signed sum fits, N xor V is its sign; in decimal mode, for valid operands, the digits of the result and the carry are those of the sum |
| EverySubtraction | SBC, ISC: the same of the difference and the borrow, for the NMOS correction and for the other; in decimal mode N and Z are those of the binary difference with the first, of the result with the second |
| EveryComparison | CMP, CPX, CPY, DCP: C is >=, Z is =, N the sign of the difference, nothing else changes |
| EveryShift | ASL, LSR, ROL, ROR: byte and carry together are the byte and the bit that came in |
| EveryBit | AND, ORA, EOR, TRB, TSB, RMB, SMB bit by bit; Z of BIT, TRB and TSB |

A sum is linear in the operands and needs no cases but those of carry and sign. `&` is a
table of nibbles: a byte is two halves and a half four bits, and the table is
compared with the bits of its operands once (`NibbleOperations`). In decimal mode a byte is two digits, and the
corrections, which the code does on 16-bit words, are worked out for the four cases of units
and tens overflowing or not. What is not stated of decimal mode is V, and N and Z of a sum on an
NMOS part, which are not those of the decimal result. For operands that are not decimal
only the types are stated, and the flags N and Z.

What whole routines compute is proved from these, in AluRoutineProofs, in the manner of
Floyd: AluRoutines has for each routine a note, one assertion for each place in it.

| theorem | states |
|---|---|
| RoutinesAsNoted | aluSpec => [](Given /\ Noted): the notes hold, and the operands are ones the routine admits |
| RoutineSums | aluSpec => []SumsRight |
| RoutineDifferences | aluSpec => []DifferencesRight |
| RoutineBits | aluSpec => []BitsRight |

`Noted` is the inductive invariant (with AluTypeOK); the three properties speak of the end
only and say nothing of a carry on its way. Between two instructions the notes say what the
low byte and the carry are together (`LowSum`, `LowDifference`), in the radix of the routine,
so that the binary and the decimal sum have the same note and one proof. In the loops they are loop
invariants: with k the turns done, `Converted` says that the decimal number so far and the
bits still in A are 2^k times the number, `Multiplied` that the accumulator, A and the carry hold
the product by the k bits read and the bits unread, `Divided` the same of quotient, remainder
and rest.
For each routine a lemma `...Runs` says which instruction is where and what it does (from its code
and the theorems above), and a lemma `...Kept` that every step leads from note to note. TLC
checked `Noted` on the operands of `alu` before it was proved. The theorems are about
the routines of the library, for every model that runs them and all operands they admit; of routines that nobody
wrote down they say what the theorems about single instructions say.

Only model-checked: termination and that requests are served (Terminates, Finishes,
PinsServed: liveness under fairness is out of this prover's reach). Every invariant and every
action property that a passing run checks is proved.

## 5. Not modelled

- vrEmu6502DisassembleInstruction: text, never called by dis; where the next instruction
  lies it takes from the functions that DisInstLen's tables are built on. DumpRegions, the text
  of instructions and lines, usage: output only.
- The number of cycles; the B flag of a pushed status; ANE, LXA, SHA, SHX, SHY, TAS, LAS, whose
  results depend on the address bus or the stack pointer.
- The digits of numbers in ROM headers (parseUint32), and isRp6502File beyond its answer,
  which is the format of a file in Dis.
- Lines of HEX files longer than 1023 characters, which fgets splits; two regions on
  one buffer; failing reads of a file that could be opened.

## 6. Plan

1. Done: Opcodes, Disassemble, Analyze, Reachability and their proofs; Memory, FlatMemory
   and theirs; HexFile and Rp6502File with the CRC, against Loading and RomLoading, and their
   proofs; Listing and Dis as a whole and their proofs; Cpu6502; Alu.
2. Model next: parseUint32 and the first line of a file (isRp6502File); mirrored RAM in
   Memory; the cycles of vrEmu6502.
3. Done since: the CPU against the decoder (StepsAsDecoded, InReach, ReturnsHome), the
   CRC, every arithmetic instruction, and the routines made of them (SumsRight,
   DifferencesRight, BitsRight). Prove next: V in decimal mode against the code's own rule,
   and that a routine ends, for which the notes would need a measure.
