------------------------------ MODULE Cpu6502 ------------------------------
(***************************************************************************)
(* The executing half of vrEmu6502.c: the clock tick, the interrupts, and  *)
(* every instruction as far as it moves the program counter, the stack and *)
(* the interrupt flag.  design.md uses this half as the oracle for the     *)
(* decoder; dis itself never runs it.                                      *)
(*                                                                         *)
(* Left out: the registers A, X, Y and the other flags, so that a branch   *)
(* may go either way and a pushed register is any byte of DataBytes; what  *)
(* stores write, so programs do not write into their code or the stack;    *)
(* the number of cycles beyond "one" and "more than one".                  *)
(***************************************************************************)
EXTENDS Disassemble

CONSTANTS
  Table,          \* instruction, addressing function and cycles of each opcode
  NMOS,           \* the models for which vr6502->model is CPU_6502
  Inputs,         \* programs, see InputsAssumption
  StackPointers,  \* values of sp the program starts with or loads by TXS
  DataBytes       \* values of A, X and Y

VARIABLES
  cpu, mem,
  pc, sp,
  flagI,          \* FlagI
  step,           \* 0, or 1 while cycles of an instruction are left
  currentOpcode,
  wai, stp,
  nmiPin, intPin, \* TRUE for IntRequested
  start, reach,   \* of the input
  calls, left,    \* bounds: calls of the client, instructions executed
  depth, frames,  \* history: bytes on the stack, and what is to be returned to
  onPath          \* history: control has only gone where the decoder says

pins == <<nmiPin, intPin>>
fixed == <<cpu, start, reach>>
history == <<depth, frames, onPath>>
vars == <<fixed, mem, pc, sp, flagI, step, currentOpcode, wai, stp, pins,
          calls, left, history>>

StackPage == 256..511

\* Where the decoder says control goes on after the instruction at a.
Follows(c, m, a) ==
  LET flow == DisFlowOf(c, m, a)
  IN  (IF flow \in {"Normal", "Branch", "Call"} THEN {DisOne(c, m, a)} ELSE {})
      \cup (IF flow \in {"Branch", "Jump", "Call"} THEN {Target(c, m, a)} ELSE {})

\* A program is an image of memory and an address to start at, with a set of
\* addresses closed under control flow as decoded, such as what AnalyzeRun
\* marks.  The code is not on the stack.
ASSUME InputsAssumption ==
  \A in \in Inputs :
    /\ in.cpu \in Model /\ IsImage(in.mem)
    /\ in.start \in in.reach /\ in.reach \subseteq Addr
    /\ in.calls \in Nat /\ in.left \in Nat
    /\ \A a \in in.reach :
         /\ Follows(in.cpu, in.mem, a) \subseteq in.reach
         /\ {a, Wrap16(a + 1), Wrap16(a + 2)} \cap StackPage = {}

\* Decoder and CPU look the opcode up in the same five tables.
Tables == INSTANCE Opcodes

ASSUME TablesAssumption ==
  /\ Model = Tables!CPUs /\ NMOS = Tables!CPUs \ Tables!CMOS
  /\ DecodeTable = Tables!OpcodeTable /\ Table = Tables!ExecTable
  /\ StackPointers \subseteq Byte /\ DataBytes \subseteq Byte

-----------------------------------------------------------------------------
\* push and pop, on bytes; the stack wraps within its page.
Slot(s) == 256 + (s % 256)

Pushed(bytes) ==
  LET at(i) == Slot(sp - i + 1)
      slots == {at(i) : i \in DOMAIN bytes}
  IN  [a \in DOMAIN mem \cup slots |->
         IF a \in slots THEN bytes[CHOOSE i \in DOMAIN bytes : at(i) = a] ELSE mem[a]]

Push(bytes) ==
  /\ mem' = Pushed(bytes)
  /\ sp' = (sp - Len(bytes)) % 256
  /\ depth' = depth + Len(bytes)

Pop(n) ==
  /\ sp' = (sp + n) % 256
  /\ depth' = depth - n
  /\ UNCHANGED mem

Pulled(n) == Read(mem, Slot(sp + n))

\* The status byte, of which only FlagI is kept.
Status(i) == IF i THEN 4 ELSE 0
IsI(byte) == (byte \div 4) % 2 = 1

Bytes(addr) == <<addr \div 256, addr % 256>>

-----------------------------------------------------------------------------
(***************************************************************************)
(* History.  A frame says which kind of event pushed a return address,     *)
(* where control was to go on, the flag then, and how deep the stack is    *)
(* with it, which tells the frames apart.  It is forgotten when its bytes  *)
(* are popped or overwritten.                                              *)
(***************************************************************************)
Frame(k, a, path) ==
  [kind |-> k, to |-> a, flag |-> flagI, path |-> path, depth |-> depth']

Intact(f) == f.depth <= depth' /\ depth' - f.depth <= 253

Keep == frames' = {f \in frames : Intact(f)}
KeepAnd(new) == frames' = {f \in frames : Intact(f)} \cup {new}

Top == CHOOSE f \in frames : f.depth = depth

\* The return address of an event of one of these kinds is on top.
Matched(kinds) == \E f \in frames : f.depth = depth /\ f.kind \in kinds

-----------------------------------------------------------------------------
\* vrEmu6502New and vrEmu6502Reset, then vrEmu6502SetPC: registers and flags
\* are whatever malloc returned, except that a CMOS part sets I.
Init ==
  \E in \in Inputs :
    /\ cpu = in.cpu /\ mem = in.mem /\ start = in.start /\ reach = in.reach
    /\ calls = in.calls /\ left = in.left
    /\ pc = start
    /\ sp \in StackPointers
    /\ flagI \in IF cpu \in NMOS THEN BOOLEAN ELSE {TRUE}
    /\ step = 0 /\ currentOpcode = 0
    /\ wai = FALSE /\ stp = FALSE
    /\ nmiPin = FALSE /\ intPin = FALSE
    /\ depth = 0 /\ frames = {} /\ onPath = TRUE

\* Calls of the client, between any two ticks.
Client == calls > 0 /\ calls' = calls - 1

Reset ==
  /\ Client
  /\ nmiPin' = FALSE /\ intPin' = FALSE
  /\ pc' = 512
  /\ step' = 0 /\ currentOpcode' = 0
  /\ wai' = FALSE /\ stp' = FALSE
  /\ flagI' = (flagI \/ cpu \notin NMOS)
  /\ onPath' = FALSE
  /\ UNCHANGED <<fixed, mem, sp, left, depth, frames>>

\* Waiting for an interrupt, or stopped, is not undone.
SetPC ==
  /\ Client
  /\ pc' = start /\ step' = 0
  /\ onPath' = TRUE
  /\ UNCHANGED <<fixed, mem, sp, flagI, currentOpcode, wai, stp, pins, left, depth, frames>>

\* Through the pointers vrEmu6502Nmi and vrEmu6502Int return.
SetPins ==
  /\ Client
  /\ \/ ~nmiPin /\ nmiPin' = TRUE /\ UNCHANGED intPin
     \/ intPin' = ~intPin /\ UNCHANGED nmiPin
  /\ UNCHANGED <<fixed, mem, pc, sp, flagI, step, currentOpcode, wai, stp, left, history>>

-----------------------------------------------------------------------------
(***************************************************************************)
(* vrEmu6502Tick.                                                          *)
(***************************************************************************)
\* "interrupts are ignored during the 1-cycle nops"
Sampled == ~Table[cpu][currentOpcode].oneCycle

Boundary == ~stp /\ step = 0

\* A tick in which cycles pass.
Elapse ==
  /\ ~stp /\ step > 0
  /\ step' = step - 1
  /\ UNCHANGED <<fixed, mem, pc, sp, flagI, currentOpcode, wai, stp, pins, calls, left, history>>

\* The return address is the instruction that would have been next.
beginInterrupt(vector) ==
  /\ Push(Bytes(pc) \o <<Status(flagI)>>)
  /\ flagI' = TRUE
  /\ wai' = FALSE
  /\ pc' = Read16(mem', vector)
  /\ KeepAnd(Frame("interrupt", pc, onPath))
  /\ onPath' = FALSE

NMI_VEC == AddrSpace - 6
INT_VEC == AddrSpace - 2

TakeNmi ==
  /\ Boundary /\ Sampled
  /\ nmiPin
  /\ nmiPin' = FALSE
  /\ beginInterrupt(NMI_VEC)
  /\ UNCHANGED <<fixed, step, currentOpcode, stp, intPin, calls, left>>

\* The pin stays low until the client raises it.
TakeInt ==
  /\ Boundary /\ Sampled
  /\ ~nmiPin /\ intPin /\ ~flagI
  /\ beginInterrupt(INT_VEC)
  /\ UNCHANGED <<fixed, step, currentOpcode, stp, pins, calls, left>>

-----------------------------------------------------------------------------
(***************************************************************************)
(* The instruction at pc is executed when no interrupt is taken; a request *)
(* that is masked still ends WAI.  InstCycle is Tick with the remaining    *)
(* cycles dropped.                                                         *)
(***************************************************************************)
Opcode == Read(mem, pc)
Entry == Table[cpu][Opcode]
Runs(instructions) == Entry.instruction \in instructions

Execute ==
  /\ Boundary /\ left > 0
  /\ Sampled => ~nmiPin /\ (intPin => flagI)
  /\ wai => Sampled /\ intPin
  /\ left' = left - 1
  /\ currentOpcode' = Opcode
  /\ step' \in IF Entry.oneCycle THEN {0} ELSE {0, 1}
  /\ UNCHANGED <<fixed, pins, calls>>

\* How far each addressing function moves pc.
Operand == pc + 1

Advance(fn) ==
  CASE fn \in {"imp", "acc"} -> 0
    [] fn \in {"ab", "abx", "aby", "axp", "ayp"} -> 2
    [] OTHER -> 1

Past == Wrap16(Operand + Advance(Entry.addrMode))

\* The relative mode, on the operand byte at p.
rel(p) == Wrap16(p + Int8(Read(mem, Wrap16(p))) + 1)

NoStack == UNCHANGED <<mem, sp, depth, frames>>
NoHalt  == wai' = FALSE /\ UNCHANGED stp

Plain ==
  /\ Runs({"other"}) /\ Execute
  /\ pc' = Past
  /\ NoStack /\ NoHalt
  /\ UNCHANGED <<flagI, onPath>>

SetFlag ==
  /\ Runs({"cli", "sei"}) /\ Execute
  /\ pc' = Past
  /\ flagI' = (Entry.instruction = "sei")
  /\ NoStack /\ NoHalt
  /\ UNCHANGED onPath

PushRegister ==
  /\ Runs({"push", "php"}) /\ Execute
  /\ pc' = Past
  /\ \E byte \in IF Runs({"php"}) THEN {Status(flagI)} ELSE DataBytes : Push(<<byte>>)
  /\ Keep
  /\ NoHalt
  /\ UNCHANGED <<flagI, onPath>>

\* Mutant: the stack pointer is not kept within a byte.
PullUnwrapped ==
  /\ Runs({"pull", "plp"}) /\ Execute
  /\ pc' = Past
  /\ flagI' = IF Runs({"plp"}) THEN IsI(Pulled(1)) ELSE flagI
  /\ sp' = sp + 1 /\ depth' = depth - 1 /\ UNCHANGED mem
  /\ Keep
  /\ NoHalt
  /\ UNCHANGED onPath

Pull ==
  /\ Runs({"pull", "plp"}) /\ Execute
  /\ pc' = Past
  /\ flagI' = IF Runs({"plp"}) THEN IsI(Pulled(1)) ELSE flagI
  /\ Pop(1)
  /\ Keep
  /\ NoHalt
  /\ UNCHANGED onPath

\* TXS, and the undocumented TAS and LAS.
LoadSP ==
  /\ Runs({"txs"}) /\ Execute
  /\ pc' = Past
  /\ sp' \in StackPointers
  /\ depth' = 0 /\ frames' = {}
  /\ NoHalt
  /\ UNCHANGED <<mem, flagI, onPath>>

Branch ==
  /\ Runs({"bcond", "bra"}) /\ Execute
  /\ pc' \in {rel(Operand)} \cup (IF Runs({"bra"}) THEN {} ELSE {Past})
  /\ NoStack /\ NoHalt
  /\ UNCHANGED <<flagI, onPath>>

\* Mutant: the displacement is taken from the zero-page byte.
BitBranchShort ==
  /\ Runs({"bbx"}) /\ Execute
  /\ pc' \in {rel(Operand), Past}
  /\ NoStack /\ NoHalt
  /\ UNCHANGED <<flagI, onPath>>

\* BBR and BBS, with their second operand byte.
BitBranch ==
  /\ Runs({"bbx"}) /\ Execute
  /\ pc' \in {rel(Past), Wrap16(Past + 1)}
  /\ NoStack /\ NoHalt
  /\ UNCHANGED <<flagI, onPath>>

\* On an NMOS part the operand, not the pointer it names, is read without
\* a carry into the page.
read16Bug(addr) ==
  IF addr % 256 = 255
  THEN Read(mem, addr) + 256 * Read(mem, addr - 255)
  ELSE Read16(mem, addr)

JumpTargets ==
  LET p == Wrap16(Operand)
  IN  CASE Entry.addrMode = "ind" ->
             {Read16(mem, IF cpu \in NMOS THEN read16Bug(p) ELSE Read16(mem, p))}
        [] Entry.addrMode = "indx" -> {Read16(mem, Read16(mem, p) + x) : x \in DataBytes}
        [] OTHER -> {Read16(mem, p)}

Jump ==
  /\ Runs({"jmp"}) /\ Execute
  /\ pc' \in JumpTargets
  /\ onPath' = (onPath /\ Entry.addrMode = "ab")
  /\ NoStack /\ NoHalt
  /\ UNCHANGED flagI

\* Mutant: the address pushed is that of the next instruction.
JsrPushesNext ==
  /\ Runs({"jsr"}) /\ Execute
  /\ Push(Bytes(Past))
  /\ pc' = Read16(mem, Operand)
  /\ KeepAnd(Frame("call", DisOne(cpu, mem, pc), onPath))
  /\ NoHalt
  /\ UNCHANGED <<flagI, onPath>>

\* The address pushed is that of the last byte of the call.
Jsr ==
  /\ Runs({"jsr"}) /\ Execute
  /\ Push(Bytes(Wrap16(Past - 1)))
  /\ pc' = Read16(mem, Operand)
  /\ KeepAnd(Frame("call", DisOne(cpu, mem, pc), onPath))
  /\ NoHalt
  /\ UNCHANGED <<flagI, onPath>>

\* The byte after the opcode is skipped.
Brk ==
  /\ Runs({"brk"}) /\ Execute
  /\ Push(Bytes(Wrap16(pc + 2)) \o <<Status(flagI)>>)
  /\ flagI' = TRUE
  /\ pc' = Read16(mem', INT_VEC)
  /\ KeepAnd(Frame("brk", DisOne(cpu, mem, pc), FALSE))
  /\ onPath' = FALSE
  /\ NoHalt

\* Mutant: RTS goes to the address it pulls.
RtsAsPulled ==
  /\ Runs({"rts"}) /\ Execute
  /\ pc' = Pulled(1) + 256 * Pulled(2)
  /\ Pop(2)
  /\ onPath' = (Matched({"call"}) /\ Top.path)
  /\ Keep
  /\ NoHalt
  /\ UNCHANGED flagI

Rts ==
  /\ Runs({"rts"}) /\ Execute
  /\ pc' = Wrap16(Pulled(1) + 256 * Pulled(2) + 1)
  /\ Pop(2)
  /\ onPath' = (Matched({"call"}) /\ Top.path)
  /\ Keep
  /\ NoHalt
  /\ UNCHANGED flagI

Rti ==
  /\ Runs({"rti"}) /\ Execute
  /\ flagI' = IsI(Pulled(1))
  /\ pc' = Pulled(2) + 256 * Pulled(3)
  /\ Pop(3)
  /\ onPath' = (Matched({"brk", "interrupt"}) /\ Top.path)
  /\ Keep
  /\ NoHalt

\* JAM reads the byte after its opcode, and stops.
Halt ==
  /\ Runs({"wai", "stp", "jam"}) /\ Execute
  /\ pc' = IF Runs({"jam"}) THEN Wrap16(pc + 2) ELSE Past
  /\ wai' = Runs({"wai"})
  /\ stp' = (stp \/ Runs({"stp", "jam"}))
  /\ NoStack
  /\ UNCHANGED <<flagI, onPath>>

Tick ==
  \/ Elapse \/ TakeNmi \/ TakeInt
  \/ Plain \/ SetFlag \/ PushRegister \/ Pull \/ LoadSP
  \/ Branch \/ BitBranch \/ Jump \/ Jsr \/ Brk \/ Rts \/ Rti \/ Halt

Next == Reset \/ SetPC \/ SetPins \/ Tick

\* The client keeps the clock running.
Spec == Init /\ [][Next]_vars /\ WF_vars(Tick)

-----------------------------------------------------------------------------
cpu_TypeOK ==
  /\ IsImage(mem)
  /\ pc \in Addr /\ sp \in Byte /\ currentOpcode \in Byte
  /\ step \in {0, 1}
  /\ \A b \in {flagI, wai, stp, nmiPin, intPin, onPath} : b \in BOOLEAN
  /\ \A f \in frames : f.to \in Addr /\ f.depth <= depth

Executes == left' # left

\* disassemble.c: a disassembler "has to stay in step with the CPU".  Whatever
\* the opcode, model, operand and address, one instruction takes the CPU where
\* DisOne, DisFlowOf and its target say: lengths of all instructions that run
\* on, both ends of each branch, targets of jumps and calls; and what is said
\* to return leaves by the stack or stops.
StepsAsDecoded ==
  [][Executes =>
       LET flow == DisFlowOf(cpu, mem, pc)
       IN  /\ flow \in {"Normal", "Branch", "Jump"} => pc' \in Follows(cpu, mem, pc)
           /\ flow = "Call" => pc' = Target(cpu, mem, pc)
           /\ flow = "Return" => stp' \/ Runs({"rts", "rti", "brk"})]_vars

\* A return that finds its own address on top of the stack goes back to the
\* instruction after the call or the BRK as the decoder measures them, or to
\* the one that was interrupted, with the interrupt flag of then.
ReturnsHome ==
  [][Executes /\ \/ Runs({"rts"}) /\ Matched({"call"})
                 \/ Runs({"rti"}) /\ Matched({"brk", "interrupt"})
     => pc' = Top.to /\ (Runs({"rti"}) => flagI' = Top.flag)]_vars

\* The CPU executes no address the analysis has not reached, as long as it has
\* left by no indirect jump, and is back from every interrupt: interrupts at
\* any tick, nested ones too, do not lead it astray.
InReach == onPath /\ ~stp => pc \in reach

\* A request on the NMI pin is taken at the end of some instruction, unless
\* the CPU has stopped, and WAI ends with a request on either pin.  (With no
\* instruction left in the bound there may be no such end.)
PinsServed ==
  /\ nmiPin ~> ~nmiPin \/ stp \/ left = 0
  /\ wai /\ (nmiPin \/ intPin) ~> ~wai \/ ~(nmiPin \/ intPin) \/ left = 0
=============================================================================
