---------------------------- MODULE Disassemble ----------------------------
(***************************************************************************)
(* The decoder of disassemble.c: how long the instruction at an address is *)
(* and where control can go after it.  Pure functions of the CPU model,    *)
(* the memory the read callback shows, and the address.                    *)
(*                                                                         *)
(* Addresses are the program's own 16-bit values and opcodes its own       *)
(* bytes; text (mnemonics, operands, layout) is left out.                  *)
(***************************************************************************)
EXTENDS Integers, Sequences

CONSTANTS
  Model,        \* the values DisInit is called with
  NoCpu,        \* disCpu == NULL: DisInit has not been called, or its malloc failed
  DecodeTable   \* mnemonic and addressing mode of each opcode of each model

\* 2^16, written so that no prover has to count to it.
AddrSpace == 256 * 256

Addr == 0..(AddrSpace - 1)
Byte == 0..255

AddrMode == {"Abs", "AbsX", "AbsY", "Acc", "Imm", "Imp", "AbsInd", "AbsIndX",
             "IndX", "IndY", "Rel", "ZP", "ZPI", "ZPX", "ZPY"}

\* The library caches a mnemonic and an addressing mode for every opcode.
ASSUME TableAssumption ==
  /\ NoCpu \notin Model
  /\ \A cpu \in Model : \A op \in Byte :
       /\ DecodeTable[cpu][op].mode \in AddrMode
       /\ DecodeTable[cpu][op].mnemonic \in STRING

\* (uint16_t)n and (int8_t)b.
Wrap16(n) == n % AddrSpace
Int8(b)   == IF b < 128 THEN b ELSE b - 256

\* A memory image is a function on the addresses that are backed; MemRead
\* answers the default fill, 0, for the others.
IsImage(mem) == DOMAIN mem \subseteq Addr /\ \A a \in DOMAIN mem : mem[a] \in Byte

Read(mem, addr) == IF addr \in DOMAIN mem THEN mem[addr] ELSE 0

Read16(mem, addr) ==
  Wrap16(Read(mem, Wrap16(addr)) + 256 * Read(mem, Wrap16(addr + 1)))

Mnemonic(cpu, op) == DecodeTable[cpu][op].mnemonic

\* BBR and BBS are declared as plain zero page but take a relative byte too.
disIsBitBranch(cpu, op) == Mnemonic(cpu, op) = "bbx"

\* BRK skips its signature byte.
disIsBrk(cpu, op) == op = 0 /\ Mnemonic(cpu, op) = "brk"

ThreeByteModes == {"Abs", "AbsX", "AbsY", "AbsInd", "AbsIndX"}
TwoByteModes == {"Imm", "IndX", "IndY", "Rel", "ZP", "ZPI", "ZPX", "ZPY"}

DisInstLen(cpu, op) ==
  IF cpu = NoCpu THEN 0
  ELSE IF disIsBitBranch(cpu, op) THEN 3
  ELSE IF disIsBrk(cpu, op) THEN 2
  ELSE LET mode == DecodeTable[cpu][op].mode
       IN  IF mode \in ThreeByteModes THEN 3
           ELSE IF mode \in TwoByteModes THEN 2
           ELSE 1

InstLen(cpu, mem, addr) == DisInstLen(cpu, Read(mem, addr))

\* The address of the instruction after the one DisOne prints.
DisOne(cpu, mem, addr) == IF cpu = NoCpu THEN 0 ELSE Wrap16(addr + InstLen(cpu, mem, addr))

Flow == {"Normal", "Branch", "Jump", "Call", "Return", "Indirect"}

\* Two targets: relative to the end of the instruction, or the operand.
RelTarget(mem, addr, len) == Wrap16(addr + len + Int8(Read(mem, Wrap16(addr + len - 1))))
AbsTarget(mem, addr)      == Read16(mem, addr + 1)

ConditionalBranches == {\h10, \h30, \h50, \h70, \h90, \hb0, \hd0, \hf0}

FlowOfOp(mnemonic, op) ==
  IF mnemonic = "bbx" \/ op \in ConditionalBranches THEN "Branch"
  ELSE IF op = \h20 THEN "Call"
  ELSE IF op = \h4c THEN "Jump"
  ELSE IF op \in {\h6c, \h7c} THEN IF mnemonic = "jmp" THEN "Indirect" ELSE "Normal"
  ELSE IF op = \h80 THEN IF mnemonic = "bra" THEN "Jump" ELSE "Normal"
  ELSE IF op \in {\h00, \h40, \h60} THEN "Return"
  ELSE IF mnemonic = (IF op = \hdb THEN "stp" ELSE "jam") THEN "Return"
  ELSE "Normal"

DisFlowOf(cpu, mem, addr) ==
  IF cpu = NoCpu THEN "Normal"
  ELSE LET op == Read(mem, addr) IN FlowOfOp(Mnemonic(cpu, op), op)

\* What DisFlowOf stores through its target pointer, for the flows that
\* have a target.
Target(cpu, mem, addr) ==
  LET op == Read(mem, addr)
  IN  IF disIsBitBranch(cpu, op) THEN RelTarget(mem, addr, 3)
      ELSE IF op \in {\h20, \h4c} THEN AbsTarget(mem, addr)
      ELSE RelTarget(mem, addr, 2)
=============================================================================
