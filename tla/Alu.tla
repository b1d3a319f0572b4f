-------------------------------- MODULE Alu --------------------------------
(***************************************************************************)
(* What the instructions of vrEmu6502.c compute: the accumulator, the two  *)
(* index registers, the flags and a page of memory, one action for each    *)
(* kind of instruction, while a straight routine runs from its first       *)
(* instruction to its last.  Where instructions come from is Cpu6502.      *)
(*                                                                         *)
(* A routine is one a 6502 programmer would write, and says which task it  *)
(* does; whether it does it is what the arithmetic and the flags, carried  *)
(* from one instruction to the next, have to answer for.                   *)
(***************************************************************************)
EXTENDS Integers, Sequences

CONSTANTS
  Routines,   \* by name, [task, decimal, models, operands, code]
  CMOS        \* the models of the 65C02 family

VARIABLES
  model, routine,
  start,      \* the memory it started with
  at,         \* the next instruction
  cpu         \* [ac, ix, iy, flags, mem]

aluVars == <<model, routine, start, at, cpu>>

Byte  == 0..255
Cells == Byte
Flags == {"N", "V", "D", "Z", "C"}

\* vr6502->model: vrEmu6502New makes a CPU_6502U a CPU_6502 with opcodes of its own.
StoredModel == IF model = "CPU_6502U" THEN "CPU_6502" ELSE model

Wrap8(n)  == n % 256
Wrap16(n) == n % 65536
Int8(n)   == IF Wrap8(n) < 128 THEN Wrap8(n) ELSE Wrap8(n) - 256

(***************************************************************************)
(* Bits.                                                                   *)
(***************************************************************************)
Bit(n, i) == (n \div 2^i) % 2
Is(n, i)  == Bit(n, i) = 1
Lo(n) == n % 16
Hi(n) == n \div 16
Acc == -1     \* no address: the accumulator

\* & on four bits.
AndNibbles ==
  [x \in 0..15 |-> [y \in 0..15 |->
     LET both(i) == 2^i * (Bit(x, i) * Bit(y, i)) IN both(0) + both(1) + both(2) + both(3)]]

And8(x, y) == 16 * AndNibbles[Hi(x)][Hi(y)] + AndNibbles[Lo(x)][Lo(y)]
Or8(x, y)  == x + y - And8(x, y)
Xor8(x, y) == x + y - 2 * And8(x, y)
Not8(x)    == 255 - x

(***************************************************************************)
(* The flags, and the registers with the flags they leave.                 *)
(***************************************************************************)
setOrClearBit(flags, flag, set) == IF set THEN flags \cup {flag} ELSE flags \ {flag}

setNZ(flags, val) == setOrClearBit(setOrClearBit(flags, "N", val >= 128), "Z", val = 0)

testBit(s, flag) == IF flag \in s.flags THEN 1 ELSE 0

Set(s, reg, val) == [s EXCEPT ![reg] = val, !.flags = setNZ(@, val)]

\* asl and the like, of the accumulator or of memory: the carry out, the result.
Fetch(s, x)  == IF x \in Cells THEN s.mem[x] ELSE s.ac
Put(s, x, v) == IF x \in Cells THEN [s EXCEPT !.mem[x] = v] ELSE [s EXCEPT !.ac = v]

Modify(s, x, carry, val) ==
  [Put(s, x, val) EXCEPT !.flags = setNZ(setOrClearBit(@, "C", carry = 1), val)]

asl(s, x) == LET v == Fetch(s, x) IN Modify(s, x, Bit(v, 7), Wrap8(2 * v))
lsr(s, x) == LET v == Fetch(s, x) IN Modify(s, x, Bit(v, 0), v \div 2)

\* Mutant: a rotation that leaves out the carry.
rolShifts(s, x) == LET v == Fetch(s, x) IN Modify(s, x, Bit(v, 7), Wrap8(2 * v))

rol(s, x) == LET v == Fetch(s, x) IN Modify(s, x, Bit(v, 7), Wrap8(2 * v) + testBit(s, "C"))

ror(s, x) == LET v == Fetch(s, x) IN Modify(s, x, Bit(v, 0), v \div 2 + 128 * testBit(s, "C"))

\* inc and dec keep the carry.
Add(s, x, n) == LET v == Wrap8(Fetch(s, x) + n) IN [Put(s, x, v) EXCEPT !.flags = setNZ(@, v)]

(***************************************************************************)
(* Addition and subtraction.                                               *)
(***************************************************************************)
\* The binary sum, which sbc and cmp use with the complement.
Overflows(a, b, result) == Bit(a, 7) # Bit(result, 7) /\ Bit(b, 7) # Bit(result, 7)

SumFlags(flags, a, b, result) ==
  setOrClearBit(setOrClearBit(flags, "C", result > 255), "V", Overflows(a, b, result))

BinarySum(s, opr) ==
  LET result == s.ac + opr + testBit(s, "C")
  IN  Set([s EXCEPT !.flags = SumFlags(@, s.ac, opr, result)], "ac", Wrap8(result))

\* Mutant: a carry out of the units is not added to the tens.
adcdNoTens(s, value) ==
  LET units == Lo(value) + Lo(s.ac) + testBit(s, "C")
      tens  == Hi(value) + Hi(s.ac)
      t     == IF tens > 9 THEN tens + 6 ELSE tens
      u     == IF units > 9 THEN units + 6 ELSE units
      sum   == Set(s, "ac", Wrap8(16 * t + Lo(u)))
  IN  [sum EXCEPT !.flags = setOrClearBit(@, "C", t > 15)]

\* The tens are added a second time, as signed digits, for V; a 6502 takes Z
\* from the binary sum.
adcd(s, value) ==
  LET carry == testBit(s, "C")
      units == Lo(value) + Lo(s.ac) + carry
      tc    == IF units > 9 THEN 1 ELSE 0
      u     == units + 6 * tc
      tens  == Hi(value) + Hi(s.ac) + tc
      t     == IF tens > 9 THEN tens + 6 ELSE tens
      High(n) == IF n >= 8 THEN n + 240 ELSE n
      res   == Int8(High(Hi(s.ac)) + High(Hi(value)) + tc)
      sum   == Set(s, "ac", Wrap8(16 * t + Lo(u)))
      flags == IF model \in CMOS
               THEN setOrClearBit(sum.flags, "V", res < -8 \/ res > 7)
               ELSE setOrClearBit(sum.flags, "Z", Wrap8(s.ac + value + carry) = 0)
  IN  [sum EXCEPT !.flags = setOrClearBit(flags, "C", t > 15)]

adc(s, value) == IF "D" \in s.flags THEN adcd(s, value) ELSE BinarySum(s, value)

Negative(n) == n >= 32768
Int16(n) == IF Negative(n) THEN n - 65536 ELSE n

\* The difference as the two NMOS models correct it, nibble by nibble, and as the
\* 65C02 family does.
NmosDifference(a, value, borrow) ==
  LET units  == Wrap16(Lo(a) - Lo(value) - borrow)
      tmp    == IF Negative(units) THEN Wrap16(Lo(units - 6) - 16) ELSE units
      result == Wrap16(16 * Hi(a) - 16 * Hi(value) + tmp)
  IN  IF Negative(result) THEN Wrap16(result - 96) ELSE result

CmosDifference(a, value, borrow) ==
  LET result == Wrap16(a - value - borrow)
      tens   == IF Negative(result) THEN Wrap16(result - 96) ELSE result
  IN  IF Lo(a) - Lo(value) - borrow < 0 THEN Wrap16(tens - 6) ELSE tens

\* Mutant: the carry is that of the corrected byte.
BorrowsNotByte(a, result) == Wrap8(result) <= a

BorrowsNot(a, result) == result <= a \/ Wrap8(Hi(result)) = 255

sbcd(s, value) ==
  LET borrow == 1 - testBit(s, "C")
      bin    == Wrap16(s.ac - value - borrow)
      nmos   == StoredModel = "CPU_6502"
      result == IF nmos THEN NmosDifference(s.ac, value, borrow)
                ELSE CmosDifference(s.ac, value, borrow)
      over   == IF nmos THEN Int16(result) < -128 \/ Int16(result) > 127
                ELSE Overflows(s.ac, Not8(value), bin)
      flags  == setNZ(s.flags, Wrap8(IF nmos THEN bin ELSE result))
  IN  [s EXCEPT !.ac = Wrap8(result),
                !.flags = setOrClearBit(setOrClearBit(flags, "V", over),
                                        "C", BorrowsNot(s.ac, result))]

sbc(s, value) == IF "D" \in s.flags THEN sbcd(s, value) ELSE BinarySum(s, Not8(value))

\* cmp, cpx and cpy; sbx, which keeps the difference.
Compare(s, a, value) ==
  LET result == a + Not8(value) + 1
  IN  [s EXCEPT !.flags = setNZ(setOrClearBit(@, "C", result > 255), Wrap8(result))]

(***************************************************************************)
(* Routines.                                                               *)
(***************************************************************************)
Loads     == {<<"LDA", "ac">>, <<"LDX", "ix">>, <<"LDY", "iy">>}
Stores    == {<<"STA", "ac">>, <<"STX", "ix">>, <<"STY", "iy">>}
Transfers == {<<"TAX", "ac", "ix">>, <<"TAY", "ac", "iy">>, <<"TXA", "ix", "ac">>, <<"TYA", "iy", "ac">>}
Compares  == {<<"CMP", "ac">>, <<"CPX", "ix">>, <<"CPY", "iy">>}
Counts    == {<<"INX", "ix", 1>>, <<"DEX", "ix", 255>>, <<"INY", "iy", 1>>, <<"DEY", "iy", 255>>}
FlagOps   == {<<"CLC", "C", FALSE>>, <<"SEC", "C", TRUE>>, <<"CLD", "D", FALSE>>,
              <<"SED", "D", TRUE>>, <<"CLV", "V", FALSE>>}
Branches  == {<<"BCC", "C", FALSE>>, <<"BCS", "C", TRUE>>, <<"BNE", "Z", FALSE>>, <<"BEQ", "Z", TRUE>>,
              <<"BPL", "N", FALSE>>, <<"BMI", "N", TRUE>>, <<"BVC", "V", FALSE>>, <<"BVS", "V", TRUE>>}
BitBranches == {<<"BBR", 0>>, <<"BBS", 1>>}

Names(kind) == {i[1] : i \in kind}

\* An instruction has a mode, and an operand: a byte, the address of a cell, or
\* where in the routine a branch leads.
Legal(ins, code) ==
  /\ \/ ins.mode = "imp" /\ ins.op \in Names(Transfers) \cup Names(Counts) \cup Names(FlagOps)
     \/ ins.mode = "rel" /\ ins.op \in Names(Branches)
     \/ ins.mode = "acc" /\ ins.op \in {"ASL", "LSR", "ROL", "ROR", "INC", "DEC"}
     \/ /\ ins.mode = "imm" /\ ins.arg \in Byte
        /\ ins.op \in Names(Loads) \cup Names(Compares) \cup
                      {"AND", "ORA", "EOR", "ADC", "SBC", "BIT", "ANC", "ALR", "ARR", "SBX"}
     \/ ins.mode \in {"zp", "zpx"} /\ ins.arg \in Byte
  /\ ins.op \in Names(Branches) \cup Names(BitBranches) => ins.to \in 1..Len(code) + 1
  /\ ins.op \in Names(BitBranches) \cup {"RMB", "SMB"} => ins.bit \in 0..7

\* TLC evaluates a definition once, a constant that a definition gives each time.
Repertoire == Routines

ASSUME RoutinesAssumption ==
  \A r \in DOMAIN Repertoire :
    LET code == Repertoire[r].code
    IN  /\ Repertoire[r].operands \subseteq [Cells -> Byte]
        /\ Len(code) \in Nat
        /\ \A i \in 1..Len(code) : Legal(code[i], code)

Routine == Repertoire[routine]
Running == at <= Len(Routine.code)
Ins     == Routine.code[at]

\* zp and zpx: a cell; imm: a value; acc: no cell.
Target == CASE Ins.mode = "zp"  -> Ins.arg
            [] Ins.mode = "zpx" -> Wrap8(Ins.arg + cpu.ix)
            [] OTHER            -> Acc
Value == IF Ins.mode = "imm" THEN Ins.arg ELSE cpu.mem[Target]

aluInit ==
  /\ routine \in DOMAIN Repertoire
  /\ model \in Routine.models
  /\ start \in Routine.operands
  /\ at = 1
  /\ cpu = [ac |-> 0, ix |-> 0, iy |-> 0, flags |-> {}, mem |-> start]

Does(op, s) ==
  /\ Running /\ Ins.op = op
  /\ cpu' = s
  /\ at' = at + 1
  /\ UNCHANGED <<model, routine, start>>

Load     == \E i \in Loads     : Does(i[1], Set(cpu, i[2], Value))
Store    == \E i \in Stores    : Does(i[1], [cpu EXCEPT !.mem[Target] = cpu[i[2]]])
Zero     == Does("STZ", [cpu EXCEPT !.mem[Target] = 0])
Transfer == \E i \in Transfers : Does(i[1], Set(cpu, i[3], cpu[i[2]]))
Count    == \E i \in Counts    : Does(i[1], Set(cpu, i[2], Wrap8(cpu[i[2]] + i[3])))
FlagOp   == \E i \in FlagOps   : Does(i[1], [cpu EXCEPT !.flags = setOrClearBit(@, i[2], i[3])])

And == Does("AND", Set(cpu, "ac", And8(cpu.ac, Value)))
Ora == Does("ORA", Set(cpu, "ac", Or8(cpu.ac, Value)))
Eor == Does("EOR", Set(cpu, "ac", Xor8(cpu.ac, Value)))

Adc == Does("ADC", adc(cpu, Value))
Sbc == Does("SBC", sbc(cpu, Value))
Cmp == \E i \in Compares : Does(i[1], Compare(cpu, cpu[i[2]], Value))

Inc == Does("INC", Add(cpu, Target, 1))
Dec == Does("DEC", Add(cpu, Target, 255))
Asl == Does("ASL", asl(cpu, Target))
Lsr == Does("LSR", lsr(cpu, Target))
Rol == Does("ROL", rol(cpu, Target))
Ror == Does("ROR", ror(cpu, Target))

\* With an immediate operand, BIT leaves N and V alone.
BitTest ==
  LET flags == IF Ins.mode = "imm" THEN cpu.flags
               ELSE setOrClearBit(setOrClearBit(cpu.flags, "V", Bit(Value, 6) = 1), "N", Bit(Value, 7) = 1)
  IN  Does("BIT", [cpu EXCEPT !.flags = setOrClearBit(flags, "Z", And8(Value, cpu.ac) = 0)])

\* trb and tsb: the bits of memory that the accumulator names.
Trb == Does("TRB", [cpu EXCEPT !.mem[Target] = And8(@, Not8(cpu.ac)),
                               !.flags = setOrClearBit(@, "Z", And8(Value, cpu.ac) = 0)])
Tsb == Does("TSB", [cpu EXCEPT !.mem[Target] = Or8(@, cpu.ac),
                               !.flags = setOrClearBit(@, "Z", And8(Value, cpu.ac) = 0)])
Rmb == Does("RMB", [cpu EXCEPT !.mem[Target] = And8(@, Not8(2^Ins.bit))])
Smb == Does("SMB", [cpu EXCEPT !.mem[Target] = Or8(@, 2^Ins.bit)])

BranchTo(taken) ==
  /\ at' = IF taken THEN Ins.to ELSE at + 1
  /\ UNCHANGED <<model, routine, start, cpu>>

Branch == \E i \in Branches : Running /\ Ins.op = i[1] /\ BranchTo((i[2] \in cpu.flags) = i[3])
BitBranch == \E i \in BitBranches : Running /\ Ins.op = i[1] /\ BranchTo(Bit(Value, Ins.bit) = i[2])

\* The undocumented ones of CPU_6502U.
Slo == Does("SLO", LET s == asl(cpu, Target) IN Set(s, "ac", Or8(s.ac, s.mem[Target])))
Rla == Does("RLA", LET s == rol(cpu, Target) IN Set(s, "ac", And8(s.ac, s.mem[Target])))
Sre == Does("SRE", LET s == lsr(cpu, Target) IN Set(s, "ac", Xor8(s.ac, s.mem[Target])))
Rra == Does("RRA", LET s == ror(cpu, Target) IN adc(s, s.mem[Target]))
Dcp == Does("DCP", LET s == Add(cpu, Target, 255) IN Compare(s, s.ac, s.mem[Target]))
Isc == Does("ISC", LET s == Add(cpu, Target, 1) IN sbc(s, s.mem[Target]))
Sax == Does("SAX", [cpu EXCEPT !.mem[Target] = And8(cpu.ac, cpu.ix)])
Lax == Does("LAX", [Set(cpu, "ac", Value) EXCEPT !.ix = Value])
Anc == Does("ANC", LET s == Set(cpu, "ac", And8(cpu.ac, Value))
                   IN  [s EXCEPT !.flags = setOrClearBit(@, "C", "N" \in s.flags)])
Alr == Does("ALR", lsr(Set(cpu, "ac", And8(cpu.ac, Value)), Acc))

\* (bool)ac & 0x80 is 0 whatever ac is, and (bool)ac & 0x40.
Arr == Does("ARR", LET s == Set(cpu, "ac", And8(cpu.ac, Value))
                   IN  [s EXCEPT !.flags = setOrClearBit(@, "V", FALSE),
                                 !.ac = @ \div 2 + 128 * testBit(s, "C")])
Sbx == Does("SBX", LET s == Compare(cpu, And8(cpu.ac, cpu.ix), Value)
                   IN  [s EXCEPT !.ix = Wrap8(And8(cpu.ac, @) + Not8(Value) + 1)])

Halted == ~Running /\ UNCHANGED aluVars

aluNext ==
  \/ Load \/ Store \/ Zero \/ Transfer \/ Count \/ FlagOp
  \/ And \/ Ora \/ Eor \/ Adc \/ Sbc \/ Cmp
  \/ Inc \/ Dec \/ Asl \/ Lsr \/ Rol \/ Ror
  \/ BitTest \/ Trb \/ Tsb \/ Rmb \/ Smb \/ Branch \/ BitBranch
  \/ Slo \/ Rla \/ Sre \/ Rra \/ Dcp \/ Isc \/ Sax \/ Lax \/ Anc \/ Alr \/ Arr \/ Sbx
  \/ Halted

aluSpec == aluInit /\ [][aluNext]_aluVars

-----------------------------------------------------------------------------
(***************************************************************************)
(* What the tasks ask for.  Operands are at A and B, results at R, least   *)
(* significant byte first; a decimal byte is two digits.                   *)
(***************************************************************************)
A == 1
B == 3
R == 5

Bcd(n)       == n \in Byte /\ Lo(n) <= 9 /\ Hi(n) <= 9
Digits(v)    == IF Routine.decimal THEN 10 * Hi(v) + Lo(v) ELSE v
Radix        == IF Routine.decimal THEN 100 ELSE 256
Number(m, c) == Digits(m[c]) + Radix * Digits(m[c + 1])
Signed(m, c) == Int16(m[c] + 256 * m[c + 1])

Finished(task) == ~Running /\ Routine.task = task

Carry == testBit(cpu, "C")
Yes   == cpu.iy = 1     \* what a comparison answers

\* Sums and what is made of them, over two bytes, of binary numbers and of valid
\* decimal ones: the carry and the decimal correction of one instruction are
\* right for the next.  So is a number converted to decimal by doubling it bit
\* by bit, and a product by shifting and adding.
SumsRight ==
  /\ Finished("sum") =>
       Number(cpu.mem, R) + Radix^2 * Carry = Number(start, A) + Number(start, B)
  /\ Finished("toDecimal") => Number(cpu.mem, R) = start[A]
  /\ Finished("product") => Number(cpu.mem, A) = start[A] * start[B]

\* Differences, and the orders that the flags of a comparison stand for: C the
\* one of numbers without a sign, N and V that of numbers with one, Z equality;
\* and a quotient with its remainder.
DifferencesRight ==
  /\ Finished("difference") =>
       Number(cpu.mem, R) - Radix^2 * (1 - Carry) = Number(start, A) - Number(start, B)
  /\ Finished("unsignedLess") => (Yes <=> Number(start, A) < Number(start, B))
  /\ Finished("signedLess")   => (Yes <=> Signed(start, A) < Signed(start, B))
  /\ Finished("equal")        => (Yes <=> Number(start, A) = Number(start, B))
  /\ Finished("quotient")     => /\ cpu.mem[A] = start[A] \div start[B]
                                 /\ cpu.ac = start[A] % start[B]

\* Shifts, counts and single bits: what leaves one byte enters the next, and a
\* bit that is not meant stays as it was.
BitsRight ==
  /\ Finished("double") => Number(cpu.mem, A) + 65536 * Carry = 2 * Number(start, A)
  /\ Finished("half")   => Number(cpu.mem, A) = Number(start, A) \div 2
  /\ Finished("up")     => Number(cpu.mem, A) = Wrap16(Number(start, A) + 1)
  /\ Finished("down")   => Number(cpu.mem, A) = Wrap16(Number(start, A) - 1)
  /\ Finished("extend") => Signed(cpu.mem, R) = Int8(start[A])
  /\ Finished("merge")  => \A i \in 0..7 :
                             Bit(cpu.mem[R], i) = Bit(start[IF Bit(start[B], i) = 1 THEN A ELSE R], i)
  /\ Finished("copy")   => \A i \in 0..7 :
                             Bit(cpu.mem[R], i) = Bit(start[IF i >= 6 THEN A ELSE R], i)
=============================================================================
