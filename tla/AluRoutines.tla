---------------------------- MODULE AluRoutines ----------------------------
(***************************************************************************)
(* Routines that a 6502 programmer writes, as clients of Alu: what their   *)
(* task is, their code, and what holds before each of their instructions.  *)
(* Operands are at A and B, results at R, least significant byte first.    *)
(***************************************************************************)
EXTENDS Alu

\* Instructions, by mode.
I(op)           == [op |-> op, mode |-> "imp"]
Imm(op, n)      == [op |-> op, mode |-> "imm", arg |-> n]
Zp(op, c)       == [op |-> op, mode |-> "zp", arg |-> c]
ZpX(op, c)      == [op |-> op, mode |-> "zpx", arg |-> c]
ToAcc(op)       == [op |-> op, mode |-> "acc"]
To(op, n)       == [op |-> op, mode |-> "rel", to |-> n]
BitOf(op, i, c) == [op |-> op, mode |-> "zp", bit |-> i, arg |-> c]
BitTo(op, i, c, n) == [op |-> op, mode |-> "zp", bit |-> i, arg |-> c, to |-> n]

-----------------------------------------------------------------------------
(* Sums and differences, a product and a quotient.                         *)

Straight(mode, set, op) ==
  <<I(mode), I(set), Zp("LDA", A), Zp(op, B), Zp("STA", R),
    Zp("LDA", A + 1), Zp(op, B + 1), Zp("STA", R + 1)>>

\* Over X from -2 to 0.
LoopedSum ==
  <<I("CLD"), I("CLC"), Imm("LDX", 254),
    ZpX("LDA", A + 2), ZpX("ADC", B + 2), ZpX("STA", R + 2), I("INX"), To("BNE", 4)>>

\* From the bits that two bytes have in common and those that either has.
BitwiseSum ==
  <<Zp("LAX", A), Zp("LDA", B), Zp("SAX", R), Zp("ORA", A), I("CLC"), Zp("ADC", R), Zp("STA", R),
    Imm("LDA", 0), Imm("ADC", 0), Zp("STA", R + 1), I("CLC")>>

ByIncrement ==
  <<Zp("LDA", A), Zp("DEC", B), I("SEC"), Zp("ISC", B), Zp("STA", R),
    Zp("LDA", A + 1), Zp("DEC", B + 1), Zp("ISC", B + 1), Zp("STA", R + 1)>>

\* The number is shifted out of A and into a decimal one, which is doubled.
ToDecimal ==
  <<I("SED"), Imm("LDX", 8), Imm("LDA", 0), Zp("STA", R), Zp("STA", R + 1),
    Zp("ASL", A), Zp("LDA", R), Zp("ADC", R), Zp("STA", R), Zp("ROL", R + 1),
    I("DEX"), To("BNE", 6)>>

\* The multiplier is shifted out of A as the product is shifted in.
Product ==
  <<Imm("LDA", 0), Imm("LDY", 8), Zp("LSR", A),
    To("BCC", 7), I("CLC"), Zp("ADC", B),
    ToAcc("ROR"), Zp("ROR", A), I("DEY"), To("BNE", 4), Zp("STA", A + 1)>>

Quotient ==
  <<Imm("LDA", 0), Imm("LDX", 8), Zp("ASL", A),
    ToAcc("ROL"), Zp("CMP", B), To("BCC", 8), Zp("SBC", B),
    Zp("ROL", A), I("DEX"), To("BNE", 4)>>

(* Comparisons, with the answer in Y.                                      *)

UnsignedLess ==
  <<Imm("LDY", 0), Zp("LDA", A), Zp("CMP", B), Zp("LDA", A + 1), Zp("SBC", B + 1),
    To("BCS", 8), I("INY")>>

SignedLess ==
  <<I("CLV"), Zp("LDA", A), Zp("CMP", B), Zp("LDA", A + 1), Zp("SBC", B + 1), To("BVC", 8),
    Imm("EOR", 128), Imm("LDY", 0), Imm("AND", 128), To("BPL", 12), I("INY")>>

Equal ==
  <<Imm("LDY", 1), Zp("LDX", A), Zp("CPX", B), To("BNE", 9),
    Zp("LDA", A + 1), I("TAX"), Zp("CPX", B + 1), To("BEQ", 10), I("DEY")>>

EqualToo ==
  <<Imm("LDY", 1), Zp("LDA", A), Zp("INC", B), Zp("DCP", B), To("BNE", 10),
    Zp("LDA", A + 1), Zp("INC", B + 1), Zp("DCP", B + 1), To("BEQ", 11), Imm("LDY", 0)>>

(* Shifts, counts, and single bits.                                        *)

Double    == <<Zp("ASL", A), Zp("ROL", A + 1)>>
DoubleToo == <<Zp("SLO", A), Zp("RLA", A + 1)>>
Half      == <<Zp("LSR", A + 1), Zp("ROR", A)>>
HalfToo   == <<Zp("SRE", A + 1), Zp("RRA", A)>>

HalfInA ==
  <<Zp("LDA", A + 1), Imm("ALR", 255), Zp("STA", A + 1), Zp("LDA", A), Imm("ARR", 255), Zp("STA", A)>>

Up   == <<Zp("INC", A), To("BNE", 4), Zp("INC", A + 1)>>
Down == <<Zp("LDX", A), To("BNE", 4), Zp("DEC", A + 1), I("DEX"), Zp("STX", A)>>

DownToo ==
  <<Zp("LDA", A), Imm("LDX", 255), Imm("SBX", 1), Zp("STX", A), To("BCS", 7), Zp("DEC", A + 1)>>

Extend ==
  <<Zp("LDA", A), Zp("STA", R), Imm("ANC", 255), Imm("LDA", 0), Imm("ADC", 255), Imm("EOR", 255),
    Zp("STA", R + 1)>>

ExtendToo == <<Zp("LDY", A), Zp("STY", R), Zp("STZ", R + 1), BitTo("BBR", 7, A, 6), Zp("DEC", R + 1)>>

Copy ==
  <<BitOf("SMB", 7, R), Zp("BIT", A), Imm("BIT", 0), To("BMI", 6), BitOf("RMB", 7, R),
    BitOf("RMB", 6, R), To("BVC", 9), BitOf("SMB", 6, R)>>

CopyToo ==
  <<BitOf("RMB", 7, R), BitOf("RMB", 6, R), BitTo("BBS", 7, A, 7),
    Zp("BIT", A), To("BVS", 9), To("BVC", 10), BitOf("SMB", 7, R), BitTo("BBR", 6, A, 10),
    BitOf("SMB", 6, R)>>

Merge == <<Zp("LDA", B), Zp("TRB", R), Zp("AND", A), Zp("TSB", R)>>

-----------------------------------------------------------------------------
Task(task, decimal, code) == [task |-> task, decimal |-> decimal, code |-> code]

Library ==
  [binarySum         |-> Task("sum", FALSE, Straight("CLD", "CLC", "ADC")),
   decimalSum        |-> Task("sum", TRUE, Straight("SED", "CLC", "ADC")),
   loopedSum         |-> Task("sum", FALSE, LoopedSum),
   bitwiseSum        |-> Task("sum", FALSE, BitwiseSum),
   binaryDifference  |-> Task("difference", FALSE, Straight("CLD", "SEC", "SBC")),
   decimalDifference |-> Task("difference", TRUE, Straight("SED", "SEC", "SBC")),
   byIncrement       |-> Task("difference", FALSE, ByIncrement),
   toDecimal         |-> Task("toDecimal", TRUE, ToDecimal),
   product           |-> Task("product", FALSE, Product),
   quotient          |-> Task("quotient", FALSE, Quotient),
   unsignedLess      |-> Task("unsignedLess", FALSE, UnsignedLess),
   signedLess        |-> Task("signedLess", FALSE, SignedLess),
   equal             |-> Task("equal", FALSE, Equal),
   equalToo          |-> Task("equal", FALSE, EqualToo),
   double            |-> Task("double", FALSE, Double),
   doubleToo         |-> Task("double", FALSE, DoubleToo),
   half              |-> Task("half", FALSE, Half),
   halfToo           |-> Task("half", FALSE, HalfToo),
   halfInA           |-> Task("half", FALSE, HalfInA),
   up                |-> Task("up", FALSE, Up),
   down              |-> Task("down", FALSE, Down),
   downToo           |-> Task("down", FALSE, DownToo),
   extend            |-> Task("extend", FALSE, Extend),
   extendToo         |-> Task("extend", FALSE, ExtendToo),
   copy              |-> Task("copy", FALSE, Copy),
   copyToo           |-> Task("copy", FALSE, CopyToo),
   merge             |-> Task("merge", FALSE, Merge)]

\* What a routine may count on: decimal operands are valid, a sum of bytes is
\* one of two bytes, and the remainder and a bit fit a byte.
Admits(r, m) ==
  /\ r \in {"decimalSum", "decimalDifference"} =>
       Bcd(m[A]) /\ Bcd(m[A + 1]) /\ Bcd(m[B]) /\ Bcd(m[B + 1])
  /\ r = "bitwiseSum" => m[A + 1] = 0 /\ m[B + 1] = 0
  /\ r = "quotient" => m[B] \in 1..128

\* Routines are those of the library, by their names.
ASSUME LibraryAssumption ==
  \A r \in DOMAIN Repertoire :
    /\ r \in DOMAIN Library
    /\ Repertoire[r].task = Library[r].task
    /\ Repertoire[r].decimal = Library[r].decimal
    /\ Repertoire[r].code = Library[r].code
    /\ \A m \in Repertoire[r].operands : Admits(r, m)

-----------------------------------------------------------------------------
(***************************************************************************)
(* What holds before each instruction, by its place, and after the last.   *)
(***************************************************************************)
Kept(cells) == \A c \in cells : cpu.mem[c] = start[c]
C == "C" \in cpu.flags
Z == "Z" \in cpu.flags
N == "N" \in cpu.flags
V == "V" \in cpu.flags
D == "D" \in cpu.flags

\* The low byte of a result is right, with the carry it leaves; so is a whole one.
LowSum(byte)  == Digits(byte) + Radix * Carry = Digits(start[A]) + Digits(start[B])
WholeSum(byte) == Digits(cpu.mem[R]) + Radix * (Digits(byte) + Radix * Carry)
                    = Number(start, A) + Number(start, B)

StraightSumNote ==
  /\ Kept(1..4)
  /\ at >= 2 => (D <=> Routine.decimal)
  /\ at \in 3..4 => ~C
  /\ at = 4 => cpu.ac = start[A]
  /\ at = 5 => LowSum(cpu.ac)
  /\ at \in 6..7 => LowSum(cpu.mem[R])
  /\ at = 7 => cpu.ac = start[A + 1]
  /\ at = 8 => WholeSum(cpu.ac)
  /\ at = 9 => WholeSum(cpu.mem[R + 1])

LowDifference(byte) ==
  Digits(byte) - Radix * (1 - Carry) = Digits(start[A]) - Digits(start[B])
WholeDifference(byte) ==
  Digits(cpu.mem[R]) + Radix * (Digits(byte) - Radix * (1 - Carry))
    = Number(start, A) - Number(start, B)

StraightDifferenceNote ==
  /\ Kept(1..4)
  /\ at >= 2 => (D <=> Routine.decimal)
  /\ at \in 3..4 => C
  /\ at = 4 => cpu.ac = start[A]
  /\ at = 5 => LowDifference(cpu.ac)
  /\ at \in 6..7 => LowDifference(cpu.mem[R])
  /\ at = 7 => cpu.ac = start[A + 1]
  /\ at = 8 => WholeDifference(cpu.ac)
  /\ at = 9 => WholeDifference(cpu.mem[R + 1])

LoopedSumNote ==
  /\ Kept(1..4)
  /\ at >= 2 => ~D
  /\ at = 3 => ~C
  /\ at \in 4..7 => cpu.ix \in {254, 255}
  /\ at \in 4..7 /\ cpu.ix = 254 =>
       /\ at \in 4..5 => ~C
       /\ at = 5 => cpu.ac = start[A]
       /\ at = 6 => LowSum(cpu.ac)
       /\ at = 7 => LowSum(cpu.mem[R])
  /\ at \in 4..7 /\ cpu.ix = 255 =>
       /\ at \in 4..5 => LowSum(cpu.mem[R])
       /\ at = 5 => cpu.ac = start[A + 1]
       /\ at = 6 => WholeSum(cpu.ac)
       /\ at = 7 => WholeSum(cpu.mem[R + 1])
  /\ at = 8 => /\ cpu.ix \in {255, 0}
               /\ Z <=> cpu.ix = 0
               /\ IF Z THEN WholeSum(cpu.mem[R + 1]) ELSE LowSum(cpu.mem[R])
  /\ at = 9 => WholeSum(cpu.mem[R + 1])

BitwiseSumNote ==
  /\ Kept(1..4)
  /\ ~D
  /\ at \in 2..3 => cpu.ix = start[A]
  /\ at \in 3..4 => cpu.ac = start[B]
  /\ at \in 4..6 => cpu.mem[R] = And8(start[B], start[A])
  /\ at \in 5..6 => cpu.ac = Or8(start[B], start[A])
  /\ at = 6 => ~C
  /\ at = 7 => cpu.ac + 256 * Carry = start[A] + start[B]
  /\ at \in 8..9 => cpu.mem[R] + 256 * Carry = start[A] + start[B]
  /\ at = 9 => cpu.ac = 0
  /\ at = 10 => cpu.mem[R] + 256 * cpu.ac = start[A] + start[B]
  /\ at \in 11..12 => cpu.mem[R] + 256 * cpu.mem[R + 1] = start[A] + start[B]
  /\ at = 12 => ~C

ByIncrementNote ==
  /\ Kept({A, A + 1})
  /\ ~D
  /\ at \in 1..2 => cpu.mem[B] = start[B]
  /\ at \in 3..4 => cpu.mem[B] = Wrap8(start[B] + 255)
  /\ at \in 1..7 => cpu.mem[B + 1] = start[B + 1]
  /\ at = 8 => cpu.mem[B + 1] = Wrap8(start[B + 1] + 255)
  /\ at \in 2..4 => cpu.ac = start[A]
  /\ at = 4 => C
  /\ at = 5 => LowDifference(cpu.ac)
  /\ at \in 6..8 => LowDifference(cpu.mem[R])
  /\ at \in 7..8 => cpu.ac = start[A + 1]
  /\ at = 9 => WholeDifference(cpu.ac)
  /\ at = 10 => WholeDifference(cpu.mem[R + 1])

Power == [k \in 0..9 |-> 2^k]

\* The part of the number that was shifted out is the decimal one: 2^k times the
\* number is that part and what is left, 256 times as much and once.
Converted(units, hundreds, k) ==
  256 * (Digits(units) + 100 * hundreds) + cpu.mem[A] = start[A] * Power[k]

ToDecimalNote ==
  LET hundreds == cpu.mem[R + 1]  k == 8 - cpu.ix IN
  /\ at <= 5 => cpu.mem[A] = start[A]
  /\ at >= 2 => D
  /\ at \in 3..5 => cpu.ix = 8
  /\ at \in 4..5 => cpu.ac = 0
  /\ at \in 5..13 => Bcd(cpu.mem[R])
  /\ at = 5 => cpu.mem[R] = 0
  /\ at \in 6..10 => hundreds <= 2
  /\ at \in 6..11 => cpu.ix \in 1..8
  /\ at = 6 => Converted(cpu.mem[R], hundreds, k)
  /\ at \in 7..8 =>
       256 * (2 * (Digits(cpu.mem[R]) + 100 * hundreds) + Carry) + cpu.mem[A]
         = start[A] * Power[k + 1]
  /\ at = 8 => cpu.ac = cpu.mem[R]
  /\ at = 9 => Bcd(cpu.ac) /\ Converted(cpu.ac, 2 * hundreds + Carry, k + 1)
  /\ at = 10 => Converted(cpu.mem[R], 2 * hundreds + Carry, k + 1)
  /\ at \in 11..13 => hundreds <= 2
  /\ at = 11 => Converted(cpu.mem[R], hundreds, k + 1)
  /\ at = 12 => /\ cpu.ix \in 0..7 /\ Converted(cpu.mem[R], hundreds, k)
                /\ Z <=> cpu.ix = 0
  /\ at = 13 => Converted(cpu.mem[R], hundreds, 8)

\* With the l that the k bits read of the multiplier are, the product so far
\* and the rest of the multiplier.
Multiplied(word, k) ==
  \E l \in 0..Power[k] - 1 : word * Power[k] + l = start[A] + 512 * (l * start[B])

ProductNote ==
  LET k == 8 - cpu.iy  carried == cpu.ac + 256 * Carry IN
  /\ cpu.mem[B] = start[B]
  /\ ~D
  /\ at <= 3 => cpu.mem[A] = start[A]
  /\ at \in 2..3 => cpu.ac = 0
  /\ at = 3 => cpu.iy = 8
  /\ at \in 4..9 => cpu.iy \in 1..8
  /\ at \in 4..5 => Multiplied(512 * cpu.ac + 2 * cpu.mem[A] + Carry, k)
  /\ at = 5 => C
  /\ at = 6 => ~C /\ Multiplied(512 * cpu.ac + 2 * cpu.mem[A] + 1, k)
  /\ at = 7 => Multiplied(256 * carried + cpu.mem[A], k + 1)
  /\ at = 8 => Multiplied(512 * cpu.ac + 256 * Carry + cpu.mem[A], k + 1)
  /\ at = 9 => Multiplied(512 * cpu.ac + 2 * cpu.mem[A] + Carry, k + 1)
  /\ at = 10 => /\ cpu.iy \in 0..7 /\ Multiplied(512 * cpu.ac + 2 * cpu.mem[A] + Carry, k)
                /\ Z <=> cpu.iy = 0
  /\ at = 11 => Multiplied(512 * cpu.ac + 2 * cpu.mem[A] + Carry, 8)
  /\ at = 12 => Number(cpu.mem, A) = start[A] * start[B]

\* With the q that the k bits of the quotient so far are, of a remainder, and
\* the rest of the dividend with that quotient behind it.
Divided(rest, remainder, k) ==
  \E q \in 0..Power[k] - 1 :
    start[A] * Power[k + 1] = 512 * (q * start[B] + remainder) + rest - q

\* The same in between, when the remainder has the next bit and the quotient not.
Lengthened(rest, remainder, k) ==
  \E q \in 0..Power[k] - 1 :
    start[A] * Power[k + 2] = 512 * (2 * (q * start[B]) + remainder) + 2 * rest - 2 * q

QuotientNote ==
  LET k == 8 - cpu.ix IN
  /\ cpu.mem[B] = start[B]
  /\ ~D
  /\ at <= 3 => cpu.mem[A] = start[A]
  /\ at \in 2..3 => cpu.ac = 0
  /\ at = 3 => cpu.ix = 8
  /\ at \in 4..9 => cpu.ix \in 1..8
  /\ at = 4 => cpu.ac < start[B] /\ Divided(256 * Carry + cpu.mem[A], cpu.ac, k)
  /\ at \in 5..7 => cpu.ac < 2 * start[B] /\ Lengthened(cpu.mem[A], cpu.ac, k)
  /\ at = 6 => (C <=> cpu.ac >= start[B])
  /\ at = 7 => C /\ cpu.ac >= start[B]
  /\ at = 8 => cpu.ac < start[B] /\ Divided(2 * cpu.mem[A] + Carry, cpu.ac, k + 1)
  /\ at = 9 => cpu.ac < start[B] /\ Divided(256 * Carry + cpu.mem[A], cpu.ac, k + 1)
  /\ at = 10 => /\ cpu.ix \in 0..7
                /\ cpu.ac < start[B] /\ Divided(256 * Carry + cpu.mem[A], cpu.ac, k)
                /\ Z <=> cpu.ix = 0
  /\ at = 11 => cpu.ac < start[B] /\ Divided(256 * Carry + cpu.mem[A], cpu.ac, 8)

UnsignedLessNote ==
  /\ Kept(1..4)
  /\ ~D
  /\ at \in 2..7 => cpu.iy = 0
  /\ at = 3 => cpu.ac = start[A]
  /\ at \in 4..5 => (C <=> start[A] >= start[B])
  /\ at = 5 => cpu.ac = start[A + 1]
  /\ at = 6 => (C <=> Number(start, A) >= Number(start, B))
  /\ at = 7 => Number(start, A) < Number(start, B)
  /\ at = 8 => (Yes <=> Number(start, A) < Number(start, B))

SignedLessNote ==
  LET less == Signed(start, A) < Signed(start, B) IN
  /\ Kept(1..4)
  /\ ~D
  /\ at = 3 => cpu.ac = start[A]
  /\ at \in 4..5 => (C <=> start[A] >= start[B])
  /\ at = 5 => cpu.ac = start[A + 1]
  /\ at = 6 => ((N <=> cpu.ac >= 128) /\ (~(N <=> V) <=> less))
  /\ at = 7 => (cpu.ac < 128 <=> less)
  /\ at \in 8..9 => (cpu.ac >= 128 <=> less)
  /\ at \in 9..11 => cpu.iy = 0
  /\ at = 10 => (N <=> less)
  /\ at = 11 => less
  /\ at = 12 => (Yes <=> less)

EqualNote ==
  /\ Kept(1..4)
  /\ at \in 2..9 => cpu.iy = 1
  /\ at = 3 => cpu.ix = start[A]
  /\ at = 4 => (Z <=> start[A] = start[B])
  /\ at \in 5..8 => start[A] = start[B]
  /\ at = 6 => cpu.ac = start[A + 1]
  /\ at = 7 => cpu.ix = start[A + 1]
  /\ at = 8 => (Z <=> start[A + 1] = start[B + 1])
  /\ at = 9 => Number(start, A) # Number(start, B)
  /\ at = 10 => (Yes <=> Number(start, A) = Number(start, B))

EqualTooNote ==
  /\ Kept({A, A + 1})
  /\ at <= 3 => cpu.mem[B] = start[B]
  /\ at = 4 => cpu.mem[B] = Wrap8(start[B] + 1)
  /\ at <= 7 => cpu.mem[B + 1] = start[B + 1]
  /\ at = 8 => cpu.mem[B + 1] = Wrap8(start[B + 1] + 1)
  /\ at \in 2..10 => cpu.iy = 1
  /\ at \in 3..4 => cpu.ac = start[A]
  /\ at = 5 => (Z <=> start[A] = start[B])
  /\ at \in 6..9 => start[A] = start[B]
  /\ at \in 7..8 => cpu.ac = start[A + 1]
  /\ at = 9 => (Z <=> start[A + 1] = start[B + 1])
  /\ at = 10 => Number(start, A) # Number(start, B)
  /\ at = 11 => (Yes <=> Number(start, A) = Number(start, B))

DoubleNote ==
  /\ at <= 2 => cpu.mem[A + 1] = start[A + 1]
  /\ at = 1 => cpu.mem[A] = start[A]
  /\ at = 2 => cpu.mem[A] + 256 * Carry = 2 * start[A]
  /\ at = 3 => Number(cpu.mem, A) + 65536 * Carry = 2 * Number(start, A)

HalfNote ==
  /\ at <= 2 => cpu.mem[A] = start[A]
  /\ at = 1 => cpu.mem[A + 1] = start[A + 1]
  /\ at = 2 => 2 * cpu.mem[A + 1] + Carry = start[A + 1]
  /\ at = 3 => Number(cpu.mem, A) = Number(start, A) \div 2

HalfInANote ==
  /\ at <= 6 => cpu.mem[A] = start[A]
  /\ at = 1 => cpu.mem[A + 1] = start[A + 1]
  /\ at = 2 => cpu.ac = start[A + 1]
  /\ at = 3 => 2 * cpu.ac + Carry = start[A + 1]
  /\ at \in 4..6 => 2 * cpu.mem[A + 1] + Carry = start[A + 1]
  /\ at = 5 => cpu.ac = start[A]
  /\ at = 6 => cpu.ac = (start[A] + 256 * Carry) \div 2
  /\ at = 7 => Number(cpu.mem, A) = Number(start, A) \div 2

UpNote ==
  /\ at = 1 => cpu.mem[A] = start[A]
  /\ at <= 3 => cpu.mem[A + 1] = start[A + 1]
  /\ at = 2 => /\ cpu.mem[A] = Wrap8(start[A] + 1)
               /\ Z <=> cpu.mem[A] = 0
  /\ at = 3 => cpu.mem[A] = 0 /\ start[A] = 255
  /\ at = 4 => Number(cpu.mem, A) = Wrap16(Number(start, A) + 1)

DownNote ==
  /\ at <= 5 => cpu.mem[A] = start[A]
  /\ at <= 3 => cpu.mem[A + 1] = start[A + 1]
  /\ at \in 2..4 => cpu.ix = start[A]
  /\ at = 2 => (Z <=> cpu.ix = 0)
  /\ at = 3 => cpu.ix = 0
  /\ at \in 4..5 => cpu.mem[A + 1] = IF start[A] = 0 THEN Wrap8(start[A + 1] + 255) ELSE start[A + 1]
  /\ at = 5 => cpu.ix = Wrap8(start[A] + 255)
  /\ at = 6 => Number(cpu.mem, A) = Wrap16(Number(start, A) - 1)

DownTooNote ==
  /\ at <= 4 => cpu.mem[A] = start[A]
  /\ at <= 6 => cpu.mem[A + 1] = start[A + 1]
  /\ at \in 2..3 => cpu.ac = start[A]
  /\ at = 3 => cpu.ix = 255
  /\ at = 4 => cpu.ix = Wrap8(start[A] + 255)
  /\ at \in 4..5 => (C <=> start[A] # 0)
  /\ at \in 5..6 => cpu.mem[A] = Wrap8(start[A] + 255)
  /\ at = 6 => start[A] = 0
  /\ at = 7 => Number(cpu.mem, A) = Wrap16(Number(start, A) - 1)

Sign(byte) == IF byte >= 128 THEN 255 ELSE 0

ExtendNote ==
  /\ Kept({A})
  /\ ~D
  /\ at \in 2..3 => cpu.ac = start[A]
  /\ at >= 3 => cpu.mem[R] = start[A]
  /\ at \in 4..5 => (C <=> start[A] >= 128)
  /\ at = 5 => cpu.ac = 0
  /\ at = 6 => cpu.ac = 255 - Sign(start[A])
  /\ at = 7 => cpu.ac = Sign(start[A])
  /\ at = 8 => cpu.mem[R + 1] = Sign(start[A])

ExtendTooNote ==
  /\ Kept({A})
  /\ at = 2 => cpu.iy = start[A]
  /\ at >= 3 => cpu.mem[R] = start[A]
  /\ at \in 4..5 => cpu.mem[R + 1] = 0
  /\ at = 5 => start[A] >= 128
  /\ at = 6 => cpu.mem[R + 1] = Sign(start[A])

\* The bits of R below i are the old ones; bit i is that of A.
Below(i)  == \A j \in 0..7 : j < i => (Is(cpu.mem[R], j) <=> Is(start[R], j))
Copied(i) == Is(cpu.mem[R], i) <=> Is(start[A], i)
Tested    == (N <=> Is(start[A], 7)) /\ (V <=> Is(start[A], 6))

CopyNote ==
  /\ Kept({A})
  /\ at = 1 => cpu.mem[R] = start[R]
  /\ at \in 2..6 => Below(7)
  /\ at \in 2..5 => Is(cpu.mem[R], 7)
  /\ at \in 3..5 => Tested
  /\ at = 5 => ~Is(start[A], 7)
  /\ at \in 6..8 => (V <=> Is(start[A], 6))
  /\ at \in 6..9 => Copied(7)
  /\ at \in 7..9 => Below(6)
  /\ at \in 7..8 => ~Is(cpu.mem[R], 6)
  /\ at = 8 => Is(start[A], 6)
  /\ at = 9 => Copied(6)

CopyTooNote ==
  /\ Kept({A})
  /\ at = 1 => cpu.mem[R] = start[R]
  /\ at = 2 => Below(7)
  /\ at \in 2..7 => ~Is(cpu.mem[R], 7)
  /\ at \in 3..10 => Below(6)
  /\ at \in 3..9 => ~Is(cpu.mem[R], 6)
  /\ at \in 4..6 => ~Is(start[A], 7)
  /\ at \in 5..6 => (V <=> Is(start[A], 6))
  /\ at = 6 => ~Is(start[A], 6)
  /\ at = 7 => Is(start[A], 7)
  /\ at \in 8..10 => Copied(7)
  /\ at = 9 => Is(start[A], 6)
  /\ at = 10 => Copied(6)

MergeNote ==
  /\ Kept({A, B})
  /\ at \in 2..3 => cpu.ac = start[B]
  /\ at <= 2 => cpu.mem[R] = start[R]
  /\ at \in 3..4 => \A i \in 0..7 :
       Is(cpu.mem[R], i) <=> Is(start[R], i) /\ ~Is(start[B], i)
  /\ at = 4 => \A i \in 0..7 : Is(cpu.ac, i) <=> Is(start[B], i) /\ Is(start[A], i)
  /\ at = 5 => \A i \in 0..7 :
       Is(cpu.mem[R], i) <=> IF Is(start[B], i) THEN Is(start[A], i) ELSE Is(start[R], i)

Noted ==
  /\ routine \in {"binarySum", "decimalSum"} => StraightSumNote
  /\ routine = "loopedSum" => LoopedSumNote
  /\ routine = "bitwiseSum" => BitwiseSumNote
  /\ routine \in {"binaryDifference", "decimalDifference"} => StraightDifferenceNote
  /\ routine = "byIncrement" => ByIncrementNote
  /\ routine = "toDecimal" => ToDecimalNote
  /\ routine = "product" => ProductNote
  /\ routine = "quotient" => QuotientNote
  /\ routine = "unsignedLess" => UnsignedLessNote
  /\ routine = "signedLess" => SignedLessNote
  /\ routine = "equal" => EqualNote
  /\ routine = "equalToo" => EqualTooNote
  /\ routine \in {"double", "doubleToo"} => DoubleNote
  /\ routine \in {"half", "halfToo"} => HalfNote
  /\ routine = "halfInA" => HalfInANote
  /\ routine = "up" => UpNote
  /\ routine = "down" => DownNote
  /\ routine = "downToo" => DownTooNote
  /\ routine = "extend" => ExtendNote
  /\ routine = "extendToo" => ExtendTooNote
  /\ routine = "copy" => CopyNote
  /\ routine = "copyToo" => CopyTooNote
  /\ routine = "merge" => MergeNote
=============================================================================
