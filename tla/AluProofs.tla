----------------------------- MODULE AluProofs -----------------------------
(***************************************************************************)
(* Theorems about Alu, for every model, every set of routines of legal     *)
(* instructions and all operands: what an instruction computes from the    *)
(* registers, flags and memory that it finds, whatever ran before it.      *)
(*                                                                         *)
(* Bytes are taken apart into halves and bits, of which there are few      *)
(* enough to compare, and decimal numbers into digits; sums and            *)
(* differences are linear in those.                                        *)
(***************************************************************************)
EXTENDS Alu, TLAPS

-----------------------------------------------------------------------------
(* The registers and memory, and the routine, at every step.               *)

Cpus == [ac : Byte, ix : Byte, iy : Byte, flags : SUBSET Flags, mem : [Cells -> Byte]]

\* What a step may count on: a place in a routine, and bytes wherever an
\* instruction looks.
AluTypeOK ==
  /\ routine \in DOMAIN Repertoire
  /\ at \in 1..Len(Routine.code) + 1
  /\ start \in [Cells -> Byte]
  /\ cpu \in Cpus

LEMMA Instructions ==
  /\ Names(Loads) = {"LDA", "LDX", "LDY"}
  /\ Names(Transfers) = {"TAX", "TAY", "TXA", "TYA"}
  /\ Names(Compares) = {"CMP", "CPX", "CPY"}
  /\ Names(Counts) = {"INX", "DEX", "INY", "DEY"}
  /\ Names(FlagOps) = {"CLC", "SEC", "CLD", "SED", "CLV"}
  /\ Names(Branches) = {"BCC", "BCS", "BNE", "BEQ", "BPL", "BMI", "BVC", "BVS"}
  /\ Names(BitBranches) = {"BBR", "BBS"}
BY DEF Names, Loads, Transfers, Compares, Counts, FlagOps, Branches, BitBranches

LEMMA FlagFacts ==
  ASSUME NEW flags \in SUBSET Flags, NEW set, NEW f \in Flags
  PROVE  setOrClearBit(flags, f, set) \in SUBSET Flags
BY DEF setOrClearBit, Flags

LEMMA NZFacts ==
  ASSUME NEW flags \in SUBSET Flags, NEW val
  PROVE  /\ setNZ(flags, val) \in SUBSET Flags
         /\ "N" \in setNZ(flags, val) <=> val >= 128
         /\ "Z" \in setNZ(flags, val) <=> val = 0
         /\ \A f \in {"V", "D", "C"} : f \in setNZ(flags, val) <=> f \in flags
BY DEF setNZ, setOrClearBit, Flags

LEMMA CpuFacts ==
  ASSUME NEW s \in Cpus
  PROVE  /\ s.ac \in Byte /\ s.ix \in Byte /\ s.iy \in Byte /\ s.flags \in SUBSET Flags
         /\ s.mem \in [Cells -> Byte] /\ testBit(s, "C") \in {0, 1}
BY DEF Cpus, testBit

LEMMA SetFacts ==
  ASSUME NEW s \in Cpus, NEW reg \in {"ac", "ix", "iy"}, NEW val \in Byte
  PROVE  /\ Set(s, reg, val) \in Cpus
         /\ Set(s, reg, val).mem = s.mem
         /\ \A r \in {"ac", "ix", "iy"} : Set(s, reg, val)[r] = IF r = reg THEN val ELSE s[r]
         /\ Set(s, reg, val).flags = setNZ(s.flags, val)
<1>1. PICK flags \in SUBSET Flags : flags = setNZ(s.flags, val)
  BY CpuFacts, NZFacts
<1>2. Set(s, reg, val) = [s EXCEPT ![reg] = val, !.flags = flags]
  BY <1>1 DEF Set, Cpus
<1>3. CASE reg = "ac"
  BY <1>1, <1>2, <1>3 DEF Cpus
<1>4. CASE reg = "ix"
  BY <1>1, <1>2, <1>4 DEF Cpus
<1>5. CASE reg = "iy"
  BY <1>1, <1>2, <1>5 DEF Cpus
<1> QED
  BY <1>3, <1>4, <1>5

\* A byte fetched, and put where it came from.
LEMMA FetchType ==
  ASSUME NEW s \in Cpus, NEW x
  PROVE  Fetch(s, x) \in Byte
BY DEF Fetch, Cpus

LEMMA PutFacts ==
  ASSUME NEW s \in Cpus, NEW x, NEW v \in Byte
  PROVE  /\ Put(s, x, v) \in Cpus
         /\ Fetch(Put(s, x, v), x) = v
         /\ \A y : (y # x /\ (x \in Cells \/ y \in Cells)) => Fetch(Put(s, x, v), y) = Fetch(s, y)
         /\ Put(s, x, v).flags = s.flags
         /\ Put(s, x, v).ix = s.ix /\ Put(s, x, v).iy = s.iy
BY DEF Put, Fetch, Cpus

-----------------------------------------------------------------------------
(* Bits.                                                                   *)

LEMMA ByteFacts ==
  ASSUME NEW n \in Byte
  PROVE  /\ n \in Nat /\ n <= 255
         /\ Hi(n) \in 0..15 /\ Lo(n) \in 0..15 /\ n = 16 * Hi(n) + Lo(n)
         /\ Wrap8(n) = n /\ Not8(n) \in Byte
BY DEF Byte, Hi, Lo, Wrap8, Not8

LEMMA ByteOf ==
  ASSUME NEW h \in 0..15, NEW l \in 0..15
  PROVE  16 * h + l \in Byte /\ Hi(16 * h + l) = h /\ Lo(16 * h + l) = l
BY DEF Byte, Hi, Lo

LEMMA NibbleBits ==
  ASSUME NEW n \in 0..15
  PROVE  /\ Bit(n, 0) = n % 2 /\ Bit(n, 1) = (n \div 2) % 2
         /\ Bit(n, 2) = (n \div 4) % 2 /\ Bit(n, 3) = (n \div 8) % 2
         /\ \A i \in 0..3 : Bit(n, i) \in {0, 1}
         /\ n = (Bit(n, 0) + 2 * Bit(n, 1)) + (4 * Bit(n, 2) + 8 * Bit(n, 3))
<1>1. /\ Bit(n, 0) = n % 2 /\ Bit(n, 1) = (n \div 2) % 2
      /\ Bit(n, 2) = (n \div 4) % 2 /\ Bit(n, 3) = (n \div 8) % 2
  BY DEF Bit
<1>2. \A i \in 0..3 : Bit(n, i) \in {0, 1}
  BY <1>1
<1>3. n = ((n % 2) + 2 * ((n \div 2) % 2)) + (4 * ((n \div 4) % 2) + 8 * ((n \div 8) % 2))
  OBVIOUS
<1> QED
  BY <1>1, <1>2, <1>3

\* The bits of a byte are those of its two halves.
LEMMA ByteBits ==
  ASSUME NEW n \in Byte, NEW i \in 0..3
  PROVE  /\ Bit(n, i) = Bit(Lo(n), i) /\ Bit(n, i + 4) = Bit(Hi(n), i)
         /\ Bit(n, i) \in {0, 1} /\ Bit(n, i + 4) \in {0, 1}
<1>1. PICK h \in 0..15, l \in 0..15 : h = Hi(n) /\ l = Lo(n)
  BY ByteFacts
<1>2. n = 16 * h + l
  BY <1>1, ByteFacts
<1>3. Bit(n, 0) = Bit(l, 0) /\ Bit(n, 1) = Bit(l, 1) /\ Bit(n, 2) = Bit(l, 2) /\ Bit(n, 3) = Bit(l, 3)
  BY <1>2 DEF Bit
<1>4. Bit(n, 4) = Bit(h, 0) /\ Bit(n, 5) = Bit(h, 1) /\ Bit(n, 6) = Bit(h, 2) /\ Bit(n, 7) = Bit(h, 3)
  BY <1>2 DEF Bit
<1>5. Bit(n, i) = Bit(l, i) /\ Bit(n, i + 4) = Bit(h, i)
  <2>1. CASE i = 0
    BY <1>3, <1>4, <2>1
  <2>2. CASE i = 1
    BY <1>3, <1>4, <2>2
  <2>3. CASE i = 2
    BY <1>3, <1>4, <2>3
  <2>4. CASE i = 3
    BY <1>3, <1>4, <2>4
  <2> QED
    BY <2>1, <2>2, <2>3, <2>4
<1>6. Bit(l, i) \in {0, 1} /\ Bit(h, i) \in {0, 1}
  BY NibbleBits
<1> QED
  BY <1>1, <1>5, <1>6

LEMMA NibbleOfBits ==
  ASSUME NEW a \in {0, 1}, NEW b \in {0, 1}, NEW c \in {0, 1}, NEW d \in {0, 1},
         NEW n, n = (a + 2 * b) + (4 * c + 8 * d)
  PROVE  n \in 0..15 /\ Bit(n, 0) = a /\ Bit(n, 1) = b /\ Bit(n, 2) = c /\ Bit(n, 3) = d
<1>1. n \in 0..15 /\ n % 2 = a /\ (n \div 2) % 2 = b /\ (n \div 4) % 2 = c /\ (n \div 8) % 2 = d
  OBVIOUS
<1> QED
  BY <1>1, NibbleBits

\* What &, | and ^ make of two bits, and whether and, or and xor hold that of x and y.
Conjoined(x, y, and, or, xor, i) ==
  /\ Bit(and, i) = 1 <=> Bit(x, i) = 1 /\ Bit(y, i) = 1
  /\ Bit(or, i)  = 1 <=> Bit(x, i) = 1 \/ Bit(y, i) = 1
  /\ Bit(xor, i) = 1 <=> Bit(x, i) # Bit(y, i)

\* The same of two bits: what they have in common, either and one of them.
OfBits(a, b, and, or, xor) ==
  /\ and = a * b /\ or = a + b - and /\ xor = a + b - 2 * and
  /\ and = 1 <=> a = 1 /\ b = 1
  /\ or = 1 <=> a = 1 \/ b = 1
  /\ xor = 1 <=> a # b

LEMMA TwoBits ==
  ASSUME NEW a \in {0, 1}, NEW b \in {0, 1}
  PROVE  \E and \in {0, 1}, or \in {0, 1}, xor \in {0, 1} : OfBits(a, b, and, or, xor)
<1>1. CASE a = 0
  <2>1. OfBits(a, b, 0, b, b)
    BY <1>1 DEF OfBits
  <2> QED
    BY <2>1
<1>2. CASE a = 1
  <2>1. OfBits(a, b, b, 1, 1 - b) /\ 1 - b \in {0, 1}
    BY <1>2 DEF OfBits
  <2> QED
    BY <2>1
<1> QED
  BY <1>1, <1>2

LEMMA NibbleOperations ==
  ASSUME NEW x \in 0..15, NEW y \in 0..15, NEW n, n = AndNibbles[x][y]
  PROVE  /\ n \in 0..15 /\ x + y - n \in 0..15 /\ x + y - 2 * n \in 0..15
         /\ \A i \in 0..3 : Conjoined(x, y, n, x + y - n, x + y - 2 * n, i)
<1>1. PICK x0, x1, x2, x3 \in {0, 1} :
        /\ Bit(x, 0) = x0 /\ Bit(x, 1) = x1 /\ Bit(x, 2) = x2 /\ Bit(x, 3) = x3
        /\ x = (x0 + 2 * x1) + (4 * x2 + 8 * x3)
  BY NibbleBits
<1>2. PICK y0, y1, y2, y3 \in {0, 1} :
        /\ Bit(y, 0) = y0 /\ Bit(y, 1) = y1 /\ Bit(y, 2) = y2 /\ Bit(y, 3) = y3
        /\ y = (y0 + 2 * y1) + (4 * y2 + 8 * y3)
  BY NibbleBits
<1>3. PICK n0, e0, o0 \in {0, 1} : OfBits(x0, y0, n0, e0, o0)
  BY TwoBits
<1>4. PICK n1, e1, o1 \in {0, 1} : OfBits(x1, y1, n1, e1, o1)
  BY TwoBits
<1>5. PICK n2, e2, o2 \in {0, 1} : OfBits(x2, y2, n2, e2, o2)
  BY TwoBits
<1>6. PICK n3, e3, o3 \in {0, 1} : OfBits(x3, y3, n3, e3, o3)
  BY TwoBits
<1>7. n = (n0 + 2 * n1) + (4 * n2 + 8 * n3)
  <2>1. n = 2^0 * (Bit(x, 0) * Bit(y, 0)) + 2^1 * (Bit(x, 1) * Bit(y, 1))
            + 2^2 * (Bit(x, 2) * Bit(y, 2)) + 2^3 * (Bit(x, 3) * Bit(y, 3))
    BY DEF AndNibbles
  <2>2. n = 2^0 * n0 + 2^1 * n1 + 2^2 * n2 + 2^3 * n3
    BY <1>1, <1>2, <1>3, <1>4, <1>5, <1>6, <2>1 DEF OfBits
  <2> QED
    BY <2>2
<1>8. /\ n \in 0..15
      /\ Bit(n, 0) = n0 /\ Bit(n, 1) = n1 /\ Bit(n, 2) = n2 /\ Bit(n, 3) = n3
  BY <1>7, NibbleOfBits
<1>9. /\ x + y - n \in 0..15
      /\ Bit(x + y - n, 0) = e0 /\ Bit(x + y - n, 1) = e1 /\ Bit(x + y - n, 2) = e2 /\ Bit(x + y - n, 3) = e3
  <2>1. x + y - n = (e0 + 2 * e1) + (4 * e2 + 8 * e3)
    BY <1>1, <1>2, <1>3, <1>4, <1>5, <1>6, <1>7 DEF OfBits
  <2> QED
    BY <2>1, NibbleOfBits
<1>10. /\ x + y - 2 * n \in 0..15
      /\ Bit(x + y - 2 * n, 0) = o0 /\ Bit(x + y - 2 * n, 1) = o1
      /\ Bit(x + y - 2 * n, 2) = o2 /\ Bit(x + y - 2 * n, 3) = o3
  <2>1. x + y - 2 * n = (o0 + 2 * o1) + (4 * o2 + 8 * o3)
    BY <1>1, <1>2, <1>3, <1>4, <1>5, <1>6, <1>7 DEF OfBits
  <2> QED
    BY <2>1, NibbleOfBits
<1>11. ASSUME NEW i \in 0..3
       PROVE  Conjoined(x, y, n, x + y - n, x + y - 2 * n, i)
  <2> USE DEF Conjoined, OfBits
  <2>1. CASE i = 0
    BY <1>1, <1>2, <1>3, <1>8, <1>9, <1>10, <2>1
  <2>2. CASE i = 1
    BY <1>1, <1>2, <1>4, <1>8, <1>9, <1>10, <2>2
  <2>3. CASE i = 2
    BY <1>1, <1>2, <1>5, <1>8, <1>9, <1>10, <2>3
  <2>4. CASE i = 3
    BY <1>1, <1>2, <1>6, <1>8, <1>9, <1>10, <2>4
  <2> QED
    BY <2>1, <2>2, <2>3, <2>4
<1> QED
  BY <1>8, <1>9, <1>10, <1>11

\* The bits of a byte put together from two halves.
LEMMA Halves ==
  ASSUME NEW n, NEW h \in 0..15, NEW l \in 0..15, n = 16 * h + l
  PROVE  n \in Byte /\ \A i \in 0..3 : Bit(n, i) = Bit(l, i) /\ Bit(n, i + 4) = Bit(h, i)
<1>1. n \in Byte /\ Hi(n) = h /\ Lo(n) = l
  BY ByteOf
<1> QED
  BY <1>1, ByteBits

\* And8, Or8, Xor8 and Not8 do on bytes what &, |, ^ and ~ do.
LEMMA Operations ==
  ASSUME NEW x \in Byte, NEW y \in Byte
  PROVE  /\ And8(x, y) \in Byte /\ Or8(x, y) \in Byte /\ Xor8(x, y) \in Byte
         /\ \A i \in 0..7 : Conjoined(x, y, And8(x, y), Or8(x, y), Xor8(x, y), i)
<1>1. PICK xh \in 0..15, xl \in 0..15, yh \in 0..15, yl \in 0..15 :
        xh = Hi(x) /\ xl = Lo(x) /\ yh = Hi(y) /\ yl = Lo(y)
  BY ByteFacts
<1>2. PICK h \in 0..15, l \in 0..15 : h = AndNibbles[xh][yh] /\ l = AndNibbles[xl][yl]
  BY NibbleOperations
<1>3. xh + yh - h \in 0..15 /\ xl + yl - l \in 0..15 /\ xh + yh - 2 * h \in 0..15 /\ xl + yl - 2 * l \in 0..15
  BY <1>2, NibbleOperations
<1>4. x = 16 * xh + xl /\ y = 16 * yh + yl
  BY <1>1, ByteFacts
<1>5. And8(x, y) = 16 * h + l
  BY <1>1, <1>2 DEF And8
<1>6. /\ Or8(x, y) = 16 * (xh + yh - h) + (xl + yl - l)
      /\ Xor8(x, y) = 16 * (xh + yh - 2 * h) + (xl + yl - 2 * l)
  BY <1>4, <1>5 DEF Or8, Xor8
<1>7. And8(x, y) \in Byte /\ Or8(x, y) \in Byte /\ Xor8(x, y) \in Byte
  BY <1>3, <1>5, <1>6, Halves
<1>8. ASSUME NEW i \in 0..3
      PROVE  /\ Conjoined(x, y, And8(x, y), Or8(x, y), Xor8(x, y), i)
             /\ Conjoined(x, y, And8(x, y), Or8(x, y), Xor8(x, y), i + 4)
  <2>1. /\ Bit(x, i) = Bit(xl, i) /\ Bit(x, i + 4) = Bit(xh, i)
        /\ Bit(y, i) = Bit(yl, i) /\ Bit(y, i + 4) = Bit(yh, i)
    BY <1>1, ByteBits
  <2>2. Conjoined(xl, yl, l, xl + yl - l, xl + yl - 2 * l, i)
    BY <1>2, NibbleOperations
  <2>3. Conjoined(xh, yh, h, xh + yh - h, xh + yh - 2 * h, i)
    BY <1>2, NibbleOperations
  <2>4. Bit(And8(x, y), i) = Bit(l, i) /\ Bit(And8(x, y), i + 4) = Bit(h, i)
    BY <1>5, Halves
  <2>5. Bit(Or8(x, y), i) = Bit(xl + yl - l, i) /\ Bit(Or8(x, y), i + 4) = Bit(xh + yh - h, i)
    BY <1>3, <1>6, Halves
  <2>6. Bit(Xor8(x, y), i) = Bit(xl + yl - 2 * l, i) /\ Bit(Xor8(x, y), i + 4) = Bit(xh + yh - 2 * h, i)
    BY <1>3, <1>6, Halves
  <2> QED
    BY <2>1, <2>2, <2>3, <2>4, <2>5, <2>6 DEF Conjoined
<1>9. \A i \in 0..7 : i \in 0..3 \/ \E j \in 0..3 : i = j + 4
  OBVIOUS
<1> QED
  BY <1>7, <1>8, <1>9

-----------------------------------------------------------------------------
(* Sums, of binary numbers and of decimal digits.                          *)

\* N and Z are those of a result; D, and whatever else is in kept, is as it was.
NZOf(t, val) == ("N" \in t.flags <=> val >= 128) /\ ("Z" \in t.flags <=> val = 0)
Keeps(s, t, kept) == \A f \in kept : f \in t.flags <=> f \in s.flags

IsSum(a, b, c, r) == r = a + b + c

LEMMA SumFacts ==
  ASSUME NEW a \in Byte, NEW b \in Byte, NEW c \in {0, 1}, NEW r, IsSum(a, b, c, r)
  PROVE  /\ Wrap8(r) \in Byte
         /\ Wrap8(r) + 256 * (IF r > 255 THEN 1 ELSE 0) = r
         /\ Overflows(a, b, r) <=> Int8(a) + Int8(b) + c \notin -128..127
         /\ ~(Wrap8(r) >= 128 <=> Overflows(a, b, r)) <=> Int8(a) + Int8(b) + c < 0
<1>1. r = a + b + c
  BY DEF IsSum
<1>2. PICK w \in 0..255, k \in {0, 1} : w = Wrap8(r) /\ r = 256 * k + w
  BY <1>1 DEF Wrap8, Byte
<1>3. r = 256 * k + w
  BY <1>2
<1>4. /\ Bit(a, 7) = IF a >= 128 THEN 1 ELSE 0
      /\ Bit(b, 7) = IF b >= 128 THEN 1 ELSE 0
      /\ Bit(r, 7) = IF w >= 128 THEN 1 ELSE 0
  BY <1>3 DEF Bit, Byte
<1>5. /\ Int8(a) = IF a < 128 THEN a ELSE a - 256
      /\ Int8(b) = IF b < 128 THEN b ELSE b - 256
  BY DEF Int8, Wrap8, Byte
<1>6. Overflows(a, b, r) <=> ((a >= 128) # (w >= 128) /\ (b >= 128) # (w >= 128))
  BY <1>4 DEF Overflows
<1> QED
  BY <1>1, <1>2, <1>5, <1>6 DEF Byte

\* What a step leaves of s when it is t: everything but the accumulator and flags.
OnlyAc(s, t) == t.ix = s.ix /\ t.iy = s.iy /\ t.mem = s.mem

LEMMA BinarySumRight ==
  ASSUME NEW s \in Cpus, NEW v \in Byte, NEW t, t = BinarySum(s, v)
  PROVE  /\ t \in Cpus /\ OnlyAc(s, t)
         /\ t.ac + 256 * testBit(t, "C") = s.ac + v + testBit(s, "C")
         /\ "V" \in t.flags <=> Int8(s.ac) + Int8(v) + testBit(s, "C") \notin -128..127
         /\ ~("N" \in t.flags <=> "V" \in t.flags) <=> Int8(s.ac) + Int8(v) + testBit(s, "C") < 0
         /\ NZOf(t, t.ac) /\ Keeps(s, t, {"D"})
<1>1. PICK a \in Byte : a = s.ac
  BY CpuFacts
<1>2. PICK c \in {0, 1} : c = testBit(s, "C")
  BY CpuFacts
<1>3. PICK r \in Int : r = a + v + c /\ IsSum(a, v, c, r)
  BY DEF Byte, IsSum
<1>4. PICK w \in Byte : w = Wrap8(r)
  BY <1>3, SumFacts
<1>5. /\ w + 256 * (IF r > 255 THEN 1 ELSE 0) = r
      /\ Overflows(a, v, r) <=> Int8(a) + Int8(v) + c \notin -128..127
      /\ ~(w >= 128 <=> Overflows(a, v, r)) <=> Int8(a) + Int8(v) + c < 0
  BY <1>3, <1>4, SumFacts
<1>6. PICK flags : flags = setNZ(SumFlags(s.flags, a, v, r), w)
  OBVIOUS
<1>7. t = [s EXCEPT !.ac = w, !.flags = flags]
  BY <1>1, <1>2, <1>3, <1>4, <1>6 DEF BinarySum, Set, Cpus
<1>8. /\ flags \in SUBSET Flags
      /\ "C" \in flags <=> r > 255
      /\ "V" \in flags <=> Overflows(a, v, r)
      /\ "N" \in flags <=> w >= 128
      /\ "Z" \in flags <=> w = 0
      /\ "D" \in flags <=> "D" \in s.flags
  <2>1. s.flags \in SUBSET Flags
    BY CpuFacts
  <2> QED
    BY <1>6, <2>1 DEF setNZ, SumFlags, setOrClearBit, Flags
<1>9. t.ac = w /\ t.flags = flags /\ t \in Cpus /\ OnlyAc(s, t)
  BY <1>7, <1>8 DEF Cpus, OnlyAc
<1>10. testBit(t, "C") = IF r > 255 THEN 1 ELSE 0
  BY <1>8, <1>9 DEF testBit
<1>11. NZOf(t, t.ac) /\ Keeps(s, t, {"D"})
  BY <1>8, <1>9 DEF NZOf, Keeps
<1>12. w + 256 * testBit(t, "C") = r
  BY <1>5, <1>10
<1> QED
  BY <1>1, <1>2, <1>3, <1>5, <1>8, <1>9, <1>11, <1>12

\* The number that a byte of two decimal digits is.
Decimal(n) == 10 * Hi(n) + Lo(n)

LEMMA BcdDigits ==
  ASSUME NEW n, Bcd(n)
  PROVE  n \in Byte /\ Hi(n) \in 0..9 /\ Lo(n) \in 0..9 /\ n = 16 * Hi(n) + Lo(n)
BY ByteFacts DEF Bcd

LEMMA DecimalSumRight ==
  ASSUME NEW s \in Cpus, NEW v \in Byte, Bcd(v), Bcd(s.ac), NEW t, t = adcd(s, v)
  PROVE  /\ Bcd(t.ac)
         /\ Decimal(t.ac) + 100 * testBit(t, "C") = Decimal(s.ac) + Decimal(v) + testBit(s, "C")
<1> DEFINE units == Lo(v) + Lo(s.ac) + testBit(s, "C")
           tc    == IF units > 9 THEN 1 ELSE 0
           tens  == Hi(v) + Hi(s.ac) + tc
           tt    == IF tens > 9 THEN tens + 6 ELSE tens
           high(n) == IF n >= 8 THEN n + 240 ELSE n
           res   == Int8(high(Hi(s.ac)) + high(Hi(v)) + tc)
           sum   == Set(s, "ac", Wrap8(16 * tt + Lo(units + 6 * tc)))
           over  == res < -8 \/ res > 7
           zero  == Wrap8(s.ac + v + testBit(s, "C")) = 0
           flags == setOrClearBit(IF model \in CMOS THEN setOrClearBit(sum.flags, "V", over)
                                  ELSE setOrClearBit(sum.flags, "Z", zero), "C", tt > 15)
<1>0. t = [sum EXCEPT !.flags = flags]
  BY DEF adcd
<1>1. PICK a \in Byte : a = s.ac
  BY CpuFacts
<1>2. PICK c \in {0, 1} : c = testBit(s, "C")
  BY CpuFacts
<1>3. PICK ah \in 0..9, al \in 0..9, vh \in 0..9, vl \in 0..9 :
        ah = Hi(a) /\ al = Lo(a) /\ vh = Hi(v) /\ vl = Lo(v)
  BY <1>1, BcdDigits
<1>4. /\ units = vl + al + c
      /\ tc = IF units > 9 THEN 1 ELSE 0
      /\ tens = vh + ah + tc
      /\ tt = IF tens > 9 THEN tens + 6 ELSE tens
  BY <1>1, <1>2, <1>3
<1> HIDE DEF units, tc, tens, tt, over, zero
<1>5. PICK l \in 0..9, h \in 0..9, carry \in {0, 1} :
        /\ l = Lo(units + 6 * tc) /\ 16 * carry + h = tt
        /\ (carry = 1 <=> tt > 15)
        /\ 10 * h + l + 100 * carry = (10 * ah + al) + (10 * vh + vl) + c
  BY <1>4 DEF Lo
<1>6. PICK w \in Byte : w = 16 * h + l /\ w = Wrap8(16 * tt + Lo(units + 6 * tc)) /\ Hi(w) = h /\ Lo(w) = l
  <2>1. 16 * tt + Lo(units + 6 * tc) = 256 * carry + (16 * h + l)
    BY <1>5
  <2> QED
    BY <2>1, ByteOf DEF Wrap8, Byte
<1>7. sum = [s EXCEPT !.ac = w, !.flags = setNZ(s.flags, w)]
  BY <1>6 DEF Set, Cpus
<1>8. "C" \in flags <=> tt > 15
  BY DEF setOrClearBit
<1>9. t.ac = w /\ t.flags = flags
  <2> HIDE DEF flags, sum
  <2> QED
    BY <1>0, <1>7 DEF Cpus
<1>10. testBit(t, "C") = carry
  BY <1>5, <1>8, <1>9 DEF testBit
<1>11. Bcd(w) /\ Decimal(w) + 100 * carry = Decimal(a) + Decimal(v) + c
  <2>1. Decimal(w) = 10 * h + l /\ Decimal(a) = 10 * ah + al /\ Decimal(v) = 10 * vh + vl
    BY <1>3, <1>6 DEF Decimal
  <2>2. Bcd(w)
    BY <1>6 DEF Bcd
  <2> QED
    BY <1>5, <2>1, <2>2
<1> QED
  BY <1>1, <1>2, <1>9, <1>10, <1>11

\* Whatever the digits are, it changes the accumulator and the flags alone; of
\* the 65C02 family N and Z are those of the result.
LEMMA DecimalSumType ==
  ASSUME NEW s \in Cpus, NEW v \in Byte, NEW t, t = adcd(s, v)
  PROVE  /\ t \in Cpus /\ OnlyAc(s, t) /\ Keeps(s, t, {"D"})
         /\ model \in CMOS => NZOf(t, t.ac)
<1> DEFINE units == Lo(v) + Lo(s.ac) + testBit(s, "C")
           tc    == IF units > 9 THEN 1 ELSE 0
           tens  == Hi(v) + Hi(s.ac) + tc
           tt    == IF tens > 9 THEN tens + 6 ELSE tens
           high(n) == IF n >= 8 THEN n + 240 ELSE n
           res   == Int8(high(Hi(s.ac)) + high(Hi(v)) + tc)
           val   == Wrap8(16 * tt + Lo(units + 6 * tc))
           sum   == Set(s, "ac", val)
           over  == res < -8 \/ res > 7
           zero  == Wrap8(s.ac + v + testBit(s, "C")) = 0
           carry == tt > 15
           flags == setOrClearBit(IF model \in CMOS THEN setOrClearBit(sum.flags, "V", over)
                                  ELSE setOrClearBit(sum.flags, "Z", zero), "C", carry)
<1>1. t = [sum EXCEPT !.flags = flags]
  BY DEF adcd
<1>2. val \in Byte
  <2>1. Lo(v) \in Nat /\ Hi(v) \in Nat /\ Lo(s.ac) \in Nat /\ Hi(s.ac) \in Nat /\ testBit(s, "C") \in Nat
    BY ByteFacts, CpuFacts
  <2>2. units \in Nat /\ tc \in Nat /\ tens \in Nat /\ tt \in Nat
    BY <2>1
  <2>3. 16 * tt + Lo(units + 6 * tc) \in Nat
    <3> HIDE DEF units, tc, tens, tt
    <3> QED
      BY <2>2 DEF Lo
  <2> HIDE DEF units, tc, tens, tt
  <2> QED
    BY <2>3 DEF Wrap8, Byte
<1> HIDE DEF val, over, zero, carry
<1>3. sum = [s EXCEPT !.ac = val, !.flags = setNZ(s.flags, val)]
  BY DEF Set, Cpus
<1>4. s.flags \in SUBSET Flags
  BY CpuFacts
<1>5. sum.flags = setNZ(s.flags, val)
  BY <1>3 DEF Cpus
<1>6. /\ flags \in SUBSET Flags
      /\ model \in CMOS => ("N" \in flags <=> val >= 128) /\ ("Z" \in flags <=> val = 0)
      /\ "D" \in flags <=> "D" \in s.flags
  BY <1>4, <1>5 DEF setNZ, setOrClearBit, Flags
<1> HIDE DEF flags, sum
<1>7. t \in Cpus /\ t.ac = val /\ t.flags = flags /\ OnlyAc(s, t)
  BY <1>1, <1>2, <1>3, <1>6 DEF Cpus, OnlyAc
<1> QED
  BY <1>6, <1>7 DEF Keeps, NZOf

-----------------------------------------------------------------------------
(* Differences.                                                            *)

LEMMA BinaryDifferenceRight ==
  ASSUME NEW s \in Cpus, NEW v \in Byte, NEW t, t = BinarySum(s, Not8(v))
  PROVE  /\ t \in Cpus /\ OnlyAc(s, t)
         /\ t.ac - 256 * (1 - testBit(t, "C")) = s.ac - v - (1 - testBit(s, "C"))
         /\ "V" \in t.flags <=> Int8(s.ac) - Int8(v) - (1 - testBit(s, "C")) \notin -128..127
         /\ ~("N" \in t.flags <=> "V" \in t.flags) <=> Int8(s.ac) - Int8(v) - (1 - testBit(s, "C")) < 0
         /\ NZOf(t, t.ac) /\ Keeps(s, t, {"D"})
<1>1. PICK n \in Byte : n = Not8(v)
  BY ByteFacts
<1>2. n = 255 - v /\ Int8(n) = -1 - Int8(v) /\ Int8(v) \in Int
  BY <1>1 DEF Byte, Not8, Int8, Wrap8
<1>3. /\ t \in Cpus /\ OnlyAc(s, t)
      /\ t.ac + 256 * testBit(t, "C") = s.ac + n + testBit(s, "C")
      /\ "V" \in t.flags <=> Int8(s.ac) + Int8(n) + testBit(s, "C") \notin -128..127
      /\ ~("N" \in t.flags <=> "V" \in t.flags) <=> Int8(s.ac) + Int8(n) + testBit(s, "C") < 0
      /\ NZOf(t, t.ac) /\ Keeps(s, t, {"D"})
  BY <1>1, BinarySumRight
<1>4. t.ac \in Int /\ s.ac \in Int /\ testBit(t, "C") \in Int /\ testBit(s, "C") \in Int
  <2>1. t.ac \in Byte /\ s.ac \in Byte
    BY <1>3, CpuFacts
  <2>2. testBit(t, "C") \in {0, 1} /\ testBit(s, "C") \in {0, 1}
    BY DEF testBit
  <2> QED
    BY <2>1, <2>2 DEF Byte
<1>5. Int8(s.ac) \in Int
  BY <1>4 DEF Int8, Wrap8
<1>6. Int8(s.ac) + Int8(n) + testBit(s, "C") = Int8(s.ac) - Int8(v) - (1 - testBit(s, "C"))
  BY <1>2, <1>4, <1>5
<1>7. t.ac - 256 * (1 - testBit(t, "C")) = s.ac - v - (1 - testBit(s, "C"))
  BY <1>2, <1>3, <1>4 DEF Byte
<1> QED
  BY <1>3, <1>6, <1>7

\* Both corrections give the digits of the difference, and 65280 with a borrow.
LEMMA Corrections ==
  ASSUME NEW a, Bcd(a), NEW v, Bcd(v), NEW b \in {0, 1}
  PROVE  \E h \in 0..9, l \in 0..9, n \in {0, 1} :
           /\ (10 * h + l) - 100 * n = Decimal(a) - Decimal(v) - b
           /\ NmosDifference(a, v, b) = (16 * h + l) + 65280 * n
           /\ CmosDifference(a, v, b) = (16 * h + l) + 65280 * n
           /\ n = 0 => 16 * h + l <= a
<1>1. PICK ah \in 0..9, al \in 0..9, vh \in 0..9, vl \in 0..9 :
        ah = Hi(a) /\ al = Lo(a) /\ vh = Hi(v) /\ vl = Lo(v) /\ a = 16 * ah + al /\ v = 16 * vh + vl
  BY BcdDigits
<1>2. PICK k \in {0, 1}, l \in 0..9 : l = (al - vl - b) + 10 * k /\ (k = 1 <=> al - vl - b < 0)
  OBVIOUS
<1>3. PICK n \in {0, 1}, h \in 0..9 : h = (ah - vh - k) + 10 * n /\ (n = 1 <=> ah - vh - k < 0)
  OBVIOUS
<1>4. (10 * h + l) - 100 * n = Decimal(a) - Decimal(v) - b
  <2>1. Decimal(a) = 10 * ah + al /\ Decimal(v) = 10 * vh + vl
    BY <1>1 DEF Decimal
  <2> QED
    BY <1>2, <1>3, <2>1
<1>5. n = 0 => 16 * h + l <= a
  <2> SUFFICES ASSUME n = 0 PROVE 16 * h + l <= 16 * ah + al
    BY <1>1
  <2>1. CASE k = 0
    <3>1. h <= ah /\ l <= al
      BY <1>2, <1>3, <2>1
    <3> QED
      BY <3>1
  <2>2. CASE k = 1
    <3>1. h <= ah - 1
      BY <1>3, <2>2
    <3> QED
      BY <3>1
  <2> QED
    BY <2>1, <2>2
<1>6. NmosDifference(a, v, b) = (16 * h + l) + 65280 * n
  <2>1. PICK units : units = Wrap16(al - vl - b)
    OBVIOUS
  <2>2. PICK tmp : tmp = IF Negative(units) THEN Wrap16(Lo(units - 6) - 16) ELSE units
    OBVIOUS
  <2>3. tmp = IF k = 1 THEN 65520 + l ELSE l
    BY <1>2, <2>1, <2>2 DEF Wrap16, Negative, Lo
  <2>4. PICK result : result = Wrap16(16 * ah - 16 * vh + tmp)
    OBVIOUS
  <2>5. NmosDifference(a, v, b) = IF Negative(result) THEN Wrap16(result - 96) ELSE result
    BY <1>1, <2>1, <2>2, <2>4 DEF NmosDifference
  <2>6. result = IF n = 1 THEN (65536 + 16 * (ah - vh - k)) + l ELSE 16 * h + l
    BY <1>2, <1>3, <2>3, <2>4 DEF Wrap16
  <2> QED
    BY <1>2, <1>3, <2>5, <2>6 DEF Wrap16, Negative
<1>7. CmosDifference(a, v, b) = (16 * h + l) + 65280 * n
  <2>1. PICK result : result = Wrap16(a - v - b)
    OBVIOUS
  <2>2. PICK tens : tens = IF Negative(result) THEN Wrap16(result - 96) ELSE result
    OBVIOUS
  <2>3. CmosDifference(a, v, b) = IF al - vl - b < 0 THEN Wrap16(tens - 6) ELSE tens
    BY <1>1, <2>1, <2>2 DEF CmosDifference
  <2>4. a - v - b = 16 * (ah - vh) + (al - vl - b)
    BY <1>1
  <2>5. tens = IF n = 1 THEN (65440 + 16 * (ah - vh)) + (al - vl - b) ELSE 16 * (ah - vh) + (al - vl - b)
    BY <1>2, <1>3, <2>1, <2>2, <2>4 DEF Wrap16, Negative
  <2> QED
    BY <1>2, <1>3, <2>3, <2>5 DEF Wrap16
<1> QED
  BY <1>4, <1>5, <1>6, <1>7

\* Whatever the digits are, the corrections are words of sixteen bits.
LEMMA Wrap16Type ==
  ASSUME NEW n \in Int
  PROVE  Wrap16(n) \in Nat /\ Wrap16(n) < 65536
BY DEF Wrap16

LEMMA CorrectionType ==
  ASSUME NEW a \in Byte, NEW v \in Byte, NEW b \in {0, 1}
  PROVE  /\ NmosDifference(a, v, b) \in Nat /\ NmosDifference(a, v, b) < 65536
         /\ CmosDifference(a, v, b) \in Nat /\ CmosDifference(a, v, b) < 65536
<1>1. PICK ah \in 0..15, al \in 0..15, vh \in 0..15, vl \in 0..15 :
        ah = Hi(a) /\ al = Lo(a) /\ vh = Hi(v) /\ vl = Lo(v)
  BY ByteFacts
<1>2. PICK units \in Nat : units = Wrap16(al - vl - b)
  BY DEF Wrap16
<1>3. PICK tmp \in Nat : tmp = IF Negative(units) THEN Wrap16(Lo(units - 6) - 16) ELSE units
  <2>1. Lo(units - 6) \in Int
    BY DEF Lo
  <2>2. Wrap16(Lo(units - 6) - 16) \in Nat
    BY <2>1 DEF Wrap16
  <2> QED
    BY <2>2
<1>4. PICK result \in Nat : result = Wrap16(16 * ah - 16 * vh + tmp) /\ result < 65536
  BY DEF Wrap16
<1>5. NmosDifference(a, v, b) = IF Negative(result) THEN Wrap16(result - 96) ELSE result
  BY <1>1, <1>2, <1>3, <1>4 DEF NmosDifference
<1>6. PICK low \in Nat : low = Wrap16(a - v - b) /\ low < 65536
  BY DEF Wrap16, Byte
<1>7. PICK tens \in Nat : tens = (IF Negative(low) THEN Wrap16(low - 96) ELSE low) /\ tens < 65536
  <2>1. Wrap16(low - 96) \in Nat /\ Wrap16(low - 96) < 65536
    BY DEF Wrap16
  <2> QED
    BY <1>6, <2>1
<1>8. CmosDifference(a, v, b) = IF Lo(a) - Lo(v) - b < 0 THEN Wrap16(tens - 6) ELSE tens
  BY <1>6, <1>7 DEF CmosDifference
<1>9. /\ Wrap16(result - 96) \in Nat /\ Wrap16(result - 96) < 65536
      /\ Wrap16(tens - 6) \in Nat /\ Wrap16(tens - 6) < 65536
  BY DEF Wrap16
<1> QED
  BY <1>4, <1>5, <1>7, <1>8, <1>9

LEMMA DecimalDifferenceType ==
  ASSUME NEW s \in Cpus, NEW v \in Byte, NEW t, t = sbcd(s, v)
  PROVE  /\ t \in Cpus /\ OnlyAc(s, t) /\ Keeps(s, t, {"D"})
         /\ StoredModel # "CPU_6502" => NZOf(t, t.ac)
         /\ StoredModel = "CPU_6502" => NZOf(t, Wrap8(Wrap16(s.ac - v - (1 - testBit(s, "C")))))
<1>1. PICK a \in Byte : a = s.ac
  BY CpuFacts
<1>2. PICK b \in {0, 1} : b = 1 - testBit(s, "C")
  BY CpuFacts
<1>3. PICK result \in Nat : result = IF StoredModel = "CPU_6502" THEN NmosDifference(a, v, b) ELSE CmosDifference(a, v, b)
  BY CorrectionType
<1>4. PICK w \in Byte : w = Wrap8(result)
  BY DEF Wrap8, Byte
<1> DEFINE bin    == Wrap16(a - v - b)
           over   == IF StoredModel = "CPU_6502" THEN Int16(result) < -128 \/ Int16(result) > 127
                     ELSE Overflows(a, Not8(v), bin)
           shown  == Wrap8(IF StoredModel = "CPU_6502" THEN bin ELSE result)
           right  == BorrowsNot(a, result)
           flags  == setOrClearBit(setOrClearBit(setNZ(s.flags, shown), "V", over), "C", right)
<1>5. t = [s EXCEPT !.ac = w, !.flags = flags]
  BY <1>1, <1>2, <1>3, <1>4 DEF sbcd
<1>6. /\ StoredModel # "CPU_6502" => shown = w
      /\ StoredModel = "CPU_6502" => shown = Wrap8(Wrap16(s.ac - v - (1 - testBit(s, "C"))))
  BY <1>1, <1>2, <1>4
<1> HIDE DEF over, shown, right
<1>7. /\ flags \in SUBSET Flags
      /\ "D" \in flags <=> "D" \in s.flags
      /\ "N" \in flags <=> shown >= 128
      /\ "Z" \in flags <=> shown = 0
  <2>1. s.flags \in SUBSET Flags
    BY CpuFacts
  <2> QED
    BY <2>1 DEF setNZ, setOrClearBit, Flags
<1> HIDE DEF flags
<1>8. t \in Cpus /\ t.ac = w /\ t.flags = flags /\ OnlyAc(s, t)
  BY <1>5, <1>7 DEF Cpus, OnlyAc
<1> QED
  BY <1>6, <1>7, <1>8 DEF Keeps, NZOf

LEMMA DecimalDifferenceRight ==
  ASSUME NEW s \in Cpus, NEW v \in Byte, Bcd(v), Bcd(s.ac), NEW t, t = sbcd(s, v)
  PROVE  /\ Bcd(t.ac)
         /\ Decimal(t.ac) - 100 * (1 - testBit(t, "C")) = Decimal(s.ac) - Decimal(v) - (1 - testBit(s, "C"))
<1>1. PICK a \in Byte : a = s.ac /\ Bcd(a)
  BY CpuFacts
<1>2. PICK b \in {0, 1} : b = 1 - testBit(s, "C")
  BY CpuFacts
<1>3. PICK h \in 0..9, l \in 0..9, n \in {0, 1} :
        /\ (10 * h + l) - 100 * n = Decimal(a) - Decimal(v) - b
        /\ NmosDifference(a, v, b) = (16 * h + l) + 65280 * n
        /\ CmosDifference(a, v, b) = (16 * h + l) + 65280 * n
        /\ n = 0 => 16 * h + l <= a
  BY <1>1, Corrections
<1>4. PICK result : result = IF StoredModel = "CPU_6502" THEN NmosDifference(a, v, b) ELSE CmosDifference(a, v, b)
  OBVIOUS
<1>5. result = (16 * h + l) + 65280 * n
  BY <1>3, <1>4
<1>6. PICK w \in Byte : w = Wrap8(result) /\ w = 16 * h + l /\ Hi(w) = h /\ Lo(w) = l
  BY <1>5, ByteOf DEF Wrap8, Byte
<1> DEFINE bin    == Wrap16(a - v - b)
           over   == IF StoredModel = "CPU_6502" THEN Int16(result) < -128 \/ Int16(result) > 127
                     ELSE Overflows(a, Not8(v), bin)
           shown  == Wrap8(IF StoredModel = "CPU_6502" THEN bin ELSE result)
           right  == BorrowsNot(a, result)
           flags  == setOrClearBit(setOrClearBit(setNZ(s.flags, shown), "V", over), "C", right)
<1>7. t = [s EXCEPT !.ac = w, !.flags = flags]
  BY <1>1, <1>2, <1>4, <1>6 DEF sbcd
<1>8. right <=> n = 0
  <2>1. CASE n = 0
    BY <1>3, <1>5, <2>1 DEF BorrowsNot
  <2>2. CASE n = 1
    <3>1. result = 65280 + (16 * h + l)
      BY <1>5, <2>2
    <3>2. ~(result <= a)
      BY <3>1 DEF Byte
    <3>3. Wrap8(Hi(result)) = 240 + h
      <4>1. Hi(result) = 4080 + h
        BY <3>1 DEF Hi
      <4> QED
        BY <4>1 DEF Wrap8
    <3> QED
      BY <2>2, <3>2, <3>3 DEF BorrowsNot
  <2> QED
    BY <2>1, <2>2
<1>9. "C" \in flags <=> right
  BY DEF setOrClearBit
<1> HIDE DEF flags, right
<1>10. t.ac = w /\ t.flags = flags
  BY <1>7 DEF Cpus
<1>11. 1 - testBit(t, "C") = n
  BY <1>8, <1>9, <1>10 DEF testBit
<1>12. Bcd(w) /\ Decimal(w) = 10 * h + l
  BY <1>6 DEF Bcd, Decimal
<1> QED
  BY <1>1, <1>2, <1>3, <1>10, <1>11, <1>12

\* C orders the operands, Z is their equality.
LEMMA CompareRight ==
  ASSUME NEW s \in Cpus, NEW a \in Byte, NEW v \in Byte, NEW t, t = Compare(s, a, v)
  PROVE  /\ t \in Cpus /\ t.ac = s.ac /\ OnlyAc(s, t) /\ Keeps(s, t, {"V", "D"})
         /\ "C" \in t.flags <=> a >= v
         /\ "Z" \in t.flags <=> a = v
         /\ "N" \in t.flags <=> Wrap8(a - v) >= 128
<1>1. PICK result \in Nat : result = a + Not8(v) + 1 /\ result = 256 + (a - v)
  BY DEF Not8, Byte
<1>2. /\ result > 255 <=> a >= v
      /\ Wrap8(result) = 0 <=> a = v
  <2>1. result = 256 + (a - v)
    BY <1>1
  <2>2. result > 0 /\ result < 512
    BY <2>1 DEF Byte
  <2>3. result % 256 = 0 <=> result = 256
    BY <2>2
  <2> QED
    BY <2>1, <2>3 DEF Wrap8, Byte
<1>9. Wrap8(result) = Wrap8(a - v)
  <2>1. PICK d \in Int : d = a - v
    BY DEF Byte
  <2>2. (256 + d) % 256 = d % 256
    OBVIOUS
  <2> QED
    BY <1>1, <2>1, <2>2 DEF Wrap8
<1>3. PICK w : w = Wrap8(result)
  OBVIOUS
<1>4. PICK flags : flags = setNZ(setOrClearBit(s.flags, "C", result > 255), w)
  OBVIOUS
<1>5. t = [s EXCEPT !.flags = flags]
  BY <1>1, <1>3, <1>4 DEF Compare
<1>6. /\ flags \in SUBSET Flags
      /\ "C" \in flags <=> result > 255
      /\ "N" \in flags <=> w >= 128
      /\ "Z" \in flags <=> w = 0
      /\ "D" \in flags <=> "D" \in s.flags
      /\ "V" \in flags <=> "V" \in s.flags
  <2>1. s.flags \in SUBSET Flags
    BY CpuFacts
  <2> QED
    BY <1>4, <2>1 DEF setNZ, setOrClearBit, Flags
<1>7. t \in Cpus /\ t.flags = flags /\ t.ac = s.ac /\ OnlyAc(s, t)
  BY <1>5, <1>6 DEF Cpus, OnlyAc
<1>8. Keeps(s, t, {"V", "D"})
  BY <1>6, <1>7 DEF Keeps
<1> QED
  BY <1>2, <1>3, <1>6, <1>7, <1>8, <1>9

-----------------------------------------------------------------------------
(* Shifts and counts.                                                      *)

\* What an operation on a byte, of memory or the accumulator, leaves as it was.
OnlyAt(s, t, x) ==
  /\ t.ix = s.ix /\ t.iy = s.iy
  /\ \A y : (y # x /\ (x \in Cells \/ y \in Cells)) => Fetch(t, y) = Fetch(s, y)

LEMMA ModifyFacts ==
  ASSUME NEW s \in Cpus, NEW x, NEW carry, NEW val \in Byte, NEW t, t = Modify(s, x, carry, val)
  PROVE  /\ t \in Cpus /\ OnlyAt(s, t, x) /\ Fetch(t, x) = val
         /\ "C" \in t.flags <=> carry = 1
         /\ NZOf(t, val) /\ Keeps(s, t, {"V", "D"})
<1>1. PICK p \in Cpus : p = Put(s, x, val)
  BY PutFacts
<1>2. /\ Fetch(p, x) = val /\ OnlyAt(s, p, x) /\ p.flags = s.flags
  BY <1>1, PutFacts DEF OnlyAt
<1>3. PICK flags : flags = setNZ(setOrClearBit(p.flags, "C", carry = 1), val)
  OBVIOUS
<1>4. t = [p EXCEPT !.flags = flags]
  BY <1>1, <1>3 DEF Modify
<1>5. /\ flags \in SUBSET Flags
      /\ "C" \in flags <=> carry = 1
      /\ "N" \in flags <=> val >= 128
      /\ "Z" \in flags <=> val = 0
      /\ "D" \in flags <=> "D" \in p.flags
      /\ "V" \in flags <=> "V" \in p.flags
  <2>1. p.flags \in SUBSET Flags
    BY CpuFacts
  <2> QED
    BY <1>3, <2>1 DEF setNZ, setOrClearBit, Flags
<1>6. t \in Cpus /\ t.flags = flags /\ t.ac = p.ac /\ t.mem = p.mem /\ t.ix = p.ix /\ t.iy = p.iy
  BY <1>4, <1>5 DEF Cpus
<1>7. Fetch(t, x) = val /\ OnlyAt(s, t, x)
  BY <1>2, <1>6 DEF OnlyAt, Fetch
<1>8. NZOf(t, val) /\ Keeps(s, t, {"V", "D"})
  BY <1>2, <1>5, <1>6 DEF NZOf, Keeps
<1> QED
  BY <1>5, <1>6, <1>7, <1>8

\* The byte and the carry that a shift makes, of a byte v and the bit that enters.
ShiftsLeft(t, x, v, bit)  == Fetch(t, x) + 256 * testBit(t, "C") = 2 * v + bit
ShiftsRight(t, x, v, bit) == 2 * Fetch(t, x) + testBit(t, "C") = v + 256 * bit

LEMMA ShiftsAreRight ==
  ASSUME NEW s \in Cpus, NEW x
  PROVE  LET v == Fetch(s, x)  carry == testBit(s, "C") IN
         /\ ShiftsLeft(asl(s, x), x, v, 0)  /\ ShiftsLeft(rol(s, x), x, v, carry)
         /\ ShiftsRight(lsr(s, x), x, v, 0) /\ ShiftsRight(ror(s, x), x, v, carry)
         /\ \A t \in {asl(s, x), rol(s, x), lsr(s, x), ror(s, x)} :
              t \in Cpus /\ OnlyAt(s, t, x) /\ NZOf(t, Fetch(t, x)) /\ Keeps(s, t, {"V", "D"})
<1>1. PICK v \in Byte : v = Fetch(s, x)
  BY FetchType
<1>2. PICK c \in {0, 1} : c = testBit(s, "C")
  BY CpuFacts
<1>3. PICK q \in 0..127, top \in {0, 1} : v = q + 128 * top
  BY DEF Byte
<1>4. Bit(v, 7) = top /\ Wrap8(2 * v) = 2 * q
  BY <1>3 DEF Bit, Wrap8
<1>5. PICK r \in 0..127, low \in {0, 1} : v = 2 * r + low
  BY DEF Byte
<1>6. Bit(v, 0) = low /\ v \div 2 = r
  BY <1>5 DEF Bit
<1>7. \A val, carry, t : val \in Byte /\ carry \in {0, 1} /\ t = Modify(s, x, carry, val) =>
        /\ t \in Cpus /\ OnlyAt(s, t, x) /\ NZOf(t, Fetch(t, x)) /\ Keeps(s, t, {"V", "D"})
        /\ Fetch(t, x) = val /\ testBit(t, "C") = carry
  <2> SUFFICES ASSUME NEW val \in Byte, NEW carry \in {0, 1}, NEW t, t = Modify(s, x, carry, val)
               PROVE  /\ t \in Cpus /\ OnlyAt(s, t, x) /\ NZOf(t, Fetch(t, x)) /\ Keeps(s, t, {"V", "D"})
                      /\ Fetch(t, x) = val /\ testBit(t, "C") = carry
    OBVIOUS
  <2>1. /\ t \in Cpus /\ OnlyAt(s, t, x) /\ NZOf(t, Fetch(t, x)) /\ Keeps(s, t, {"V", "D"})
        /\ Fetch(t, x) = val /\ ("C" \in t.flags <=> carry = 1)
    BY ModifyFacts
  <2> QED
    BY <2>1 DEF testBit
<1>8. /\ asl(s, x) = Modify(s, x, top, 2 * q)
      /\ rol(s, x) = Modify(s, x, top, 2 * q + c)
      /\ lsr(s, x) = Modify(s, x, low, r)
      /\ ror(s, x) = Modify(s, x, low, r + 128 * c)
  BY <1>1, <1>2, <1>4, <1>6 DEF asl, rol, lsr, ror
<1>9. 2 * q \in Byte /\ 2 * q + c \in Byte /\ r \in Byte /\ r + 128 * c \in Byte
  BY DEF Byte
<1>10. PICK left, rotated, right, turned :
         left = asl(s, x) /\ rotated = rol(s, x) /\ right = lsr(s, x) /\ turned = ror(s, x)
  OBVIOUS
<1>11. /\ Fetch(left, x) = 2 * q /\ testBit(left, "C") = top
       /\ Fetch(rotated, x) = 2 * q + c /\ testBit(rotated, "C") = top
       /\ Fetch(right, x) = r /\ testBit(right, "C") = low
       /\ Fetch(turned, x) = r + 128 * c /\ testBit(turned, "C") = low
  BY <1>7, <1>8, <1>9, <1>10
<1>12. \A t \in {left, rotated, right, turned} :
         t \in Cpus /\ OnlyAt(s, t, x) /\ NZOf(t, Fetch(t, x)) /\ Keeps(s, t, {"V", "D"})
  BY <1>7, <1>8, <1>9, <1>10
<1>13. /\ ShiftsLeft(left, x, v, 0)  /\ ShiftsLeft(rotated, x, v, c)
       /\ ShiftsRight(right, x, v, 0) /\ ShiftsRight(turned, x, v, c)
  BY <1>3, <1>5, <1>11 DEF ShiftsLeft, ShiftsRight
<1> QED
  BY <1>1, <1>2, <1>10, <1>12, <1>13

LEMMA AddFacts ==
  ASSUME NEW s \in Cpus, NEW x, NEW n \in Byte, NEW t, t = Add(s, x, n)
  PROVE  /\ t \in Cpus /\ OnlyAt(s, t, x)
         /\ Fetch(t, x) = Wrap8(Fetch(s, x) + n)
         /\ NZOf(t, Fetch(t, x)) /\ Keeps(s, t, {"V", "D", "C"})
<1>1. PICK v \in Byte : v = Wrap8(Fetch(s, x) + n)
  <2>1. PICK u \in Byte : u = Fetch(s, x)
    BY FetchType
  <2>2. Wrap8(u + n) \in Byte
    BY DEF Byte, Wrap8
  <2> QED
    BY <2>1, <2>2
<1>2. PICK p \in Cpus : p = Put(s, x, v)
  BY PutFacts
<1>3. Fetch(p, x) = v /\ OnlyAt(s, p, x) /\ p.flags = s.flags
  BY <1>2, PutFacts DEF OnlyAt
<1>4. PICK flags : flags = setNZ(p.flags, v)
  OBVIOUS
<1>5. t = [p EXCEPT !.flags = flags]
  BY <1>1, <1>2, <1>4 DEF Add
<1>6. /\ flags \in SUBSET Flags
      /\ "N" \in flags <=> v >= 128
      /\ "Z" \in flags <=> v = 0
      /\ \A f \in {"V", "D", "C"} : f \in flags <=> f \in p.flags
  <2>1. p.flags \in SUBSET Flags
    BY CpuFacts
  <2> QED
    BY <1>4, <2>1, NZFacts
<1>7. t \in Cpus /\ t.flags = flags /\ t.ac = p.ac /\ t.mem = p.mem /\ t.ix = p.ix /\ t.iy = p.iy
  BY <1>5, <1>6 DEF Cpus
<1>8. Fetch(t, x) = v /\ OnlyAt(s, t, x)
  BY <1>3, <1>7 DEF OnlyAt, Fetch
<1>9. NZOf(t, Fetch(t, x)) /\ Keeps(s, t, {"V", "D", "C"})
  BY <1>3, <1>6, <1>7, <1>8 DEF NZOf, Keeps
<1> QED
  BY <1>1, <1>7, <1>8, <1>9

-----------------------------------------------------------------------------
(* The type invariant.                                                     *)

LEMMA InsFacts ==
  ASSUME AluTypeOK, Running
  PROVE  /\ Legal(Ins, Routine.code)
         /\ Len(Routine.code) \in Nat /\ at + 1 \in 1..Len(Routine.code) + 1
<1>1. routine \in DOMAIN Repertoire /\ at \in 1..Len(Routine.code) + 1 /\ at <= Len(Routine.code)
  BY DEF AluTypeOK, Running
<1>2. /\ Len(Routine.code) \in Nat
      /\ \A i \in 1..Len(Routine.code) : Legal(Routine.code[i], Routine.code)
  BY <1>1, RoutinesAssumption DEF Routine
<1>3. at \in 1..Len(Routine.code) /\ at + 1 \in 1..Len(Routine.code) + 1
  BY <1>1, <1>2
<1> QED
  BY <1>2, <1>3 DEF Ins

\* The instructions that take a value, and those that take a cell only.
Operates == {"LDA", "LDX", "LDY", "CMP", "CPX", "CPY", "AND", "ORA", "EOR", "ADC", "SBC", "BIT",
             "TRB", "TSB", "BBR", "BBS", "LAX", "ANC", "ALR", "ARR", "SBX"}
Modifies == {"SLO", "RLA", "SRE", "RRA", "DCP", "ISC", "TRB", "TSB", "RMB", "SMB"}

LEMMA Operands ==
  ASSUME AluTypeOK, Running
  PROVE  /\ Ins.op \in Operates => Value \in Byte
         /\ Ins.op \in Modifies => Target \in Cells /\ Value = cpu.mem[Target]
<1>1. Legal(Ins, Routine.code)
  BY InsFacts
<1>2. cpu.mem \in [Cells -> Byte] /\ cpu.ix \in Byte
  BY CpuFacts DEF AluTypeOK
<1>3. CASE Ins.mode \in {"zp", "zpx"} /\ Ins.arg \in Byte
  <2>1. Wrap8(Ins.arg + cpu.ix) \in Byte
    <3>1. PICK a \in Byte, x \in Byte : a = Ins.arg /\ x = cpu.ix
      BY <1>2, <1>3
    <3>2. Wrap8(a + x) \in Byte
      BY DEF Wrap8, Byte
    <3> QED
      BY <3>1, <3>2
  <2>2. Target \in Cells
    BY <1>3, <2>1 DEF Target, Cells
  <2>3. Value = cpu.mem[Target]
    BY <1>3 DEF Value
  <2> QED
    BY <1>2, <2>2, <2>3
<1>4. CASE Ins.mode = "imm" /\ Ins.arg \in Byte /\ Ins.op \notin Modifies
  BY <1>4 DEF Value
<1>5. CASE Ins.op \notin Operates \cup Modifies
  BY <1>5
<1> QED
  BY <1>1, <1>3, <1>4, <1>5, Instructions DEF Legal, Operates, Modifies

\* A step of one instruction, which leaves the registers as s.
LEMMA DoesTypes ==
  ASSUME AluTypeOK, NEW op, NEW s \in Cpus, Does(op, s)
  PROVE  AluTypeOK'
<1>1. Running /\ cpu' = s /\ at' = at + 1 /\ UNCHANGED <<routine, start>>
  BY DEF Does
<1>2. at + 1 \in 1..Len(Routine.code) + 1
  BY <1>1, InsFacts
<1>3. Routine' = Routine
  BY <1>1 DEF Routine, Repertoire
<1> QED
  BY <1>1, <1>2, <1>3 DEF AluTypeOK

LEMMA BranchTypes ==
  ASSUME AluTypeOK, Running, NEW taken, BranchTo(taken), Ins.op \in Names(Branches) \cup Names(BitBranches)
  PROVE  AluTypeOK'
<1>1. UNCHANGED <<routine, start, cpu>> /\ at' \in {Ins.to, at + 1}
  BY DEF BranchTo
<1>2. Ins.to \in 1..Len(Routine.code) + 1
  <2>1. Legal(Ins, Routine.code)
    BY InsFacts
  <2> QED
    BY <2>1 DEF Legal
<1>3. at + 1 \in 1..Len(Routine.code) + 1
  BY InsFacts
<1>4. Routine' = Routine
  BY <1>1 DEF Routine, Repertoire
<1> QED
  BY <1>1, <1>2, <1>3, <1>4 DEF AluTypeOK

\* Of each kind of instruction, what it makes of the registers.
LEMMA StoredType ==
  ASSUME NEW s \in Cpus, NEW x, NEW v \in Byte, NEW flags \in SUBSET Flags
  PROVE  [s EXCEPT !.mem[x] = v] \in Cpus /\ [s EXCEPT !.mem[x] = v, !.flags = flags] \in Cpus
BY DEF Cpus

LEMMA adcType ==
  ASSUME NEW s \in Cpus, NEW v \in Byte
  PROVE  adc(s, v) \in Cpus /\ sbc(s, v) \in Cpus
BY BinarySumRight, BinaryDifferenceRight, DecimalSumType, DecimalDifferenceType DEF adc, sbc

LEMMA FlagOpFlags ==
  ASSUME NEW i \in FlagOps
  PROVE  i[2] \in Flags
<1>1. \/ i = <<"CLC", "C", FALSE>> \/ i = <<"SEC", "C", TRUE>> \/ i = <<"CLD", "D", FALSE>>
      \/ i = <<"SED", "D", TRUE>> \/ i = <<"CLV", "V", FALSE>>
  BY Zenon DEF FlagOps
<1>2. CASE i = <<"CLC", "C", FALSE>>
  BY <1>2, SMT DEF Flags
<1>3. CASE i = <<"SEC", "C", TRUE>>
  BY <1>3, SMT DEF Flags
<1>4. CASE i = <<"CLD", "D", FALSE>>
  BY <1>4, SMT DEF Flags
<1>5. CASE i = <<"SED", "D", TRUE>>
  BY <1>5, SMT DEF Flags
<1>6. CASE i = <<"CLV", "V", FALSE>>
  BY <1>6, SMT DEF Flags
<1> QED
  BY <1>1, <1>2, <1>3, <1>4, <1>5, <1>6

LEMMA CellFacts ==
  ASSUME NEW s \in Cpus, NEW x \in Cells
  PROVE  s.mem[x] \in Byte /\ Fetch(s, x) = s.mem[x]
BY DEF Cpus, Fetch

LEMMA StepTypes ==
  ASSUME AluTypeOK, aluNext
  PROVE  AluTypeOK'
<1> DEFINE s == cpu
<1>1. s \in Cpus
  BY DEF AluTypeOK
<1>2. /\ s.ac \in Byte /\ s.ix \in Byte /\ s.iy \in Byte /\ s.flags \in SUBSET Flags
      /\ testBit(s, "C") \in {0, 1}
  BY <1>1, CpuFacts
<1>3. \A op, t : t \in Cpus /\ Does(op, t) => AluTypeOK'
  BY DoesTypes
<1>4. CASE Load
  <2>1. PICK i \in Loads : Does(i[1], Set(cpu, i[2], Value))
    BY <1>4 DEF Load
  <2>2. i[1] \in {"LDA", "LDX", "LDY"} /\ i[2] \in {"ac", "ix", "iy"}
    BY DEF Loads
  <2>3. Value \in Byte
    BY <2>1, <2>2, Operands DEF Does, Operates
  <2>4. Set(cpu, i[2], Value) \in Cpus
    BY <1>1, <2>2, <2>3, SetFacts
  <2> QED
    BY <1>3, <2>1, <2>4
<1>5. CASE Store
  <2>1. PICK i \in Stores : Does(i[1], [cpu EXCEPT !.mem[Target] = cpu[i[2]]])
    BY <1>5 DEF Store
  <2>2. PICK v \in Byte : v = cpu[i[2]]
    BY <1>2 DEF Stores
  <2>3. [cpu EXCEPT !.mem[Target] = v] \in Cpus
    BY <1>1, <1>2, StoredType
  <2> QED
    BY <1>3, <2>1, <2>2, <2>3
<1>6. CASE Zero
  <2>1. PICK v \in Byte : v = 0
    BY DEF Byte
  <2>2. [cpu EXCEPT !.mem[Target] = v] \in Cpus
    BY <1>1, <1>2, StoredType
  <2> QED
    BY <1>3, <1>6, <2>1, <2>2 DEF Zero
<1>7. CASE Transfer
  <2>1. PICK i \in Transfers : Does(i[1], Set(cpu, i[3], cpu[i[2]]))
    BY <1>7 DEF Transfer
  <2>2. i[3] \in {"ac", "ix", "iy"} /\ cpu[i[2]] \in Byte
    BY <1>2 DEF Transfers
  <2>3. Set(cpu, i[3], cpu[i[2]]) \in Cpus
    BY <1>1, <2>2, SetFacts
  <2> QED
    BY <1>3, <2>1, <2>3
<1>8. CASE Count
  <2>1. PICK i \in Counts : Does(i[1], Set(cpu, i[2], Wrap8(cpu[i[2]] + i[3])))
    BY <1>8 DEF Count
  <2>2. PICK r \in Byte, n \in Byte : r = cpu[i[2]] /\ n = i[3]
    <3>1. i[3] \in {1, 255} /\ i[2] \in {"ix", "iy"}
      BY DEF Counts
    <3>2. i[3] \in Byte
      BY <3>1 DEF Byte
    <3>3. cpu[i[2]] \in Byte
      BY <1>2, <3>1
    <3> QED
      BY <3>2, <3>3
  <2>3. PICK v \in Byte : v = Wrap8(r + n)
    BY DEF Byte, Wrap8
  <2>4. Set(cpu, i[2], v) \in Cpus
    <3>1. i[2] \in {"ac", "ix", "iy"}
      BY DEF Counts
    <3> QED
      BY <1>1, <3>1, SetFacts
  <2> QED
    BY <1>3, <2>1, <2>2, <2>3, <2>4
<1>9. CASE FlagOp
  <2>1. PICK i \in FlagOps : Does(i[1], [cpu EXCEPT !.flags = setOrClearBit(@, i[2], i[3])])
    BY <1>9 DEF FlagOp
  <2>2. PICK flags \in SUBSET Flags : flags = setOrClearBit(cpu.flags, i[2], i[3])
    <3>1. i[2] \in Flags
      BY FlagOpFlags
    <3>2. setOrClearBit(cpu.flags, i[2], i[3]) \in SUBSET Flags
      BY <1>2, <3>1 DEF setOrClearBit
    <3> QED
      BY <3>2
  <2>3. [cpu EXCEPT !.flags = flags] \in Cpus
    BY <1>1 DEF Cpus
  <2> QED
    BY <1>3, <2>1, <2>2, <2>3
<1>10. CASE And \/ Ora \/ Eor
  <2>1. Value \in Byte
    BY <1>10, Operands DEF And, Ora, Eor, Does, Operates
  <2>2. And8(s.ac, Value) \in Byte /\ Or8(s.ac, Value) \in Byte /\ Xor8(s.ac, Value) \in Byte
    BY <1>2, <2>1, Operations
  <2>3. \A v \in Byte : Set(cpu, "ac", v) \in Cpus
    BY <1>1, SetFacts
  <2> QED
    BY <1>3, <1>10, <2>2, <2>3 DEF And, Ora, Eor
<1>11. CASE Adc \/ Sbc
  <2>1. Value \in Byte
    BY <1>11, Operands DEF Adc, Sbc, Does, Operates
  <2>2. adc(cpu, Value) \in Cpus /\ sbc(cpu, Value) \in Cpus
    BY <1>1, <2>1, adcType
  <2> QED
    BY <1>3, <1>11, <2>2 DEF Adc, Sbc
<1>12. CASE Cmp
  <2>1. PICK i \in Compares : Does(i[1], Compare(cpu, cpu[i[2]], Value))
    BY <1>12 DEF Cmp
  <2>2. Value \in Byte
    <3>1. i[1] \in {"CMP", "CPX", "CPY"}
      BY DEF Compares
    <3> QED
      BY <2>1, <3>1, Operands DEF Does, Operates
  <2>3. cpu[i[2]] \in Byte
    BY <1>2 DEF Compares
  <2>4. Compare(cpu, cpu[i[2]], Value) \in Cpus
    BY <1>1, <2>2, <2>3, CompareRight
  <2> QED
    BY <1>3, <2>1, <2>4
<1>13. CASE Inc \/ Dec
  <2>1. Add(cpu, Target, 1) \in Cpus /\ Add(cpu, Target, 255) \in Cpus
    <3>1. 1 \in Byte /\ 255 \in Byte
      BY DEF Byte
    <3> QED
      BY <1>1, <3>1, AddFacts
  <2> QED
    BY <1>3, <1>13, <2>1 DEF Inc, Dec
<1>14. CASE Asl \/ Lsr \/ Rol \/ Ror
  <2>1. asl(cpu, Target) \in Cpus /\ lsr(cpu, Target) \in Cpus /\ rol(cpu, Target) \in Cpus /\ ror(cpu, Target) \in Cpus
    BY <1>1, ShiftsAreRight
  <2> QED
    BY <1>3, <1>14, <2>1 DEF Asl, Lsr, Rol, Ror
<1>15. CASE BitTest
  <2>1. PICK flags : flags = IF Ins.mode = "imm" THEN cpu.flags
               ELSE setOrClearBit(setOrClearBit(cpu.flags, "V", Bit(Value, 6) = 1), "N", Bit(Value, 7) = 1)
    OBVIOUS
  <2>2. PICK f : f = setOrClearBit(flags, "Z", And8(Value, cpu.ac) = 0)
    OBVIOUS
  <2>3. f \in SUBSET Flags
    BY <1>2, <2>1, <2>2 DEF setOrClearBit, Flags
  <2>4. [cpu EXCEPT !.flags = f] \in Cpus
    BY <1>1, <2>3 DEF Cpus
  <2>5. Does("BIT", [cpu EXCEPT !.flags = f])
    BY <1>15, <2>1, <2>2 DEF BitTest
  <2> QED
    BY <1>3, <2>4, <2>5
<1>16. CASE Trb \/ Tsb
  <2>1. PICK f : f = setOrClearBit(cpu.flags, "Z", And8(Value, cpu.ac) = 0)
    OBVIOUS
  <2>2. f \in SUBSET Flags
    BY <1>2, <2>1, FlagFacts DEF Flags
  <2>4. cpu.mem \in [Cells -> Byte] /\ Not8(cpu.ac) \in Byte
    BY <1>1, <1>2, CpuFacts, ByteFacts
  <2>5. \A v \in Byte : And8(v, Not8(cpu.ac)) \in Byte /\ Or8(v, cpu.ac) \in Byte
    BY <1>2, <2>4, Operations
  <2>6. /\ [cpu EXCEPT !.mem[Target] = And8(@, Not8(cpu.ac)), !.flags = f] \in Cpus
        /\ [cpu EXCEPT !.mem[Target] = Or8(@, cpu.ac), !.flags = f] \in Cpus
    BY <1>1, <2>2, <2>4, <2>5 DEF Cpus
  <2> QED
    BY <1>3, <1>16, <2>1, <2>6 DEF Trb, Tsb
<1>17. CASE Rmb \/ Smb
  <2>1. PICK m \in Byte : m = 2^Ins.bit
    <3>1. Ins.bit \in 0..7
      BY <1>17, InsFacts, Instructions DEF Rmb, Smb, Does, Legal
    <3>2. /\ 2^0 \in Byte /\ 2^1 \in Byte /\ 2^2 \in Byte /\ 2^3 \in Byte
          /\ 2^4 \in Byte /\ 2^5 \in Byte /\ 2^6 \in Byte /\ 2^7 \in Byte
      BY DEF Byte
    <3>3. Ins.bit = 0 \/ Ins.bit = 1 \/ Ins.bit = 2 \/ Ins.bit = 3 \/ Ins.bit = 4 \/ Ins.bit = 5 \/ Ins.bit = 6 \/ Ins.bit = 7
      BY <3>1
    <3> QED
      BY <3>2, <3>3
  <2>2. cpu.mem \in [Cells -> Byte] /\ Not8(m) \in Byte
    BY <1>1, CpuFacts, ByteFacts
  <2>3. \A v \in Byte : And8(v, Not8(m)) \in Byte /\ Or8(v, m) \in Byte
    BY <2>2, Operations
  <2>4. /\ [cpu EXCEPT !.mem[Target] = And8(@, Not8(m))] \in Cpus
        /\ [cpu EXCEPT !.mem[Target] = Or8(@, m)] \in Cpus
    BY <1>1, <2>2, <2>3 DEF Cpus
  <2> QED
    BY <1>3, <1>17, <2>1, <2>4 DEF Rmb, Smb
<1>18. CASE Branch
  <2>1. PICK i \in Branches : Running /\ Ins.op = i[1] /\ BranchTo((i[2] \in cpu.flags) = i[3])
    BY <1>18 DEF Branch
  <2>2. i[1] \in Names(Branches)
    BY DEF Names
  <2> QED
    BY <2>1, <2>2, BranchTypes
<1>19. CASE BitBranch
  <2>1. PICK i \in BitBranches : Running /\ Ins.op = i[1] /\ BranchTo(Bit(Value, Ins.bit) = i[2])
    BY <1>19 DEF BitBranch
  <2>2. i[1] \in Names(BitBranches)
    BY DEF Names
  <2> QED
    BY <2>1, <2>2, BranchTypes
<1>20. CASE Halted
  BY <1>20 DEF Halted, aluVars, AluTypeOK, Routine, Repertoire
<1>21. CASE Slo \/ Rla \/ Sre \/ Rra
  <2>1. Target \in Cells
    BY <1>21, Operands DEF Slo, Rla, Sre, Rra, Does, Modifies
  <2>2. PICK a, b, c, d \in Cpus :
          a = asl(cpu, Target) /\ b = rol(cpu, Target) /\ c = lsr(cpu, Target) /\ d = ror(cpu, Target)
    BY <1>1, ShiftsAreRight
  <2>3. \A t \in Cpus : t.ac \in Byte /\ t.mem[Target] \in Byte
    BY <2>1, CellFacts, CpuFacts
  <2>4. \A t \in Cpus : /\ Or8(t.ac, t.mem[Target]) \in Byte /\ And8(t.ac, t.mem[Target]) \in Byte
                        /\ Xor8(t.ac, t.mem[Target]) \in Byte
    BY <2>3, Operations
  <2>5. \A t \in Cpus : /\ Set(t, "ac", Or8(t.ac, t.mem[Target])) \in Cpus
                        /\ Set(t, "ac", And8(t.ac, t.mem[Target])) \in Cpus
                        /\ Set(t, "ac", Xor8(t.ac, t.mem[Target])) \in Cpus
                        /\ adc(t, t.mem[Target]) \in Cpus
    BY <2>3, <2>4, SetFacts, adcType
  <2>6. CASE Slo
    BY <1>3, <2>2, <2>5, <2>6 DEF Slo
  <2>7. CASE Rla
    BY <1>3, <2>2, <2>5, <2>7 DEF Rla
  <2>8. CASE Sre
    BY <1>3, <2>2, <2>5, <2>8 DEF Sre
  <2>9. CASE Rra
    BY <1>3, <2>2, <2>5, <2>9 DEF Rra
  <2> QED
    BY <1>21, <2>6, <2>7, <2>8, <2>9
<1>22. CASE Dcp \/ Isc
  <2>1. Target \in Cells
    BY <1>22, Operands DEF Dcp, Isc, Does, Modifies
  <2>2. PICK a, b \in Cpus : a = Add(cpu, Target, 255) /\ b = Add(cpu, Target, 1)
    <3>1. 1 \in Byte /\ 255 \in Byte
      BY DEF Byte
    <3> QED
      BY <1>1, <3>1, AddFacts
  <2>3. \A t \in Cpus : t.ac \in Byte /\ t.mem[Target] \in Byte
    BY <2>1, CellFacts, CpuFacts
  <2>4. \A t \in Cpus : Compare(t, t.ac, t.mem[Target]) \in Cpus /\ sbc(t, t.mem[Target]) \in Cpus
    BY <2>3, CompareRight, adcType
  <2>5. CASE Dcp
    BY <1>3, <2>2, <2>4, <2>5 DEF Dcp
  <2>6. CASE Isc
    BY <1>3, <2>2, <2>4, <2>6 DEF Isc
  <2> QED
    BY <1>22, <2>5, <2>6
<1>23. CASE Sax
  <2>1. And8(cpu.ac, cpu.ix) \in Byte
    BY <1>2, Operations
  <2>2. [cpu EXCEPT !.mem[Target] = And8(cpu.ac, cpu.ix)] \in Cpus
    BY <1>1, <1>2, <2>1, StoredType
  <2> QED
    BY <1>3, <1>23, <2>2 DEF Sax
<1>24. CASE Lax
  <2>1. Value \in Byte
    BY <1>24, Operands DEF Lax, Does, Operates
  <2>2. PICK t \in Cpus : t = Set(cpu, "ac", Value)
    BY <1>1, <2>1, SetFacts
  <2>3. [t EXCEPT !.ix = Value] \in Cpus
    BY <2>1 DEF Cpus
  <2> QED
    BY <1>3, <1>24, <2>2, <2>3 DEF Lax
<1>25. CASE Anc \/ Alr \/ Arr
  <2>1. Value \in Byte
    BY <1>25, Operands DEF Anc, Alr, Arr, Does, Operates
  <2>2. PICK t \in Cpus : t = Set(cpu, "ac", And8(cpu.ac, Value))
    BY <1>1, <1>2, <2>1, Operations, SetFacts
  <2>3. t.flags \in SUBSET Flags /\ t.ac \in Byte /\ testBit(t, "C") \in {0, 1}
    BY CpuFacts
  <2>4. CASE Anc
    <3>1. PICK f \in SUBSET Flags : f = setOrClearBit(t.flags, "C", "N" \in t.flags)
      BY <2>3, FlagFacts DEF Flags
    <3>2. [t EXCEPT !.flags = f] \in Cpus
      BY DEF Cpus
    <3> QED
      BY <1>3, <2>2, <2>4, <3>1, <3>2 DEF Anc
  <2>5. CASE Alr
    <3>1. lsr(t, Acc) \in Cpus
      BY ShiftsAreRight
    <3> QED
      BY <1>3, <2>2, <2>5, <3>1 DEF Alr
  <2>6. CASE Arr
    <3>1. PICK f \in SUBSET Flags : f = setOrClearBit(t.flags, "V", FALSE)
      BY <2>3, FlagFacts DEF Flags
    <3>2. PICK a \in Byte : a = t.ac
      BY <2>3
    <3>3. PICK c \in {0, 1} : c = testBit(t, "C")
      BY <2>3
    <3>4. PICK v \in Byte : v = a \div 2 + 128 * c
      BY DEF Byte
    <3>5. [t EXCEPT !.flags = f, !.ac = v] \in Cpus
      BY DEF Cpus
    <3>6. Does("ARR", [t EXCEPT !.flags = f, !.ac = v])
      BY <2>2, <2>6, <3>1, <3>2, <3>3, <3>4 DEF Arr, Cpus
    <3> QED
      BY <1>3, <3>5, <3>6
  <2> QED
    BY <1>25, <2>4, <2>5, <2>6
<1>26. CASE Sbx
  <2>1. Value \in Byte
    BY <1>26, Operands DEF Sbx, Does, Operates
  <2>2. PICK a \in Byte : a = And8(cpu.ac, cpu.ix)
    BY <1>2, Operations
  <2>3. PICK t \in Cpus : t = Compare(cpu, a, Value) /\ t.ac = cpu.ac /\ t.ix = cpu.ix
    BY <1>1, <2>1, <2>2, CompareRight DEF OnlyAc
  <2>4. PICK n \in Byte : n = Not8(Value)
    BY <2>1, ByteFacts
  <2>5. PICK v \in Byte : v = Wrap8(a + n + 1)
    BY DEF Byte, Wrap8
  <2>6. [t EXCEPT !.ix = v] \in Cpus
    BY DEF Cpus
  <2>7. Does("SBX", [t EXCEPT !.ix = v])
    BY <1>26, <2>2, <2>3, <2>4, <2>5 DEF Sbx
  <2> QED
    BY <1>3, <2>6, <2>7
<1> QED
  BY <1>4, <1>5, <1>6, <1>7, <1>8, <1>9, <1>10, <1>11, <1>12, <1>13, <1>14, <1>15, <1>16, <1>17,
     <1>18, <1>19, <1>20, <1>21, <1>22, <1>23, <1>24, <1>25, <1>26 DEF aluNext

LEMMA InitTypes ==
  ASSUME aluInit
  PROVE  AluTypeOK
<1>1. routine \in DOMAIN Repertoire /\ start \in Repertoire[routine].operands
  BY DEF aluInit, Routine
<1>2. /\ start \in [Cells -> Byte]
      /\ Len(Routine.code) \in Nat
  BY <1>1, RoutinesAssumption DEF Routine
<1>3. cpu \in Cpus
  BY <1>2 DEF aluInit, Cpus, Byte
<1>4. at \in 1..Len(Routine.code) + 1
  BY <1>2 DEF aluInit
<1> QED
  BY <1>1, <1>2, <1>3, <1>4 DEF AluTypeOK

\* Registers and memory are bytes, and a routine stays within its code, whatever
\* legal instructions it has and whichever branch it takes.
THEOREM AluTypeCorrect == aluSpec => []AluTypeOK
<1>1. aluInit => AluTypeOK
  BY InitTypes
<1>2. AluTypeOK /\ [aluNext]_aluVars => AluTypeOK'
  <2>1. CASE UNCHANGED aluVars
    BY <2>1 DEF aluVars, AluTypeOK, Routine, Repertoire
  <2> QED
    BY <2>1, StepTypes
<1> QED
  BY <1>1, <1>2, PTL DEF aluSpec

-----------------------------------------------------------------------------
(* What each instruction computes, whatever ran before it.                 *)

\* A sum with the carry: of binary numbers with its carry out, V where the sum
\* of the signed numbers has no byte, and the sign of that sum as N xor V; of two
\* decimal digits the two digits of the sum and its carry.
Added(s, v, t) ==
  LET in == testBit(s, "C")  out == testBit(t, "C") IN
  /\ OnlyAc(s, t) /\ Keeps(s, t, {"D"})
  /\ "D" \notin s.flags =>
       /\ t.ac + 256 * out = s.ac + v + in
       /\ "V" \in t.flags <=> Int8(s.ac) + Int8(v) + in \notin -128..127
       /\ ~("N" \in t.flags <=> "V" \in t.flags) <=> Int8(s.ac) + Int8(v) + in < 0
  /\ "D" \in s.flags /\ Bcd(s.ac) /\ Bcd(v) =>
       Bcd(t.ac) /\ Decimal(t.ac) + 100 * out = Decimal(s.ac) + Decimal(v) + in
  /\ "D" \notin s.flags \/ model \in CMOS => NZOf(t, t.ac)

\* A difference, less one if the carry is clear; the carry it leaves is clear if
\* it borrowed.  In decimal mode a part stored as CPU_6502, a CPU_6502U too, has N
\* and Z from the binary difference, every other part from the corrected one.
Subtracted(s, v, t) ==
  LET in == 1 - testBit(s, "C")  out == 1 - testBit(t, "C") IN
  /\ OnlyAc(s, t) /\ Keeps(s, t, {"D"})
  /\ "D" \notin s.flags =>
       /\ t.ac - 256 * out = s.ac - v - in
       /\ "V" \in t.flags <=> Int8(s.ac) - Int8(v) - in \notin -128..127
       /\ ~("N" \in t.flags <=> "V" \in t.flags) <=> Int8(s.ac) - Int8(v) - in < 0
  /\ "D" \in s.flags /\ Bcd(s.ac) /\ Bcd(v) =>
       Bcd(t.ac) /\ Decimal(t.ac) - 100 * out = Decimal(s.ac) - Decimal(v) - in
  /\ "D" \notin s.flags \/ StoredModel # "CPU_6502" => NZOf(t, t.ac)
  /\ "D" \in s.flags /\ StoredModel = "CPU_6502" => NZOf(t, Wrap8(Wrap16(s.ac - v - in)))

LEMMA AddedRight ==
  ASSUME NEW s \in Cpus, NEW v \in Byte
  PROVE  Added(s, v, adc(s, v))
<1>1. PICK t : t = adc(s, v)
  OBVIOUS
<1>2. CASE "D" \in s.flags
  <2>1. t = adcd(s, v)
    BY <1>1, <1>2 DEF adc
  <2>2. /\ t \in Cpus /\ OnlyAc(s, t) /\ Keeps(s, t, {"D"})
        /\ model \in CMOS => NZOf(t, t.ac)
    BY <2>1, DecimalSumType
  <2>3. Bcd(s.ac) /\ Bcd(v) =>
          Bcd(t.ac) /\ Decimal(t.ac) + 100 * testBit(t, "C") = Decimal(s.ac) + Decimal(v) + testBit(s, "C")
    BY <2>1, DecimalSumRight
  <2> QED
    BY <1>1, <1>2, <2>2, <2>3 DEF Added
<1>3. CASE "D" \notin s.flags
  <2>1. t = BinarySum(s, v)
    BY <1>1, <1>3 DEF adc
  <2> QED
    BY <1>1, <1>3, <2>1, BinarySumRight DEF Added
<1> QED
  BY <1>2, <1>3

LEMMA SubtractedRight ==
  ASSUME NEW s \in Cpus, NEW v \in Byte
  PROVE  Subtracted(s, v, sbc(s, v))
<1>1. PICK t : t = sbc(s, v)
  OBVIOUS
<1>2. CASE "D" \in s.flags
  <2>1. t = sbcd(s, v)
    BY <1>1, <1>2 DEF sbc
  <2>2. /\ t \in Cpus /\ OnlyAc(s, t) /\ Keeps(s, t, {"D"})
        /\ StoredModel # "CPU_6502" => NZOf(t, t.ac)
        /\ StoredModel = "CPU_6502" => NZOf(t, Wrap8(Wrap16(s.ac - v - (1 - testBit(s, "C")))))
    BY <2>1, DecimalDifferenceType
  <2>3. Bcd(s.ac) /\ Bcd(v) =>
          /\ Bcd(t.ac)
          /\ Decimal(t.ac) - 100 * (1 - testBit(t, "C")) = Decimal(s.ac) - Decimal(v) - (1 - testBit(s, "C"))
    BY <2>1, DecimalDifferenceRight
  <2> QED
    BY <1>1, <1>2, <2>2, <2>3 DEF Subtracted
<1>3. CASE "D" \notin s.flags
  <2>1. t = BinarySum(s, Not8(v))
    BY <1>1, <1>3 DEF sbc
  <2> QED
    BY <1>1, <1>3, <2>1, BinaryDifferenceRight DEF Subtracted
<1> QED
  BY <1>2, <1>3

\* A shift, or a count, of memory before the operation on the accumulator.
LEMMA Combined ==
  ASSUME NEW s \in Cpus, NEW x \in Cells
  PROVE  /\ ror(s, x) \in Cpus /\ ror(s, x).mem[x] \in Byte
         /\ \A n \in {1, 255} : Add(s, x, n) \in Cpus /\ Add(s, x, n).mem[x] \in Byte
<1>1. PICK t \in Cpus : t = ror(s, x)
  BY ShiftsAreRight
<1>2. \A n \in {1, 255} : Add(s, x, n) \in Cpus
  <2>1. 1 \in Byte /\ 255 \in Byte
    BY DEF Byte
  <2> QED
    BY <2>1, AddFacts
<1>3. \A t2 \in Cpus : t2.mem[x] \in Byte
  BY CellFacts
<1> QED
  BY <1>1, <1>2, <1>3

\* Every addition is right, and so is the one after a rotation by RRA.
AdditionsRight ==
  [][ /\ Adc => Added(cpu, Value, cpu')
      /\ Rra => LET s == ror(cpu, Target) IN Added(s, s.mem[Target], cpu') ]_aluVars

\* ADC and RRA compute the sum and the carry they owe the next instruction.
THEOREM EveryAddition == aluSpec => AdditionsRight
<1>1. AluTypeOK /\ Adc => Added(cpu, Value, cpu')
  <2> SUFFICES ASSUME AluTypeOK, Adc PROVE Added(cpu, Value, cpu')
    OBVIOUS
  <2>1. cpu \in Cpus /\ cpu' = adc(cpu, Value) /\ Ins.op = "ADC" /\ Running
    BY DEF AluTypeOK, Adc, Does
  <2>2. Value \in Byte
    BY <2>1, Operands DEF Operates
  <2> QED
    BY <2>1, <2>2, AddedRight
<1>2. AluTypeOK /\ Rra => LET s == ror(cpu, Target) IN Added(s, s.mem[Target], cpu')
  <2> SUFFICES ASSUME AluTypeOK, Rra PROVE LET s == ror(cpu, Target) IN Added(s, s.mem[Target], cpu')
    OBVIOUS
  <2>1. cpu \in Cpus /\ Ins.op = "RRA" /\ Running
    BY DEF AluTypeOK, Rra, Does
  <2>2. Target \in Cells
    BY <2>1, Operands DEF Modifies
  <2>3. PICK s \in Cpus : s = ror(cpu, Target) /\ s.mem[Target] \in Byte
    BY <2>1, <2>2, Combined
  <2>4. cpu' = adc(s, s.mem[Target])
    BY <2>3 DEF Rra, Does
  <2> QED
    BY <2>3, <2>4, AddedRight
<1> QED
  BY <1>1, <1>2, AluTypeCorrect, PTL DEF AdditionsRight

\* Every subtraction is right, and so is the one after ISC has counted up.
SubtractionsRight ==
  [][ /\ Sbc => Subtracted(cpu, Value, cpu')
      /\ Isc => LET s == Add(cpu, Target, 1) IN Subtracted(s, s.mem[Target], cpu') ]_aluVars

\* SBC and ISC compute the difference and the borrow, by the correction of the
\* models stored as CPU_6502 and by that of the others.
THEOREM EverySubtraction == aluSpec => SubtractionsRight
<1>1. AluTypeOK /\ Sbc => Subtracted(cpu, Value, cpu')
  <2> SUFFICES ASSUME AluTypeOK, Sbc PROVE Subtracted(cpu, Value, cpu')
    OBVIOUS
  <2>1. cpu \in Cpus /\ cpu' = sbc(cpu, Value) /\ Ins.op = "SBC" /\ Running
    BY DEF AluTypeOK, Sbc, Does
  <2>2. Value \in Byte
    BY <2>1, Operands DEF Operates
  <2> QED
    BY <2>1, <2>2, SubtractedRight
<1>2. AluTypeOK /\ Isc => LET s == Add(cpu, Target, 1) IN Subtracted(s, s.mem[Target], cpu')
  <2> SUFFICES ASSUME AluTypeOK, Isc PROVE LET s == Add(cpu, Target, 1) IN Subtracted(s, s.mem[Target], cpu')
    OBVIOUS
  <2>1. cpu \in Cpus /\ Ins.op = "ISC" /\ Running
    BY DEF AluTypeOK, Isc, Does
  <2>2. Target \in Cells
    BY <2>1, Operands DEF Modifies
  <2>3. PICK s \in Cpus : s = Add(cpu, Target, 1) /\ s.mem[Target] \in Byte
    BY <2>1, <2>2, Combined
  <2>4. cpu' = sbc(s, s.mem[Target])
    BY <2>3 DEF Isc, Does
  <2> QED
    BY <2>3, <2>4, SubtractedRight
<1> QED
  BY <1>1, <1>2, AluTypeCorrect, PTL DEF SubtractionsRight

\* A comparison changes the flags alone: C tells which operand is the greater, Z
\* whether they are equal, N the sign of the difference of two bytes.
Compared(s, a, v, t) ==
  /\ t.ac = s.ac /\ OnlyAc(s, t) /\ Keeps(s, t, {"V", "D"})
  /\ "C" \in t.flags <=> a >= v
  /\ "Z" \in t.flags <=> a = v
  /\ "N" \in t.flags <=> Wrap8(a - v) >= 128

\* Every comparison is right, that of DCP after it has counted down too.
ComparisonsRight ==
  [][ /\ Cmp => \E i \in Compares : Ins.op = i[1] /\ Compared(cpu, cpu[i[2]], Value, cpu')
      /\ Dcp => LET s == Add(cpu, Target, 255) IN Compared(s, s.ac, s.mem[Target], cpu') ]_aluVars

\* The branch after a CMP, CPX, CPY or DCP goes by what was compared.
THEOREM EveryComparison == aluSpec => ComparisonsRight
<1>1. ASSUME NEW s \in Cpus, NEW a \in Byte, NEW v \in Byte
      PROVE  Compared(s, a, v, Compare(s, a, v))
  BY CompareRight DEF Compared
<1>2. AluTypeOK /\ Cmp => \E i \in Compares : Ins.op = i[1] /\ Compared(cpu, cpu[i[2]], Value, cpu')
  <2> SUFFICES ASSUME AluTypeOK, Cmp
               PROVE  \E i \in Compares : Ins.op = i[1] /\ Compared(cpu, cpu[i[2]], Value, cpu')
    OBVIOUS
  <2>1. PICK i \in Compares : Does(i[1], Compare(cpu, cpu[i[2]], Value))
    BY DEF Cmp
  <2>2. i[1] \in {"CMP", "CPX", "CPY"} /\ i[2] \in {"ac", "ix", "iy"}
    BY DEF Compares
  <2>3. cpu \in Cpus /\ Ins.op = i[1] /\ Running /\ cpu' = Compare(cpu, cpu[i[2]], Value)
    BY <2>1 DEF AluTypeOK, Does
  <2>4. Value \in Byte /\ cpu[i[2]] \in Byte
    BY <2>2, <2>3, Operands, CpuFacts DEF Operates
  <2> QED
    BY <1>1, <2>3, <2>4
<1>3. AluTypeOK /\ Dcp => LET s == Add(cpu, Target, 255) IN Compared(s, s.ac, s.mem[Target], cpu')
  <2> SUFFICES ASSUME AluTypeOK, Dcp PROVE LET s == Add(cpu, Target, 255) IN Compared(s, s.ac, s.mem[Target], cpu')
    OBVIOUS
  <2>1. cpu \in Cpus /\ Ins.op = "DCP" /\ Running
    BY DEF AluTypeOK, Dcp, Does
  <2>2. Target \in Cells
    BY <2>1, Operands DEF Modifies
  <2>3. PICK s \in Cpus : s = Add(cpu, Target, 255) /\ s.mem[Target] \in Byte /\ s.ac \in Byte
    BY <2>1, <2>2, Combined, CpuFacts
  <2>4. cpu' = Compare(s, s.ac, s.mem[Target])
    BY <2>3 DEF Dcp, Does
  <2> QED
    BY <1>1, <2>3, <2>4
<1> QED
  BY <1>2, <1>3, AluTypeCorrect, PTL DEF ComparisonsRight

\* What a shift makes of a byte: the byte, with the bit that leaves it in C and the
\* one that enters it; nothing else but N and Z is touched.
Shifted(s, x, t, left, in) ==
  /\ OnlyAt(s, t, x) /\ Keeps(s, t, {"V", "D"}) /\ NZOf(t, Fetch(t, x))
  /\ IF left THEN ShiftsLeft(t, x, Fetch(s, x), in) ELSE ShiftsRight(t, x, Fetch(s, x), in)

\* What leaves one byte by C is what a rotation brings into the next.
ShiftStepsRight ==
  [][ /\ Asl => Shifted(cpu, Target, cpu', TRUE, 0)
      /\ Lsr => Shifted(cpu, Target, cpu', FALSE, 0)
      /\ Rol => Shifted(cpu, Target, cpu', TRUE, testBit(cpu, "C"))
      /\ Ror => Shifted(cpu, Target, cpu', FALSE, testBit(cpu, "C")) ]_aluVars

\* ASL, LSR, ROL and ROR lose no bit: it is in the byte or in C.
THEOREM EveryShift == aluSpec => ShiftStepsRight
<1>1. ASSUME AluTypeOK
      PROVE  /\ Asl => Shifted(cpu, Target, cpu', TRUE, 0)
             /\ Lsr => Shifted(cpu, Target, cpu', FALSE, 0)
             /\ Rol => Shifted(cpu, Target, cpu', TRUE, testBit(cpu, "C"))
             /\ Ror => Shifted(cpu, Target, cpu', FALSE, testBit(cpu, "C"))
  <2>1. cpu \in Cpus
    BY <1>1 DEF AluTypeOK
  <2>2. PICK s \in Cpus : s = cpu
    BY <2>1
  <2>3. PICK x : x = Target
    OBVIOUS
  <2>4. /\ Shifted(s, x, asl(s, x), TRUE, 0) /\ Shifted(s, x, lsr(s, x), FALSE, 0)
        /\ Shifted(s, x, rol(s, x), TRUE, testBit(s, "C")) /\ Shifted(s, x, ror(s, x), FALSE, testBit(s, "C"))
    BY ShiftsAreRight DEF Shifted
  <2> QED
    BY <2>2, <2>3, <2>4 DEF Asl, Lsr, Rol, Ror, Does
<1> QED
  BY <1>1, AluTypeCorrect, PTL DEF ShiftStepsRight

-----------------------------------------------------------------------------
(* Single bits.                                                            *)

LEMMA NotRight ==
  ASSUME NEW x \in Byte
  PROVE  Not8(x) \in Byte /\ \A i \in 0..7 : Bit(Not8(x), i) = 1 <=> Bit(x, i) # 1
<1>1. PICK h \in 0..15, l \in 0..15 : h = Hi(x) /\ l = Lo(x) /\ x = 16 * h + l
  BY ByteFacts
<1>2. PICK nh \in 0..15, nl \in 0..15 : nh = 15 - h /\ nl = 15 - l
  OBVIOUS
<1>3. Not8(x) = 16 * nh + nl
  <2>1. x = 16 * h + l
    BY <1>1
  <2> QED
    BY <1>2, <2>1 DEF Not8
<1>4. ASSUME NEW n \in 0..15, NEW m \in 0..15, n = 15 - m, NEW i \in 0..3
      PROVE  Bit(n, i) = 1 <=> Bit(m, i) # 1
  <2>1. PICK a, b, c, d \in {0, 1} :
          /\ Bit(m, 0) = a /\ Bit(m, 1) = b /\ Bit(m, 2) = c /\ Bit(m, 3) = d
          /\ m = (a + 2 * b) + (4 * c + 8 * d)
    BY NibbleBits
  <2>2. PICK a1, b1, c1, d1 \in {0, 1} : a1 = 1 - a /\ b1 = 1 - b /\ c1 = 1 - c /\ d1 = 1 - d
    OBVIOUS
  <2>3. n = (a1 + 2 * b1) + (4 * c1 + 8 * d1)
    BY <1>4, <2>1, <2>2
  <2>4. Bit(n, 0) = a1 /\ Bit(n, 1) = b1 /\ Bit(n, 2) = c1 /\ Bit(n, 3) = d1
    BY <2>3, NibbleOfBits
  <2>5. (a1 = 1 <=> a # 1) /\ (b1 = 1 <=> b # 1) /\ (c1 = 1 <=> c # 1) /\ (d1 = 1 <=> d # 1)
    BY <2>2
  <2>6. i = 0 \/ i = 1 \/ i = 2 \/ i = 3
    OBVIOUS
  <2> QED
    BY <2>1, <2>4, <2>5, <2>6
<1>5. ASSUME NEW i \in 0..3
      PROVE  /\ Bit(Not8(x), i) = 1 <=> Bit(x, i) # 1
             /\ Bit(Not8(x), i + 4) = 1 <=> Bit(x, i + 4) # 1
  <2>1. Bit(Not8(x), i) = Bit(nl, i) /\ Bit(Not8(x), i + 4) = Bit(nh, i)
    BY <1>3, Halves
  <2>2. Bit(x, i) = Bit(l, i) /\ Bit(x, i + 4) = Bit(h, i)
    BY <1>1, ByteBits
  <2>3. (Bit(nl, i) = 1 <=> Bit(l, i) # 1) /\ (Bit(nh, i) = 1 <=> Bit(h, i) # 1)
    BY <1>2, <1>4
  <2> QED
    BY <2>1, <2>2, <2>3
<1>6. \A i \in 0..7 : i \in 0..3 \/ \E j \in 0..3 : i = j + 4
  OBVIOUS
<1> QED
  BY <1>5, <1>6, ByteFacts

LEMMA EightBits ==
  ASSUME NEW n \in Byte
  PROVE  /\ Bit(n, 0) = n % 2 /\ Bit(n, 1) = (n \div 2) % 2 /\ Bit(n, 2) = (n \div 4) % 2
         /\ Bit(n, 3) = (n \div 8) % 2 /\ Bit(n, 4) = (n \div 16) % 2 /\ Bit(n, 5) = (n \div 32) % 2
         /\ Bit(n, 6) = (n \div 64) % 2 /\ Bit(n, 7) = (n \div 128) % 2
BY DEF Bit, Byte

\* Bit j alone is set.
Single(m, j) == m \in Byte /\ \A i \in 0..7 : Bit(m, i) = 1 <=> i = j

LEMMA PowerBits ==
  ASSUME NEW b \in 0..7
  PROVE  2^b \in Byte /\ \A i \in 0..7 : Bit(2^b, i) = 1 <=> i = b
<1>1. \A i \in 0..7 : i = 0 \/ i = 1 \/ i = 2 \/ i = 3 \/ i = 4 \/ i = 5 \/ i = 6 \/ i = 7
  OBVIOUS
<1>2. Single(1, 0)
  BY <1>1, EightBits DEF Byte, Single
<1>3. Single(2, 1)
  BY <1>1, EightBits DEF Byte, Single
<1>4. Single(4, 2)
  BY <1>1, EightBits DEF Byte, Single
<1>5. Single(8, 3)
  BY <1>1, EightBits DEF Byte, Single
<1>6. Single(16, 4)
  BY <1>1, EightBits DEF Byte, Single
<1>7. Single(32, 5)
  BY <1>1, EightBits DEF Byte, Single
<1>8. Single(64, 6)
  BY <1>1, EightBits DEF Byte, Single
<1>9. Single(128, 7)
  BY <1>1, EightBits DEF Byte, Single
<1>10. PICK m : m = 2^b
  OBVIOUS
<1>11. Single(m, b)
  <2>1. CASE b = 0
    <3>1. m = 1
      BY <1>10, <2>1
    <3> QED
      BY <1>2, <2>1, <3>1
  <2>2. CASE b = 1
    <3>1. m = 2
      BY <1>10, <2>2
    <3> QED
      BY <1>3, <2>2, <3>1
  <2>3. CASE b = 2
    <3>1. m = 4
      BY <1>10, <2>3
    <3> QED
      BY <1>4, <2>3, <3>1
  <2>4. CASE b = 3
    <3>1. m = 8
      BY <1>10, <2>4
    <3> QED
      BY <1>5, <2>4, <3>1
  <2>5. CASE b = 4
    <3>1. m = 16
      BY <1>10, <2>5
    <3> QED
      BY <1>6, <2>5, <3>1
  <2>6. CASE b = 5
    <3>1. m = 32
      BY <1>10, <2>6
    <3> QED
      BY <1>7, <2>6, <3>1
  <2>7. CASE b = 6
    <3>1. m = 64
      BY <1>10, <2>7
    <3> QED
      BY <1>8, <2>7, <3>1
  <2>8. CASE b = 7
    <3>1. m = 128
      BY <1>10, <2>8
    <3> QED
      BY <1>9, <2>8, <3>1
  <2> QED
    BY <2>1, <2>2, <2>3, <2>4, <2>5, <2>6, <2>7, <2>8
<1> QED
  BY <1>10, <1>11 DEF Single

\* A byte is the sum of its bits, so it is zero if none is set.
LEMMA NoBits ==
  ASSUME NEW n \in Byte
  PROVE  n = 0 <=> \A i \in 0..7 : Bit(n, i) # 1
<1>1. PICK a, b, c, d \in {0, 1} :
        /\ Bit(Lo(n), 0) = a /\ Bit(Lo(n), 1) = b /\ Bit(Lo(n), 2) = c /\ Bit(Lo(n), 3) = d
        /\ Lo(n) = (a + 2 * b) + (4 * c + 8 * d)
  BY ByteFacts, NibbleBits
<1>2. PICK e, f, g, h \in {0, 1} :
        /\ Bit(Hi(n), 0) = e /\ Bit(Hi(n), 1) = f /\ Bit(Hi(n), 2) = g /\ Bit(Hi(n), 3) = h
        /\ Hi(n) = (e + 2 * f) + (4 * g + 8 * h)
  BY ByteFacts, NibbleBits
<1>3. n = 16 * Hi(n) + Lo(n)
  BY ByteFacts
<1>4. n = 0 <=> a = 0 /\ b = 0 /\ c = 0 /\ d = 0 /\ e = 0 /\ f = 0 /\ g = 0 /\ h = 0
  BY <1>1, <1>2, <1>3
<1>5. /\ Bit(n, 0) = a /\ Bit(n, 1) = b /\ Bit(n, 2) = c /\ Bit(n, 3) = d
      /\ Bit(n, 4) = e /\ Bit(n, 5) = f /\ Bit(n, 6) = g /\ Bit(n, 7) = h
  <2>1. \A i \in 0..3 : Bit(n, i) = Bit(Lo(n), i) /\ Bit(n, i + 4) = Bit(Hi(n), i)
    BY ByteBits
  <2>2. Bit(n, 0 + 4) = Bit(Hi(n), 0) /\ Bit(n, 1 + 4) = Bit(Hi(n), 1) /\ Bit(n, 2 + 4) = Bit(Hi(n), 2) /\ Bit(n, 3 + 4) = Bit(Hi(n), 3)
    BY <2>1
  <2> QED
    BY <1>1, <1>2, <2>1, <2>2
<1>6. \A i \in 0..7 : i = 0 \/ i = 1 \/ i = 2 \/ i = 3 \/ i = 4 \/ i = 5 \/ i = 6 \/ i = 7
  OBVIOUS
<1>7. ASSUME n = 0, NEW i \in 0..7
      PROVE  Bit(n, i) # 1
  BY <1>4, <1>5, <1>6, <1>7
<1>8. ASSUME \A i \in 0..7 : Bit(n, i) # 1
      PROVE  n = 0
  <2>1. a # 1 /\ b # 1 /\ c # 1 /\ d # 1 /\ e # 1 /\ f # 1 /\ g # 1 /\ h # 1
    BY <1>5, <1>8
  <2> QED
    BY <1>4, <2>1
<1> QED
  BY <1>7, <1>8

Common(x, y) == \E i \in 0..7 : Is(x, i) /\ Is(y, i)

\* The instructions for single bits do to each bit what they say, and to no other:
\* AND, ORA and EOR in the accumulator; TRB and TSB to those of memory that the
\* accumulator names, RMB and SMB to the one that the instruction names; and BIT,
\* TRB and TSB tell by Z whether memory and the accumulator have a bit in common.
BitStepsRight ==
  [][ /\ \A i \in 0..7 :
           /\ And => (Is(cpu'.ac, i) <=> Is(cpu.ac, i) /\ Is(Value, i))
           /\ Ora => (Is(cpu'.ac, i) <=> Is(cpu.ac, i) \/ Is(Value, i))
           /\ Eor => (Is(cpu'.ac, i) <=> (Is(cpu.ac, i) # Is(Value, i)))
           /\ Trb => (Is(cpu'.mem[Target], i) <=> Is(cpu.mem[Target], i) /\ ~Is(cpu.ac, i))
           /\ Tsb => (Is(cpu'.mem[Target], i) <=> Is(cpu.mem[Target], i) \/ Is(cpu.ac, i))
           /\ Rmb => (Is(cpu'.mem[Target], i) <=> Is(cpu.mem[Target], i) /\ i # Ins.bit)
           /\ Smb => (Is(cpu'.mem[Target], i) <=> Is(cpu.mem[Target], i) \/ i = Ins.bit)
      /\ BitTest \/ Trb \/ Tsb => ("Z" \in cpu'.flags <=> ~Common(Value, cpu.ac)) ]_aluVars

LEMMA Both ==
  ASSUME NEW x \in Byte, NEW y \in Byte
  PROVE  /\ And8(x, y) \in Byte /\ Or8(x, y) \in Byte /\ Xor8(x, y) \in Byte
         /\ \A i \in 0..7 : /\ Is(And8(x, y), i) <=> Is(x, i) /\ Is(y, i)
                            /\ Is(Or8(x, y), i) <=> Is(x, i) \/ Is(y, i)
                            /\ Is(Xor8(x, y), i) <=> (Is(x, i) # Is(y, i))
                            /\ Is(And8(x, Not8(y)), i) <=> Is(x, i) /\ ~Is(y, i)
         /\ And8(x, y) = 0 <=> ~Common(x, y)
<1>1. \A i \in 0..7 : Bit(x, i) \in {0, 1} /\ Bit(y, i) \in {0, 1}
  <2>1. \A i \in 0..7 : i \in 0..3 \/ \E j \in 0..3 : i = j + 4
    OBVIOUS
  <2> QED
    BY <2>1, ByteBits
<1>2. \A i \in 0..7 : Conjoined(x, y, And8(x, y), Or8(x, y), Xor8(x, y), i)
  BY Operations
<1>3. PICK n \in Byte : n = Not8(y) /\ \A i \in 0..7 : Bit(n, i) = 1 <=> Bit(y, i) # 1
  BY NotRight
<1>4. \A i \in 0..7 : Conjoined(x, n, And8(x, n), Or8(x, n), Xor8(x, n), i)
  BY Operations
<1>5. ASSUME NEW i \in 0..7
      PROVE  /\ Is(And8(x, y), i) <=> Is(x, i) /\ Is(y, i)
             /\ Is(Or8(x, y), i) <=> Is(x, i) \/ Is(y, i)
             /\ Is(Xor8(x, y), i) <=> (Is(x, i) # Is(y, i))
             /\ Is(And8(x, Not8(y)), i) <=> Is(x, i) /\ ~Is(y, i)
  <2>1. Conjoined(x, y, And8(x, y), Or8(x, y), Xor8(x, y), i) /\ Conjoined(x, n, And8(x, n), Or8(x, n), Xor8(x, n), i)
    BY <1>2, <1>4
  <2> QED
    BY <1>1, <1>3, <2>1 DEF Conjoined, Is
<1>6. And8(x, y) \in Byte /\ Or8(x, y) \in Byte /\ Xor8(x, y) \in Byte
  BY Operations
<1>7. And8(x, y) = 0 <=> ~Common(x, y)
  BY <1>5, <1>6, NoBits DEF Is, Common
<1> QED
  BY <1>5, <1>6, <1>7

\* The logical instructions do to each bit what they are named for.
THEOREM EveryBit == aluSpec => BitStepsRight
<1>1. ASSUME AluTypeOK
      PROVE  /\ \A i \in 0..7 :
                  /\ And => (Is(cpu'.ac, i) <=> Is(cpu.ac, i) /\ Is(Value, i))
                  /\ Ora => (Is(cpu'.ac, i) <=> Is(cpu.ac, i) \/ Is(Value, i))
                  /\ Eor => (Is(cpu'.ac, i) <=> (Is(cpu.ac, i) # Is(Value, i)))
                  /\ Trb => (Is(cpu'.mem[Target], i) <=> Is(cpu.mem[Target], i) /\ ~Is(cpu.ac, i))
                  /\ Tsb => (Is(cpu'.mem[Target], i) <=> Is(cpu.mem[Target], i) \/ Is(cpu.ac, i))
                  /\ Rmb => (Is(cpu'.mem[Target], i) <=> Is(cpu.mem[Target], i) /\ i # Ins.bit)
                  /\ Smb => (Is(cpu'.mem[Target], i) <=> Is(cpu.mem[Target], i) \/ i = Ins.bit)
             /\ BitTest \/ Trb \/ Tsb => ("Z" \in cpu'.flags <=> ~Common(Value, cpu.ac))
  <2>1. PICK s \in Cpus, ac \in Byte : s = cpu /\ ac = cpu.ac
    BY <1>1, CpuFacts DEF AluTypeOK
  <2>2. PICK x : x = Target
    OBVIOUS
  <2>3. ASSUME And \/ Ora \/ Eor, NEW i \in 0..7
        PROVE  /\ And => (Is(cpu'.ac, i) <=> Is(cpu.ac, i) /\ Is(Value, i))
               /\ Ora => (Is(cpu'.ac, i) <=> Is(cpu.ac, i) \/ Is(Value, i))
               /\ Eor => (Is(cpu'.ac, i) <=> (Is(cpu.ac, i) # Is(Value, i)))
    <3>1. PICK v \in Byte : v = Value
      BY <1>1, <2>3, Operands DEF And, Ora, Eor, Does, Operates
    <3>2. \A w \in Byte : Set(cpu, "ac", w).ac = w
      BY <2>1, SetFacts
    <3>3. /\ And => cpu'.ac = And8(ac, v)
          /\ Ora => cpu'.ac = Or8(ac, v)
          /\ Eor => cpu'.ac = Xor8(ac, v)
      BY <2>1, <2>2, <3>1, <3>2, Both DEF And, Ora, Eor, Does
    <3>4. /\ Is(And8(ac, v), i) <=> Is(ac, i) /\ Is(v, i)
          /\ Is(Or8(ac, v), i) <=> Is(ac, i) \/ Is(v, i)
          /\ Is(Xor8(ac, v), i) <=> (Is(ac, i) # Is(v, i))
      BY Both
    <3> QED
      BY <2>1, <3>1, <3>3, <3>4
  <2>4. ASSUME Trb \/ Tsb \/ Rmb \/ Smb
        PROVE  /\ Running /\ Target \in Cells /\ Value = cpu.mem[Target] /\ Value \in Byte
               /\ DOMAIN cpu.mem = Cells
    <3>1. Running /\ Ins.op \in {"TRB", "TSB", "RMB", "SMB"}
      BY <2>4 DEF Trb, Tsb, Rmb, Smb, Does
    <3>2. Target \in Cells /\ Value = cpu.mem[Target]
      BY <1>1, <3>1, Operands DEF Modifies
    <3> QED
      BY <2>1, <3>1, <3>2 DEF Cpus
  <2>5. ASSUME Trb \/ Tsb, NEW i \in 0..7
        PROVE  /\ Trb => (Is(cpu'.mem[Target], i) <=> Is(cpu.mem[Target], i) /\ ~Is(cpu.ac, i))
               /\ Tsb => (Is(cpu'.mem[Target], i) <=> Is(cpu.mem[Target], i) \/ Is(cpu.ac, i))
    <3>1. PICK v \in Byte : v = cpu.mem[x] /\ x \in Cells
      BY <2>1, <2>2, <2>4, <2>5
    <3>2. /\ Trb => cpu'.mem[x] = And8(v, Not8(ac))
          /\ Tsb => cpu'.mem[x] = Or8(v, ac)
      BY <2>1, <2>2, <3>1 DEF Trb, Tsb, Does, Cpus
    <3> QED
      BY <2>1, <2>2, <3>1, <3>2, Both
  <2>6. ASSUME Rmb \/ Smb, NEW i \in 0..7
        PROVE  /\ Rmb => (Is(cpu'.mem[Target], i) <=> Is(cpu.mem[Target], i) /\ i # Ins.bit)
               /\ Smb => (Is(cpu'.mem[Target], i) <=> Is(cpu.mem[Target], i) \/ i = Ins.bit)
    <3>1. PICK v \in Byte : v = cpu.mem[x] /\ x \in Cells
      BY <2>1, <2>2, <2>4, <2>6
    <3>2. Ins.bit \in 0..7
      BY <1>1, <2>6, InsFacts DEF Rmb, Smb, Does, Legal
    <3>3. PICK m \in Byte : m = 2^Ins.bit /\ (Is(m, i) <=> i = Ins.bit)
      BY <3>2, PowerBits DEF Is
    <3>4. /\ Rmb => cpu'.mem[x] = And8(v, Not8(m))
          /\ Smb => cpu'.mem[x] = Or8(v, m)
      BY <2>1, <2>2, <3>1, <3>3 DEF Rmb, Smb, Does, Cpus
    <3> QED
      BY <2>1, <2>2, <3>1, <3>3, <3>4, Both
  <2>7. ASSUME BitTest \/ Trb \/ Tsb
        PROVE  "Z" \in cpu'.flags <=> ~Common(Value, cpu.ac)
    <3>1. PICK v \in Byte : v = Value
      BY <1>1, <2>7, Operands DEF BitTest, Trb, Tsb, Does, Operates
    <3>2. And8(v, ac) = 0 <=> ~Common(v, ac)
      BY Both
    <3>3. \E flags : cpu'.flags = setOrClearBit(flags, "Z", And8(v, ac) = 0)
      <4>1. CASE BitTest
        <5>1. \E flags : cpu' = [cpu EXCEPT !.flags = setOrClearBit(flags, "Z", And8(v, ac) = 0)]
          BY <2>1, <3>1, <4>1 DEF BitTest, Does
        <5>2. PICK f : cpu' = [cpu EXCEPT !.flags = setOrClearBit(f, "Z", And8(v, ac) = 0)]
          BY <5>1
        <5>3. cpu'.flags = setOrClearBit(f, "Z", And8(v, ac) = 0)
          BY <2>1, <5>2 DEF Cpus
        <5> QED
          BY <5>3
      <4>2. CASE Trb \/ Tsb
        <5>1. cpu'.flags = setOrClearBit(cpu.flags, "Z", And8(v, ac) = 0)
          BY <2>1, <3>1, <4>2 DEF Trb, Tsb, Does, Cpus
        <5> QED
          BY <5>1
      <4> QED
        BY <2>7, <4>1, <4>2
    <3> QED
      BY <2>1, <3>1, <3>2, <3>3 DEF setOrClearBit
  <2>8. ASSUME NEW i \in 0..7
        PROVE  /\ And => (Is(cpu'.ac, i) <=> Is(cpu.ac, i) /\ Is(Value, i))
               /\ Ora => (Is(cpu'.ac, i) <=> Is(cpu.ac, i) \/ Is(Value, i))
               /\ Eor => (Is(cpu'.ac, i) <=> (Is(cpu.ac, i) # Is(Value, i)))
    <3>1. CASE And \/ Ora \/ Eor
      BY <2>3, <3>1
    <3>2. CASE ~(And \/ Ora \/ Eor)
      BY <3>2
    <3> QED
      BY <3>1, <3>2
  <2> QED
    BY <2>5, <2>6, <2>7, <2>8
<1> QED
  BY <1>1, AluTypeCorrect, PTL DEF BitStepsRight
=============================================================================
