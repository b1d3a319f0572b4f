------------------------- MODULE Rp6502FileProofs -------------------------
(***************************************************************************)
(* Theorems about Rp6502File, for ROMs of any number of chunks, of any     *)
(* size, in any order: memory, range and entry point are what RomLoading   *)
(* promises main, and exactly the good chunks are taken, as the table that *)
(* Rp6502Crc32 goes by gives the CRC-32 of any bytes.                      *)
(***************************************************************************)
EXTENDS Rp6502File, MemoryProofs, WellFoundedInduction

-----------------------------------------------------------------------------
(* Induction and recursion up to a number.                                 *)

LEMMA LeastOf ==
  ASSUME NEW S \in SUBSET Nat, S # {}
  PROVE  \E n \in S : \A m \in S : n <= m
<1> DEFINE R == OpToRel(<, Nat)
<1>1. \A x, y \in Nat : <<x, y>> \in R <=> x < y
  BY DEF OpToRel
<1>2. IsWellFoundedOn(R, Nat)
  BY NatLessThanWellFounded
<1> HIDE DEF R
<1>3. PICK n \in S : \A m \in S : <<m, n>> \notin R
  BY <1>2, WFMin
<1>4. \A m \in S : ~(m < n)
  BY <1>1, <1>3
<1> QED
  BY <1>4

LEMMA Induction ==
  ASSUME NEW S, 0 \in S, \A n \in Nat : n \in S => n + 1 \in S
  PROVE  Nat \subseteq S
<1> SUFFICES ASSUME Nat \ S # {} PROVE FALSE
  OBVIOUS
<1>1. PICK n \in Nat \ S : \A m \in Nat \ S : n <= m
  BY LeastOf
<1>2. n - 1 \in Nat /\ (n - 1) + 1 = n
  BY <1>1
<1> QED
  BY <1>1, <1>2

\* What holds at 0, and at the next of each place where it does, holds up to L.
LEMMA UpTo ==
  ASSUME NEW L \in Nat, NEW S, 0 \in S, \A n \in 1..L : n - 1 \in S => n \in S
  PROVE  0..L \subseteq S
<1> DEFINE T == {n \in Nat : n \in 0..L => n \in S}
<1>1. ASSUME NEW n \in Nat, n \in T PROVE n + 1 \in T
  BY <1>1
<1>2. 0 \in T
  OBVIOUS
<1> HIDE DEF T
<1>3. Nat \subseteq T
  BY <1>1, <1>2, Induction
<1> QED
  BY <1>3 DEF T

Iterates(g, L, base, F) == g[0] = base /\ \A k \in 1..L : g[k] = F[k][g[k - 1]]

\* A recursive function is defined up to L.
LEMMA Recursion ==
  ASSUME NEW L \in Nat, NEW D, NEW base \in D, NEW F \in [1..L -> [D -> D]]
  PROVE  \E g \in [0..L -> D] : Iterates(g, L, base, F)
<1> DEFINE P(m) == \E g \in [0..m -> D] : Iterates(g, m, base, F)
           S == {m \in Nat : m <= L => P(m)}
<1>1. 0 \in S
  <2>1. PICK g : g = [i \in 0..0 |-> base]
    OBVIOUS
  <2>2. g \in [0..0 -> D] /\ Iterates(g, 0, base, F)
    BY <2>1 DEF Iterates
  <2> QED
    BY <2>2
<1>2. ASSUME NEW m \in Nat, m \in S PROVE m + 1 \in S
  <2>1. SUFFICES ASSUME m + 1 <= L PROVE P(m + 1)
    OBVIOUS
  <2>2. PICK g \in [0..m -> D] : Iterates(g, m, base, F)
    BY <1>2, <2>1
  <2>3. F[m + 1] \in [D -> D] /\ g[m] \in D /\ m + 1 \in Nat
    BY <2>1
  <2>4. PICK h : h = [i \in 0..(m + 1) |-> IF i = m + 1 THEN F[m + 1][g[m]] ELSE g[i]]
    OBVIOUS
  <2>5. h \in [0..(m + 1) -> D]
    BY <2>3, <2>4
  <2>6. h[0] = base
    BY <2>2, <2>4 DEF Iterates
  <2>7. ASSUME NEW k \in 1..(m + 1)
        PROVE  h[k] = F[k][h[k - 1]]
    <3>1. k \in 0..(m + 1) /\ k - 1 \in 0..(m + 1) /\ k - 1 # m + 1 /\ h[k - 1] = g[k - 1]
      BY <2>4
    <3>2. CASE k = m + 1
      BY <2>4, <3>1, <3>2
    <3>3. CASE k \in 1..m
      BY <2>2, <2>4, <3>1, <3>3 DEF Iterates
    <3> QED
      BY <3>2, <3>3
  <2>8. Iterates(h, m + 1, base, F)
    BY <2>6, <2>7 DEF Iterates
  <2> QED
    BY <2>5, <2>8
<1> HIDE DEF S
<1>3. L \in S
  BY <1>1, <1>2, Induction
<1> QED
  BY <1>3 DEF S
-----------------------------------------------------------------------------
(* The checksum: a nibble at a time from a table is a bit at a time.       *)

\* 1, 2, 4 and so on: the provers know no power but that of a literal.
Powers == <<1, 2, 4, 8, 16, 32, 64, 128, 256, 512, 1024, 2048, 4096, 8192, 16384, 32768>>

LEMMA PowerFacts ==
  ASSUME NEW i \in 0..15
  PROVE  2^i = Powers[i + 1] /\ Powers[i + 1] \in Nat \ {0}
<1> USE DEF Powers
<1>1. CASE i = 0
  BY <1>1
<1>2. CASE i = 1
  BY <1>2
<1>3. CASE i = 2
  BY <1>3
<1>4. CASE i = 3
  BY <1>4
<1>5. CASE i = 4
  BY <1>5
<1>6. CASE i = 5
  BY <1>6
<1>7. CASE i = 6
  BY <1>7
<1>8. CASE i = 7
  BY <1>8
<1>9. CASE i = 8
  BY <1>9
<1>10. CASE i = 9
  BY <1>10
<1>11. CASE i = 10
  BY <1>11
<1>12. CASE i = 11
  BY <1>12
<1>13. CASE i = 12
  BY <1>13
<1>14. CASE i = 13
  BY <1>14
<1>15. CASE i = 14
  BY <1>15
<1>16. CASE i = 15
  BY <1>16
<1> QED
  BY <1>1, <1>2, <1>3, <1>4, <1>5, <1>6, <1>7, <1>8,
     <1>9, <1>10, <1>11, <1>12, <1>13, <1>14, <1>15, <1>16

LEMMA WordBits ==
  ASSUME NEW h \in Nat, NEW l \in Nat, NEW i \in 0..31
  PROVE  i \in Word32(h, l) <=>
           IF i < 16 THEN (l \div Powers[i + 1]) % 2 = 1 ELSE (h \div Powers[i - 15]) % 2 = 1
<1>1. \A n \in Nat, j \in 0..15 : j \in Bits(n) <=> (n \div Powers[j + 1]) % 2 = 1
  BY PowerFacts DEF Bits
<1>2. Bits(h) \subseteq 0..15 /\ Bits(l) \subseteq 0..15
  BY DEF Bits
<1>3. CASE i < 16
  <2>1. i \in 0..15 /\ \A j \in Bits(h) : 16 + j # i
    BY <1>2, <1>3
  <2> QED
    BY <1>1, <1>3, <2>1 DEF Word32
<1>4. CASE i >= 16
  <2>1. PICK k \in 0..15 : i = 16 + k
    BY <1>4
  <2>2. i \notin Bits(l) /\ k + 1 = i - 15 /\ ~(i < 16)
    BY <1>2, <1>4, <2>1
  <2>3. (\E j \in Bits(h) : 16 + j = i) <=> k \in Bits(h)
    BY <1>2, <2>1
  <2>4. i \in Word32(h, l) <=> k \in Bits(h)
    BY <2>2, <2>3 DEF Word32
  <2>5. k \in Bits(h) <=> (h \div Powers[k + 1]) % 2 = 1
    BY <1>1
  <2> QED
    BY <1>4, <2>2, <2>4, <2>5
<1> QED
  BY <1>3, <1>4

LEMMA NibbleBits ==
  ASSUME NEW n \in 0..15
  PROVE  /\ Bits(n) \subseteq 0..3
         /\ 0 \in Bits(n) <=> n % 2 = 1
         /\ 1 \in Bits(n) <=> (n \div 2) % 2 = 1
         /\ 2 \in Bits(n) <=> (n \div 4) % 2 = 1
         /\ 3 \in Bits(n) <=> (n \div 8) % 2 = 1
<1>1. \A j \in 0..15 : j \in Bits(n) <=> (n \div Powers[j + 1]) % 2 = 1
  BY PowerFacts DEF Bits
<1>2. \A j \in 4..15 : n \div Powers[j + 1] = 0
  BY DEF Powers
<1>3. Bits(n) \subseteq 0..3
  <2>1. Bits(n) \subseteq 0..15
    BY DEF Bits
  <2>2. \A j \in 4..15 : ~((n \div Powers[j + 1]) % 2 = 1)
    BY <1>2
  <2>3. \A j \in Bits(n) : j \in 0..15 /\ j \notin 4..15
    BY <1>1, <2>1, <2>2
  <2> QED
    BY <2>3
<1>4. 0 \in Bits(n) <=> n % 2 = 1
  BY <1>1 DEF Powers
<1>5. /\ 1 \in Bits(n) <=> (n \div 2) % 2 = 1
      /\ 2 \in Bits(n) <=> (n \div 4) % 2 = 1
      /\ 3 \in Bits(n) <=> (n \div 8) % 2 = 1
  BY <1>1 DEF Powers
<1> QED
  BY <1>3, <1>4, <1>5

LEMMA NibbleChosen ==
  ASSUME NEW s \in SUBSET (0..3)
  PROVE  \E n \in 0..15 : Bits(n) = s
<1> DEFINE n == ((IF 0 \in s THEN 1 ELSE 0) + (IF 1 \in s THEN 2 ELSE 0))
                + ((IF 2 \in s THEN 4 ELSE 0) + (IF 3 \in s THEN 8 ELSE 0))
<1>1. /\ n \in 0..15
      /\ n % 2 = 1 <=> 0 \in s
      /\ (n \div 2) % 2 = 1 <=> 1 \in s
      /\ (n \div 4) % 2 = 1 <=> 2 \in s
      /\ (n \div 8) % 2 = 1 <=> 3 \in s
  OBVIOUS
<1> HIDE DEF n
<1>2. /\ Bits(n) \subseteq 0..3
      /\ \A j \in 0..3 : j \in Bits(n) <=> j \in s
  BY <1>1, NibbleBits
<1>3. Bits(n) = s
  BY <1>2
<1> QED
  BY <1>1, <1>3

Xor(a, b) == ~(a <=> b)

\* Bit i of a checksum x after four shifts, of which the n-th brings bit n - 1 out.
AfterFour(x, i) ==
  Xor(i + 4 \in x,
      Xor(Xor(0 \in x /\ i + 3 \in Promise!Polynomial, 1 \in x /\ i + 2 \in Promise!Polynomial),
          Xor(2 \in x /\ i + 1 \in Promise!Polynomial, 3 \in x /\ i \in Promise!Polynomial)))

\* An entry of the table is what four shifts make of its index.
LEMMA TableRight ==
  ASSUME NEW n \in 0..15, NEW i \in 0..31
  PROVE  i \in table[n + 1] <=> AfterFour(Bits(n), i)
<1> USE WordBits, NibbleBits DEF table, AfterFour, Xor, Powers, Promise!Polynomial
<1>0. i + 4 \notin Bits(n)
  OBVIOUS
<1>1. CASE n = 0
  BY <1>0, <1>1
<1>2. CASE n = 1
  BY <1>0, <1>2
<1>3. CASE n = 2
  BY <1>0, <1>3
<1>4. CASE n = 3
  BY <1>0, <1>4
<1>5. CASE n = 4
  BY <1>0, <1>5
<1>6. CASE n = 5
  BY <1>0, <1>6
<1>7. CASE n = 6
  BY <1>0, <1>7
<1>8. CASE n = 7
  BY <1>0, <1>8
<1>9. CASE n = 8
  BY <1>0, <1>9
<1>10. CASE n = 9
  BY <1>0, <1>10
<1>11. CASE n = 10
  BY <1>0, <1>11
<1>12. CASE n = 11
  BY <1>0, <1>12
<1>13. CASE n = 12
  BY <1>0, <1>13
<1>14. CASE n = 13
  BY <1>0, <1>14
<1>15. CASE n = 14
  BY <1>0, <1>15
<1>16. CASE n = 15
  BY <1>0, <1>16
<1> QED
  BY <1>1, <1>2, <1>3, <1>4, <1>5, <1>6, <1>7, <1>8,
     <1>9, <1>10, <1>11, <1>12, <1>13, <1>14, <1>15, <1>16

LEMMA SymDiffFacts ==
  \A s, t : /\ SymDiff(s, t) = (s \ t) \cup (t \ s)
           /\ Promise!SymDiff(s, t) = (s \ t) \cup (t \ s)
BY DEF SymDiff, Promise!SymDiff

Word == SUBSET (0..31)

LEMMA ShiftFacts ==
  ASSUME NEW x \in Word
  PROVE  /\ Promise!Shift(x) \in Word
         /\ \A i \in 0..31 :
              i \in Promise!Shift(x) <=> Xor(i + 1 \in x, 0 \in x /\ i \in Promise!Polynomial)
<1> DEFINE rest == {b - 1 : b \in x \ {0}}
           added == IF 0 \in x THEN Promise!Polynomial ELSE {}
<1>1. Promise!Polynomial \subseteq 0..31
  BY DEF Promise!Polynomial
<1>2. \A i \in 0..31 : i \in rest <=> i + 1 \in x
  <2>1. ASSUME NEW i \in 0..31, i + 1 \in x PROVE i \in rest
    <3>1. i + 1 \in x \ {0} /\ (i + 1) - 1 = i
      BY <2>1
    <3> QED
      BY <3>1
  <2> QED
    BY <2>1 DEF Word
<1>3. rest \subseteq 0..31 /\ added \subseteq 0..31
  BY <1>1 DEF Word
<1>4. Promise!Shift(x) = (rest \ added) \cup (added \ rest)
  BY SymDiffFacts DEF Promise!Shift
<1>5. \A i : i \in added <=> 0 \in x /\ i \in Promise!Polynomial
  OBVIOUS
<1> HIDE DEF rest, added
<1>6. ASSUME NEW i \in 0..31
      PROVE  i \in Promise!Shift(x) <=> Xor(i + 1 \in x, 0 \in x /\ i \in Promise!Polynomial)
  BY <1>2, <1>4, <1>5 DEF Xor
<1>7. Promise!Shift(x) \in Word
  BY <1>3, <1>4 DEF Word
<1> QED
  BY <1>6, <1>7

FourShifts(x) == Promise!Shift(Promise!Shift(Promise!Shift(Promise!Shift(x))))

LEMMA FourFacts ==
  ASSUME NEW x \in Word
  PROVE  FourShifts(x) \in Word /\ \A i \in 0..31 : i \in FourShifts(x) <=> AfterFour(x, i)
<1>1. PICK a \in Word : a = Promise!Shift(x)
  BY ShiftFacts
<1>2. PICK b \in Word : b = Promise!Shift(a)
  BY ShiftFacts
<1>3. PICK c \in Word : c = Promise!Shift(b)
  BY ShiftFacts
<1>4. PICK d \in Word : d = Promise!Shift(c)
  BY ShiftFacts
<1>5. d = FourShifts(x)
  BY <1>1, <1>2, <1>3, <1>4 DEF FourShifts
<1> DEFINE P == Promise!Polynomial
<1>6. /\ {0, 1, 2} \cap P = {}
      /\ \A i \in P : i \in 0..31
  BY DEF Promise!Polynomial
<1> HIDE DEF P
<1>7. \A i \in 0..31 : i \in a <=> Xor(i + 1 \in x, 0 \in x /\ i \in P)
  BY <1>1, ShiftFacts DEF P
<1>8. \A i \in 0..31 : i \in b <=> Xor(i + 1 \in a, 0 \in a /\ i \in P)
  BY <1>2, ShiftFacts DEF P
<1>9. \A i \in 0..31 : i \in c <=> Xor(i + 1 \in b, 0 \in b /\ i \in P)
  BY <1>3, ShiftFacts DEF P
<1>10. \A i \in 0..31 : i \in d <=> Xor(i + 1 \in c, 0 \in c /\ i \in P)
  BY <1>4, ShiftFacts DEF P
<1>11. /\ 0 \in a <=> 1 \in x
       /\ 1 \in a <=> 2 \in x
       /\ 2 \in a <=> 3 \in x
  BY <1>6, <1>7 DEF Xor
<1>12. /\ 0 \in b <=> 2 \in x
       /\ 1 \in b <=> 3 \in x
  BY <1>6, <1>8, <1>11 DEF Xor
<1>13. 0 \in c <=> 3 \in x
  BY <1>6, <1>9, <1>12 DEF Xor
<1>14. \A y \in Word, i \in Nat : i > 31 => i \notin y
  BY DEF Word
<1>15. \A i \in Nat : i \in a <=> Xor(i + 1 \in x, 0 \in x /\ i \in P)
  BY <1>6, <1>7, <1>14 DEF Xor
<1>16. \A i \in Nat : i \in b <=> Xor(i + 2 \in x, Xor(0 \in x /\ i + 1 \in P, 1 \in x /\ i \in P))
  BY <1>6, <1>8, <1>11, <1>14, <1>15 DEF Xor
<1>17. \A i \in Nat : i \in c <=>
         Xor(i + 3 \in x, Xor(0 \in x /\ i + 2 \in P, Xor(1 \in x /\ i + 1 \in P, 2 \in x /\ i \in P)))
  BY <1>6, <1>9, <1>12, <1>14, <1>16 DEF Xor
<1>18. \A i \in 0..31 : i \in d <=> AfterFour(x, i)
  BY <1>6, <1>10, <1>13, <1>14, <1>17 DEF Xor, AfterFour, P
<1> QED
  BY <1>5, <1>18

\* A nibble: its bits are added, and come out in four shifts.
LEMMA NibbleRight ==
  ASSUME NEW x \in Word, NEW v \in 0..15
  PROVE  /\ SymDiff(x, Bits(v)) \in Word
         /\ CrcNibble(x, v) = FourShifts(SymDiff(x, Bits(v)))
<1>1. Bits(v) \subseteq 0..3
  BY NibbleBits
<1>2. PICK y \in Word : y = SymDiff(x, Bits(v))
  BY <1>1, SymDiffFacts DEF Word
<1> DEFINE low == SymDiff(x \cap 0..3, Bits(v))
           n == CHOOSE m \in 0..15 : Bits(m) = low
           rest == {b - 4 : b \in x \ 0..3}
<1>3. low \subseteq 0..3
  BY <1>1, SymDiffFacts
<1>4. \A j \in 0..3 : j \in low <=> j \in y
  BY <1>1, <1>2, SymDiffFacts
<1>5. CrcNibble(x, v) = SymDiff(rest, table[n + 1])
  BY DEF CrcNibble
<1> HIDE DEF low
<1>6. n \in 0..15 /\ Bits(n) = low
  BY <1>3, NibbleChosen
<1> HIDE DEF n
<1>7. /\ \A i \in 0..31 : i \in rest <=> i + 4 \in x
      /\ rest \subseteq 0..31
  <2>1. ASSUME NEW i \in 0..31, i + 4 \in x PROVE i \in rest
    <3>1. i + 4 \in x \ 0..3 /\ (i + 4) - 4 = i
      BY <2>1
    <3> QED
      BY <3>1
  <2>2. \A i \in rest : i + 4 \in x /\ i \in 0..31
    BY DEF Word
  <2> QED
    BY <2>1, <2>2
<1> HIDE DEF rest
<1>8. table[n + 1] \subseteq 0..31
  <2>1. \A h, l : Word32(h, l) \subseteq 0..31
    BY DEF Word32, Bits
  <2>2. n + 1 \in 1..16
    BY <1>6
  <2> QED
    BY <2>1, <2>2 DEF table
<1>9. \A i \in 0..31 : i + 4 \in y <=> i + 4 \in x
  BY <1>1, <1>2, SymDiffFacts
<1>10. ASSUME NEW i \in 0..31
       PROVE  i \in CrcNibble(x, v) <=> i \in FourShifts(y)
  <2>1. i \in table[n + 1] <=> AfterFour(low, i)
    BY <1>6, TableRight
  <2>2. i + 4 \notin low
    BY <1>3
  <2>3. i \in CrcNibble(x, v) <=> Xor(i + 4 \in x, AfterFour(low, i))
    BY <1>5, <1>7, <2>1, SymDiffFacts DEF Xor
  <2>4. i \in FourShifts(y) <=> AfterFour(y, i)
    BY FourFacts
  <2> QED
    BY <1>4, <1>9, <2>2, <2>3, <2>4 DEF Xor, AfterFour
<1>11. CrcNibble(x, v) \subseteq 0..31 /\ FourShifts(y) \subseteq 0..31
  BY <1>5, <1>7, <1>8, SymDiffFacts, FourFacts DEF Word
<1>12. CrcNibble(x, v) = FourShifts(y)
  BY <1>10, <1>11
<1> QED
  BY <1>2, <1>12

BitsOfByte(b) == {i \in 0..7 : (b \div 2^i) % 2 = 1}

LEMMA ByteBits ==
  ASSUME NEW b \in 0..255
  PROVE  /\ b % 16 \in 0..15 /\ b \div 16 \in 0..15
         /\ \A i \in 0..3 : i \in BitsOfByte(b) <=> i \in Bits(b % 16)
         /\ \A i \in 0..31 : i + 4 \in BitsOfByte(b) <=> i \in Bits(b \div 16)
<1>1. b % 16 \in 0..15 /\ b \div 16 \in 0..15 /\ b = 16 * (b \div 16) + (b % 16)
  OBVIOUS
<1>2. \A i \in 0..7 : i \in BitsOfByte(b) <=> (b \div Powers[i + 1]) % 2 = 1
  <2>1. ASSUME NEW i \in 0..7 PROVE 2^i = Powers[i + 1]
    <3>1. i \in 0..15
      OBVIOUS
    <3> QED
      BY <3>1, PowerFacts
  <2> QED
    BY <2>1 DEF BitsOfByte
<1>3. /\ 0 \in BitsOfByte(b) <=> b % 2 = 1
      /\ 1 \in BitsOfByte(b) <=> (b \div 2) % 2 = 1
      /\ 2 \in BitsOfByte(b) <=> (b \div 4) % 2 = 1
      /\ 3 \in BitsOfByte(b) <=> (b \div 8) % 2 = 1
      /\ 4 \in BitsOfByte(b) <=> (b \div 16) % 2 = 1
      /\ 5 \in BitsOfByte(b) <=> (b \div 32) % 2 = 1
      /\ 6 \in BitsOfByte(b) <=> (b \div 64) % 2 = 1
      /\ 7 \in BitsOfByte(b) <=> (b \div 128) % 2 = 1
  BY <1>2 DEF Powers
<1>4. BitsOfByte(b) \subseteq 0..7
  BY DEF BitsOfByte
<1>5. PICK l \in 0..15 : l = b % 16
  BY <1>1
<1>6. PICK h \in 0..15 : h = b \div 16
  BY <1>1
<1>7. b = 16 * h + l
  BY <1>1, <1>5, <1>6
<1>8. \A i \in 0..3 : i \in BitsOfByte(b) <=> i \in Bits(l)
  BY <1>3, <1>7, NibbleBits
<1>9. \A i \in 0..3 : i + 4 \in BitsOfByte(b) <=> i \in Bits(h)
  BY <1>3, <1>7, NibbleBits
<1>10. \A i \in 4..31 : i + 4 \notin BitsOfByte(b) /\ i \notin Bits(h)
  BY <1>4, NibbleBits
<1> QED
  BY <1>1, <1>5, <1>6, <1>8, <1>9, <1>10

\* A byte, its low nibble first.
LEMMA ByteRight ==
  ASSUME NEW x \in Word, NEW b \in 0..255
  PROVE  /\ SymDiff(x, BitsOfByte(b)) \in Word
         /\ CrcNibble(CrcNibble(x, b % 16), b \div 16) =
              FourShifts(FourShifts(SymDiff(x, BitsOfByte(b))))
<1>1. PICK low \in 0..15 : low = b % 16
  BY ByteBits
<1>2. PICK high \in 0..15 : high = b \div 16
  BY ByteBits
<1>3. PICK y \in Word : y = SymDiff(x, Bits(low))
  BY NibbleRight
<1>4. PICK z \in Word : z = SymDiff(x, BitsOfByte(b))
  <2>1. BitsOfByte(b) \subseteq 0..31
    BY DEF BitsOfByte
  <2> QED
    BY <2>1, SymDiffFacts DEF Word
<1>5. CrcNibble(x, low) = FourShifts(y) /\ FourShifts(y) \in Word /\ FourShifts(z) \in Word
  BY <1>3, NibbleRight, FourFacts
<1>6. CrcNibble(CrcNibble(x, low), high) = FourShifts(SymDiff(FourShifts(y), Bits(high)))
  BY <1>5, NibbleRight
<1>7. /\ \A i \in 0..3 : i \in z <=> i \in y
      /\ \A i \in 0..31 : i + 4 \in z <=> Xor(i + 4 \in y, i \in Bits(high))
  <2>1. Bits(low) \subseteq 0..3
    BY NibbleBits
  <2>2. \A i \in 0..3 : i \in BitsOfByte(b) <=> i \in Bits(low)
    BY <1>1, ByteBits
  <2>3. \A i \in 0..31 : i + 4 \in BitsOfByte(b) <=> i \in Bits(high)
    BY <1>2, ByteBits
  <2> QED
    BY <1>3, <1>4, <2>1, <2>2, <2>3, SymDiffFacts DEF Xor
<1>8. ASSUME NEW i \in 0..31
      PROVE  i \in SymDiff(FourShifts(y), Bits(high)) <=> i \in FourShifts(z)
  <2>1. i \in FourShifts(y) <=> AfterFour(y, i)
    BY FourFacts
  <2>2. i \in FourShifts(z) <=> AfterFour(z, i)
    BY FourFacts
  <2>3. i + 4 \in z <=> Xor(i + 4 \in y, i \in Bits(high))
    BY <1>7
  <2> QED
    BY <1>7, <2>1, <2>2, <2>3, SymDiffFacts DEF Xor, AfterFour
<1>9. SymDiff(FourShifts(y), Bits(high)) = FourShifts(z)
  <2>1. Bits(high) \subseteq 0..31
    BY NibbleBits
  <2> QED
    BY <1>5, <1>8, <2>1, SymDiffFacts DEF Word
<1> QED
  BY <1>1, <1>2, <1>4, <1>6, <1>9

LEMMA Element ==
  ASSUME NEW T, NEW s \in Seq(T), NEW n \in 1..Len(s)
  PROVE  s[n] \in T
OBVIOUS

\* Rp6502Crc32 as the function it is, for each beginning of the data.
LEMMA Rp6502Crc32Facts ==
  ASSUME NEW data \in Seq(0..255)
  PROVE  \E after \in [0..Len(data) -> Word] :
           /\ Rp6502Crc32(data) = 0..31 \ after[Len(data)]
           /\ after[0] = 0..31
           /\ \A n \in 1..Len(data) :
                after[n] = CrcNibble(CrcNibble(after[n - 1], data[n] % 16), data[n] \div 16)
<1> DEFINE L == Len(data)
           D == Word
           step(n, c) == CrcNibble(CrcNibble(c, data[n] % 16), data[n] \div 16)
           F == [n \in 1..L |-> [c \in D |-> step(n, c)]]
           after == CHOOSE g : g = [n \in 0..L |-> IF n = 0 THEN 0..31 ELSE step(n, g[n - 1])]
<1>1. \A n \in 1..L : \A c \in D : step(n, c) \in D
  <2> SUFFICES ASSUME NEW n \in 1..L, NEW c \in D PROVE step(n, c) \in D
    OBVIOUS
  <2>1. data[n] % 16 \in 0..15 /\ data[n] \div 16 \in 0..15
    <3>1. data[n] \in 0..255
      BY Element
    <3> QED
      BY <3>1, ByteBits
  <2>2. CrcNibble(c, data[n] % 16) \in Word
    BY <2>1, NibbleRight, FourFacts
  <2> QED
    BY <2>1, <2>2, NibbleRight, FourFacts
<1>2. L \in Nat /\ 0..31 \in D
  BY DEF Word
<1>3. Rp6502Crc32(data) = 0..31 \ after[L]
  BY DEF Rp6502Crc32
<1> HIDE DEF step, L, D
<1>4. PICK ones \in D : ones = 0..31
  BY <1>2
<1>5. F \in [1..L -> [D -> D]]
  BY <1>1
<1>6. PICK g \in [0..L -> D] : Iterates(g, L, ones, F)
  <2> HIDE DEF F
  <2> QED
    BY <1>2, <1>5, Recursion
<1>7. g = [n \in 0..L |-> IF n = 0 THEN 0..31 ELSE step(n, g[n - 1])]
  BY <1>2, <1>4, <1>6 DEF Iterates
<1>8. after = [n \in 0..L |-> IF n = 0 THEN 0..31 ELSE step(n, after[n - 1])]
  BY <1>7
<1> HIDE DEF after
<1>9. after[0] = 0..31 /\ \A n \in 1..L : after[n] = step(n, after[n - 1])
  <2>1. 0 \in 0..L /\ \A n \in 1..L : n \in 0..L /\ n # 0
    BY <1>2
  <2> QED
    BY <1>8, <2>1
<1>10. 0..L \subseteq {n \in 0..L : after[n] \in D}
  <2> DEFINE S == {n \in 0..L : after[n] \in D}
  <2>0. 0 \in S
    <3>1. 0 \in 0..L
      BY <1>2
    <3>2. after[0] \in D
      BY <1>2, <1>9
    <3> QED
      BY <3>1, <3>2
  <2>1. ASSUME NEW n \in 1..L, n - 1 \in S PROVE n \in S
    BY <1>1, <1>2, <1>9, <2>1
  <2> HIDE DEF S
  <2>2. 0..L \subseteq S
    BY <1>2, <2>0, <2>1, UpTo
  <2> QED
    BY <2>2 DEF S
<1>11. after \in [0..L -> D]
  BY <1>8, <1>10
<1> QED
  BY <1>3, <1>9, <1>11 DEF L, D, step

\* The CRC-32 of RomLoading, likewise.
LEMMA Crc32Facts ==
  ASSUME NEW data \in Seq(0..255)
  PROVE  \E after \in [0..Len(data) -> Word] :
           /\ Promise!Crc32(data) = 0..31 \ after[Len(data)]
           /\ after[0] = 0..31
           /\ \A n \in 1..Len(data) :
                after[n] = FourShifts(FourShifts(SymDiff(after[n - 1], BitsOfByte(data[n]))))
<1> DEFINE L == Len(data)
           D == Word
           fours == [crc \in SUBSET (0..31) |->
                       Promise!Shift(Promise!Shift(Promise!Shift(Promise!Shift(crc))))]
           step(n, c) == fours[fours[Promise!SymDiff(c, {i \in 0..7 : (data[n] \div 2^i) % 2 = 1})]]
           F == [n \in 1..L |-> [c \in D |-> step(n, c)]]
           after == CHOOSE g : g = [n \in 0..L |-> IF n = 0 THEN 0..31 ELSE step(n, g[n - 1])]
<1>1. \A n \in 1..L : \A c \in D : /\ step(n, c) \in D
                                  /\ step(n, c) = FourShifts(FourShifts(SymDiff(c, BitsOfByte(data[n]))))
  <2> SUFFICES ASSUME NEW n \in 1..L, NEW c \in D
               PROVE  /\ step(n, c) \in D
                      /\ step(n, c) = FourShifts(FourShifts(SymDiff(c, BitsOfByte(data[n]))))
    OBVIOUS
  <2>1. Promise!SymDiff(c, {i \in 0..7 : (data[n] \div 2^i) % 2 = 1}) = SymDiff(c, BitsOfByte(data[n]))
    BY SymDiffFacts DEF BitsOfByte
  <2>2. PICK x \in Word : x = SymDiff(c, BitsOfByte(data[n]))
    <3>1. data[n] \in 0..255 /\ c \in Word
      BY Element
    <3> QED
      BY <3>1, ByteRight
  <2>3. \A w \in Word : fours[w] = FourShifts(w) /\ FourShifts(w) \in Word
    BY FourFacts DEF FourShifts, Word
  <2> HIDE DEF fours
  <2>4. step(n, c) = fours[fours[x]]
    BY <2>1, <2>2
  <2> QED
    BY <2>2, <2>3, <2>4
<1>2. L \in Nat /\ 0..31 \in D
  BY DEF Word
<1>3. Promise!Crc32(data) = 0..31 \ after[L]
  BY DEF Promise!Crc32
<1> HIDE DEF step, L, D, fours
<1>4. PICK ones \in D : ones = 0..31
  BY <1>2
<1>5. F \in [1..L -> [D -> D]]
  BY <1>1
<1>6. PICK g \in [0..L -> D] : Iterates(g, L, ones, F)
  <2> HIDE DEF F
  <2> QED
    BY <1>2, <1>5, Recursion
<1>7. g = [n \in 0..L |-> IF n = 0 THEN 0..31 ELSE step(n, g[n - 1])]
  BY <1>2, <1>4, <1>6 DEF Iterates
<1>8. after = [n \in 0..L |-> IF n = 0 THEN 0..31 ELSE step(n, after[n - 1])]
  BY <1>7
<1> HIDE DEF after
<1>9. after[0] = 0..31 /\ \A n \in 1..L : after[n] = step(n, after[n - 1])
  <2>1. 0 \in 0..L /\ \A n \in 1..L : n \in 0..L /\ n # 0
    BY <1>2
  <2> QED
    BY <1>8, <2>1
<1>10. 0..L \subseteq {n \in 0..L : after[n] \in D}
  <2> DEFINE S == {n \in 0..L : after[n] \in D}
  <2>0. 0 \in S
    <3>1. 0 \in 0..L
      BY <1>2
    <3>2. after[0] \in D
      BY <1>2, <1>9
    <3> QED
      BY <3>1, <3>2
  <2>1. ASSUME NEW n \in 1..L, n - 1 \in S PROVE n \in S
    BY <1>1, <1>2, <1>9, <2>1
  <2> HIDE DEF S
  <2>2. 0..L \subseteq S
    BY <1>2, <2>0, <2>1, UpTo
  <2> QED
    BY <2>2 DEF S
<1>11. after \in [0..L -> D]
  BY <1>8, <1>10
<1>12. ASSUME NEW n \in 1..L
       PROVE  after[n] = FourShifts(FourShifts(SymDiff(after[n - 1], BitsOfByte(data[n]))))
  <2>1. n - 1 \in 0..L
    BY <1>2
  <2> QED
    BY <1>1, <1>9, <1>11, <2>1
<1> QED
  BY <1>3, <1>9, <1>11, <1>12 DEF L, D

\* The reader's table-driven checksum is the CRC-32 of its polynomial, whatever
\* bytes a chunk has and however many.
THEOREM SameCrc ==
  ASSUME NEW data \in Seq(0..255)
  PROVE  Rp6502Crc32(data) = Promise!Crc32(data)
<1>1. PICK f \in [0..Len(data) -> Word] :
        /\ Rp6502Crc32(data) = 0..31 \ f[Len(data)]
        /\ f[0] = 0..31
        /\ \A n \in 1..Len(data) :
             f[n] = CrcNibble(CrcNibble(f[n - 1], data[n] % 16), data[n] \div 16)
  BY Rp6502Crc32Facts
<1>2. PICK g \in [0..Len(data) -> Word] :
        /\ Promise!Crc32(data) = 0..31 \ g[Len(data)]
        /\ g[0] = 0..31
        /\ \A n \in 1..Len(data) : g[n] = FourShifts(FourShifts(SymDiff(g[n - 1], BitsOfByte(data[n]))))
  BY Crc32Facts
<1> DEFINE S == {n \in 0..Len(data) : f[n] = g[n]}
<1>3. 0 \in S
  <2>1. f[0] = g[0] /\ 0 \in 0..Len(data)
    BY <1>1, <1>2
  <2> QED
    BY <2>1
<1>4. ASSUME NEW n \in 1..Len(data), n - 1 \in S
      PROVE  n \in S
  <2>1. n - 1 \in 0..Len(data) /\ n \in 0..Len(data) /\ data[n] \in 0..255
    BY <1>4, Element
  <2>2. PICK x \in Word : x = f[n - 1]
    BY <2>1
  <2>3. g[n - 1] = x
    BY <1>4, <2>2
  <2>4. f[n] = CrcNibble(CrcNibble(x, data[n] % 16), data[n] \div 16)
    BY <1>1, <2>2
  <2>5. g[n] = FourShifts(FourShifts(SymDiff(x, BitsOfByte(data[n]))))
    BY <1>2, <2>3
  <2>6. f[n] = g[n]
    BY <2>1, <2>4, <2>5, ByteRight
  <2> QED
    BY <2>1, <2>6
<1> HIDE DEF S
<1>5. 0..Len(data) \subseteq S
  <2>1. Len(data) \in Nat
    OBVIOUS
  <2> QED
    BY <1>3, <1>4, <2>1, UpTo
<1>6. f[Len(data)] = g[Len(data)]
  BY <1>5 DEF S
<1> QED
  BY <1>1, <1>2, <1>6

-----------------------------------------------------------------------------
(* Chunks.                                                                 *)

\* A chunk for 6502 memory that the reader has taken.
Fitting(item) ==
  /\ item.addr \in Nat /\ item.len \in Nat /\ item.len > 0
  /\ item.addr + item.len <= Space
  /\ item.payload \in Seq(Byte) /\ Len(item.payload) = item.len

RecordOf(item) == [addr |-> item.addr, bytes |-> item.payload]

LEMMA RecordFacts ==
  /\ DOMAIN Records = RamChunks
  /\ \A i \in RamChunks : Records[i] = RecordOf(rom.items[i])
BY DEF Records, RecordOf

LEMMA UsableFits ==
  ASSUME NEW item \in Items, Usable(item), item.addr < Space
  PROVE  Fitting(item)
<1>1. item.addr \in Nat /\ item.len \in Nat /\ item.payload \in Seq(Byte) /\ Space \in Nat
  BY ItemsAssumption, SpaceFacts DEF Usable
<1>2. item.len # 0 /\ ~(item.addr + item.len > Space) /\ Len(item.payload) = item.len
  BY DEF Usable, OutOfRange
<1> QED
  BY <1>1, <1>2 DEF Fitting

\* A chunk covers a plain range of addresses, and RamBytes has its bytes.
LEMMA FittingFacts ==
  ASSUME NEW item, Fitting(item)
  PROVE  /\ Promise!Covered(RecordOf(item)) = item.addr..(item.addr + item.len - 1)
         /\ DOMAIN RamBytes(item) = item.addr..(item.addr + item.len - 1)
         /\ DOMAIN RamBytes(item) \subseteq Address
         /\ \A a \in DOMAIN RamBytes(item) :
              /\ RamBytes(item)[a] \in Byte
              /\ RamBytes(item)[a] = Promise!ByteOf(RecordOf(item), a)
         /\ \A a : Has(item, a) /\ a \in Address <=> a \in item.addr..(item.addr + item.len - 1)
<1> DEFINE x == item.addr
           n == item.len
           range == x..(x + n - 1)
<1>1. /\ x \in Nat /\ n \in Nat /\ n > 0 /\ x + n <= Space /\ Space \in Nat
      /\ item.payload \in Seq(Byte) /\ Len(item.payload) = n /\ DOMAIN item.payload = 1..n
  BY SpaceFacts DEF Fitting
<1>2. RecordOf(item).addr = x /\ RecordOf(item).bytes = item.payload
  BY DEF RecordOf
<1>3. /\ DOMAIN RamBytes(item) = {a \in Address : x <= a /\ a < x + n}
      /\ \A a \in DOMAIN RamBytes(item) : RamBytes(item)[a] = item.payload[a - x + 1]
      /\ \A a : Has(item, a) <=> x <= a /\ a < x + n
  BY DEF RamBytes, Has
<1>4. Promise!Covered(RecordOf(item)) = {Narrow(x + i - 1) : i \in 1..n}
  BY <1>1, <1>2 DEF Promise!Covered, Promise!Narrow, Narrow
<1>5. \A a : Promise!ByteOf(RecordOf(item), a) = item.payload[Narrow(a - x) + 1]
  BY <1>2 DEF Promise!ByteOf, Promise!Narrow, Narrow
<1> HIDE DEF x, n
<1>6. \A a : a \in Address /\ x <= a /\ a < x + n <=> a \in range
  BY <1>1 DEF Address
<1>7. DOMAIN RamBytes(item) = range /\ range \subseteq Address
  BY <1>3, <1>6
<1>8. \A i \in 1..n : Narrow(x + i - 1) = x + i - 1 /\ x + i - 1 \in range
  <2>1. \A i \in 1..n : x + i - 1 \in range
    BY <1>1
  <2> QED
    BY <1>7, <2>1, NarrowFacts
<1>9. \A a \in range : a - x + 1 \in 1..n /\ x + (a - x + 1) - 1 = a /\ Narrow(a - x) = a - x
  <2>1. \A a \in range : a - x \in Address /\ a - x + 1 \in 1..n /\ x + (a - x + 1) - 1 = a
    BY <1>1 DEF Address
  <2> QED
    BY <2>1, NarrowFacts
<1>10. Promise!Covered(RecordOf(item)) = range
  BY <1>4, <1>8, <1>9
<1>11. \A a \in range : RamBytes(item)[a] = item.payload[a - x + 1] /\ item.payload[a - x + 1] \in Byte
  BY <1>1, <1>3, <1>7, <1>9
<1>12. \A a \in range : Promise!ByteOf(RecordOf(item), a) = item.payload[a - x + 1]
  BY <1>5, <1>9
<1> QED
  BY <1>3, <1>6, <1>7, <1>10, <1>11, <1>12 DEF x, n

LEMMA FileFacts ==
  ASSUME rpTypeOK
  PROVE  /\ Len(rom.items) \in Nat /\ pos \in Nat /\ pos <= Len(rom.items)
         /\ \A i \in 1..Len(rom.items) : rom.items[i] \in Items
<1>1. rom.items \in ItemSeqs
  BY DEF rpTypeOK, Roms
<1>2. PICK n \in 0..MaxItems : rom.items \in [1..n -> Items]
  BY <1>1 DEF ItemSeqs
<1>3. n \in Nat /\ Len(rom.items) = n
  BY <1>2, ItemsAssumption
<1>4. pos \in 0..n
  BY <1>3 DEF rpTypeOK
<1> QED
  BY <1>2, <1>3, <1>4

-----------------------------------------------------------------------------
(* The inductive invariant: memory, the range of the code and the vector   *)
(* bytes, against the chunks so far.                                       *)

\* Chunk i is the last that has a byte for a.
Gives(i, a) ==
  /\ i \in RamChunks /\ a \in Promise!Covered(Records[i])
  /\ \A j \in RamChunks : a \in Promise!Covered(Records[j]) => j <= i

Written ==
  \A a \in Address : a < Space - 1 =>
    \/ /\ \A i \in RamChunks : a \notin Promise!Covered(Records[i])
       /\ MemRead(a) = 0
    \/ \E i \in RamChunks : Gives(i, a) /\ MemRead(a) = Promise!ByteOf(Records[i], a)

Bounded ==
  IF haveCode THEN /\ codeLow \in Promise!Code(Records) /\ codeHigh \in Promise!Code(Records)
                   /\ \A a \in Promise!Code(Records) : codeLow <= a /\ a <= codeHigh
  ELSE Promise!Code(Records) = {} /\ codeLow = NoAddress /\ codeHigh = 0

Seen ==
  /\ resetLo <=> Space - 4 \in Promise!CoveredBy(Records)
  /\ resetHi <=> Space - 3 \in Promise!CoveredBy(Records)

Answered ==
  state = "loaded" =>
    haveCode /\ out.hasResetVector = HasVector /\ out.end = codeHigh /\ out.entry = Entry

RInv ==
  /\ rpTypeOK /\ Imaged
  /\ \A i \in RamChunks : Fitting(rom.items[i])
  /\ Written /\ Bounded /\ Seen /\ Answered

LEMMA SameChunks ==
  ASSUME RInv, RamChunks' = RamChunks, UNCHANGED <<memVars, rom, extent>>
  PROVE  /\ Imaged' /\ memTypeOK' /\ Written' /\ Bounded' /\ Seen'
         /\ \A i \in RamChunks' : Fitting(rom.items[i])'
<1>1. Records' = Records
  BY DEF Records
<1>2. \A a : MemRead(a)' = MemRead(a)
  BY DEF MemRead, InBuffer, Offset, Covering, Owner, Newest, memVars
<1>3. \A i, a : Gives(i, a)' <=> Gives(i, a)
  BY <1>1 DEF Gives
<1>4. Written'
  BY <1>1, <1>2, <1>3 DEF RInv, Written
<1>5. Bounded' /\ Seen'
  BY <1>1 DEF RInv, Bounded, Seen, extent
<1>6. Imaged' /\ memTypeOK'
  BY DEF RInv, rpTypeOK, memTypeOK, Imaged, memVars
<1> QED
  BY <1>4, <1>5, <1>6 DEF RInv, Fitting

-----------------------------------------------------------------------------
(* An item more.                                                           *)

LEMMA ItemRead ==
  ASSUME RInv, NEW item \in Items, NextItem(item), UNCHANGED rom, pos' = pos + 1
  PROVE  /\ pos' \in 0..Len(rom.items) /\ pos + 1 \in Nat /\ rom.items[pos + 1] = item
         /\ \A i \in RamChunks : i \in Nat /\ i < pos + 1
         /\ RamChunks' = IF item.kind = "chunk" /\ item.addr < Space
                         THEN RamChunks \cup {pos + 1} ELSE RamChunks
<1>1. /\ Len(rom.items) \in Nat /\ pos \in Nat /\ pos < Len(rom.items) /\ item = rom.items[pos + 1]
  BY FileFacts DEF RInv, NextItem
<1>2. 1..pos' = 1..pos \cup {pos + 1} /\ pos' \in 0..Len(rom.items) /\ pos + 1 \in Nat
  BY <1>1
<1>3. RamChunks = {i \in 1..pos : rom.items[i].kind = "chunk" /\ rom.items[i].addr < Space}
  BY DEF RamChunks, Chunks
<1>4. RamChunks' = {i \in 1..pos' : rom.items[i].kind = "chunk" /\ rom.items[i].addr < Space}
  BY DEF RamChunks, Chunks
<1>5. \A i \in RamChunks : i \in Nat /\ i < pos + 1
  BY <1>1, <1>3
<1>6. RamChunks' = IF item.kind = "chunk" /\ item.addr < Space
                   THEN RamChunks \cup {pos + 1} ELSE RamChunks
  BY <1>1, <1>2, <1>3, <1>4
<1> QED
  BY <1>1, <1>2, <1>5, <1>6

LEMMA NextChunkFacts ==
  ASSUME RInv, NEW item \in Items, NextChunk(item), UNCHANGED rom
  PROVE  /\ NextItem(item) /\ pos' = pos + 1 /\ item.kind = "chunk" /\ Usable(item)
         /\ item.addr \in Nat /\ item.len \in Nat /\ offset' \in Nat
<1>1. item.addr \in Nat /\ item.len \in Nat
  BY ItemsAssumption DEF NextChunk, Usable
<1>2. offset' = offset + LineWidth + item.len /\ offset \in Nat /\ LineWidth = 1
  BY DEF NextChunk, RInv, rpTypeOK, LineWidth
<1> QED
  BY <1>1, <1>2 DEF NextChunk, Usable

\* What a chunk for RAM adds to memory, and to the bytes that are covered.
LEMMA RamWritten ==
  ASSUME RInv, RamChunk
  PROVE  \E item \in Items :
           /\ Fitting(item) /\ item = rom.items[pos + 1] /\ pos + 1 \in RamChunks'
           /\ RamChunks' = RamChunks \cup {pos + 1}
           /\ Records'[pos + 1] = RecordOf(item)
           /\ \A i \in RamChunks : Records'[i] = Records[i]
           /\ Promise!CoveredBy(Records)' =
                Promise!CoveredBy(Records) \cup item.addr..(item.addr + item.len - 1)
           /\ Imaged' /\ Written'
           /\ resetLo' = (resetLo \/ Has(item, Space - 4))
           /\ resetHi' = (resetHi \/ Has(item, Space - 3))
           /\ IF item.addr < VECTOR_BASE
              THEN /\ codeLow' = IF item.addr < codeLow THEN item.addr ELSE codeLow
                   /\ codeHigh' = IF LastOfCode(item) > codeHigh THEN LastOfCode(item) ELSE codeHigh
                   /\ haveCode' = TRUE
              ELSE UNCHANGED <<codeLow, codeHigh, haveCode>>
<1>1. PICK item \in Items :
        /\ NextChunk(item) /\ item.addr < Space /\ MemWrites(RamBytes(item))
        /\ resetLo' = (resetLo \/ Has(item, Space - 4))
        /\ resetHi' = (resetHi \/ Has(item, Space - 3))
        /\ IF item.addr < VECTOR_BASE
           THEN /\ codeLow' = IF item.addr < codeLow THEN item.addr ELSE codeLow
                /\ codeHigh' = IF LastOfCode(item) > codeHigh THEN LastOfCode(item) ELSE codeHigh
                /\ haveCode' = TRUE
           ELSE UNCHANGED <<codeLow, codeHigh, haveCode>>
        /\ UNCHANGED <<g_regions, g_default_fill, rom, chunkSectionEnd, state>>
  BY DEF RamChunk
<1>2. /\ NextItem(item) /\ pos' = pos + 1 /\ item.kind = "chunk" /\ Fitting(item)
  BY <1>1, NextChunkFacts, UsableFits
<1>3. PICK new \in Nat : new = pos + 1
  BY <1>1, <1>2, ItemRead
<1>4. /\ item = rom.items[new]
      /\ \A i \in RamChunks : i \in Nat /\ i < new
      /\ RamChunks' = RamChunks \cup {new}
  BY <1>1, <1>2, <1>3, ItemRead
<1>5. Records'[new] = RecordOf(item) /\ \A i \in RamChunks : Records'[i] = Records[i]
  <2>1. Records' = [i \in RamChunks' |-> RecordOf(rom.items[i])]
    BY <1>1 DEF Records, RecordOf
  <2> QED
    BY <1>4, <2>1, RecordFacts
<1> DEFINE range == item.addr..(item.addr + item.len - 1)
<1>6. PICK f : f = RamBytes(item)
  OBVIOUS
<1>7. /\ Promise!Covered(RecordOf(item)) = range
      /\ DOMAIN f = range /\ DOMAIN f \subseteq Address
      /\ \A a \in DOMAIN f :
           f[a] \in Byte /\ f[a] = Promise!ByteOf(RecordOf(item), a)
  BY <1>2, <1>6, FittingFacts
<1> HIDE DEF range
<1>8. /\ Imaged'
      /\ \A a \in Address :
           a < Space - 1 => MemRead(a)' = IF a \in DOMAIN f THEN f[a] ELSE MemRead(a)
  <2>1. Imaged /\ MemWrites(f) /\ UNCHANGED <<g_regions, g_default_fill>>
    BY <1>1, <1>6 DEF RInv
  <2> QED
    BY <1>7, <2>1, ImagedWrites
<1>9. ASSUME NEW a \in Address, a < Space - 1
      PROVE  \/ /\ \A i \in RamChunks' : a \notin Promise!Covered(Records'[i])
                /\ MemRead(a)' = 0
             \/ \E i \in RamChunks' : Gives(i, a)' /\ MemRead(a)' = Promise!ByteOf(Records'[i], a)
  <2>1. CASE a \in DOMAIN f
    <3>1. new \in RamChunks' /\ a \in Promise!Covered(Records'[new])
      BY <1>4, <1>5, <1>7, <2>1
    <3>2. \A j \in RamChunks' : j <= new
      BY <1>4
    <3>3. Gives(new, a)'
      BY <3>1, <3>2 DEF Gives
    <3>4. MemRead(a)' = f[a]
      BY <1>8, <1>9, <2>1
    <3>5. MemRead(a)' = Promise!ByteOf(Records'[new], a)
      BY <1>5, <1>7, <2>1, <3>4
    <3> QED
      BY <3>1, <3>3, <3>5
  <2>2. CASE a \notin DOMAIN f
    <3>1. MemRead(a)' = MemRead(a) /\ a \notin Promise!Covered(Records'[new])
      BY <1>5, <1>7, <1>8, <1>9, <2>2
    <3>2. CASE (\A i \in RamChunks : a \notin Promise!Covered(Records[i])) /\ MemRead(a) = 0
      BY <1>4, <1>5, <3>1, <3>2
    <3>3. ASSUME NEW i \in RamChunks, Gives(i, a), MemRead(a) = Promise!ByteOf(Records[i], a)
          PROVE  i \in RamChunks' /\ Gives(i, a)' /\ MemRead(a)' = Promise!ByteOf(Records'[i], a)
      <4>1. i \in RamChunks' /\ Records'[i] = Records[i]
        BY <1>4, <1>5
      <4>2. \A j \in RamChunks' : a \in Promise!Covered(Records'[j]) => j <= i
        BY <1>4, <1>5, <3>1, <3>3 DEF Gives
      <4>3. Gives(i, a)'
        BY <3>3, <4>1, <4>2 DEF Gives
      <4> QED
        BY <3>1, <3>3, <4>1, <4>3
    <3> QED
      BY <1>9, <3>2, <3>3 DEF RInv, Written
  <2> QED
    BY <2>1, <2>2
<1>10. Written'
  BY <1>9 DEF Written
<1>11. Promise!CoveredBy(Records)' = Promise!CoveredBy(Records) \cup range
  <2>1. Promise!CoveredBy(Records) = UNION {Promise!Covered(Records[i]) : i \in RamChunks}
    BY RecordFacts DEF Promise!CoveredBy
  <2>2. DOMAIN Records' = RamChunks'
    BY DEF Records
  <2>3. Promise!CoveredBy(Records)' = UNION {Promise!Covered(Records'[i]) : i \in RamChunks'}
    BY <2>2 DEF Promise!CoveredBy
  <2>4. \A a : a \in Promise!CoveredBy(Records)' <=>
               \E i \in RamChunks' : a \in Promise!Covered(Records'[i])
    BY <2>3
  <2>5. \A a : a \in Promise!CoveredBy(Records) <=>
               \E i \in RamChunks : a \in Promise!Covered(Records[i])
    BY <2>1
  <2>6. \A a : a \in Promise!CoveredBy(Records)' <=> a \in Promise!CoveredBy(Records) \/ a \in range
    BY <1>4, <1>5, <1>7, <2>4, <2>5
  <2> QED
    BY <2>6
<1> QED
  BY <1>1, <1>2, <1>3, <1>4, <1>5, <1>8, <1>10, <1>11 DEF range

\* Code lies below the vectors, which are addresses.
LEMMA CodeFacts ==
  ASSUME \A i \in RamChunks : Fitting(rom.items[i])
  PROVE  /\ VECTOR_BASE \in Nat /\ VECTOR_BASE < Space /\ VECTOR_BASE # 0
         /\ \A a \in Promise!Code(Records) : a \in Nat /\ a < VECTOR_BASE /\ a \in Address
         /\ \A a \in Address : a \notin Promise!Vectors <=> a < VECTOR_BASE
<1>1. /\ Space \in Nat /\ Space > 6 /\ VECTOR_BASE = Space - 6 /\ Promise!Vectors = VECTOR_BASE..(Space - 1)
      /\ VECTOR_BASE \in Nat /\ VECTOR_BASE < Space /\ VECTOR_BASE # 0
  BY SpaceFacts DEF VECTOR_BASE, Promise!Vectors
<1>2. \A a \in Address : a \notin Promise!Vectors <=> a < VECTOR_BASE
  BY <1>1 DEF Address
<1>3. \A i \in RamChunks : Promise!Covered(Records[i]) \subseteq Address
  BY RecordFacts, FittingFacts
<1>4. \A a \in Promise!CoveredBy(Records) : a \in Address
  BY <1>3, RecordFacts DEF Promise!CoveredBy
<1>5. \A a \in Promise!Code(Records) : a \in Nat /\ a < VECTOR_BASE /\ a \in Address
  BY <1>1, <1>2, <1>4 DEF Promise!Code, Address
<1> QED
  BY <1>1, <1>2, <1>5

\* Nor is there any code of such a chunk at or past them.
LEMMA LastFacts ==
  ASSUME NEW item, Fitting(item), NEW a \in item.addr..(item.addr + item.len - 1)
  PROVE  /\ LastOfCode(item) \in Nat /\ LastOfCode(item) < VECTOR_BASE
         /\ item.addr < VECTOR_BASE => item.addr <= LastOfCode(item)
         /\ LastOfCode(item) <= item.addr + item.len - 1
         /\ a < VECTOR_BASE <=> a <= LastOfCode(item)
<1>1. /\ item.addr \in Nat /\ item.len \in Nat /\ item.len > 0 /\ item.addr + item.len <= Space
      /\ Space \in Nat /\ Space > 6 /\ VECTOR_BASE = Space - 6
  BY SpaceFacts DEF Fitting, VECTOR_BASE
<1> QED
  BY <1>1 DEF LastOfCode

LEMMA RamBounded ==
  ASSUME RInv, RamChunk
  PROVE  /\ Bounded' /\ Seen'
         /\ codeLow' \in Address \cup {NoAddress} /\ codeHigh' \in Address
         /\ {haveCode, resetLo, resetHi}' \subseteq BOOLEAN
<1>1. PICK item \in Items :
        /\ Fitting(item)
        /\ Promise!CoveredBy(Records)' =
             Promise!CoveredBy(Records) \cup item.addr..(item.addr + item.len - 1)
        /\ resetLo' = (resetLo \/ Has(item, Space - 4))
        /\ resetHi' = (resetHi \/ Has(item, Space - 3))
        /\ IF item.addr < VECTOR_BASE
           THEN /\ codeLow' = IF item.addr < codeLow THEN item.addr ELSE codeLow
                /\ codeHigh' = IF LastOfCode(item) > codeHigh THEN LastOfCode(item) ELSE codeHigh
                /\ haveCode' = TRUE
           ELSE UNCHANGED <<codeLow, codeHigh, haveCode>>
  BY RamWritten
<1>2. PICK low, last, top :
        low = item.addr /\ last = item.addr + item.len - 1 /\ top = LastOfCode(item)
  OBVIOUS
<1>3. /\ low \in Nat /\ last \in Nat /\ low <= last /\ last < Space /\ Space \in Nat /\ Space > 6
      /\ low \in item.addr..(item.addr + item.len - 1)
      /\ \A a \in low..last : a \in Address
  BY <1>1, <1>2, SpaceFacts DEF Fitting, Address
<1>4. /\ top \in Nat /\ top < VECTOR_BASE /\ (low < VECTOR_BASE => low <= top) /\ top <= last
      /\ \A a \in low..last : a < VECTOR_BASE <=> a <= top
  BY <1>1, <1>2, <1>3, LastFacts
<1>5. /\ VECTOR_BASE \in Nat /\ VECTOR_BASE < Space
      /\ \A a \in Promise!Code(Records) : a \in Nat /\ a < VECTOR_BASE /\ a \in Address
      /\ \A a \in Address : a \notin Promise!Vectors <=> a < VECTOR_BASE
  BY CodeFacts DEF RInv
<1>6. \A a : a \in Promise!Code(Records)' <=>
             \/ a \in Promise!Code(Records)
             \/ a \in low..last /\ a <= top
  <2>1. \A a : a \in Promise!Code(Records) <=>
               a \in Promise!CoveredBy(Records) /\ a \notin Promise!Vectors
    BY DEF Promise!Code
  <2>2. \A a : a \in Promise!Code(Records)' <=>
               a \in Promise!CoveredBy(Records)' /\ a \notin Promise!Vectors
    BY DEF Promise!Code
  <2>3. \A a \in low..last : a \notin Promise!Vectors <=> a <= top
    BY <1>3, <1>4, <1>5
  <2> QED
    BY <1>1, <1>2, <2>1, <2>2, <2>3
<1>7. Seen' /\ {resetLo, resetHi}' \subseteq BOOLEAN
  <2>1. Space - 4 \in Address /\ Space - 3 \in Address
    BY <1>3 DEF Address
  <2>2. /\ Has(item, Space - 4) <=> Space - 4 \in item.addr..(item.addr + item.len - 1)
        /\ Has(item, Space - 3) <=> Space - 3 \in item.addr..(item.addr + item.len - 1)
    BY <1>1, <2>1, FittingFacts
  <2>3. /\ resetLo \in BOOLEAN /\ resetHi \in BOOLEAN
        /\ resetLo <=> Space - 4 \in Promise!CoveredBy(Records)
        /\ resetHi <=> Space - 3 \in Promise!CoveredBy(Records)
    BY DEF RInv, rpTypeOK, Seen
  <2>4. /\ resetLo' <=> Space - 4 \in Promise!CoveredBy(Records)'
        /\ resetHi' <=> Space - 3 \in Promise!CoveredBy(Records)'
    BY <1>1, <2>2, <2>3
  <2>5. resetLo' \in BOOLEAN /\ resetHi' \in BOOLEAN
    BY <1>1
  <2> QED
    BY <2>4, <2>5 DEF Seen
<1>8. /\ codeLow \in Address \cup {NoAddress} /\ codeHigh \in Address /\ haveCode \in BOOLEAN
      /\ NoAddress = 2 * Space
  BY DEF RInv, rpTypeOK, NoAddress
<1>9. CASE ~(low < VECTOR_BASE)
  <2>1. UNCHANGED <<codeLow, codeHigh, haveCode>>
    BY <1>1, <1>2, <1>9
  <2>2. Promise!Code(Records)' = Promise!Code(Records)
    BY <1>3, <1>4, <1>5, <1>6, <1>9
  <2>3. Bounded'
    BY <2>1, <2>2 DEF RInv, Bounded
  <2> QED
    BY <1>7, <1>8, <2>1, <2>3
<1>10. CASE low < VECTOR_BASE
  <2>1. /\ codeLow' = IF low < codeLow THEN low ELSE codeLow
        /\ codeHigh' = IF top > codeHigh THEN top ELSE codeHigh
        /\ haveCode' = TRUE
    BY <1>1, <1>2, <1>10
  <2>2. /\ low \in Promise!Code(Records)' /\ top \in Promise!Code(Records)'
        /\ \A a \in Promise!Code(Records) : a \in Promise!Code(Records)'
        /\ \A a \in Promise!Code(Records)' :
             a \in Promise!Code(Records) \/ (a \in Nat /\ low <= a /\ a <= top)
    BY <1>3, <1>4, <1>6, <1>10
  <2>3. low \in Address /\ top \in Address
    BY <1>3, <1>4, <1>10
  <2>4. CASE haveCode
    <3>1. /\ codeLow \in Promise!Code(Records) /\ codeHigh \in Promise!Code(Records)
          /\ \A a \in Promise!Code(Records) : codeLow <= a /\ a <= codeHigh
          /\ codeLow \in Nat /\ codeHigh \in Nat /\ codeLow \in Address
      BY <1>5, <2>4 DEF RInv, Bounded
    <3>2. codeLow' \in Promise!Code(Records)' /\ codeHigh' \in Promise!Code(Records)'
      BY <2>1, <2>2, <3>1
    <3>3. \A a \in Promise!Code(Records)' : codeLow' <= a /\ a <= codeHigh'
      BY <1>3, <1>4, <1>5, <2>1, <2>2, <3>1
    <3> QED
      BY <1>7, <1>8, <2>1, <2>3, <3>1, <3>2, <3>3 DEF Bounded
  <2>5. CASE ~haveCode
    <3>1. Promise!Code(Records) = {} /\ codeLow = NoAddress /\ codeHigh = 0
      BY <2>5 DEF RInv, Bounded
    <3>2. codeLow' = low /\ codeHigh' = top
      BY <1>3, <1>4, <1>8, <2>1, <3>1
    <3>3. \A a \in Promise!Code(Records)' : codeLow' <= a /\ a <= codeHigh'
      BY <2>2, <3>1, <3>2
    <3> QED
      BY <1>7, <2>1, <2>2, <2>3, <3>2, <3>3 DEF Bounded
  <2> QED
    BY <1>8, <2>4, <2>5
<1> QED
  BY <1>9, <1>10

-----------------------------------------------------------------------------
(* Invariance.                                                             *)

LEMMA InitRInv == rpInit => RInv
<1> SUFFICES ASSUME rpInit PROVE RInv
  OBVIOUS
<1>1. Imaged /\ memTypeOK /\ \A a \in Address : MemRead(a) = 0
  BY InitImaged, ImagedTyped DEF rpInit
<1>2. RamChunks = {}
  <2>1. 1..pos = {}
    BY DEF rpInit
  <2> QED
    BY <2>1 DEF RamChunks, Chunks
<1>3. Promise!CoveredBy(Records) = {} /\ Promise!Code(Records) = {}
  BY <1>2, RecordFacts DEF Promise!CoveredBy, Promise!Code
<1>4. rpTypeOK
  <2>1. 0 \in Address /\ 0 \in Nat
    BY SpaceFacts DEF Address
  <2>2. Len(rom.items) \in Nat
    <3>1. rom.items \in ItemSeqs
      BY DEF rpInit, Roms
    <3>2. PICK n \in 0..MaxItems : rom.items \in [1..n -> Items]
      BY <3>1 DEF ItemSeqs
    <3>3. n \in Nat /\ Len(rom.items) = n
      BY <3>2, ItemsAssumption
    <3> QED
      BY <3>3
  <2>3. \A n \in Nat : 0 \in 0..n
    OBVIOUS
  <2> QED
    BY <1>1, <2>1, <2>2, <2>3 DEF rpInit, rpTypeOK
<1>5. Written /\ Bounded /\ Seen
  BY <1>1, <1>2, <1>3 DEF rpInit, Written, Bounded, Seen
<1> QED
  BY <1>1, <1>2, <1>4, <1>5 DEF RInv, rpInit, Answered

\* Steps that take no chunk for RAM.
LEMMA NoRamStep ==
  ASSUME RInv, RamChunks' = RamChunks, UNCHANGED <<memVars, rom, extent>>, rpTypeOK', Answered'
  PROVE  RInv'
BY SameChunks DEF RInv

\* Those that read no item either.
LEMMA NoItemStep ==
  ASSUME RInv, UNCHANGED <<memVars, rom, pos, offset, extent>>,
         chunkSectionEnd' \in Sections \cup {-1},
         out' \in [entry : Address, end : Address, hasResetVector : BOOLEAN,
                   ramChunks : Nat, xramChunks : Nat, xramBytes : Nat],
         state' \in {"open", "header", "chunks", "done", "missing", "failed", "loaded"},
         Answered'
  PROVE  RInv'
<1>1. RamChunks' = RamChunks
  BY DEF RamChunks, Chunks
<1>2. memTypeOK'
  BY <1>1, SameChunks
<1>3. rpTypeOK'
  BY <1>2 DEF RInv, rpTypeOK, extent
<1> QED
  BY <1>1, <1>3, NoRamStep

LEMMA ReadStep ==
  ASSUME RInv, SkipItem \/ XramChunk
  PROVE  RInv'
<1>1. PICK item \in Items :
        /\ NextItem(item) /\ UNCHANGED <<memVars, rom, chunkSectionEnd, extent, state>>
        /\ pos' = pos + 1 /\ offset' \in Nat /\ ~(item.kind = "chunk" /\ item.addr < Space)
        /\ out' \in [entry : Address, end : Address, hasResetVector : BOOLEAN,
                     ramChunks : Nat, xramChunks : Nat, xramBytes : Nat]
  <2>1. CASE SkipItem
    <3>1. PICK item \in Items :
            /\ NextItem(item) /\ item.kind \in {"blank", "comment"}
            /\ pos' = pos + 1 /\ offset' = offset + LineWidth
            /\ UNCHANGED <<memVars, rom, chunkSectionEnd, extent, out, state>>
      BY <2>1 DEF SkipItem
    <3>2. offset' \in Nat
      BY <3>1 DEF RInv, rpTypeOK, LineWidth
    <3> QED
      BY <3>1, <3>2 DEF RInv, rpTypeOK
  <2>2. CASE XramChunk
    <3>1. PICK item \in Items :
            /\ NextChunk(item) /\ item.addr >= Space
            /\ out' = [out EXCEPT !.xramChunks = @ + 1, !.xramBytes = @ + item.len]
            /\ UNCHANGED <<memVars, rom, chunkSectionEnd, extent, state>>
      BY <2>2 DEF XramChunk
    <3>2. /\ NextItem(item) /\ pos' = pos + 1 /\ offset' \in Nat
          /\ item.addr \in Nat /\ item.len \in Nat
      BY <3>1, NextChunkFacts
    <3>3. ~(item.addr < Space)
      BY <3>1, <3>2, SpaceFacts
    <3>4. out' \in [entry : Address, end : Address, hasResetVector : BOOLEAN,
                    ramChunks : Nat, xramChunks : Nat, xramBytes : Nat]
      <4>1. out \in [entry : Address, end : Address, hasResetVector : BOOLEAN,
                    ramChunks : Nat, xramChunks : Nat, xramBytes : Nat]
        BY DEF RInv, rpTypeOK
      <4>2. PICK chunks, bytes : chunks = out.xramChunks + 1 /\ bytes = out.xramBytes + item.len
        OBVIOUS
      <4>3. chunks \in Nat /\ bytes \in Nat
        BY <3>2, <4>1, <4>2
      <4>4. out' = [out EXCEPT !.xramChunks = chunks, !.xramBytes = bytes]
        BY <3>1, <4>2
      <4> QED
        BY <4>1, <4>3, <4>4
    <3> QED
      BY <3>1, <3>2, <3>3, <3>4
  <2> QED
    BY <2>1, <2>2
<1>2. /\ pos' \in 0..Len(rom.items) /\ RamChunks' = RamChunks
  BY <1>1, ItemRead
<1>3. memTypeOK'
  BY <1>1, <1>2, SameChunks
<1>4. rpTypeOK'
  BY <1>1, <1>2, <1>3 DEF RInv, rpTypeOK, extent
<1>5. Answered'
  BY <1>1 DEF NextItem, Answered
<1> QED
  BY <1>1, <1>2, <1>4, <1>5, NoRamStep

LEMMA RamStep ==
  ASSUME RInv, RamChunk
  PROVE  RInv'
<1>1. PICK item \in Items :
        /\ NextChunk(item) /\ item.addr < Space
        /\ out' = [out EXCEPT !.ramChunks = @ + 1]
        /\ UNCHANGED <<g_regions, g_default_fill, rom, chunkSectionEnd, state>>
  BY DEF RamChunk
<1>2. NextItem(item) /\ pos' = pos + 1 /\ offset' \in Nat
  BY <1>1, NextChunkFacts
<1>3. pos' \in 0..Len(rom.items)
  BY <1>1, <1>2, ItemRead
<1>4. PICK taken \in Items :
        /\ Fitting(taken) /\ taken = rom.items[pos + 1]
        /\ RamChunks' = RamChunks \cup {pos + 1} /\ Imaged' /\ Written'
  BY RamWritten
<1>5. \A i \in RamChunks' : Fitting(rom.items[i])'
  BY <1>1, <1>4 DEF RInv, Fitting
<1>6. memTypeOK'
  BY <1>4, ImagedTyped, PTL
<1>7. out' \in [entry : Address, end : Address, hasResetVector : BOOLEAN,
                ramChunks : Nat, xramChunks : Nat, xramBytes : Nat]
  BY <1>1 DEF RInv, rpTypeOK
<1>8. /\ Bounded' /\ Seen'
      /\ codeLow' \in Address \cup {NoAddress} /\ codeHigh' \in Address
      /\ {haveCode, resetLo, resetHi}' \subseteq BOOLEAN
  BY RamBounded
<1>9. rpTypeOK'
  BY <1>1, <1>2, <1>3, <1>6, <1>7, <1>8 DEF RInv, rpTypeOK
<1>10. Answered'
  BY <1>1, <1>2 DEF NextItem, Answered
<1> QED
  BY <1>4, <1>5, <1>8, <1>9, <1>10 DEF RInv

\* The entry point is an address of the range, whatever the vector says.
LEMMA EntryFacts ==
  ASSUME RInv, haveCode
  PROVE  /\ codeLow \in Nat /\ codeHigh \in Nat /\ codeLow <= codeHigh /\ codeHigh < VECTOR_BASE
         /\ Entry \in Address /\ codeLow <= Entry /\ Entry <= codeHigh
         /\ codeLow \in Promise!Code(Records) /\ codeHigh \in Promise!Code(Records)
<1>1. /\ codeLow \in Promise!Code(Records) /\ codeHigh \in Promise!Code(Records)
      /\ \A a \in Promise!Code(Records) : codeLow <= a /\ a <= codeHigh
  BY DEF RInv, Bounded
<1>2. /\ codeLow \in Nat /\ codeHigh \in Nat /\ codeHigh < VECTOR_BASE /\ codeLow \in Address
      /\ VECTOR_BASE \in Nat /\ VECTOR_BASE < Space
  BY <1>1, CodeFacts DEF RInv
<1>3. Vector \in Int
  <2>1. Space - 4 \in Address /\ Space - 3 \in Address
    BY SpaceFacts DEF Address
  <2>2. MemRead(Space - 4) \in Byte /\ MemRead(Space - 3) \in Byte
    BY <2>1, ImagedReads DEF RInv
  <2>3. MemRead(Space - 4) \in Int /\ MemRead(Space - 3) \in Int /\ Base \in Int
    BY <2>2, ItemsAssumption
  <2>4. Base * MemRead(Space - 3) \in Int
    BY <2>3
  <2> QED
    BY <2>3, <2>4 DEF Vector
<1>4. \A v \in Int : codeLow <= v /\ v <= codeHigh => v \in Address
  BY <1>2, SpaceFacts DEF Address
<1> QED
  BY <1>1, <1>2, <1>3, <1>4 DEF Entry

LEMMA FinishStep ==
  ASSUME RInv, Finish
  PROVE  RInv'
<1>1. /\ state = "done" /\ haveCode /\ state' = "loaded"
      /\ out' = [out EXCEPT !.hasResetVector = HasVector, !.end = codeHigh, !.entry = Entry]
      /\ UNCHANGED <<memVars, rom, pos, offset, chunkSectionEnd, extent>>
  BY DEF Finish
<1>2. HasVector \in BOOLEAN /\ codeHigh \in Address /\ Entry \in Address
  BY <1>1, EntryFacts DEF RInv, rpTypeOK, HasVector
<1>3. PICK entry, has : entry = Entry /\ has = HasVector
  OBVIOUS
<1>4. /\ out' \in [entry : Address, end : Address, hasResetVector : BOOLEAN,
                   ramChunks : Nat, xramChunks : Nat, xramBytes : Nat]
      /\ out'.hasResetVector = has /\ out'.end = codeHigh /\ out'.entry = entry
  BY <1>1, <1>2, <1>3 DEF RInv, rpTypeOK
<1>5. Entry' = Entry /\ HasVector' = HasVector
  <2>1. \A a : MemRead(a)' = MemRead(a)
    BY <1>1 DEF MemRead, InBuffer, Offset, Covering, Owner, Newest, memVars
  <2>2. HasVector' = HasVector
    BY <1>1 DEF HasVector, extent
  <2>3. Vector' = Vector
    BY <2>1 DEF Vector
  <2> QED
    BY <1>1, <2>2, <2>3 DEF Entry, extent
<1>6. Answered'
  BY <1>1, <1>3, <1>4, <1>5 DEF Answered, extent
<1>7. chunkSectionEnd' \in Sections \cup {-1}
  BY <1>1 DEF RInv, rpTypeOK
<1> QED
  BY <1>1, <1>4, <1>6, <1>7, NoItemStep

LEMMA StepRInv == RInv /\ [rpNext]_rpVars => RInv'
<1> SUFFICES ASSUME RInv, [rpNext]_rpVars PROVE RInv'
  OBVIOUS
<1>0. /\ chunkSectionEnd \in Sections \cup {-1}
      /\ state \in {"open", "header", "chunks", "done", "missing", "failed", "loaded"}
      /\ out \in [entry : Address, end : Address, hasResetVector : BOOLEAN,
                  ramChunks : Nat, xramChunks : Nat, xramBytes : Nat]
  BY DEF RInv, rpTypeOK
<1>1. CASE Open
  BY <1>0, <1>1, NoItemStep DEF Open, Answered
<1>2. CASE GoodHeader
  <2>1. chunkSectionEnd' \in Sections \cup {-1}
    <3>1. rom.group \in Groups
      BY DEF RInv, rpTypeOK, Roms
    <3>2. rom.group.kind = "section" => rom.group.length \in Sections
      BY <3>1 DEF Groups
    <3> QED
      BY <1>2, <3>2 DEF GoodHeader
  <2> QED
    BY <1>0, <1>2, <2>1, NoItemStep DEF GoodHeader, Answered
<1>3. CASE BadHeader \/ Reject \/ NoCode
  <2>1. Fail
    BY <1>3 DEF BadHeader, Reject, NoCode
  <2> QED
    BY <1>0, <2>1, NoItemStep DEF Fail, Answered
<1>4. CASE EndChunks
  BY <1>0, <1>4, NoItemStep DEF EndChunks, Answered
<1>5. CASE SkipItem \/ XramChunk
  BY <1>5, ReadStep
<1>6. CASE RamChunk
  BY <1>6, RamStep
<1>7. CASE Finish
  BY <1>7, FinishStep
<1>8. CASE UNCHANGED rpVars
  <2>1. /\ UNCHANGED <<memVars, rom, pos, offset, extent>> /\ UNCHANGED chunkSectionEnd
        /\ UNCHANGED out /\ UNCHANGED state
    BY <1>8 DEF rpVars
  <2>2. Answered'
    <3>1. \A a : MemRead(a)' = MemRead(a)
      BY <2>1 DEF MemRead, InBuffer, Offset, Covering, Owner, Newest, memVars
    <3>2. HasVector' = HasVector
      BY <2>1 DEF HasVector, extent
    <3>3. Vector' = Vector
      BY <3>1 DEF Vector
    <3>4. Entry' = Entry
      BY <2>1, <3>2, <3>3 DEF Entry, extent
    <3> QED
      BY <2>1, <3>2, <3>4 DEF RInv, Answered, extent
  <2> QED
    BY <1>0, <2>1, <2>2, NoItemStep
<1> QED
  BY <1>1, <1>2, <1>3, <1>4, <1>5, <1>6, <1>7, <1>8 DEF rpNext, rpDone

\* Memory, the range of the code and the vector bytes are at any time those of
\* the chunks read so far, as RInv says it of the chunks themselves.
THEOREM RpInvariance == rpSpec => []RInv
BY InitRInv, StepRInv, PTL DEF rpSpec

\* The reader's variables, its answer and the memory keep their types.
THEOREM RpTypeCorrect == rpSpec => []rpTypeOK
<1>1. RInv => rpTypeOK
  BY DEF RInv
<1> QED
  BY <1>1, RpInvariance, PTL

-----------------------------------------------------------------------------
(* The properties.                                                         *)

LEMMA GreatestIs ==
  ASSUME NEW S \in SUBSET Int, NEW i \in S, \A j \in S : j <= i
  PROVE  Promise!Greatest(S) = i
BY MaxChoice DEF Promise!Greatest

LEMMA LeastIs ==
  ASSUME NEW S \in SUBSET Int, NEW i \in S, \A j \in S : i <= j
  PROVE  Promise!Least(S) = i
<1> DEFINE c == CHOOSE k \in S : \A j \in S : k <= j
<1>1. c \in S /\ \A j \in S : c <= j
  OBVIOUS
<1>2. c <= i /\ i <= c
  BY <1>1
<1> HIDE DEF c
<1>3. c = i
  BY <1>1, <1>2
<1> QED
  BY <1>3 DEF c, Promise!Least

LEMMA ImageFromInv == RInv => RomImageExact
<1> SUFFICES ASSUME RInv, NEW a \in 0..(Space - 2)
             PROVE  MemRead(a) = IF a \in DOMAIN Promise!Image(Records)
                                 THEN Promise!Image(Records)[a] ELSE 0
  BY DEF RomImageExact
<1> DEFINE image == Promise!Image(Records)
<1>1. a \in Address /\ a < Space - 1 /\ a # Space - 1
  BY SpaceFacts DEF Address
<1>2. /\ a \in DOMAIN image <=> \E i \in RamChunks : a \in Promise!Covered(Records[i])
      /\ a \in DOMAIN image => image[a] = Promise!LastByte(Records, a)
  BY <1>1, RecordFacts DEF Promise!Image, Promise!CoveredBy
<1> HIDE DEF image
<1>3. CASE /\ \A i \in RamChunks : a \notin Promise!Covered(Records[i])
           /\ MemRead(a) = 0
  BY <1>2, <1>3 DEF image
<1>4. ASSUME NEW i \in RamChunks, Gives(i, a), MemRead(a) = Promise!ByteOf(Records[i], a)
      PROVE  a \in DOMAIN image /\ MemRead(a) = image[a]
  <2> DEFINE S == {j \in DOMAIN Records : a \in Promise!Covered(Records[j])}
  <2>1. S \in SUBSET Int /\ i \in S /\ \A j \in S : j <= i
    <3>1. pos \in Nat
      BY FileFacts DEF RInv
    <3>2. \A j \in RamChunks : j \in Int
      BY <3>1 DEF RamChunks, Chunks
    <3> QED
      BY <1>4, <3>2, RecordFacts DEF Gives
  <2>2. Promise!Greatest(S) = i
    BY <2>1, GreatestIs
  <2>3. Promise!LastByte(Records, a) = Promise!ByteOf(Records[i], a)
    BY <2>2 DEF Promise!LastByte
  <2>4. a \in DOMAIN image
    BY <1>2, <1>4 DEF Gives
  <2> HIDE DEF S
  <2> QED
    BY <1>2, <1>4, <2>3, <2>4
<1> QED
  BY <1>1, <1>3, <1>4 DEF RInv, Written, image

\* Whatever chunks a ROM has, in any order, memory holds the bytes of the last
\* RAM chunks that cover it, and nothing else.
THEOREM RomImageIsExact == rpSpec => []RomImageExact
BY ImageFromInv, RpInvariance, PTL

LEMMA ExtentFromInv == RInv => CodeExtentExact
<1> SUFFICES ASSUME RInv PROVE CodeExtentExact
  OBVIOUS
<1>1. haveCode \in BOOLEAN /\ (haveCode <=> Promise!Code(Records) # {})
  BY DEF RInv, rpTypeOK, Bounded
<1>2. ASSUME haveCode
      PROVE  codeLow = Promise!CodeLow(Records) /\ codeHigh = Promise!CodeHigh(Records)
  <2>1. /\ codeLow \in Promise!Code(Records) /\ codeHigh \in Promise!Code(Records)
        /\ \A a \in Promise!Code(Records) : codeLow <= a /\ a <= codeHigh
    BY <1>2 DEF RInv, Bounded
  <2>2. Promise!Code(Records) \in SUBSET Int
    BY CodeFacts DEF RInv
  <2> QED
    BY <2>1, <2>2, GreatestIs, LeastIs DEF Promise!CodeLow, Promise!CodeHigh
<1> QED
  BY <1>1, <1>2 DEF CodeExtentExact

\* The range of the code is that of the bytes below the vectors, in whatever
\* order the chunks come.
THEOREM CodeExtentIsExact == rpSpec => []CodeExtentExact
BY ExtentFromInv, RpInvariance, PTL

LEMMA EntryFromInv == RInv => EntryRight
<1> SUFFICES ASSUME RInv, state = "loaded"
             PROVE  /\ out.hasResetVector = Promise!HasVector(Records)
                    /\ out.entry = Promise!EntryPoint(Records)
                    /\ out.end = Promise!CodeHigh(Records)
                    /\ out.entry <= out.end /\ out.end < VECTOR_BASE
  BY DEF EntryRight
<1>1. haveCode /\ out.hasResetVector = HasVector /\ out.end = codeHigh /\ out.entry = Entry
  BY DEF RInv, Answered
<1>2. codeLow = Promise!CodeLow(Records) /\ codeHigh = Promise!CodeHigh(Records)
  BY <1>1, ExtentFromInv DEF CodeExtentExact
<1>3. /\ codeLow \in Nat /\ codeHigh \in Nat /\ codeHigh < VECTOR_BASE
      /\ Entry <= codeHigh
  BY <1>1, EntryFacts
<1>4. HasVector = Promise!HasVector(Records)
  <2>1. resetLo \in BOOLEAN /\ resetHi \in BOOLEAN
    BY DEF RInv, rpTypeOK
  <2> QED
    BY <2>1 DEF RInv, Seen, HasVector, Promise!HasVector
<1>5. ASSUME HasVector PROVE Vector = Promise!Vector(Records) /\ Vector \in Int
  <2>1. /\ Space - 4 \in 0..(Space - 2) /\ Space - 3 \in 0..(Space - 2)
        /\ Space - 4 \in Address /\ Space - 3 \in Address
        /\ Space - 4 # Space - 1 /\ Space - 3 # Space - 1
    BY SpaceFacts DEF Address
  <2>2. Space - 4 \in Promise!CoveredBy(Records) /\ Space - 3 \in Promise!CoveredBy(Records)
    BY <1>4, <1>5 DEF Promise!HasVector
  <2>3. /\ MemRead(Space - 4) = Promise!LastByte(Records, Space - 4)
        /\ MemRead(Space - 3) = Promise!LastByte(Records, Space - 3)
    BY <2>1, <2>2, ImageFromInv DEF RomImageExact, Promise!Image
  <2>4. MemRead(Space - 4) \in Byte /\ MemRead(Space - 3) \in Byte
    BY <2>1, ImagedReads DEF RInv
  <2>5. MemRead(Space - 4) \in Int /\ MemRead(Space - 3) \in Int /\ Base \in Int
    <3>1. Base \in Int /\ \A v \in Byte : v \in Int
      BY ItemsAssumption
    <3> QED
      BY <2>4, <3>1
  <2>6. Vector \in Int
    BY <2>5 DEF Vector
  <2> QED
    BY <2>3, <2>6 DEF Vector, Promise!Vector
<1>6. Entry = Promise!EntryPoint(Records)
  BY <1>2, <1>3, <1>4, <1>5 DEF Entry, Promise!EntryPoint
<1> QED
  BY <1>1, <1>2, <1>3, <1>4, <1>6

\* Main is given the promised entry point, in a range that is not empty and
\* stays below the vectors.
THEOREM EntryIsRight == rpSpec => []EntryRight
BY EntryFromInv, RpInvariance, PTL

-----------------------------------------------------------------------------
(* Which chunks are taken.                                                 *)

\* Where the reader is in the file, as it counts it and as it is.
Progress ==
  /\ offset = Length[pos]
  /\ state = "chunks" =>
       chunkSectionEnd = IF rom.group.kind = "section" THEN rom.group.length ELSE -1
  /\ state = "done" => Ended

GInv == RInv /\ Progress /\ OnlyGoodChunks

LEMMA WiderSeq ==
  ASSUME NEW S, NEW T, S \subseteq T, NEW s \in Seq(S)
  PROVE  s \in Seq(T)
OBVIOUS

\* The bounds of the reader are those of RAM and of XRAM.
LEMMA UsableIsGood ==
  ASSUME NEW item \in Items, item.kind = "chunk"
  PROVE  Usable(item) <=> Promise!Good(item)
<1>1. /\ item.addr \in Nat /\ item.len \in Nat /\ item.payload \in Seq(Byte)
      /\ Space \in Nat /\ Space > 6
  BY ItemsAssumption, SpaceFacts
<1>2. Rp6502Crc32(item.payload) = Promise!Crc32(item.payload)
  <2>1. Byte \subseteq 0..255
    BY ItemsAssumption
  <2>2. item.payload \in Seq(0..255)
    <3>1. PICK octets : octets = 0..255
      OBVIOUS
    <3>2. Byte \subseteq octets
      BY <2>1, <3>1
    <3>3. item.payload \in Seq(octets)
      BY <1>1, <3>2, WiderSeq
    <3> QED
      BY <3>1, <3>3
  <2> QED
    BY <2>2, SameCrc
<1>3. ~OutOfRange(item) <=>
        /\ item.len > 0
        /\ \E bank \in {0, 1} :
             item.addr >= bank * Space /\ item.addr + item.len <= (bank + 1) * Space
  <2> DEFINE a == item.addr
             n == item.len
  <2>1. /\ (\E bank \in {0, 1} : a >= bank * Space /\ a + n <= (bank + 1) * Space)
           <=> (a >= 0 /\ a + n <= Space) \/ (a >= Space /\ a + n <= 2 * Space)
    BY <1>1
  <2> QED
    BY <1>1, <2>1 DEF OutOfRange, CHUNK_MAX
<1> QED
  BY <1>2, <1>3 DEF Usable, Promise!Good

LEMMA LengthFacts ==
  ASSUME rpTypeOK
  PROVE  /\ Length \in [0..Len(rom.items) -> Nat] /\ Length[0] = 0
         /\ \A n \in 1..Len(rom.items) :
              Length[n] = Length[n - 1] + LineWidth
                          + IF rom.items[n].kind = "chunk" THEN rom.items[n].len ELSE 0
<1>1. PICK L \in Nat : L = Len(rom.items)
  BY FileFacts
<1> DEFINE step(n, c) == c + LineWidth + IF rom.items[n].kind = "chunk" THEN rom.items[n].len ELSE 0
           F == [n \in 1..L |-> [c \in Nat |-> step(n, c)]]
           length == CHOOSE g : g = [n \in 0..Len(rom.items) |->
                                       IF n = 0 THEN 0 ELSE step(n, g[n - 1])]
<1>2. \A n \in 1..L : \A c \in Nat : step(n, c) \in Nat
  <2> SUFFICES ASSUME NEW n \in 1..L, NEW c \in Nat PROVE step(n, c) \in Nat
    OBVIOUS
  <2>1. rom.items[n] \in Items
    BY <1>1, FileFacts
  <2>2. rom.items[n].kind = "chunk" => rom.items[n].len \in Nat
    BY <2>1, ItemsAssumption
  <2> QED
    BY <2>2 DEF LineWidth
<1>3. Length = length
  BY DEF Length
<1> HIDE DEF step
<1>4. F \in [1..L -> [Nat -> Nat]]
  BY <1>1, <1>2
<1>5. PICK g \in [0..L -> Nat] : Iterates(g, L, 0, F)
  <2> HIDE DEF F
  <2>1. 0 \in Nat
    OBVIOUS
  <2> QED
    BY <1>4, <2>1, Recursion
<1>6. g = [n \in 0..L |-> IF n = 0 THEN 0 ELSE step(n, g[n - 1])]
  <2>1. ASSUME NEW n \in 1..L
        PROVE  g[n] = step(n, g[n - 1])
    <3>1. n - 1 \in 0..L /\ g[n - 1] \in Nat
      BY <1>5
    <3> QED
      BY <1>5, <3>1 DEF Iterates
  <2>2. g[0] = 0
    BY <1>5 DEF Iterates
  <2> QED
    BY <1>5, <2>1, <2>2
<1>7. length = [n \in 0..L |-> IF n = 0 THEN 0 ELSE step(n, length[n - 1])]
  BY <1>1, <1>6
<1> HIDE DEF length
<1>8. length[0] = 0 /\ \A n \in 1..L : length[n] = step(n, length[n - 1])
  <2>1. 0 \in 0..L /\ \A n \in 1..L : n \in 0..L /\ n # 0
    BY <1>1
  <2> QED
    BY <1>7, <2>1
<1>9. 0..L \subseteq {n \in 0..L : length[n] \in Nat}
  <2> DEFINE S == {n \in 0..L : length[n] \in Nat}
  <2>1. 0 \in S
    BY <1>1, <1>8
  <2>2. ASSUME NEW n \in 1..L, n - 1 \in S
        PROVE  n \in S
    <3>1. n \in 0..L /\ length[n] = step(n, length[n - 1]) /\ length[n - 1] \in Nat
      BY <1>8, <2>2
    <3> QED
      BY <1>2, <3>1
  <2> HIDE DEF S
  <2>3. 0..L \subseteq S
    BY <1>1, <2>1, <2>2, UpTo
  <2> QED
    BY <2>3 DEF S
<1>10. length \in [0..L -> Nat]
  BY <1>7, <1>9
<1> QED
  BY <1>1, <1>3, <1>8, <1>10 DEF step

LEMMA SectionFacts ==
  ASSUME GInv, state = "chunks"
  PROVE  PastSection <=> ~InSection(pos + 1)
<1>1. rom.group.kind = "section" => rom.group.length \in Nat
  <2>1. rom.group \in Groups
    BY DEF GInv, RInv, rpTypeOK, Roms
  <2> QED
    BY <2>1, ItemsAssumption DEF Groups
<1>2. pos \in Nat /\ (pos + 1) - 1 = pos /\ offset \in Nat /\ offset = Length[pos]
  BY FileFacts DEF GInv, RInv, rpTypeOK, Progress
<1>3. chunkSectionEnd = IF rom.group.kind = "section" THEN rom.group.length ELSE -1
  BY DEF GInv, Progress
<1> QED
  BY <1>1, <1>2, <1>3 DEF PastSection, InSection

LEMMA SameFile ==
  ASSUME UNCHANGED <<rom, pos>>
  PROVE  /\ Chunks' = Chunks /\ Records' = Records
         /\ Length' = Length /\ (Ended' <=> Ended)
         /\ \A i : InSection(i)' <=> InSection(i)
<1>1. Chunks' = Chunks
  BY DEF Chunks
<1>2. Records' = Records
  BY <1>1 DEF Records, RamChunks
<1>3. Length' = Length
  BY DEF Length
<1>4. \A i : InSection(i)' <=> InSection(i)
  BY <1>3 DEF InSection
<1> QED
  BY <1>1, <1>2, <1>3, <1>4 DEF Ended

\* One more item, which is good if it is a chunk.
LEMMA TakeStep ==
  ASSUME GInv, RInv', NEW item \in Items, NextItem(item), UNCHANGED <<rom, chunkSectionEnd, state>>,
         pos' = pos + 1,
         \/ item.kind # "chunk" /\ offset' = offset + LineWidth
         \/ NextChunk(item)
  PROVE  GInv'
<1>1. /\ pos \in Nat /\ pos + 1 \in 1..Len(rom.items) /\ item = rom.items[pos + 1] /\ state = "chunks"
      /\ (pos + 1) - 1 = pos /\ Len(rom.items) \in Nat
  BY FileFacts DEF GInv, RInv, NextItem
<1>2. Length' = Length
  BY DEF Length
<1>3. offset' = Length[pos + 1]
  <2>1. offset \in Nat /\ offset = Length[pos]
    BY DEF GInv, RInv, rpTypeOK, Progress
  <2>2. Length[pos + 1] = offset + LineWidth + IF item.kind = "chunk" THEN item.len ELSE 0
    BY <1>1, <2>1, LengthFacts DEF GInv, RInv
  <2> QED
    BY <2>1, <2>2 DEF NextChunk, Usable, LineWidth
<1>4. \A i : InSection(i)' <=> InSection(i)
  BY <1>2 DEF InSection
<1>5. InSection(pos + 1)
  BY <1>1, SectionFacts DEF NextItem
<1>6. item.kind = "chunk" => Promise!Good(item)
  BY UsableIsGood DEF NextChunk
<1>7. \A i \in Chunks' : Promise!Good(rom.items[i]) /\ InSection(i)
  <2>1. \A i \in Chunks' : i \in Chunks \/ (i = pos + 1 /\ item.kind = "chunk")
    BY <1>1 DEF Chunks
  <2> QED
    BY <1>1, <1>5, <1>6, <2>1 DEF GInv, OnlyGoodChunks
<1>8. OnlyGoodChunks'
  BY <1>1, <1>4, <1>7 DEF OnlyGoodChunks
<1>9. Progress'
  BY <1>1, <1>2, <1>3 DEF GInv, Progress
<1> QED
  BY <1>8, <1>9 DEF GInv

\* Steps within the same item, and what has to be said of them.
LEMMA StayStep ==
  ASSUME GInv, RInv', UNCHANGED <<rom, pos, offset>>,
         state' = "chunks" =>
           chunkSectionEnd' = IF rom.group.kind = "section" THEN rom.group.length ELSE -1,
         state' \in {"done", "loaded"} => Ended,
         state' = "failed" =>
           LET next == rom.items[pos + 1]
           IN  \/ ~rom.shebang \/ rom.group.kind = "malformed"
               \/ Ended /\ Promise!Code(Records) = {}
               \/ /\ ~Ended
                  /\ next.kind = "malformed" \/ (next.kind = "chunk" /\ ~Promise!Good(next))
  PROVE  GInv'
<1>1. /\ Chunks' = Chunks /\ Records' = Records
      /\ Length' = Length /\ (Ended' <=> Ended)
      /\ \A i : InSection(i)' <=> InSection(i)
  BY SameFile
<1>2. Promise!Code(Records)' = Promise!Code(Records)
  BY <1>1 DEF Promise!Code, Promise!CoveredBy
<1>3. Progress'
  BY <1>1 DEF GInv, Progress
<1>4. \A i \in Chunks' : Promise!Good(rom.items[i])' /\ InSection(i)'
  BY <1>1 DEF GInv, OnlyGoodChunks
<1>5. OnlyGoodChunks'
  BY <1>1, <1>2, <1>4 DEF OnlyGoodChunks
<1> QED
  BY <1>3, <1>5 DEF GInv

LEMMA RejectStep ==
  ASSUME GInv, RInv', Reject
  PROVE  GInv'
<1>1. PICK item \in Items :
        /\ NextItem(item) /\ item.kind \in {"malformed", "chunk"} /\ ~Usable(item) /\ Fail
  BY DEF Reject
<1>2. item = rom.items[pos + 1] /\ pos # Len(rom.items) /\ state = "chunks" /\ ~PastSection
  BY <1>1, FileFacts DEF GInv, RInv, NextItem
<1>3. ~Ended
  BY <1>1, <1>2, SectionFacts DEF Ended
<1>4. item.kind = "chunk" => ~Promise!Good(item)
  BY <1>1, UsableIsGood
<1> QED
  BY <1>1, <1>2, <1>3, <1>4, StayStep DEF Fail

LEMMA InitGInv == rpInit => GInv
<1> SUFFICES ASSUME rpInit PROVE GInv
  OBVIOUS
<1>1. RInv
  BY InitRInv
<1>2. Length[0] = 0
  BY <1>1, LengthFacts DEF RInv
<1>3. Chunks = {}
  <2>1. 1..pos = {}
    BY DEF rpInit
  <2> QED
    BY <2>1 DEF Chunks
<1> QED
  BY <1>1, <1>2, <1>3 DEF rpInit, GInv, Progress, OnlyGoodChunks

LEMMA StepGInv == GInv /\ [rpNext]_rpVars => GInv'
<1> SUFFICES ASSUME GInv, [rpNext]_rpVars PROVE GInv'
  OBVIOUS
<1>0. RInv'
  BY StepRInv DEF GInv
<1>1. CASE Open
  BY <1>0, <1>1, StayStep DEF Open
<1>2. CASE BadHeader
  BY <1>0, <1>2, StayStep DEF BadHeader, Fail
<1>3. CASE GoodHeader
  BY <1>0, <1>3, StayStep DEF GoodHeader
<1>4. CASE EndChunks
  <2>1. state = "chunks" /\ state' = "done" /\ UNCHANGED <<rom, pos, offset>>
    BY <1>4 DEF EndChunks
  <2>2. Ended
    <3>1. pos \in Nat /\ Len(rom.items) \in Nat /\ pos <= Len(rom.items)
      BY FileFacts DEF GInv, RInv
    <3> QED
      BY <1>4, <2>1, <3>1, SectionFacts DEF EndChunks, Ended
  <2> QED
    BY <1>0, <2>1, <2>2, StayStep
<1>5. CASE SkipItem
  <2>1. PICK item \in Items :
          /\ NextItem(item) /\ item.kind \in {"blank", "comment"}
          /\ pos' = pos + 1 /\ offset' = offset + LineWidth
          /\ UNCHANGED <<rom, chunkSectionEnd, state>>
    BY <1>5 DEF SkipItem
  <2> QED
    BY <1>0, <2>1, TakeStep
<1>6. CASE Reject
  BY <1>0, <1>6, RejectStep
<1>7. CASE XramChunk \/ RamChunk
  <2>1. PICK item \in Items : NextChunk(item) /\ UNCHANGED <<rom, chunkSectionEnd, state>>
    BY <1>7 DEF XramChunk, RamChunk
  <2> QED
    BY <1>0, <2>1, TakeStep DEF NextChunk
<1>8. CASE NoCode
  <2>1. Ended /\ Promise!Code(Records) = {}
    BY <1>8 DEF NoCode, GInv, RInv, Progress, Bounded
  <2> QED
    BY <1>0, <1>8, <2>1, StayStep DEF NoCode, Fail
<1>9. CASE Finish
  <2>1. Ended
    BY <1>9 DEF Finish, GInv, Progress
  <2> QED
    BY <1>0, <1>9, <2>1, StayStep DEF Finish
<1>10. CASE UNCHANGED rpVars
  <2>1. UNCHANGED <<rom, pos, offset, chunkSectionEnd, state>>
    BY <1>10 DEF rpVars
  <2> QED
    BY <1>0, <2>1, StayStep DEF GInv, Progress, OnlyGoodChunks
<1> QED
  BY <1>1, <1>2, <1>3, <1>4, <1>5, <1>6, <1>7, <1>8, <1>9, <1>10 DEF rpNext, rpDone

\* Whatever a file holds, no chunk is taken that is cut short, has another
\* checksum, leaves RAM and XRAM or starts past the section, and loading ends
\* early only for what is wrong.
THEOREM GoodChunksOnly == rpSpec => []OnlyGoodChunks
<1>1. GInv => OnlyGoodChunks
  BY DEF GInv
<1> QED
  BY <1>1, InitGInv, StepGInv, PTL DEF rpSpec
=============================================================================
