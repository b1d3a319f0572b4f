--------------------------- MODULE HexFileProofs ---------------------------
(***************************************************************************)
(* Theorems about HexFile, for files of any length, of any lines, and any  *)
(* number of addresses: memory and range are what Loading promises main.   *)
(***************************************************************************)
EXTENDS HexFile, MemoryProofs

-----------------------------------------------------------------------------
(* A line and the record it stands for.                                    *)

LEMMA LineFacts ==
  ASSUME NEW line \in Lines
  PROVE  /\ line.count \in Nat /\ line.count <= MaxCount /\ MaxCount \in Nat /\ MaxCount <= Space
         /\ line.addr \in Address /\ line.addr \in Nat
         /\ line.bytes \in Seq(Byte) /\ Len(line.bytes) \in Nat
         /\ RecordOf(line).addr = line.addr
         /\ DOMAIN RecordOf(line).bytes = 1..line.count
         /\ Len(RecordOf(line).bytes) = line.count
         /\ \A i \in 1..line.count :
              RecordOf(line).bytes[i] = IF i <= Len(line.bytes) THEN line.bytes[i] ELSE Unset
<1>1. /\ line.count \in 0..MaxCount /\ MaxCount \in 1..Space
      /\ line.addr \in Address /\ line.bytes \in Seq(Byte)
  BY LinesAssumption
<1>2. line.count \in Nat /\ line.count <= MaxCount /\ MaxCount \in Nat /\ MaxCount <= Space
  BY <1>1, SpaceFacts
<1>3. line.addr \in Nat
  BY <1>1, SpaceFacts DEF Address
<1>4. /\ RecordOf(line).addr = line.addr
      /\ RecordOf(line).bytes =
           [i \in 1..line.count |-> IF i <= Len(line.bytes) THEN line.bytes[i] ELSE Unset]
  BY DEF RecordOf
<1>5. Len(RecordOf(line).bytes) = line.count
  BY <1>2, <1>4
<1> QED
  BY <1>1, <1>2, <1>3, <1>4, <1>5

LEMMA FileFacts ==
  ASSUME hexTypeOK
  PROVE  /\ Len(file) \in Nat /\ pos \in Nat /\ pos <= Len(file)
         /\ \A i \in 1..Len(file) : file[i] \in Lines
         /\ \A i \in 1..pos : file[i] \in Lines
<1>1. PICK n \in 0..MaxLines : file \in [1..n -> Lines]
  BY DEF hexTypeOK, Files
<1>2. n \in Nat /\ Len(file) = n
  BY <1>1, LinesAssumption
<1>3. pos \in 0..n
  BY <1>2 DEF hexTypeOK
<1> QED
  BY <1>1, <1>2, <1>3

\* A 16-bit difference finds an address of a record again.
LEMMA Around ==
  ASSUME NEW x \in Address, NEW i \in Nat, i < Space
  PROVE  /\ Narrow(x + i) \in Address
         /\ Narrow(Narrow(x + i) - x) = i
<1>1. x \in Nat /\ x < Space /\ Space \in Nat /\ i \in Address
  BY SpaceFacts DEF Address
<1>2. CASE x + i < Space
  <2>1. x + i \in Address /\ (x + i) - x = i
    BY <1>1, <1>2 DEF Address
  <2> QED
    BY <1>1, <2>1, NarrowFacts
<1>3. CASE ~(x + i < Space)
  <2> DEFINE y == x + i - Space
  <2>1. y \in Address /\ y + Space = x + i /\ y - x \in Int /\ y - x + Space = i
    BY <1>1, <1>3 DEF Address
  <2>2. Narrow(x + i) = y
    BY <2>1, NarrowFacts
  <2>3. Narrow(y - x) = i
    <3>1. \A n \in Int : n + Space \in Address => Narrow(n) = n + Space
      BY SpaceFacts, SMT DEF Narrow, Address
    <3> QED
      BY <1>1, <2>1, <3>1
  <2> QED
    BY <2>1, <2>2, <2>3
<1> QED
  BY <1>2, <1>3

\* What LoadRecord writes is the record, but for what it has no digits for.
LEMMA BytesFacts ==
  ASSUME NEW line \in Lines, NEW vals \in Values(line, Fill(line.bytes))
  PROVE  /\ DOMAIN RecordBytes(line, vals) = Promise!Covered(RecordOf(line))
         /\ DOMAIN RecordBytes(line, vals) \subseteq Address
         /\ \A a \in DOMAIN RecordBytes(line, vals) :
              /\ RecordBytes(line, vals)[a] \in Byte
              /\ Promise!ByteOf(RecordOf(line), a) # Unset =>
                   RecordBytes(line, vals)[a] = Promise!ByteOf(RecordOf(line), a)
<1> DEFINE n == line.count
           f == RecordBytes(line, vals)
           r == RecordOf(line)
<1>1. /\ n \in Nat /\ n <= MaxCount /\ MaxCount \in Nat /\ MaxCount <= Space /\ line.addr \in Address
      /\ line.addr \in Nat /\ Len(line.bytes) \in Nat /\ Space \in Nat
      /\ r.addr = line.addr /\ DOMAIN r.bytes = 1..n
      /\ \A i \in 1..n : r.bytes[i] = IF i <= Len(line.bytes) THEN line.bytes[i] ELSE Unset
  BY LineFacts, SpaceFacts
<1>2. /\ vals \in [0..(n - 1) -> Byte]
      /\ \A i \in 0..(n - 1) : Fill(line.bytes)[i] # Unset => vals[i] = Fill(line.bytes)[i]
  BY DEF Values
<1> DEFINE places == {Narrow(line.addr + i) : i \in 0..(n - 1)}
<1>3. DOMAIN f = places /\ \A a \in places : f[a] = vals[Narrow(a - line.addr)]
  BY <1>2 DEF RecordBytes
<1>4. Promise!Covered(r) = places
  <2>1. Promise!Covered(r) = {Narrow(line.addr + i - 1) : i \in 1..n}
    BY <1>1 DEF Promise!Covered, Promise!Narrow, Narrow
  <2>2. \A i \in 1..n : i - 1 \in 0..(n - 1) /\ line.addr + i - 1 = line.addr + (i - 1)
    BY <1>1
  <2>3. \A i \in 0..(n - 1) : i + 1 \in 1..n /\ line.addr + (i + 1) - 1 = line.addr + i
    BY <1>1
  <2> HIDE DEF r
  <2>4. \A a \in Promise!Covered(r) : a \in places
    BY <2>1, <2>2
  <2>5. \A a \in places : a \in Promise!Covered(r)
    BY <2>1, <2>3
  <2> QED
    BY <2>4, <2>5
<1>5. ASSUME NEW a \in places
      PROVE  /\ a \in Address /\ f[a] \in Byte
             /\ Promise!ByteOf(r, a) # Unset => f[a] = Promise!ByteOf(r, a)
  <2>1. PICK i \in 0..(n - 1) : a = Narrow(line.addr + i)
    OBVIOUS
  <2>2. i \in Nat /\ i < n /\ i < Space /\ i + 1 \in 1..n /\ i \in 0..MaxCount
    BY <1>1
  <2>3. a \in Address /\ Narrow(a - line.addr) = i
    BY <1>1, <2>1, <2>2, Around
  <2>4. f[a] = vals[i]
    BY <1>3, <2>3
  <2>5. Promise!ByteOf(r, a) = r.bytes[i + 1]
    BY <1>1, <2>3 DEF Promise!ByteOf, Promise!Narrow, Narrow
  <2>6. r.bytes[i + 1] = IF i + 1 <= Len(line.bytes) THEN line.bytes[i + 1] ELSE Unset
    BY <1>1, <2>2
  <2>7. vals[i] \in Byte
    BY <1>2
  <2>8. ASSUME i + 1 <= Len(line.bytes) PROVE vals[i] = line.bytes[i + 1]
    <3>1. i < Len(line.bytes)
      BY <1>1, <2>2, <2>8
    <3>2. Fill(line.bytes)[i] = line.bytes[i + 1]
      BY <2>2, <3>1 DEF Fill
    <3>3. line.bytes[i + 1] \in Byte /\ Unset \notin Byte
      <4>1. line.bytes \in Seq(Byte) /\ i + 1 \in 1..Len(line.bytes)
        BY <1>1, <2>2, <2>8, LineFacts
      <4> QED
        BY <4>1, MemoryAssumption
    <3> QED
      BY <1>2, <3>2, <3>3
  <2> HIDE DEF f, r
  <2> QED
    BY <2>3, <2>4, <2>5, <2>6, <2>7, <2>8
<1> HIDE DEF places, f, r
<1>6. places \subseteq Address
  BY <1>5
<1> QED
  BY <1>3, <1>4, <1>5, <1>6 DEF f, r

-----------------------------------------------------------------------------
(* The inductive invariant: what has been loaded, against the records so   *)
(* far.  Which record of several is the last or the first is said of the   *)
(* records themselves, so that no step needs an induction over them.       *)

\* Record i is the last that has a byte for a.
Gives(i, a) ==
  /\ i \in DataLines /\ a \in Promise!Covered(Records[i])
  /\ \A j \in DataLines : a \in Promise!Covered(Records[j]) => j <= i

Written ==
  \A a \in Address : a < Space - 1 =>
    \/ /\ \A i \in DataLines : a \notin Promise!Covered(Records[i])
       /\ MemRead(a) = 0
    \/ \E i \in DataLines :
         /\ Gives(i, a)
         /\ Promise!ByteOf(Records[i], a) # Unset => MemRead(a) = Promise!ByteOf(Records[i], a)

Started ==
  \/ runAddress = 0 /\ \A i \in DataLines : file[i].addr = 0
  \/ \E i \in DataLines :
       /\ file[i].addr # 0 /\ runAddress = file[i].addr
       /\ \A j \in DataLines : file[j].addr # 0 => i <= j

Reached ==
  /\ \A i \in DataLines : RecordEnd(file[i]) <= lastAddr
  /\ lastAddr = 0 \/ \E i \in DataLines : lastAddr = RecordEnd(file[i])

HInv ==
  /\ hexTypeOK /\ Imaged
  /\ state \in {"open", "reading"} => \A j \in 1..pos : ~IsType(j, 1)
  /\ state = "loaded" => runAddress # 0
  /\ Written /\ Started /\ Reached

-----------------------------------------------------------------------------
(* A line more.                                                            *)

LEMMA NextLine ==
  ASSUME HInv, NEW line \in Lines, ReadLine(line), UNCHANGED file
  PROVE  /\ pos' = pos + 1 /\ pos' \in 0..Len(file) /\ pos + 1 \in Nat /\ file[pos + 1] = line
         /\ \A i \in DataLines : i \in Nat /\ i < pos + 1 /\ file[i] \in Lines
         /\ DataLines' = IF line.colon /\ line.type = 0 THEN DataLines \cup {pos + 1} ELSE DataLines
<1>1. /\ Len(file) \in Nat /\ pos \in Nat /\ pos < Len(file) /\ pos' = pos + 1 /\ line = file[pos + 1]
      /\ \A i \in 1..Len(file) : file[i] \in Lines
  BY FileFacts DEF HInv, ReadLine
<1>2. \A j \in 1..pos : ~IsType(j, 1)
  BY DEF HInv, ReadLine
<1>3. /\ 1..pos' = 1..pos \cup {pos + 1} /\ pos + 1 \in Nat /\ 1..((pos + 1) - 1) = 1..pos
      /\ pos' \in 0..Len(file)
  BY <1>1
<1>4. DataLines = {i \in 1..pos : IsType(i, 0) /\ \A j \in 1..(i - 1) : ~IsType(j, 1)}
  BY DEF DataLines
<1>5. DataLines' = {i \in 1..pos' : IsType(i, 0) /\ \A j \in 1..(i - 1) : ~IsType(j, 1)}
  BY DEF DataLines, IsType
<1>6. IsType(pos + 1, 0) <=> line.colon /\ line.type = 0
  BY <1>1 DEF IsType
<1>7. \A j \in 1..((pos + 1) - 1) : ~IsType(j, 1)
  BY <1>2, <1>3
<1>8. \A i \in DataLines : i \in Nat /\ i < pos + 1 /\ file[i] \in Lines
  BY <1>1, <1>4
<1>9. DataLines' = IF line.colon /\ line.type = 0 THEN DataLines \cup {pos + 1} ELSE DataLines
  BY <1>3, <1>4, <1>5, <1>6, <1>7
<1> QED
  BY <1>1, <1>3, <1>8, <1>9

LEMMA RecordFacts ==
  /\ \A i \in DataLines : Records[i] = RecordOf(file[i])
  /\ DOMAIN Records = DataLines
BY DEF Records

\* A step that reads no record keeps what is said of them.
LEMMA SameRecords ==
  ASSUME Written, Started, Reached, DataLines' = DataLines,
         UNCHANGED <<memVars, file, runAddress, lastAddr>>
  PROVE  Written' /\ Started' /\ Reached'
<1>1. Records' = Records
  BY DEF Records
<1>2. \A a : MemRead(a)' = MemRead(a)
  BY DEF MemRead, InBuffer, Offset, Covering, Owner, Newest, memVars
<1>3. \A i, a : Gives(i, a)' <=> Gives(i, a)
  BY <1>1 DEF Gives
<1>4. Written'
  BY <1>1, <1>2, <1>3 DEF Written
<1> QED
  BY <1>4 DEF Started, Reached

LEMMA RecordStep ==
  ASSUME HInv, NEW line \in Lines, ReadLine(line), line.colon, line.type = 0, UNCHANGED file,
         UNCHANGED <<g_regions, g_default_fill>>,
         NEW vals \in Values(line, Fill(line.bytes)), MemWrites(RecordBytes(line, vals)),
         runAddress' = NextRunAddress(line), lastAddr' = NextLastAddr(line)
  PROVE  /\ Imaged' /\ Written' /\ Started' /\ Reached'
         /\ runAddress' \in Address /\ lastAddr' \in Address
<1>f. PICK f : f = RecordBytes(line, vals)
  OBVIOUS
<1>0. PICK new \in Nat : new = pos + 1
  BY NextLine
<1>1. /\ new \in Nat /\ file[new] = line
      /\ \A i \in DataLines : i \in Nat /\ i < new /\ file[i] \in Lines
      /\ DataLines' = DataLines \cup {new}
  BY <1>0, NextLine
<1>2. /\ Records'[new] = RecordOf(line)
      /\ \A i \in DataLines : Records'[i] = Records[i]
  <2>1. Records' = [i \in DataLines' |-> RecordOf(file[i])]
    BY DEF Records, RecordOf
  <2> QED
    BY <1>1, <2>1, RecordFacts
<1>3. /\ DOMAIN f = Promise!Covered(RecordOf(line)) /\ DOMAIN f \subseteq Address
      /\ \A a \in DOMAIN f :
           /\ f[a] \in Byte
           /\ Promise!ByteOf(RecordOf(line), a) # Unset => f[a] = Promise!ByteOf(RecordOf(line), a)
  BY <1>f, BytesFacts
<1>4. /\ Imaged'
      /\ \A a \in Address :
           a < Space - 1 => MemRead(a)' = IF a \in DOMAIN f THEN f[a] ELSE MemRead(a)
  <2>1. /\ Imaged /\ MemWrites(f)
        /\ DOMAIN f \subseteq Address
        /\ \A a \in DOMAIN f : f[a] \in Byte
    BY <1>f, <1>3 DEF HInv
  <2> QED
    BY <2>1, ImagedWrites
<1>5. ASSUME NEW a \in Address, a < Space - 1
      PROVE  \/ /\ \A i \in DataLines' : a \notin Promise!Covered(Records'[i])
                /\ MemRead(a)' = 0
             \/ \E i \in DataLines' :
                  /\ Gives(i, a)'
                  /\ Promise!ByteOf(Records'[i], a) # Unset =>
                       MemRead(a)' = Promise!ByteOf(Records'[i], a)
  <2>1. CASE a \in DOMAIN f
    <3>1. new \in DataLines' /\ a \in Promise!Covered(Records'[new])
      BY <1>1, <1>2, <1>3, <2>1
    <3>2. \A j \in DataLines' : j <= new
      BY <1>1
    <3>3. Gives(new, a)'
      BY <3>1, <3>2 DEF Gives
    <3>4. MemRead(a)' = f[a]
      BY <1>4, <1>5, <2>1
    <3>5. Promise!ByteOf(Records'[new], a) # Unset => MemRead(a)' = Promise!ByteOf(Records'[new], a)
      BY <1>2, <1>3, <2>1, <3>4
    <3> QED
      BY <3>1, <3>3, <3>5
  <2>2. CASE a \notin DOMAIN f
    <3>1. MemRead(a)' = MemRead(a) /\ a \notin Promise!Covered(Records'[new])
      BY <1>2, <1>3, <1>4, <1>5, <2>2
    <3>2. CASE (\A i \in DataLines : a \notin Promise!Covered(Records[i])) /\ MemRead(a) = 0
      BY <1>1, <1>2, <3>1, <3>2
    <3>3. ASSUME NEW i \in DataLines, Gives(i, a),
                 Promise!ByteOf(Records[i], a) # Unset => MemRead(a) = Promise!ByteOf(Records[i], a)
          PROVE  /\ i \in DataLines' /\ Gives(i, a)'
                 /\ Promise!ByteOf(Records'[i], a) # Unset =>
                      MemRead(a)' = Promise!ByteOf(Records'[i], a)
      <4>1. i \in DataLines' /\ Records'[i] = Records[i]
        BY <1>1, <1>2
      <4>2. \A j \in DataLines' : a \in Promise!Covered(Records'[j]) => j <= i
        BY <1>1, <1>2, <3>1, <3>3 DEF Gives
      <4>3. Gives(i, a)'
        BY <3>3, <4>1, <4>2 DEF Gives
      <4> QED
        BY <3>1, <3>3, <4>1, <4>3
    <3> QED
      BY <1>5, <3>2, <3>3 DEF HInv, Written
  <2> QED
    BY <2>1, <2>2
<1>6. Written'
  BY <1>5 DEF Written
<1>7. line.addr \in Address /\ runAddress \in Address /\ lastAddr \in Address /\ RecordEnd(line) \in Address
  <2>1. line.addr + line.count - 1 \in Int
    BY LineFacts
  <2> QED
    BY <2>1, LineFacts, NarrowFacts DEF HInv, hexTypeOK, RecordEnd
<1>8. Started' /\ runAddress' \in Address
  <2>1. CASE runAddress = 0 /\ \A i \in DataLines : file[i].addr = 0
    <3>1. runAddress' = line.addr
      BY <2>1 DEF NextRunAddress
    <3>2. CASE line.addr = 0
      BY <1>1, <1>7, <2>1, <3>1, <3>2 DEF Started
    <3>3. CASE line.addr # 0
      <4>1. \A j \in DataLines' : file[j].addr # 0 => new <= j
        BY <1>1, <2>1
      <4> QED
        BY <1>1, <1>7, <3>1, <3>3, <4>1 DEF Started
    <3> QED
      BY <3>2, <3>3
  <2>2. ASSUME NEW i \in DataLines, file[i].addr # 0, runAddress = file[i].addr,
               \A j \in DataLines : file[j].addr # 0 => i <= j
        PROVE  Started' /\ runAddress' \in Address
    <3>1. runAddress' = runAddress
      BY <2>2 DEF NextRunAddress
    <3>2. \A j \in DataLines' : file[j].addr # 0 => i <= j
      BY <1>1, <2>2
    <3> QED
      BY <1>1, <1>7, <2>2, <3>1, <3>2 DEF Started
  <2> QED
    BY <2>1, <2>2 DEF HInv, Started
<1>9. Reached' /\ lastAddr' \in Address
  <2>1. /\ lastAddr' = IF RecordEnd(line) > lastAddr THEN RecordEnd(line) ELSE lastAddr
        /\ \A i \in DataLines : RecordEnd(file[i]) <= lastAddr
        /\ lastAddr = 0 \/ \E i \in DataLines : lastAddr = RecordEnd(file[i])
    BY DEF NextLastAddr, HInv, Reached
  <2>2. RecordEnd(line) \in Nat /\ lastAddr \in Nat
    BY <1>7, SpaceFacts DEF Address
  <2>3. \A i \in DataLines : RecordEnd(file[i]) \in Nat
    <3>1. \A i \in DataLines : file[i].addr + file[i].count - 1 \in Int
      BY <1>1, LineFacts
    <3>2. \A i \in DataLines : RecordEnd(file[i]) \in Address
      BY <3>1, NarrowFacts DEF RecordEnd
    <3> QED
      BY <3>2, SpaceFacts DEF Address
  <2>4. \A i \in DataLines' : RecordEnd(file[i]) <= lastAddr'
    BY <1>1, <2>1, <2>2, <2>3
  <2>5. lastAddr' = 0 \/ \E i \in DataLines' : lastAddr' = RecordEnd(file[i])
    BY <1>1, <2>1
  <2>6. \A i : RecordEnd(file[i])' = RecordEnd(file[i])
    BY DEF RecordEnd
  <2> QED
    BY <1>7, <2>1, <2>4, <2>5, <2>6 DEF Reached
<1> QED
  BY <1>4, <1>6, <1>8, <1>9

-----------------------------------------------------------------------------
(* Invariance.                                                             *)

LEMMA FillType ==
  ASSUME HInv, NEW line \in Lines
  PROVE  Fill(line.bytes) \in [0..MaxCount -> Byte \cup {Unset}]
<1>1. /\ line.bytes \in Seq(Byte) /\ Len(line.bytes) \in Nat
      /\ lineBuffer \in [0..MaxCount -> Byte \cup {Unset}] /\ 0 \in Byte
  BY LineFacts, MemoryAssumption DEF HInv, hexTypeOK
<1>2. ASSUME NEW i \in 0..MaxCount
      PROVE  (IF i < Len(line.bytes) THEN line.bytes[i + 1]
              ELSE IF i = Len(line.bytes) THEN 0 ELSE lineBuffer[i]) \in Byte \cup {Unset}
  <2>1. i < Len(line.bytes) => line.bytes[i + 1] \in Byte
    <3>1. i < Len(line.bytes) => i + 1 \in 1..Len(line.bytes)
      BY <1>1, LineFacts
    <3> QED
      BY <1>1, <3>1
  <2> QED
    BY <1>1, <2>1
<1> QED
  BY <1>2 DEF Fill

LEMMA InitHInv == hexInit => HInv
<1> SUFFICES ASSUME hexInit PROVE HInv
  OBVIOUS
<1>1. Imaged /\ memTypeOK /\ \A a \in Address : MemRead(a) = 0
  <2>1. 0 \in Address
    BY SpaceFacts DEF Address
  <2> QED
    BY <2>1, InitImaged, ImagedReads DEF hexInit
<1>2. 1..pos = {} /\ pos = 0
  BY DEF hexInit
<1>3. DataLines = {}
  BY <1>2 DEF DataLines
<1>4. hexTypeOK
  <2>1. 0 \in Address /\ 0 \in Nat
    BY SpaceFacts DEF Address
  <2>2. \A n \in Nat : 0 \in 0..n
    OBVIOUS
  <2>3. Len(file) \in Nat
    <3>1. PICK n \in 0..MaxLines : file \in [1..n -> Lines]
      BY DEF hexInit, Files
    <3>2. n \in Nat /\ Len(file) = n
      BY <3>1, LinesAssumption
    <3> QED
      BY <3>2
  <2> QED
    BY <1>1, <2>1, <2>2, <2>3 DEF hexInit, hexTypeOK
<1>5. Written /\ Started /\ Reached
  BY <1>1, <1>3 DEF hexInit, Written, Started, Reached
<1> QED
  BY <1>1, <1>2, <1>4, <1>5 DEF HInv, hexInit

\* Steps that read no line.
LEMMA OtherStep ==
  ASSUME HInv, UNCHANGED <<memVars, file, pos, reader>>,
         state' \in {"open", "reading", "closed", "failed", "loaded"},
         state' \in {"open", "reading"} => state \in {"open", "reading"},
         state' = "loaded" => runAddress # 0
  PROVE  HInv'
<1>1. DataLines' = DataLines /\ \A i, t : IsType(i, t)' <=> IsType(i, t)
  BY DEF DataLines, IsType
<1>2. Written' /\ Started' /\ Reached'
  BY <1>1, SameRecords DEF HInv, reader
<1>3. memTypeOK' /\ Imaged'
  BY DEF HInv, hexTypeOK, memTypeOK, Imaged, memVars
<1>4. hexTypeOK'
  BY <1>3 DEF HInv, hexTypeOK, reader
<1> QED
  BY <1>1, <1>2, <1>3, <1>4 DEF HInv, reader

\* Lines that are skipped, or carry no data.
LEMMA NoDataStep ==
  ASSUME HInv, NEW line \in Lines, ReadLine(line), ~(line.colon /\ line.type = 0),
         UNCHANGED <<memVars, file, runAddress, lastAddr>>,
         lineBuffer' \in {lineBuffer, Fill(line.bytes)}, totalBytesRead' \in Nat,
         state' = IF line.colon /\ line.type = 1 THEN "closed" ELSE state
  PROVE  HInv'
<1>1. /\ pos' = pos + 1 /\ pos' \in 0..Len(file) /\ file[pos + 1] = line /\ DataLines' = DataLines
      /\ pos \in Nat /\ state = "reading"
  BY NextLine, FileFacts DEF HInv, ReadLine
<1>2. Written' /\ Started' /\ Reached'
  BY <1>1, SameRecords DEF HInv
<1>3. memTypeOK' /\ Imaged'
  BY DEF HInv, hexTypeOK, memTypeOK, Imaged, memVars
<1>4. hexTypeOK'
  BY <1>1, <1>3, FillType DEF HInv, hexTypeOK
<1>5. state' \in {"open", "reading"} => \A j \in 1..pos' : ~IsType(j, 1)'
  <2>1. \A j \in 1..pos' : j \in 1..pos \/ j = pos + 1
    BY <1>1
  <2>2. \A j : IsType(j, 1)' <=> IsType(j, 1)
    BY DEF IsType
  <2>3. state' \in {"open", "reading"} => ~IsType(pos + 1, 1)
    BY <1>1 DEF IsType
  <2> QED
    BY <1>1, <2>1, <2>2, <2>3 DEF HInv
<1> QED
  BY <1>1, <1>2, <1>3, <1>4, <1>5 DEF HInv

LEMMA DataStep ==
  ASSUME HInv, LoadRecord
  PROVE  HInv'
<1>1. PICK line \in Lines :
        /\ ReadLine(line) /\ line.colon /\ line.type = 0 /\ lineBuffer' = Fill(line.bytes)
        /\ \E vals \in Values(line, Fill(line.bytes)) : MemWrites(RecordBytes(line, vals))
        /\ totalBytesRead' = totalBytesRead + line.count
        /\ runAddress' = NextRunAddress(line) /\ lastAddr' = NextLastAddr(line)
        /\ UNCHANGED <<g_regions, g_default_fill, file, state>>
  BY DEF LoadRecord
<1>2. PICK vals \in Values(line, Fill(line.bytes)) : MemWrites(RecordBytes(line, vals))
  BY <1>1
<1>3. /\ Imaged' /\ Written' /\ Started' /\ Reached'
      /\ runAddress' \in Address /\ lastAddr' \in Address
  BY <1>1, <1>2, RecordStep
<1>4. /\ pos' = pos + 1 /\ pos' \in 0..Len(file) /\ file[pos + 1] = line
      /\ pos \in Nat /\ state = "reading"
  BY <1>1, NextLine, FileFacts DEF HInv, ReadLine
<1>5. memTypeOK'
  BY <1>3, ImagedTyped, PTL
<1>6. totalBytesRead' \in Nat
  BY <1>1, LineFacts DEF HInv, hexTypeOK
<1>7. hexTypeOK'
  BY <1>1, <1>3, <1>4, <1>5, <1>6, FillType DEF HInv, hexTypeOK
<1>8. \A j \in 1..pos' : ~IsType(j, 1)'
  <2>1. \A j \in 1..pos' : j \in 1..pos \/ j = pos + 1
    BY <1>4
  <2>2. \A j : IsType(j, 1)' <=> IsType(j, 1)
    BY <1>1 DEF IsType
  <2>3. ~IsType(pos + 1, 1)
    BY <1>1, <1>4 DEF IsType
  <2> QED
    BY <1>4, <2>1, <2>2, <2>3 DEF HInv
<1> QED
  BY <1>1, <1>3, <1>4, <1>7, <1>8 DEF HInv

LEMMA StepHInv == HInv /\ [hexNext]_hexVars => HInv'
<1> SUFFICES ASSUME HInv, [hexNext]_hexVars PROVE HInv'
  OBVIOUS
<1>0. state \in {"open", "reading", "closed", "failed", "loaded"} /\ (state = "loaded" => runAddress # 0)
  BY DEF HInv, hexTypeOK
<1>1. CASE Open
  BY <1>0, <1>1, OtherStep DEF Open
<1>2. CASE SkipLine
  <2>1. PICK line \in Lines :
          /\ ReadLine(line) /\ ~line.colon
          /\ lineBuffer' = IF line.bytes = <<>> THEN lineBuffer ELSE Fill(line.bytes)
          /\ UNCHANGED <<memVars, file, runAddress, lastAddr, totalBytesRead, state>>
    BY <1>2 DEF SkipLine
  <2>2. totalBytesRead' \in Nat
    BY <2>1 DEF HInv, hexTypeOK
  <2> QED
    BY <2>1, <2>2, NoDataStep
<1>3. CASE LoadRecord
  BY <1>3, DataStep
<1>4. CASE OtherRecord
  <2>1. PICK line \in Lines :
          /\ ReadLine(line) /\ line.colon /\ line.type # 0
          /\ lineBuffer' = Fill(line.bytes)
          /\ totalBytesRead' = totalBytesRead + line.count
          /\ state' = IF line.type = 1 THEN "closed" ELSE state
          /\ UNCHANGED <<memVars, file, runAddress, lastAddr>>
    BY <1>4 DEF OtherRecord
  <2>2. totalBytesRead' \in Nat
    BY <2>1, LineFacts DEF HInv, hexTypeOK
  <2> QED
    BY <2>1, <2>2, NoDataStep
<1>5. CASE EndOfFile
  BY <1>5, OtherStep DEF EndOfFile
<1>6. CASE Answer
  BY <1>6, OtherStep DEF Answer
<1>7. CASE UNCHANGED hexVars
  BY <1>0, <1>7, OtherStep DEF hexVars, reader
<1> QED
  BY <1>1, <1>2, <1>3, <1>4, <1>5, <1>6, <1>7 DEF hexNext, hexDone

\* Memory, run address and last address are at any time those of the records
\* read so far, as HInv says it of the records themselves.
THEOREM HexInvariance == hexSpec => []HInv
BY InitHInv, StepHInv, PTL DEF hexSpec

\* The reader's variables and the memory keep their types.
THEOREM HexTypeCorrect == hexSpec => []hexTypeOK
<1>1. HInv => hexTypeOK
  BY DEF HInv
<1> QED
  BY <1>1, HexInvariance, PTL

-----------------------------------------------------------------------------
(* The properties.                                                         *)

LEMMA GreatestIs ==
  ASSUME NEW S \in SUBSET Int, NEW i \in S, \A j \in S : j <= i
  PROVE  Promise!Greatest(S) = i
BY MaxChoice DEF Promise!Greatest

LEMMA LeastIs ==
  ASSUME NEW S \in SUBSET Int, NEW i \in S, \A j \in S : i <= j
  PROVE  Promise!Least(S) = i
<1> DEFINE c == CHOOSE k \in S : \A j \in S : k <= j
<1>1. c \in S /\ \A j \in S : c <= j
  OBVIOUS
<1>2. c <= i /\ i <= c
  BY <1>1
<1> HIDE DEF c
<1>3. c = i
  BY <1>1, <1>2
<1> QED
  BY <1>3 DEF c, Promise!Least

LEMMA DataLinesFacts ==
  ASSUME HInv
  PROVE  /\ DataLines \in SUBSET Int
         /\ \A i \in DataLines : i \in Nat /\ file[i] \in Lines
         /\ DOMAIN Records = DataLines
         /\ \A i \in DataLines : Records[i] = RecordOf(file[i])
BY FileFacts, RecordFacts DEF HInv, DataLines

LEMMA WinsFromInv == HInv => LastRecordWins
<1> SUFFICES ASSUME HInv, NEW a \in 0..(Space - 2)
             PROVE  IF a \in DOMAIN Promise!Image(Records)
                    THEN Promise!Image(Records)[a] # Unset => MemRead(a) = Promise!Image(Records)[a]
                    ELSE MemRead(a) = 0
  BY DEF LastRecordWins
<1> DEFINE image == Promise!Image(Records)
<1>1. a \in Address /\ a < Space - 1 /\ a # Space - 1
  BY SpaceFacts DEF Address
<1>2. /\ a \in DOMAIN image <=> \E i \in DataLines : a \in Promise!Covered(Records[i])
      /\ a \in DOMAIN image => image[a] = Promise!LastByte(Records, a)
  BY <1>1, DataLinesFacts DEF Promise!Image, Promise!CoveredBy
<1> HIDE DEF image
<1>3. CASE /\ \A i \in DataLines : a \notin Promise!Covered(Records[i])
           /\ MemRead(a) = 0
  BY <1>2, <1>3 DEF image
<1>4. ASSUME NEW i \in DataLines, Gives(i, a),
             Promise!ByteOf(Records[i], a) # Unset => MemRead(a) = Promise!ByteOf(Records[i], a)
      PROVE  a \in DOMAIN image /\ (image[a] # Unset => MemRead(a) = image[a])
  <2> DEFINE S == {j \in DOMAIN Records : a \in Promise!Covered(Records[j])}
  <2>1. S \in SUBSET Int /\ i \in S /\ \A j \in S : j <= i
    BY <1>4, DataLinesFacts DEF Gives
  <2>2. Promise!Greatest(S) = i
    BY <2>1, GreatestIs
  <2>3. Promise!LastByte(Records, a) = Promise!ByteOf(Records[i], a)
    BY <2>2 DEF Promise!LastByte
  <2>4. a \in DOMAIN image
    BY <1>2, <1>4 DEF Gives
  <2> HIDE DEF S
  <2> QED
    BY <1>2, <1>4, <2>3, <2>4
<1> QED
  BY <1>1, <1>3, <1>4 DEF HInv, Written, image

\* Whatever lines a file has, in any order, memory below the last address holds
\* the bytes of the last records that cover it.
THEOREM LastRecordIsRead == hexSpec => []LastRecordWins
BY WinsFromInv, HexInvariance, PTL

LEMMA ExtentFromInv == HInv => ExtentExact
<1> SUFFICES ASSUME HInv PROVE ExtentExact
  OBVIOUS
<1> DEFINE starts == {i \in DOMAIN Records : Records[i].addr # 0}
           ends == {0} \cup {Promise!Narrow(Records[i].addr + Len(Records[i].bytes) - 1) :
                               i \in DOMAIN Records}
<1>1. /\ DOMAIN Records = DataLines /\ DataLines \in SUBSET Int
      /\ \A i \in DataLines : /\ Records[i].addr = file[i].addr
                              /\ Len(Records[i].bytes) = file[i].count
                              /\ RecordEnd(file[i]) \in Nat
  <2>1. \A i \in DataLines : file[i].addr + file[i].count - 1 \in Int
    BY DataLinesFacts, LineFacts
  <2>2. \A i \in DataLines : RecordEnd(file[i]) \in Nat
    <3>1. \A i \in DataLines : RecordEnd(file[i]) \in Address
      BY <2>1, NarrowFacts DEF RecordEnd
    <3> QED
      BY <3>1, SpaceFacts DEF Address
  <2> QED
    BY <2>2, DataLinesFacts, LineFacts
<1>2. starts = {i \in DataLines : file[i].addr # 0}
  BY <1>1
<1>3. ends = {0} \cup {RecordEnd(file[i]) : i \in DataLines}
  BY <1>1 DEF RecordEnd, Promise!Narrow, Narrow
<1>4. Promise!HexBase(Records) = IF starts = {} THEN 0 ELSE Records[Promise!Least(starts)].addr
  BY DEF Promise!HexBase
<1>5. Promise!HexEnd(Records) = Promise!Greatest(ends)
  BY DEF Promise!HexEnd
<1> HIDE DEF starts, ends
<1>6. runAddress = Promise!HexBase(Records)
  <2>1. CASE runAddress = 0 /\ \A i \in DataLines : file[i].addr = 0
    BY <1>2, <1>4, <2>1
  <2>2. ASSUME NEW i \in DataLines, file[i].addr # 0, runAddress = file[i].addr,
               \A j \in DataLines : file[j].addr # 0 => i <= j
        PROVE  runAddress = Promise!HexBase(Records)
    <3>1. starts \in SUBSET Int /\ i \in starts /\ \A j \in starts : i <= j
      BY <1>1, <1>2, <2>2
    <3>2. Promise!Least(starts) = i
      BY <3>1, LeastIs
    <3> QED
      BY <1>1, <1>4, <2>2, <3>1, <3>2
  <2> QED
    BY <2>1, <2>2 DEF HInv, Started
<1>7. lastAddr = Promise!HexEnd(Records)
  <2>1. lastAddr \in Nat
    BY SpaceFacts DEF HInv, hexTypeOK, Address
  <2>2. ends \in SUBSET Int
    BY <1>1, <1>3
  <2>3. lastAddr \in ends /\ \A e \in ends : e <= lastAddr
    BY <1>3, <2>1 DEF HInv, Reached
  <2>4. Promise!Greatest(ends) = lastAddr
    BY <2>2, <2>3, GreatestIs
  <2> QED
    BY <1>5, <2>4
<1> QED
  BY <1>6, <1>7 DEF ExtentExact

\* The range main lists is the one the records promise.
THEOREM ExtentIsExact == hexSpec => []ExtentExact
BY ExtentFromInv, HexInvariance, PTL

LEMMA OrdinaryFromInv == HInv => OrdinaryFilesListed
<1> SUFFICES ASSUME HInv, state = "loaded", Ordinary
             PROVE  /\ Promise!CoveredBy(Records) \subseteq runAddress..lastAddr
                    /\ {runAddress, lastAddr} \subseteq Promise!CoveredBy(Records)
  BY DEF OrdinaryFilesListed
<1>1. ASSUME NEW i \in DataLines
      PROVE  /\ i \in Nat /\ file[i].addr \in Nat /\ file[i].addr > 0
             /\ file[i].count \in Nat /\ file[i].count > 0
             /\ file[i].addr + file[i].count < Space
             /\ RecordEnd(file[i]) = file[i].addr + file[i].count - 1
             /\ Promise!Covered(Records[i]) = file[i].addr..(file[i].addr + file[i].count - 1)
  <2> DEFINE x == file[i].addr
             n == file[i].count
  <2>1. /\ i \in Nat /\ x \in Nat /\ x > 0 /\ n \in Nat /\ n > 0 /\ x + n < Space /\ Space \in Nat
        /\ Records[i].addr = x /\ DOMAIN Records[i].bytes = 1..n
    BY DataLinesFacts, LineFacts, SpaceFacts DEF Ordinary
  <2> HIDE DEF x, n
  <2>2. \A k \in x..(x + n - 1) : k \in Address
    BY <2>1 DEF Address
  <2>3. Narrow(x + n - 1) = x + n - 1
    BY <2>1, <2>2, NarrowFacts
  <2>4. \A k \in 1..n : Narrow(x + k - 1) = x + k - 1
    <3>1. \A k \in 1..n : x + k - 1 \in x..(x + n - 1)
      BY <2>1
    <3> QED
      BY <2>2, <3>1, NarrowFacts
  <2>5. Promise!Covered(Records[i]) = {Narrow(x + k - 1) : k \in 1..n}
    BY <2>1 DEF Promise!Covered, Promise!Narrow, Narrow
  <2>6. Promise!Covered(Records[i]) = {x + k - 1 : k \in 1..n}
    BY <2>4, <2>5
  <2>7. {x + k - 1 : k \in 1..n} = x..(x + n - 1)
    <3>1. \A y \in x..(x + n - 1) : y - x + 1 \in 1..n /\ x + (y - x + 1) - 1 = y
      BY <2>1
    <3>2. \A k \in 1..n : x + k - 1 \in x..(x + n - 1)
      BY <2>1
    <3> QED
      BY <3>1, <3>2
  <2> QED
    BY <2>1, <2>3, <2>6, <2>7 DEF x, n, RecordEnd
<1>2. PICK first \in DataLines :
        runAddress = file[first].addr /\ \A j \in DataLines : first <= j
  BY <1>1 DEF HInv, Started
<1>3. /\ \A i \in DataLines : file[i].addr + file[i].count - 1 <= lastAddr
      /\ \E i \in DataLines : lastAddr = file[i].addr + file[i].count - 1
      /\ lastAddr \in Nat
  <2>1. lastAddr \in Nat
    BY SpaceFacts DEF HInv, hexTypeOK, Address
  <2>2. lastAddr # 0
    BY <1>1, <1>2, <2>1 DEF HInv, Reached
  <2> QED
    BY <1>1, <2>1, <2>2 DEF HInv, Reached
<1>4. \A i \in DataLines : runAddress <= file[i].addr
  <2>1. ASSUME NEW i \in DataLines PROVE runAddress <= file[i].addr
    <3>1. CASE i = first
      BY <1>1, <1>2, <3>1
    <3>2. CASE first < i
      <4>1. file[first].addr + file[first].count <= file[i].addr
        BY <3>2 DEF Ordinary
      <4> QED
        BY <1>1, <1>2, <4>1
    <3> QED
      BY <1>1, <1>2, <3>1, <3>2
  <2> QED
    BY <2>1
<1>5. /\ \A i \in DataLines : Promise!Covered(Records[i]) \subseteq Promise!CoveredBy(Records)
      /\ \A a \in Promise!CoveredBy(Records) : \E i \in DataLines : a \in Promise!Covered(Records[i])
  BY DataLinesFacts DEF Promise!CoveredBy
<1>6. ASSUME NEW a \in Promise!CoveredBy(Records) PROVE a \in runAddress..lastAddr
  <2>1. PICK i \in DataLines : a \in file[i].addr..(file[i].addr + file[i].count - 1)
    BY <1>1, <1>5
  <2>2. runAddress \in Int /\ lastAddr \in Int /\ file[i].addr \in Int /\ file[i].count \in Int
    BY <1>1, <1>2, <1>3
  <2>3. a \in Int /\ file[i].addr <= a /\ a <= file[i].addr + file[i].count - 1
    BY <2>1, <2>2
  <2>4. runAddress <= file[i].addr /\ file[i].addr + file[i].count - 1 <= lastAddr
    BY <1>3, <1>4
  <2> QED
    BY <2>2, <2>3, <2>4
<1>7. runAddress \in Promise!CoveredBy(Records)
  <2>1. file[first].addr \in Promise!Covered(Records[first])
    BY <1>1
  <2> QED
    BY <1>2, <1>5, <2>1
<1>8. lastAddr \in Promise!CoveredBy(Records)
  <2>1. PICK i \in DataLines : lastAddr = file[i].addr + file[i].count - 1
    BY <1>3
  <2>2. lastAddr \in Promise!Covered(Records[i])
    BY <1>1, <2>1
  <2> QED
    BY <1>5, <2>2
<1> QED
  BY <1>6, <1>7, <1>8

\* A file as assemblers write them is listed from its first byte to its last.
THEOREM OrdinaryFilesAreListed == hexSpec => []OrdinaryFilesListed
BY OrdinaryFromInv, HexInvariance, PTL
=============================================================================
