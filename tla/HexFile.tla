------------------------------ MODULE HexFile ------------------------------
(***************************************************************************)
(* readHexFile of hexfile.c: the lines of an Intel HEX file, one action    *)
(* each, written into the RAM that main maps over all of memory but its    *)
(* last byte.                                                              *)
(*                                                                         *)
(* A line is what the reader makes of it: whether it starts with a colon,  *)
(* the count, address and type its first columns say, and the byte values  *)
(* of the digit pairs that follow, checksum included.                      *)
(***************************************************************************)
EXTENDS Memory

CONSTANTS
  Lines,      \* the lines files are made of
  MaxLines,   \* the longest file
  MaxCount    \* the largest count of a record: 255

ASSUME LinesAssumption ==
  /\ MaxLines \in Nat /\ MaxCount \in 1..Space
  /\ \A line \in Lines :
       /\ line.colon \in BOOLEAN /\ line.count \in 0..MaxCount
       /\ line.addr \in Address /\ line.type \in 0..5
       /\ line.bytes \in Seq(Byte)

VARIABLES
  file,            \* the lines of the file
  pos,             \* how many have been read
  lineBuffer,      \* the digit pairs in lineBuffer, from its column 9 on
  runAddress, lastAddr, totalBytesRead,
  state            \* "open", "reading", "closed", or the outcome

reader == <<lineBuffer, runAddress, lastAddr, totalBytesRead>>
hexVars == <<memVars, file, pos, reader, state>>

Files == UNION {[1..n -> Lines] : n \in 0..MaxLines}

hexInit ==
  /\ imageInit
  /\ file \in Files /\ pos = 0
  /\ lineBuffer = [i \in 0..MaxCount |-> Unset]
  /\ runAddress = 0 /\ lastAddr = 0 /\ totalBytesRead = 0
  /\ state = "open"

Open ==
  /\ state = "open"
  /\ state' \in {"reading", "failed"}
  /\ UNCHANGED <<memVars, file, pos, reader>>

\* fgets: the pairs of the line, then the line end, which reads as 0, and after
\* it what the buffer held before.
Fill(bytes) ==
  [i \in 0..MaxCount |->
     IF i < Len(bytes) THEN bytes[i + 1] ELSE IF i = Len(bytes) THEN 0 ELSE lineBuffer[i]]

\* A record without enough digits takes the rest from the buffer.
Values(line, buffer) ==
  {vals \in [0..(line.count - 1) -> Byte] :
     \A i \in DOMAIN vals : buffer[i] # Unset => vals[i] = buffer[i]}

ReadLine(line) == state = "reading" /\ pos < Len(file) /\ line = file[pos + 1] /\ pos' = pos + 1

\* A line without a colon is shorter than nine columns or a comment.
SkipLine ==
  \E line \in Lines :
    /\ ReadLine(line)
    /\ ~line.colon
    /\ lineBuffer' = IF line.bytes = <<>> THEN lineBuffer ELSE Fill(line.bytes)
    /\ UNCHANGED <<memVars, file, runAddress, lastAddr, totalBytesRead, state>>

\* Mutants: the last record's address, the last record's end, an end that
\* does not wrap.
RunAddressLast(line) == line.addr
LastAddrLast(line)   == Narrow(line.addr + line.count - 1)
RecordEndWide(line)  == line.addr + line.count

RecordEnd(line) == Narrow(line.addr + line.count - 1)

NextRunAddress(line) == IF runAddress = 0 THEN line.addr ELSE runAddress

NextLastAddr(line) == IF RecordEnd(line) > lastAddr THEN RecordEnd(line) ELSE lastAddr

\* The byte each address is given: MemWrite takes destAddr + i to 16 bits.
RecordBytes(line, vals) ==
  [a \in {Narrow(line.addr + i) : i \in DOMAIN vals} |-> vals[Narrow(a - line.addr)]]

LoadRecord ==
  \E line \in Lines :
    /\ ReadLine(line)
    /\ line.colon /\ line.type = 0
    /\ lineBuffer' = Fill(line.bytes)
    /\ \E vals \in Values(line, Fill(line.bytes)) : MemWrites(RecordBytes(line, vals))
    /\ totalBytesRead' = totalBytesRead + line.count
    /\ runAddress' = NextRunAddress(line)
    /\ lastAddr' = NextLastAddr(line)
    /\ UNCHANGED <<g_regions, g_default_fill, file, state>>

\* Mutant: an end-of-file record does not end the file.
OtherRecordGoesOn ==
  \E line \in Lines :
    /\ ReadLine(line)
    /\ line.colon /\ line.type # 0
    /\ lineBuffer' = Fill(line.bytes)
    /\ totalBytesRead' = totalBytesRead + line.count
    /\ UNCHANGED <<memVars, file, runAddress, lastAddr, state>>

OtherRecord ==
  \E line \in Lines :
    /\ ReadLine(line)
    /\ line.colon /\ line.type # 0
    /\ lineBuffer' = Fill(line.bytes)
    /\ totalBytesRead' = totalBytesRead + line.count
    /\ state' = IF line.type = 1 THEN "closed" ELSE state
    /\ UNCHANGED <<memVars, file, runAddress, lastAddr>>

EndOfFile ==
  /\ state = "reading" /\ pos = Len(file)
  /\ state' = "closed"
  /\ UNCHANGED <<memVars, file, pos, reader>>

Answer ==
  /\ state = "closed"
  /\ state' = IF totalBytesRead = 0 \/ runAddress = 0 THEN "failed" ELSE "loaded"
  /\ UNCHANGED <<memVars, file, pos, reader>>

hexDone == state \in {"failed", "loaded"} /\ UNCHANGED hexVars

hexNext == Open \/ SkipLine \/ LoadRecord \/ OtherRecord \/ EndOfFile \/ Answer \/ hexDone
hexSpec == hexInit /\ [][hexNext]_hexVars

-----------------------------------------------------------------------------
(***************************************************************************)
(* What a file says, read off it as a whole.                               *)
(***************************************************************************)
\* The lines that carry data, of those read and not after an end-of-file record.
IsType(i, type) == file[i].colon /\ file[i].type = type
DataLines == {i \in 1..pos : IsType(i, 0) /\ \A j \in 1..(i - 1) : ~IsType(j, 1)}

\* The record a line stands for, as long as its count says, and all of them, by
\* the numbers of their lines.
RecordOf(line) ==
  [addr  |-> line.addr,
   bytes |-> [i \in 1..line.count |-> IF i <= Len(line.bytes) THEN line.bytes[i] ELSE Unset]]

Records == [i \in DataLines |-> RecordOf(file[i])]

Promise == INSTANCE Loading

hexTypeOK ==
  /\ memTypeOK
  /\ file \in Files /\ pos \in 0..Len(file)
  /\ lineBuffer \in [0..MaxCount -> Byte \cup {Unset}]
  /\ runAddress \in Address /\ lastAddr \in Address /\ totalBytesRead \in Nat
  /\ state \in {"open", "reading", "closed", "failed", "loaded"}

\* Memory is what the records promise: at every address below the last the byte
\* of the last record before the end-of-file record that covers it, wrapped
\* records included, and 0 where there is none.  A pair of digits that a record
\* does not have is anything.
LastRecordWins ==
  LET image == Promise!Image(Records)
  IN  \A a \in 0..(Space - 2) :
        IF a \in DOMAIN image THEN image[a] # Unset => MemRead(a) = image[a]
        ELSE MemRead(a) = 0

\* So is the range [runAddress, lastAddr] that main lists: from the address of
\* the first record that is not at 0, which stands for "not set", to the highest
\* end of a record to 16 bits.  FirstRecordRuns is what the documents say.
ExtentExact ==
  runAddress = Promise!HexBase(Records) /\ lastAddr = Promise!HexEnd(Records)

\* For a file as assemblers write them, records in ascending order that do not
\* reach the top, what is listed is what was loaded: every byte the file gives
\* lies in the range main lists, the range is not empty, and the two ends of
\* the range hold bytes of the file.
Ordinary ==
  /\ \A i \in DataLines : /\ file[i].addr > 0 /\ file[i].count > 0
                          /\ file[i].addr + file[i].count < Space
  /\ \A i, j \in DataLines : i < j => file[i].addr + file[i].count <= file[j].addr

OrdinaryFilesListed ==
  state = "loaded" /\ Ordinary =>
    LET loaded == Promise!CoveredBy(Records)
    IN  loaded \subseteq runAddress..lastAddr /\ {runAddress, lastAddr} \subseteq loaded

-----------------------------------------------------------------------------
\* What the sources say, and the program does not do.

\* dis.c: without RAM underneath "every loaded byte is discarded", "so back
\* the whole address space".
EveryByteBacked == \A a \in Promise!CoveredBy(Records) : Writable(a)

\* design.md, of data records: "the first such record's load address becomes the
\* run address".  The reader takes the first one's that is not 0, so a file that
\* begins at 0 is run from elsewhere, or refused.
FirstRecordRuns ==
  DataLines # {} => runAddress = file[Promise!Least(DataLines)].addr
=============================================================================
