----------------------------- MODULE Rp6502File -----------------------------
(***************************************************************************)
(* readRp6502File of rp6502file.c: the shebang, the optional group header, *)
(* and the chunks of an RP6502 ROM, one action for each way a turn of the  *)
(* loop can end, written into the RAM that main maps.                      *)
(*                                                                         *)
(* A file is what readLine, parseUint32 and fread make of it: items of one *)
(* line each, a chunk with the payload that follows its line.  A byte has  *)
(* Base values and an address two bytes, so that all is small in a small   *)
(* instance: Base = 256 and Space = 2^16 in the program.  A CRC has its 32  *)
(* bits all the same, and is the set of those that are 1.                  *)
(***************************************************************************)
EXTENDS Memory, FiniteSetsExt

CONSTANTS
  Base,        \* the number of values of a byte
  Items,       \* the lines, with their payloads, that files are made of
  MaxItems,    \* the longest file
  Sections     \* the lengths group headers give

LineWidth   == 1            \* the bytes of a line, of which payloads take many
VECTOR_BASE == Space - 6    \* $fffa
CHUNK_MAX   == Space        \* $10000
NoAddress   == 2 * Space    \* codeLow before any code: more than an address

ItemKinds == {"blank", "comment", "malformed", "tooLong", "chunk"}

ASSUME ItemsAssumption ==
  /\ Base \in 1..256 /\ Byte = 0..(Base - 1) /\ Space = Base * Base
  /\ MaxItems \in Nat
  /\ Sections \subseteq Nat
  /\ \A item \in Items :
       /\ item.kind \in ItemKinds
       /\ item.kind = "chunk" =>
            /\ item.addr \in Nat /\ item.len \in Nat
            /\ item.crc \subseteq 0..31 /\ item.payload \in Seq(Byte)
            /\ Len(item.payload) <= item.len

(***************************************************************************)
(* The checksum.                                                           *)
(***************************************************************************)
\* The bits of a number of 16 bits.
Bits(n) == {i \in 0..15 : (n \div 2^i) % 2 = 1}

\* The 32-bit constants, in two halves.
Word32(high, low) == {16 + i : i \in Bits(high)} \cup Bits(low)

table ==
  <<Word32(\h0000, \h0000), Word32(\h1db7, \h1064), Word32(\h3b6e, \h20c8), Word32(\h26d9, \h30ac),
    Word32(\h76dc, \h4190), Word32(\h6b6b, \h51f4), Word32(\h4db2, \h6158), Word32(\h5005, \h713c),
    Word32(\hedb8, \h8320), Word32(\hf00f, \h9344), Word32(\hd6d6, \ha3e8), Word32(\hcb61, \hb38c),
    Word32(\h9b64, \hc2b0), Word32(\h86d3, \hd2d4), Word32(\ha00a, \he278), Word32(\hbdbd, \hf21c)>>

\* One more nibble: crc >> 4, and the entry its last bits and the nibble's pick.
CrcNibble(crc, nibble) ==
  LET picked == CHOOSE n \in 0..15 : Bits(n) = SymDiff(crc \cap 0..3, Bits(nibble))
  IN  SymDiff({b - 4 : b \in crc \ 0..3}, table[picked + 1])

\* Mutant: the high nibble of a byte comes first.
Crc32HighFirst(data) ==
  LET after[n \in 0..Len(data)] ==
        IF n = 0 THEN 0..31
        ELSE CrcNibble(CrcNibble(after[n - 1], data[n] \div 16), data[n] % 16)
  IN  0..31 \ after[Len(data)]

Rp6502Crc32(data) ==
  LET after[n \in 0..Len(data)] ==
        IF n = 0 THEN 0..31
        ELSE CrcNibble(CrcNibble(after[n - 1], data[n] % 16), data[n] \div 16)
  IN  0..31 \ after[Len(data)]

VARIABLES
  rom,        \* the file: [shebang, group, items]
  pos,        \* how many items have been read
  offset,     \* ftell, from the first item on
  chunkSectionEnd,
  codeLow, codeHigh, haveCode, resetLo, resetHi,
  out,        \* *out: [entry, end, hasResetVector, ramChunks, xramChunks, xramBytes]
  state       \* "open", "header", "chunks", "done", and then the outcome:
              \* "missing" if it cannot be opened, "failed", "loaded"

extent  == <<codeLow, codeHigh, haveCode, resetLo, resetHi>>
rpVars  == <<memVars, rom, pos, offset, chunkSectionEnd, extent, out, state>>

\* A payload that is cut short is the end of its file.
Whole(item) == item.kind = "chunk" => Len(item.payload) = item.len
ItemSeqs ==
  UNION {{s \in [1..n -> Items] : \A i \in 1..(n - 1) : Whole(s[i])} : n \in 0..MaxItems}

Groups == {[kind |-> "none"], [kind |-> "malformed"]}
          \cup {[kind |-> "section", length |-> n] : n \in Sections}

Roms == {r \in [shebang : BOOLEAN, group : Groups, items : ItemSeqs] :
           ~r.shebang => r.group = [kind |-> "none"] /\ r.items = <<>>}

rpInit ==
  /\ imageInit
  /\ rom \in Roms
  /\ pos = 0 /\ offset = 0 /\ chunkSectionEnd = -1
  /\ codeLow = NoAddress /\ codeHigh = 0 /\ haveCode = FALSE
  /\ resetLo = FALSE /\ resetHi = FALSE
  /\ out = [entry |-> 0, end |-> 0, hasResetVector |-> FALSE,
            ramChunks |-> 0, xramChunks |-> 0, xramBytes |-> 0]
  /\ state = "open"

Fail == state' = "failed" /\ UNCHANGED <<memVars, rom, pos, offset, chunkSectionEnd, extent, out>>

Open ==
  /\ state = "open"
  /\ state' \in {"missing", "header"}
  /\ UNCHANGED <<memVars, rom, pos, offset, chunkSectionEnd, extent, out>>

BadHeader ==
  /\ state = "header"
  /\ ~rom.shebang \/ rom.group.kind = "malformed"
  /\ Fail

\* Mutant: the section is counted from the start of the file.
GoodHeaderFromStart ==
  /\ state = "header"
  /\ rom.shebang /\ rom.group.kind # "malformed"
  /\ chunkSectionEnd' = IF rom.group.kind = "section" THEN rom.group.length - 2 * LineWidth ELSE -1
  /\ state' = "chunks"
  /\ UNCHANGED <<memVars, rom, pos, offset, extent, out>>

GoodHeader ==
  /\ state = "header"
  /\ rom.shebang /\ rom.group.kind # "malformed"
  /\ chunkSectionEnd' = IF rom.group.kind = "section" THEN rom.group.length ELSE -1
  /\ state' = "chunks"
  /\ UNCHANGED <<memVars, rom, pos, offset, extent, out>>

(***************************************************************************)
(* The loop.                                                               *)
(***************************************************************************)
PastSection == chunkSectionEnd >= 0 /\ offset >= chunkSectionEnd

\* readLine fails at the end of the file and at a line that is too long.
EndChunks ==
  /\ state = "chunks"
  /\ ~PastSection /\ pos < Len(rom.items) => rom.items[pos + 1].kind = "tooLong"
  /\ state' = "done"
  /\ UNCHANGED <<memVars, rom, pos, offset, chunkSectionEnd, extent, out>>

NextItem(item) ==
  /\ state = "chunks" /\ ~PastSection
  /\ pos < Len(rom.items) /\ item = rom.items[pos + 1]

SkipItem ==
  \E item \in Items :
    /\ NextItem(item)
    /\ item.kind \in {"blank", "comment"}
    /\ pos' = pos + 1 /\ offset' = offset + LineWidth
    /\ UNCHANGED <<memVars, rom, chunkSectionEnd, extent, out, state>>

OutOfRange(item) ==
  \/ item.addr > 2 * Space - 1
  \/ item.len = 0
  \/ item.len > CHUNK_MAX
  \/ item.addr < Space /\ item.addr + item.len > Space
  \/ item.addr + item.len > 2 * Space

Usable(item) ==
  /\ item.kind = "chunk"
  /\ ~OutOfRange(item)
  /\ Len(item.payload) = item.len
  /\ Rp6502Crc32(item.payload) = item.crc

\* A malformed header, a chunk out of range, cut short or with a wrong CRC.
Reject ==
  \E item \in Items :
    /\ NextItem(item)
    /\ item.kind \in {"malformed", "chunk"} /\ ~Usable(item)
    /\ Fail

NextChunk(item) ==
  /\ NextItem(item)
  /\ Usable(item)
  /\ pos' = pos + 1 /\ offset' = offset + LineWidth + item.len

XramChunk ==
  \E item \in Items :
    /\ NextChunk(item)
    /\ item.addr >= Space
    /\ out' = [out EXCEPT !.xramChunks = @ + 1, !.xramBytes = @ + item.len]
    /\ UNCHANGED <<memVars, rom, chunkSectionEnd, extent, state>>

Has(item, a) == item.addr <= a /\ a < item.addr + item.len

\* Mutant: the last byte of a chunk is not held below the vectors.
LastOfCodeAny(item) == item.addr + item.len - 1

LastOfCode(item) ==
  LET last == item.addr + item.len - 1
  IN  IF last >= VECTOR_BASE THEN VECTOR_BASE - 1 ELSE last

\* Mutant: the last byte of the payload is not written.
RamBytesShort(item) ==
  [a \in {n \in Address : Has(item, n) /\ Has(item, n + 1)} |-> item.payload[a - item.addr + 1]]

RamBytes(item) == [a \in {n \in Address : Has(item, n)} |-> item.payload[a - item.addr + 1]]

RamChunk ==
  \E item \in Items :
    /\ NextChunk(item)
    /\ item.addr < Space
    /\ out' = [out EXCEPT !.ramChunks = @ + 1]
    /\ MemWrites(RamBytes(item))
    /\ resetLo' = (resetLo \/ Has(item, Space - 4))
    /\ resetHi' = (resetHi \/ Has(item, Space - 3))
    /\ IF item.addr < VECTOR_BASE
       THEN /\ codeLow' = IF item.addr < codeLow THEN item.addr ELSE codeLow
            /\ codeHigh' = IF LastOfCode(item) > codeHigh THEN LastOfCode(item) ELSE codeHigh
            /\ haveCode' = TRUE
       ELSE UNCHANGED <<codeLow, codeHigh, haveCode>>
    /\ UNCHANGED <<g_regions, g_default_fill, rom, chunkSectionEnd, state>>

\* Mutant: the vector is taken as it is.
EntryAnyVector == IF resetLo /\ resetHi THEN MemRead(Space - 4) + Base * MemRead(Space - 3) ELSE codeLow

HasVector == resetLo /\ resetHi

Vector == MemRead(Space - 4) + Base * MemRead(Space - 3)

Entry == IF HasVector /\ codeLow <= Vector /\ Vector <= codeHigh THEN Vector ELSE codeLow

NoCode == state = "done" /\ ~haveCode /\ Fail

Finish ==
  /\ state = "done" /\ haveCode
  /\ out' = [out EXCEPT !.hasResetVector = HasVector, !.end = codeHigh, !.entry = Entry]
  /\ state' = "loaded"
  /\ UNCHANGED <<memVars, rom, pos, offset, chunkSectionEnd, extent>>

rpDone == state \in {"missing", "failed", "loaded"} /\ UNCHANGED rpVars

rpNext ==
  \/ Open \/ BadHeader \/ GoodHeader
  \/ EndChunks \/ SkipItem \/ Reject \/ XramChunk \/ RamChunk
  \/ NoCode \/ Finish
  \/ rpDone

rpSpec == rpInit /\ [][rpNext]_rpVars

-----------------------------------------------------------------------------
(***************************************************************************)
(* What a ROM says, read off it as a whole.                                *)
(***************************************************************************)
Chunks == {i \in 1..pos : rom.items[i].kind = "chunk"}

\* The records for 6502 memory among them, by their places.
RamChunks == {i \in Chunks : rom.items[i].addr < Space}

Records == [i \in RamChunks |-> [addr |-> rom.items[i].addr, bytes |-> rom.items[i].payload]]

Promise == INSTANCE RomLoading

\* The bytes of the first n items.
Length[n \in 0..Len(rom.items)] ==
  IF n = 0 THEN 0
  ELSE Length[n - 1] + LineWidth
       + IF rom.items[n].kind = "chunk" THEN rom.items[n].len ELSE 0

\* Item i starts before the chunk section ends.
InSection(i) == rom.group.kind = "section" => Length[i - 1] < rom.group.length

\* No item is left to read: the file or the section ends, or the line is too long.
Ended ==
  \/ pos = Len(rom.items)
  \/ ~InSection(pos + 1)
  \/ rom.items[pos + 1].kind = "tooLong"

rpTypeOK ==
  /\ memTypeOK
  /\ rom \in Roms /\ pos \in 0..Len(rom.items)
  /\ offset \in Nat /\ chunkSectionEnd \in Sections \cup {-1}
  /\ codeLow \in Address \cup {NoAddress} /\ codeHigh \in Address
  /\ {haveCode, resetLo, resetHi} \subseteq BOOLEAN
  /\ out \in [entry : Address, end : Address, hasResetVector : BOOLEAN,
             ramChunks : Nat, xramChunks : Nat, xramBytes : Nat]
  /\ state \in {"open", "header", "chunks", "done", "missing", "failed", "loaded"}

\* Memory is what the RAM chunks promise: at every address the byte of the last
\* one read that has one there, and 0 elsewhere.  XRAM, a chunk that does not
\* match its CRC and whatever follows the chunk section never reach it.
RomImageExact ==
  LET image == Promise!Image(Records)
  IN  \A a \in 0..(Space - 2) : MemRead(a) = IF a \in DOMAIN image THEN image[a] ELSE 0

\* "CRCs are validated": every chunk that is read is whole, has the CRC-32 of
\* its payload, lies in RAM or in XRAM as a whole, and starts in the section.
\* What is right is not refused either: loading ends at the end of the section
\* and fails for the header, for the next line, or for want of code.
OnlyGoodChunks ==
  LET next == rom.items[pos + 1]
      badHeader == ~rom.shebang \/ rom.group.kind = "malformed"
      badLine == next.kind = "malformed" \/ (next.kind = "chunk" /\ ~Promise!Good(next))
  IN  /\ \A i \in Chunks : Promise!Good(rom.items[i]) /\ InSection(i)
      /\ state = "loaded" => Ended
      /\ state = "failed" =>
           \/ badHeader
           \/ Ended /\ Promise!Code(Records) = {}
           \/ ~Ended /\ badLine

\* The range of the code read so far, whichever order it came in: it starts and
\* ends at a byte of code and stays below the vectors.
CodeExtentExact ==
  LET code == Promise!Code(Records)
  IN  /\ haveCode <=> code # {}
      /\ haveCode => codeLow = Promise!CodeLow(Records) /\ codeHigh = Promise!CodeHigh(Records)

\* What main is given to analyse and list: the promised entry point, in a range
\* that is not empty and stays below the vectors.
EntryRight ==
  state = "loaded" =>
    /\ out.hasResetVector = Promise!HasVector(Records)
    /\ out.entry = Promise!EntryPoint(Records)
    /\ out.end = Promise!CodeHigh(Records)
    /\ out.entry <= out.end /\ out.end < VECTOR_BASE

-----------------------------------------------------------------------------
\* What the sources say, and the program does not do.

\* rp6502file.c: "A vector pointing outside the loaded code would disassemble
\* unmapped fill, so fall back rather than emit nonsense."
EntryIsLoaded == state = "loaded" => out.entry \in Promise!Code(Records)
=============================================================================
