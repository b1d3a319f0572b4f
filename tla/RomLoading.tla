---------------------------- MODULE RomLoading ----------------------------
(***************************************************************************)
(* What the reader of RP6502 ROMs promises besides: which chunks it takes, *)
(* which bytes are code, the range they lie in, and where the program      *)
(* starts.                                                                 *)
(***************************************************************************)
EXTENDS Loading, FiniteSetsExt

CONSTANT Base     \* the number of values of a byte

\* CRC-32 bit by bit, the last of a byte first: a 1 that is shifted out adds the
\* reflected polynomial, $EDB88320, to what is left.
Polynomial == {5, 8, 9, 15, 19, 20, 21, 23, 24, 26, 27, 29, 30, 31}

Shift(crc) == SymDiff({b - 1 : b \in crc \ {0}}, IF 0 \in crc THEN Polynomial ELSE {})

Crc32(bytes) ==
  LET Four[crc \in SUBSET (0..31)] == Shift(Shift(Shift(Shift(crc))))
      after[n \in 0..Len(bytes)] ==
        IF n = 0 THEN 0..31
        ELSE Four[Four[SymDiff(after[n - 1], {i \in 0..7 : (bytes[n] \div 2^i) % 2 = 1})]]
  IN  0..31 \ after[Len(bytes)]

\* A chunk that is whole and sound, and lies in RAM or in XRAM.
Good(chunk) ==
  /\ Len(chunk.payload) = chunk.len /\ chunk.len > 0
  /\ chunk.crc = Crc32(chunk.payload)
  /\ \E bank \in {0, 1} :
       chunk.addr >= bank * Space /\ chunk.addr + chunk.len <= (bank + 1) * Space

\* The three vectors of the 6502 are no code.
Vectors == (Space - 6)..(Space - 1)

Code(chunks) == CoveredBy(chunks) \ Vectors

CodeLow(chunks)  == Least(Code(chunks))
CodeHigh(chunks) == Greatest(Code(chunks))

\* The reset vector counts if chunks gave both its bytes.
HasVector(chunks) == {Space - 4, Space - 3} \subseteq CoveredBy(chunks)
Vector(chunks)    == LastByte(chunks, Space - 4) + Base * LastByte(chunks, Space - 3)

\* It is the entry point if it lies in the code range.
EntryPoint(chunks) ==
  IF HasVector(chunks) /\ Vector(chunks) \in CodeLow(chunks)..CodeHigh(chunks)
  THEN Vector(chunks) ELSE CodeLow(chunks)
=============================================================================
