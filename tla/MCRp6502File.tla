--------------------------- MODULE MCRp6502File ---------------------------
(***************************************************************************)
(* Instances of Rp6502File for TLC: every ROM of a few chunks in a memory  *)
(* of sixteen addresses, the vectors at 10 to 15 and XRAM from 16 on.      *)
(***************************************************************************)
EXTENDS Rp6502File

Chunk(addr, payload) ==
  [kind |-> "chunk", addr |-> addr, len |-> Len(payload), payload |-> payload,
   crc |-> Promise!Crc32(payload)]
Line(kind) == [kind |-> kind]

\* Code low, code high and code that reaches into the vectors; the vector as a
\* whole, as two halves, within the code and beyond it; XRAM; and chunks that
\* are too long, straddle RAM and XRAM, are empty, cut short, or corrupt.
MCItems ==
  {Line("comment"), Line("malformed"), Line("tooLong"),
   Chunk(0, <<1>>), Chunk(2, <<1, 2>>), Chunk(3, <<3>>), Chunk(9, <<1, 2, 3, 3, 1>>),
   Chunk(12, <<2, 0>>), Chunk(12, <<1>>), Chunk(13, <<1>>), Chunk(12, <<3, 3>>),
   Chunk(16, <<1>>), Chunk(31, <<1>>), Chunk(15, <<1, 1>>), Chunk(31, <<1, 1>>),
   Chunk(32, <<1>>), Chunk(4, <<>>), Chunk(0, [i \in 1..16 |-> 1]),
   [Chunk(0, <<1>>) EXCEPT !.len = 17],
   [Chunk(2, <<1>>) EXCEPT !.len = 3],
   [Chunk(2, <<2>>) EXCEPT !.crc = (@ \ {31}) \cup ({31} \ @)]}

FewItems == {Chunk(0, <<1>>), Chunk(3, <<3>>), Chunk(12, <<2, 0>>)}
=============================================================================
