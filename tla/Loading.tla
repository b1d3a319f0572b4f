------------------------------ MODULE Loading ------------------------------
(***************************************************************************)
(* What the readers promise main: the memory and the range that a list of  *)
(* records [addr, bytes], in the order of the file, comes to.  HexFile and *)
(* Rp6502File are checked to keep the promise, Dis starts from it.         *)
(***************************************************************************)
EXTENDS Integers, Sequences

CONSTANT Space     \* the number of addresses

Narrow(n) == n % Space

\* A record that goes past the top goes on at 0.
Covered(record) == {Narrow(record.addr + i - 1) : i \in DOMAIN record.bytes}

ByteOf(record, a) == record.bytes[Narrow(a - record.addr) + 1]

CoveredBy(records) == UNION {Covered(records[i]) : i \in DOMAIN records}

Greatest(S) == CHOOSE n \in S : \A m \in S : m <= n
Least(S)    == CHOOSE n \in S : \A m \in S : n <= m

\* The last record that has a byte for an address gives it.
LastByte(records, a) ==
  ByteOf(records[Greatest({i \in DOMAIN records : a \in Covered(records[i])})], a)

\* Memory after loading.  dis.c maps 0xffff bytes: the last address has none.
Image(records) == [a \in CoveredBy(records) \ {Space - 1} |-> LastByte(records, a)]

-----------------------------------------------------------------------------
\* The range of an Intel HEX file: from the address of its first record that
\* is not at 0, or 0 if there is none, to the greatest end of a record.
HexBase(records) ==
  LET starts == {i \in DOMAIN records : records[i].addr # 0}
  IN  IF starts = {} THEN 0 ELSE records[Least(starts)].addr

HexEnd(records) ==
  Greatest({0} \cup {Narrow(records[i].addr + Len(records[i].bytes) - 1) : i \in DOMAIN records})
=============================================================================
