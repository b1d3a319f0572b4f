----------------------------- MODULE MCHexFile -----------------------------
(***************************************************************************)
(* Instances of HexFile for TLC: every file of a few lines over a small    *)
(* choice of lines, in a memory of eight addresses.                        *)
(***************************************************************************)
EXTENDS HexFile

Record(type, addr, count, bytes) ==
  [colon |-> TRUE, type |-> type, addr |-> addr, count |-> count, bytes |-> bytes]
Data(addr, bytes) == Record(0, addr, Len(bytes), bytes \o <<1>>)

Blank    == [colon |-> FALSE, type |-> 0, addr |-> 0, count |-> 0, bytes |-> <<>>]
Comment  == [colon |-> FALSE, type |-> 0, addr |-> 0, count |-> 0, bytes |-> <<2, 2, 2>>]
Eof      == Record(1, 0, 0, <<1>>)
Extended == Record(4, 0, 2, <<0, 1, 1>>)   \* ignored, but its bytes are counted
Short    == Record(0, 2, 3, <<>>)          \* no pair at all for three bytes

\* Low and high records, one over another, one that goes on past the top, one
\* at 0, and one without any byte.
MCLines ==
  {Blank, Comment, Eof, Extended, Short,
   Data(0, <<1>>), Data(1, <<1, 2>>), Data(2, <<2, 1>>), Data(4, <<1, 1>>),
   Data(6, <<2, 1, 2>>), Data(5, <<>>)}

FewLines == {Data(0, <<1>>), Data(6, <<2, 1>>), Eof}
=============================================================================
