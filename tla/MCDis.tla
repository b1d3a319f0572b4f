------------------------------- MODULE MCDis -------------------------------
(***************************************************************************)
(* Instances of Dis for TLC.                                               *)
(***************************************************************************)
EXTENDS Dis, TLC

Tables == INSTANCE Opcodes
MCOpcodeTable == Tables!OpcodeTable
MCModel == Tables!CPUs

File1(format, records) == [format |-> format, sound |-> TRUE, records |-> records]
RomOf(records) == File1("rom", records)
HexOf(records) == File1("hex", records)
At(a, bytes) == [addr |-> a, bytes |-> bytes]

Called(words, file) == [argv |-> words, files |-> "prog" :> file]
Listings(fs) == {Called(<<"prog">>, f) : f \in fs}

\* ROMs in page zero that jump into their own operands: BIT abs, JSR, BNE,
\* RTS, and the operand bytes they need.
Overlapping ==
  {RomOf(<<At(0, s)>>) :
     s \in {t \in [1..6 -> {\h2c, \h20, \hd0, \h00, \h01, \h60}] : t[1] # \h01 /\ t[6] = \h60}}

\* HEX files loaded up to the last byte, and on around to 1.
TopOfMemory == {HexOf(<<At(65532, s \o <<\h60>>)>>) : s \in [1..3 -> {\h20, \hd0, \hea, \hfd, \hff}]}
Around == {HexOf(<<At(65532, s \o <<0, 0, \h60>>)>>) : s \in [1..3 -> {\h20, \hd0, \hea, \hfd, \hff}]}

\* A range that ends before it starts; records at 0 alone, and of no byte; a
\* ROM of vectors alone, and one its reader refuses.
Odd == {HexOf(<<At(512, <<>>), At(256, <<\h60>>)>>),
        HexOf(<<At(0, <<\h60>>)>>), HexOf(<<At(512, <<>>)>>), HexOf(<<>>),
        RomOf(<<At(65532, <<0, 2>>)>>), [RomOf(<<At(512, <<\h60>>)>>) EXCEPT !.sound = FALSE]}

\* Records in any order and over one another: JSR $0202, RTS, JSR $0200, BRA -4.
Pieces == {At(512, <<\h20, 2, 2>>), At(514, <<\h60>>), At(515, <<\h20, 0, 2>>),
           At(514, <<\h80, \hfc>>), At(65532, <<2, 2>>), At(65532, <<3, 2>>)}
PieceSeqs == UNION {[1..n -> Pieces] : n \in 1..3}
Pieced == {HexOf(s) : s \in {t \in PieceSeqs : \A i \in DOMAIN t : t[i].addr < 65532}}
          \cup {RomOf(s) : s \in PieceSeqs}

\* Every command of up to three words.
Words == {"--cpu", "--linear", "--help", "--bogus", "6502", "w65c02", "prog"}
Worded == {Called(w, HexOf(<<At(512, <<\h00, \h20, \h80>>)>>)) :
             w \in UNION {[1..n -> Words] : n \in 0..3}}

MCCommands ==
  Listings(Overlapping \cup TopOfMemory \cup Around \cup Odd \cup Pieced) \cup Worded
  \cup {Called(<<"--linear", "prog">>, f) : f \in TopOfMemory \cup Around \cup Odd \cup Pieced}

MCOptions == {"--cpu", "--linear", "--help", "--bogus"}

\* A file may well start with an instruction control jumps into.
OverlappingOnly == Listings(Overlapping)

\* A ROM whose reset vector points past its first routine.
BelowEntry == Listings({RomOf(s) : s \in [1..3 -> Pieces]})
=============================================================================
