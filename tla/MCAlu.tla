------------------------------- MODULE MCAlu -------------------------------
(***************************************************************************)
(* The routines and operands of Alu for TLC.                               *)
(***************************************************************************)
EXTENDS AluRoutines

MCCMOS == {"CPU_65C02", "CPU_W65C02", "CPU_R65C02"}

\* A page: the low and high bytes of two operands, what R has before, and zeros.
Memory(a0, a1, b0, b1, r) ==
  LET cells == <<a0, a1, b0, b1, r, r>>
  IN  [c \in Cells |-> IF c \in DOMAIN cells THEN cells[c] ELSE 0]

Edges    == {0, 1, 2, 85, 127, 128, 129, 254, 255}
Few      == {0, 127, 128, 255}
Decimals == {16 * t + u : t \in {0, 1, 4, 5, 8, 9}, u \in {0, 1, 5, 9}}
FewDecimals == {0, 80, 153}

Pairs(Low, High) == {Memory(a0, a1, b0, b1, 165) : a0, b0 \in Low, a1, b1 \in High}
Singles(Low, High) == {Memory(a0, a1, 0, 0, 165) : a0 \in Low, a1 \in High}


Everyone  == {"CPU_6502", "CPU_6502U", "CPU_65C02"}

\* A routine of the library, for some models and operands.
For(r, models, operands) ==
  [task |-> Library[r].task, decimal |-> Library[r].decimal, code |-> Library[r].code,
   models |-> models, operands |-> operands]

MCRoutines ==
  LET Binary   == Pairs(Edges, Few)
      Digitals == Pairs(Decimals, FewDecimals)
      Words    == Singles(Edges, Edges)
      Old == {"CPU_6502"}  Undocumented == {"CPU_6502U"}
  IN
  [binarySum         |-> For("binarySum", Everyone, Binary),
   decimalSum        |-> For("decimalSum", Everyone, Digitals),
   binaryDifference  |-> For("binaryDifference", Everyone, Binary),
   decimalDifference |-> For("decimalDifference", Everyone, Digitals),
   loopedSum         |-> For("loopedSum", Old, Pairs(Few, Few)),
   bitwiseSum        |-> For("bitwiseSum", Undocumented, Pairs(Edges, {0})),
   byIncrement       |-> For("byIncrement", Undocumented, Binary),
   toDecimal         |-> For("toDecimal", Everyone, Singles(Byte, {0})),
   product           |-> For("product", Old, Pairs(Edges, {0})),
   quotient          |-> For("quotient", Old, {m \in Pairs(Edges, {0}) : m[B] \in 1..128}),
   unsignedLess      |-> For("unsignedLess", Old, Binary),
   signedLess        |-> For("signedLess", Old, Binary),
   equal             |-> For("equal", Old, Binary),
   equalToo          |-> For("equalToo", Undocumented, Binary),
   double            |-> For("double", Old, Words),
   doubleToo         |-> For("doubleToo", Undocumented, Words),
   half              |-> For("half", Old, Words),
   halfToo           |-> For("halfToo", Undocumented, Words),
   halfInA           |-> For("halfInA", Undocumented, Words),
   up                |-> For("up", Old, Words),
   down              |-> For("down", Old, Words),
   downToo           |-> For("downToo", Undocumented, Words),
   extend            |-> For("extend", Undocumented, Words),
   extendToo         |-> For("extendToo", {"CPU_W65C02"}, Words),
   copy              |-> For("copy", {"CPU_W65C02"}, Words),
   copyToo           |-> For("copyToo", {"CPU_R65C02"}, Words),
   merge             |-> For("merge", {"CPU_65C02"}, Pairs(Edges, {0}))]
=============================================================================
