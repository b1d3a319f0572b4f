----------------------------- MODULE MCCpu6502 -----------------------------
(***************************************************************************)
(* Instances of Cpu6502 for TLC.                                           *)
(***************************************************************************)
EXTENDS Cpu6502, TLC

MCModel == Tables!CPUs
MCDecodeTable == Tables!OpcodeTable
MCTable == Tables!ExecTable
MCNMOS == Tables!CPUs \ Tables!CMOS

\* What control reaches from a in a program of a few instructions.
ReachFrom(c, m, a) ==
  LET after[n \in 0..12] ==
        IF n = 0 THEN [all |-> {a}, new |-> {a}]
        ELSE LET before == after[n - 1]
                 found  == UNION {Follows(c, m, b) : b \in before.new} \ before.all
             IN  [all |-> before.all \cup found, new |-> found]
  IN  after[12].all

Program(c, m, a, k, n) ==
  [cpu |-> c, mem |-> m, start |-> a, reach |-> ReachFrom(c, m, a), calls |-> k, left |-> n]

At(a, bytes) == [b \in {Wrap16(a + i - 1) : i \in DOMAIN bytes} |-> bytes[Wrap16(b - a) + 1]]

\* Every opcode of every model once, with displacements of both signs and
\* operands in the first pages and the last, there and across $ffff.
Single ==
  {Program(c, At(a, <<op>> \o operands), a, 0, 1) :
     c \in MCModel, op \in Byte, a \in {4096, 65535},
     operands \in {<<2, 255>>, <<254, 3>>}}

\* Programs of two pieces and a jump back, with a subroutine, a handler that
\* uses the stack, and one that does not.
Pieces == {<<\h58>>, <<\hcb>>, <<\h03>>, <<\h68>>, <<\h00, \hea>>, <<\h20, \h20, \h02>>}

Loop(x, y) ==
  At(512, x \o y \o <<\h4c, 0, 2>>)
  @@ At(544, <<\h08, \h78, \h28, \h60>>)
  @@ At(560, <<\h48, \h58, \h68, \h40>>)
  @@ At(576, <<\h40>>)
  @@ At(NMI_VEC, <<64, 2, 0, 2, 48, 2>>)

Loops == {Program("CPU_W65C02", Loop(x, y), 512, 2, 8) : x, y \in Pieces}

Programs == Single \cup Loops
=============================================================================
