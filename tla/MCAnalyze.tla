----------------------------- MODULE MCAnalyze -----------------------------
(***************************************************************************)
(* Instances of Analyze for TLC: every program of a few bytes over a small *)
(* instruction vocabulary, under the opcode tables of vrEmu6502.c.         *)
(***************************************************************************)
EXTENDS Analyze

Tables == INSTANCE Opcodes
MCOpcodeTable == Tables!OpcodeTable
MCModel == Tables!CPUs

\* Programs in page zero, where an operand byte can name an address of the
\* program: JSR, BNE, RTS, BRK or operand 0, and $fe, a three-byte instruction
\* and the displacement -2.
ZeroPage ==
  {m \in [0..4 -> {\h20, \hd0, \h60, \h00, \hfe}] :
      m[0] \in {\h20, \hd0} /\ m[4] \in {\h00, \h60, \hfe}}

\* Programs that run into $ffff: bytes $fd and $ff are both high bytes of
\* addresses of the program and backward displacements.
TopOfMemory == [65533..65535 -> {\h20, \h4c, \hd0, \hea, \hfd, \hff}]

Over(cpus, images, first) ==
  {[cpu |-> c, mem |-> m, lo |-> first, hi |-> CHOOSE a \in DOMAIN m : \A b \in DOMAIN m : b <= a] :
      c \in cpus, m \in images}

SmallInputs ==
  Over({"CPU_W65C02"}, ZeroPage, 0)
  \cup Over({"CPU_W65C02"}, TopOfMemory, 65533)
  \cup Over({NoCpu}, [0..1 -> {\h20, \h60}], 0)

SmallEntries == {0, 3, 65533}
=============================================================================
