------------------------------ MODULE Opcodes ------------------------------
(***************************************************************************)
(* The five opcode tables of vrEmu6502.c, in the detail the disassembler   *)
(* and the CPU's program counter can tell apart: the addressing function   *)
(* of every opcode, and its mnemonic where the mnemonic decides how the    *)
(* instruction is measured or where control goes next.  Every other        *)
(* instruction has the mnemonic "other".                                   *)
(*                                                                         *)
(* The tables are close to each other.  _std6502 is _std6502U with the     *)
(* undocumented opcodes replaced by `invalid'; _r65c02 is _std65c02 with   *)
(* RMB/SMB/BBR/BBS in columns 7 and F; _wdc65c02 is _r65c02 with WAI and   *)
(* STP.  They are written that way here.                                   *)
(***************************************************************************)
EXTENDS Integers

Byte == 0..255

\* The models of vrEmu6502Model that have a table of their own.
CPUs == {"CPU_6502", "CPU_6502U", "CPU_65C02", "CPU_W65C02", "CPU_R65C02"}

CMOS == {"CPU_65C02", "CPU_W65C02", "CPU_R65C02"}

Column(op) == op % 16

\* The opcodes that are `invalid' in _std6502: columns 3, 7, B and F, and
\* the holes the NMOS decoder left in the others.
Undocumented ==
  {op \in Byte : op % 4 = 3} \cup
  {\h02, \h04, \h0c, \h12, \h14, \h1a, \h1c, \h22, \h32, \h34, \h3a, \h3c,
   \h42, \h44, \h52, \h54, \h5a, \h5c, \h62, \h64, \h72, \h74, \h7a, \h7c,
   \h80, \h82, \h89, \h92, \h9c, \h9e, \hb2, \hc2, \hd2, \hd4, \hda, \hdc,
   \he2, \hf2, \hf4, \hfa, \hfc}

\* Addressing functions of _std6502U, one row per high nibble.
ModesNMOS ==
  << <<"imp", "xin", "imp", "xin", "zp", "zp", "zp", "zp", "imp", "imm", "acc", "imm", "ab", "ab", "ab", "ab">>,
     <<"rel", "yip", "imp", "yin", "zpx", "zpx", "zpx", "zpx", "imp", "ayp", "imp", "aby", "axp", "axp", "abx", "abx">>,
     <<"ab", "xin", "imp", "xin", "zp", "zp", "zp", "zp", "imp", "imm", "acc", "imm", "ab", "ab", "ab", "ab">>,
     <<"rel", "yip", "imp", "yin", "zpx", "zpx", "zpx", "zpx", "imp", "ayp", "imp", "aby", "axp", "axp", "abx", "abx">>,
     <<"imp", "xin", "imp", "xin", "zp", "zp", "zp", "zp", "imp", "imm", "acc", "imm", "ab", "ab", "ab", "ab">>,
     <<"rel", "yip", "imp", "yin", "zpx", "zpx", "zpx", "zpx", "imp", "ayp", "imp", "aby", "axp", "axp", "abx", "abx">>,
     <<"imp", "xin", "imp", "xin", "zp", "zp", "zp", "zp", "imp", "imm", "acc", "imm", "ind", "ab", "ab", "ab">>,
     <<"rel", "yip", "imp", "yin", "zpx", "zpx", "zpx", "zpx", "imp", "ayp", "imp", "aby", "axp", "axp", "abx", "abx">>,
     <<"imm", "xin", "imm", "xin", "zp", "zp", "zp", "zp", "imp", "imm", "imp", "imm", "ab", "ab", "ab", "ab">>,
     <<"rel", "yin", "imp", "zpy", "zpx", "zpx", "zpy", "zpy", "imp", "aby", "imp", "aby", "abx", "abx", "aby", "aby">>,
     <<"imm", "xin", "imm", "xin", "zp", "zp", "zp", "zp", "imp", "imm", "imp", "imm", "ab", "ab", "ab", "ab">>,
     <<"rel", "yip", "imp", "yip", "zpx", "zpx", "zpy", "zpy", "imp", "ayp", "imp", "ayp", "axp", "axp", "ayp", "ayp">>,
     <<"imm", "xin", "imm", "xin", "zp", "zp", "zp", "zp", "imp", "imm", "imp", "imm", "ab", "ab", "ab", "ab">>,
     <<"rel", "yip", "imp", "yin", "zpx", "zpx", "zpx", "zpx", "imp", "ayp", "imp", "aby", "axp", "axp", "abx", "abx">>,
     <<"imm", "xin", "imm", "xin", "zp", "zp", "zp", "zp", "imp", "imm", "imp", "imm", "ab", "ab", "ab", "ab">>,
     <<"rel", "yip", "imp", "yin", "zpx", "zpx", "zpx", "zpx", "imp", "ayp", "imp", "aby", "axp", "axp", "abx", "abx">> >>

\* Addressing functions of _std65c02.
ModesCMOS ==
  << <<"imp", "xin", "imm", "imp", "zp", "zp", "zp", "imp", "imp", "imm", "acc", "imp", "ab", "ab", "ab", "imp">>,
     <<"rel", "yip", "zpi", "imp", "zp", "zpx", "zpx", "imp", "imp", "ayp", "acc", "imp", "ab", "axp", "axp", "imp">>,
     <<"ab", "xin", "imm", "imp", "zp", "zp", "zp", "imp", "imp", "imm", "acc", "imp", "ab", "ab", "ab", "imp">>,
     <<"rel", "yip", "zpi", "imp", "zpx", "zpx", "zpx", "imp", "imp", "ayp", "acc", "imp", "abx", "axp", "axp", "imp">>,
     <<"imp", "xin", "imm", "imp", "zp", "zp", "zp", "imp", "imp", "imm", "acc", "imp", "ab", "ab", "ab", "imp">>,
     <<"rel", "yip", "zpi", "imp", "zpx", "zpx", "zpx", "imp", "imp", "ayp", "imp", "imp", "ab", "axp", "axp", "imp">>,
     <<"imp", "xin", "imm", "imp", "zp", "zp", "zp", "imp", "imp", "imm", "acc", "imp", "ind", "ab", "ab", "imp">>,
     <<"rel", "yip", "zpi", "imp", "zpx", "zpx", "zpx", "imp", "imp", "ayp", "imp", "imp", "indx", "axp", "axp", "imp">>,
     <<"rel", "xin", "imm", "imp", "zp", "zp", "zp", "imp", "imp", "imm", "imp", "imp", "ab", "ab", "ab", "imp">>,
     <<"rel", "yin", "zpi", "imp", "zpx", "zpx", "zpy", "imp", "imp", "aby", "imp", "imp", "ab", "abx", "abx", "imp">>,
     <<"imm", "xin", "imm", "imp", "zp", "zp", "zp", "imp", "imp", "imm", "imp", "imp", "ab", "ab", "ab", "imp">>,
     <<"rel", "yip", "zpi", "imp", "zpx", "zpx", "zpy", "imp", "imp", "ayp", "imp", "imp", "axp", "axp", "ayp", "imp">>,
     <<"imm", "xin", "imm", "imp", "zp", "zp", "zp", "imp", "imp", "imm", "imp", "imp", "ab", "ab", "ab", "imp">>,
     <<"rel", "yip", "zpi", "imp", "zpx", "zpx", "zpx", "imp", "imp", "ayp", "imp", "imp", "ab", "axp", "abx", "imp">>,
     <<"imm", "xin", "imm", "imp", "zp", "zp", "zp", "imp", "imp", "imm", "imp", "imp", "ab", "ab", "ab", "imp">>,
     <<"rel", "yip", "zpi", "imp", "zpx", "zpx", "zpx", "imp", "imp", "ayp", "imp", "imp", "ab", "axp", "abx", "imp">> >>

\* Columns 7 and F of the Rockwell and WDC parts: RMB/SMB and BBR/BBS.
BitOp(cpu, op) == cpu \in {"CPU_W65C02", "CPU_R65C02"} /\ Column(op) \in {7, 15}

\* vr6502->opcodes[op].addrMode under the table vrEmu6502New picks for cpu.
AddrFn(cpu, op) ==
  IF cpu \in CMOS
  THEN IF BitOp(cpu, op) THEN "zp" ELSE ModesCMOS[op \div 16 + 1][Column(op) + 1]
  ELSE IF cpu = "CPU_6502" /\ op \in Undocumented THEN "imp"
  ELSE ModesNMOS[op \div 16 + 1][Column(op) + 1]

\* The conditional branches and jumps of every model.
DocumentedFlow ==
  [op \in {\h00, \h20, \h40, \h4c, \h60, \h6c} |->
     CASE op = \h00 -> "brk"
       [] op = \h20 -> "jsr"
       [] op = \h40 -> "rti"
       [] op = \h60 -> "rts"
       [] op \in {\h4c, \h6c} -> "jmp"]

BranchOps == {\h10, \h30, \h50, \h70, \h90, \hb0, \hd0, \hf0}

JamOps == {\h02, \h12, \h22, \h32, \h42, \h52, \h62, \h72, \h92, \hb2, \hd2, \hf2}

\* The mnemonic string the table entry yields, "other" where it is neither
\* measured specially nor a change of control; "bcond" is any of the eight
\* conditional branches, "bbx" any of BBR0-7 and BBS0-7.
MnemonicOf(cpu, op) ==
  CASE op \in DOMAIN DocumentedFlow -> DocumentedFlow[op]
    [] op \in BranchOps -> "bcond"
    [] cpu = "CPU_6502U" /\ op \in JamOps -> "jam"
    [] cpu \in CMOS /\ op = \h7c -> "jmp"
    [] cpu \in CMOS /\ op = \h80 -> "bra"
    [] BitOp(cpu, op) /\ Column(op) = 15 -> "bbx"
    [] cpu = "CPU_W65C02" /\ op = \hcb -> "wai"
    [] cpu = "CPU_W65C02" /\ op = \hdb -> "stp"
    [] OTHER -> "other"

\* opcodeToAddrMode: the public enumeration of an addressing function.  It
\* has no case for acc, which falls through to AddrModeImp.
AddrModeOf(fn) ==
  CASE fn = "ab" -> "Abs"
    [] fn \in {"abx", "axp"} -> "AbsX"
    [] fn \in {"aby", "ayp"} -> "AbsY"
    [] fn = "imm" -> "Imm"
    [] fn = "ind" -> "AbsInd"
    [] fn = "indx" -> "AbsIndX"
    [] fn = "rel" -> "Rel"
    [] fn = "xin" -> "IndX"
    [] fn \in {"yin", "yip"} -> "IndY"
    [] fn = "zp" -> "ZP"
    [] fn = "zpi" -> "ZPI"
    [] fn = "zpx" -> "ZPX"
    [] fn = "zpy" -> "ZPY"
    [] OTHER -> "Imp"

\* The caches vrEmu6502New builds: mnemonicNames and addrModes of a model.
OpcodeTable ==
  [cpu \in CPUs |->
     [op \in Byte |-> [mnemonic |-> MnemonicOf(cpu, op),
                       mode |-> AddrModeOf(AddrFn(cpu, op))]]]

\* What the instruction function of an entry does beyond its addressing
\* function, as far as the stack, the interrupt flag and the program counter
\* go: the mnemonic, and a division of "other" by the stack and the flag.
InstructionOf(cpu, op) ==
  CASE op = \h48 \/ (cpu \in CMOS /\ op \in {\h5a, \hda}) -> "push"
    [] op = \h68 \/ (cpu \in CMOS /\ op \in {\h7a, \hfa}) -> "pull"
    [] op = \h08 -> "php"
    [] op = \h28 -> "plp"
    [] op = \h9a \/ (cpu = "CPU_6502U" /\ op \in {\h9b, \hbb}) -> "txs"
    [] op = \h58 -> "cli"
    [] op = \h78 -> "sei"
    [] OTHER -> MnemonicOf(cpu, op)

\* Mutant: WAI and STP keep the one cycle of the no-operation they replace.
OneCycleColumns(cpu, op) ==
  \/ cpu = "CPU_6502U" /\ op \in JamOps
  \/ cpu \in CMOS /\ op % 4 = 3 /\ ~BitOp(cpu, op)

\* Entries with a cycle count of 1: kil and unnop11.
OneCycle(cpu, op) ==
  \/ cpu = "CPU_6502U" /\ op \in JamOps
  \/ /\ cpu \in CMOS /\ op % 4 = 3 /\ ~BitOp(cpu, op)
     /\ MnemonicOf(cpu, op) = "other"

\* What vrEmu6502Tick looks up.
ExecTable ==
  [cpu \in CPUs |->
     [op \in Byte |-> [instruction |-> InstructionOf(cpu, op),
                       addrMode |-> AddrFn(cpu, op),
                       oneCycle |-> OneCycle(cpu, op)]]]
=============================================================================
