--------------------------- MODULE Cpu6502Proofs ---------------------------
(***************************************************************************)
(* Theorems about Cpu6502, for every program and every set of addresses    *)
(* closed under its control flow, whatever the client does between ticks:  *)
(* the CPU steps where the decoder says, returns come home, and interrupts *)
(* do not lead execution out of what the analysis has reached.             *)
(***************************************************************************)
EXTENDS Cpu6502, SequenceTheorems, TLAPS

-----------------------------------------------------------------------------
(* The opcode tables.                                                      *)

AddrFns == {"imp", "acc", "imm", "rel", "ab", "abx", "aby", "axp", "ayp", "ind",
            "indx", "xin", "yin", "yip", "zp", "zpi", "zpx", "zpy"}

\* The indirect jumps have addressing functions no other opcode has.
LEMMA RowsNMOS ==
  \A r, c \in 1..16 :
    /\ Tables!ModesNMOS[r][c] \in AddrFns \ {"indx"}
    /\ Tables!ModesNMOS[r][c] = "ind" <=> r = 7 /\ c = 13
BY DEF Tables!ModesNMOS, AddrFns

LEMMA RowsCMOS ==
  \A r, c \in 1..16 :
    /\ Tables!ModesCMOS[r][c] \in AddrFns
    /\ Tables!ModesCMOS[r][c] = "ind" <=> r = 7 /\ c = 13
    /\ Tables!ModesCMOS[r][c] = "indx" <=> r = 8 /\ c = 13
BY DEF Tables!ModesCMOS, AddrFns

LEMMA RowOf ==
  ASSUME NEW op \in Byte
  PROVE  /\ op \div 16 + 1 \in 1..16 /\ (op % 16) + 1 \in 1..16
         /\ op \div 16 + 1 = 7 /\ (op % 16) + 1 = 13 <=> op = 108
         /\ op \div 16 + 1 = 8 /\ (op % 16) + 1 = 13 <=> op = 124
BY SMT DEF Byte

LEMMA AddrFnKnown ==
  ASSUME NEW c, NEW op \in Byte
  PROVE  /\ Tables!AddrFn(c, op) \in AddrFns
         /\ Tables!AddrFn(c, op) = "ind" => op = 108
         /\ Tables!AddrFn(c, op) = "indx" => op = 124 /\ c \in Tables!CMOS
<1>1. PICK r, k \in 1..16 : r = op \div 16 + 1 /\ k = (op % 16) + 1
  BY RowOf
<1>2. r = 7 /\ k = 13 <=> op = 108
  BY <1>1, RowOf
<1>3. r = 8 /\ k = 13 <=> op = 124
  BY <1>1, RowOf
<1>4. Tables!AddrFn(c, op) =
        IF c \in Tables!CMOS
        THEN IF Tables!BitOp(c, op) THEN "zp" ELSE Tables!ModesCMOS[r][k]
        ELSE IF c = "CPU_6502" /\ op \in Tables!Undocumented THEN "imp"
        ELSE Tables!ModesNMOS[r][k]
  BY <1>1 DEF Tables!AddrFn, Tables!Column
<1>5. /\ Tables!ModesNMOS[r][k] \in AddrFns \ {"indx"}
      /\ Tables!ModesNMOS[r][k] = "ind" <=> op = 108
      /\ Tables!ModesCMOS[r][k] \in AddrFns
      /\ Tables!ModesCMOS[r][k] = "ind" <=> op = 108
      /\ Tables!ModesCMOS[r][k] = "indx" <=> op = 124
  BY <1>2, <1>3, RowsNMOS, RowsCMOS
<1>6. CASE c \in Tables!CMOS
  BY <1>4, <1>5, <1>6 DEF AddrFns
<1>7. CASE c \notin Tables!CMOS
  BY <1>4, <1>5, <1>7 DEF AddrFns
<1> QED
  BY <1>6, <1>7

\* The opcodes that are told apart by their number.
LEMMA AddrFnAt ==
  ASSUME NEW c
  PROVE  /\ Tables!AddrFn(c, 32) = "ab" /\ Tables!AddrFn(c, 76) = "ab"
         /\ Tables!AddrFn(c, 108) = "ind"
         /\ c \in Tables!CMOS => Tables!AddrFn(c, 124) = "indx" /\ Tables!AddrFn(c, 128) = "rel"
         /\ \A op \in ConditionalBranches : Tables!AddrFn(c, op) = "rel"
BY DEF Tables!AddrFn, Tables!Column, Tables!BitOp, Tables!Undocumented, Tables!CMOS,
       Tables!ModesNMOS, Tables!ModesCMOS, ConditionalBranches

LEMMA Entries ==
  ASSUME NEW c \in Model, NEW op \in Byte
  PROVE  /\ Table[c][op].instruction = Tables!InstructionOf(c, op)
         /\ Table[c][op].addrMode = Tables!AddrFn(c, op)
         /\ DecodeTable[c][op].mnemonic = Tables!MnemonicOf(c, op)
         /\ DecodeTable[c][op].mode = Tables!AddrModeOf(Tables!AddrFn(c, op))
BY TablesAssumption DEF Tables!ExecTable, Tables!OpcodeTable, Tables!Byte, Byte

\* How far an addressing function moves the program counter, and the bytes
\* the decoder counts for the mode it stands for.
LEMMA ModeLength ==
  ASSUME NEW fn \in AddrFns \ {"ind", "indx"}
  PROVE  LET mode == Tables!AddrModeOf(fn)
         IN  1 + Advance(fn) = IF mode \in ThreeByteModes THEN 3
                               ELSE IF mode \in TwoByteModes THEN 2 ELSE 1
BY DEF AddrFns, Advance, Tables!AddrModeOf, ThreeByteModes, TwoByteModes

\* The mnemonics told apart, by opcode.
LEMMA Names ==
  ASSUME NEW c, NEW op \in Byte
  PROVE  Tables!MnemonicOf(c, op) =
           IF op = 0 THEN "brk" ELSE IF op = 32 THEN "jsr" ELSE IF op = 64 THEN "rti"
           ELSE IF op = 96 THEN "rts" ELSE IF op \in {76, 108} THEN "jmp"
           ELSE IF op \in ConditionalBranches THEN "bcond"
           ELSE IF c = "CPU_6502U" /\ op \in Tables!JamOps THEN "jam"
           ELSE IF c \in Tables!CMOS /\ op = 124 THEN "jmp"
           ELSE IF c \in Tables!CMOS /\ op = 128 THEN "bra"
           ELSE IF Tables!BitOp(c, op) /\ op % 16 = 15 THEN "bbx"
           ELSE IF c = "CPU_W65C02" /\ op = 203 THEN "wai"
           ELSE IF c = "CPU_W65C02" /\ op = 219 THEN "stp"
           ELSE "other"
<1>1. CASE op \in {0, 32, 64, 76, 96, 108}
  <2>1. op \in DOMAIN Tables!DocumentedFlow
    BY <1>1 DEF Tables!DocumentedFlow
  <2>2. Tables!MnemonicOf(c, op) = Tables!DocumentedFlow[op]
    BY <1>1, <2>1 DEF Tables!MnemonicOf, Tables!BranchOps, Tables!JamOps, Tables!BitOp, Tables!Column
  <2> QED
    BY <1>1, <2>2 DEF Tables!DocumentedFlow
<1>2. CASE op \notin {0, 32, 64, 76, 96, 108}
  <2>1. op \notin DOMAIN Tables!DocumentedFlow
    BY <1>2 DEF Tables!DocumentedFlow
  <2> QED
    BY <1>2, <2>1
    DEF Tables!MnemonicOf, Tables!BranchOps, ConditionalBranches, Tables!JamOps, Tables!BitOp, Tables!Column
<1> QED
  BY <1>1, <1>2

RunsOn == {"other", "cli", "sei", "push", "php", "pull", "plp", "txs", "wai"}

\* The table the CPU executes by and the one the decoder measures by say the
\* same of every opcode of every model: how many bytes it takes and whether
\* control goes on, branches, jumps, calls or returns.
Agree(c, op) ==
  LET does  == Table[c][op].instruction
      fn    == Table[c][op].addrMode
      moves == 1 + Advance(fn)
      len   == DisInstLen(c, op)
      flow  == FlowOfOp(Mnemonic(c, op), op)
  IN  /\ c # NoCpu
      /\ does \in RunsOn => flow = "Normal" /\ len = moves /\ moves \in 1..3
      /\ does = "bcond" => /\ flow = "Branch" /\ len = 2 /\ moves = 2
                           /\ ~disIsBitBranch(c, op) /\ op \notin {32, 76}
      /\ does = "bbx" => flow = "Branch" /\ len = 3 /\ moves = 2 /\ disIsBitBranch(c, op)
      /\ does = "bra" => /\ flow = "Jump" /\ len = 2 /\ moves = 2
                         /\ ~disIsBitBranch(c, op) /\ op = 128
      /\ does = "jmp" => \/ flow = "Indirect" /\ fn # "ab"
                         \/ flow = "Jump" /\ fn = "ab" /\ ~disIsBitBranch(c, op) /\ op = 76
      /\ does = "jsr" => /\ flow = "Call" /\ len = 3 /\ moves = 3
                         /\ ~disIsBitBranch(c, op) /\ op = 32
      /\ does \in {"rts", "rti", "brk", "stp", "jam"} => flow = "Return"
      /\ does = "brk" => len = 2

LEMMA TablesAgree == \A c \in Model : \A op \in Byte : Agree(c, op)
<1> SUFFICES ASSUME NEW c \in Model, NEW op \in Byte
             PROVE  Agree(c, op)
  OBVIOUS
<1> DEFINE does == Tables!InstructionOf(c, op)
           fn   == Tables!AddrFn(c, op)
           name == Tables!MnemonicOf(c, op)
           mode == Tables!AddrModeOf(fn)
           len  == DisInstLen(c, op)
<1>1. /\ Table[c][op].instruction = does /\ Table[c][op].addrMode = fn
      /\ Mnemonic(c, op) = name /\ DecodeTable[c][op].mode = mode
  BY Entries DEF Mnemonic
<1>2. c # NoCpu
  BY TableAssumption
<1>3. /\ name = "bbx" => len = 3 /\ fn = "zp"
      /\ name = "brk" => len = 2
      /\ name \notin {"bbx", "brk"} /\ fn \notin {"ind", "indx"} => len = 1 + Advance(fn)
  <2>1. name = "bbx" => fn = "zp"
    BY DEF Tables!MnemonicOf, Tables!AddrFn, Tables!DocumentedFlow, Tables!BranchOps,
           Tables!BitOp, Tables!CMOS, Byte
  <2>2. name = "brk" => op = 0
    BY DEF Tables!MnemonicOf, Tables!DocumentedFlow
  <2>3. fn \notin {"ind", "indx"} =>
          1 + Advance(fn) = IF mode \in ThreeByteModes THEN 3
                            ELSE IF mode \in TwoByteModes THEN 2 ELSE 1
    BY AddrFnKnown, ModeLength
  <2> QED
    BY <1>1, <1>2, <2>1, <2>2, <2>3 DEF DisInstLen, disIsBitBranch, disIsBrk
<1>4. Advance(fn) \in 0..2
  BY DEF Advance
<1>5. does = name \/ (name = "other" /\ does \in RunsOn)
  BY Names DEF Tables!InstructionOf, ConditionalBranches,
         Tables!JamOps, Tables!BitOp, Tables!Column, Tables!CMOS, RunsOn
<1>6. /\ fn \in {"ind", "indx"} => name = "jmp"
      /\ name = "jmp" => (op = 76 /\ fn = "ab") \/ (op \in {108, 124} /\ fn # "ab")
      /\ name = "bcond" => op \in ConditionalBranches /\ fn = "rel"
      /\ name = "bra" => op = 128 /\ fn = "rel"
      /\ name = "jsr" => op = 32 /\ fn = "ab"
  <2>1. fn \in {"ind", "indx"} => name = "jmp"
    BY AddrFnKnown, Names DEF Tables!CMOS, ConditionalBranches
  <2>2. name = "jmp" => op \in {76, 108} \/ (op = 124 /\ c \in Tables!CMOS)
    BY Names
  <2>3. name = "bcond" => op \in ConditionalBranches
    BY Names
  <2>4. name = "bra" => op = 128 /\ c \in Tables!CMOS
    BY Names
  <2>5. name = "jsr" => op = 32
    BY Names
  <2>6. name = "jmp" => (op = 76 /\ fn = "ab") \/ (op \in {108, 124} /\ fn # "ab")
    BY <2>2, AddrFnAt
  <2> QED
    BY <2>1, <2>3, <2>4, <2>5, <2>6, AddrFnAt
<1>7. LET flow == FlowOfOp(name, op)
      IN  /\ name \in {"other", "wai"} => flow = "Normal"
          /\ name \in {"bcond", "bbx"} => flow = "Branch"
          /\ name = "bra" => flow = "Jump"
          /\ name = "jsr" => flow = "Call"
          /\ name = "jmp" => flow = IF op = 76 THEN "Jump" ELSE "Indirect"
          /\ name \in {"rts", "rti", "brk", "stp", "jam"} => flow = "Return"
  BY Names DEF FlowOfOp, ConditionalBranches,
         Tables!JamOps, Tables!BitOp, Tables!Column, Tables!CMOS
<1>8. Advance("rel") = 1 /\ Advance("zp") = 1 /\ Advance("ab") = 2
  BY DEF Advance
<1> HIDE DEF does, fn, name, mode, len
<1>9. does \in RunsOn => name \in {"other", "wai"}
  BY <1>5, Names DEF name, RunsOn
<1>10. does \notin RunsOn => does = name
  BY <1>5
<1>11. does \in RunsOn =>
         /\ FlowOfOp(name, op) = "Normal" /\ len = 1 + Advance(fn) /\ 1 + Advance(fn) \in 1..3
  BY <1>3, <1>4, <1>6, <1>7, <1>9
<1>12. ASSUME does \notin RunsOn
       PROVE  /\ does = "bcond" => /\ FlowOfOp(name, op) = "Branch" /\ len = 2 /\ fn = "rel"
                                   /\ name # "bbx" /\ op \notin {32, 76}
              /\ does = "bbx" => FlowOfOp(name, op) = "Branch" /\ len = 3 /\ fn = "zp" /\ name = "bbx"
              /\ does = "bra" => /\ FlowOfOp(name, op) = "Jump" /\ len = 2 /\ fn = "rel"
                                 /\ name # "bbx" /\ op = 128
              /\ does = "jsr" => /\ FlowOfOp(name, op) = "Call" /\ len = 3 /\ fn = "ab"
                                 /\ name # "bbx" /\ op = 32
  BY <1>3, <1>6, <1>7, <1>8, <1>10, <1>12 DEF ConditionalBranches
<1>13. ASSUME does \notin RunsOn
       PROVE  /\ does = "jmp" =>
                   \/ FlowOfOp(name, op) = "Indirect" /\ fn # "ab"
                   \/ FlowOfOp(name, op) = "Jump" /\ fn = "ab" /\ name # "bbx" /\ op = 76
              /\ does \in {"rts", "rti", "brk", "stp", "jam"} => FlowOfOp(name, op) = "Return"
              /\ does = "brk" => len = 2
  BY <1>3, <1>6, <1>7, <1>10, <1>13
<1>14. {"bcond", "bbx", "bra", "jmp", "jsr", "rts", "rti", "brk", "stp", "jam"} \cap RunsOn = {}
  BY DEF RunsOn
<1> QED
  BY <1>1, <1>2, <1>8, <1>11, <1>12, <1>13, <1>14 DEF Agree, disIsBitBranch, len

-----------------------------------------------------------------------------
(* Bytes, addresses and the stack page.                                    *)

LEMMA Space == AddrSpace \in Nat /\ AddrSpace > 512
BY SMT DEF AddrSpace

LEMMA WrapType == \A n \in Int : Wrap16(n) \in Addr
BY Space, SMT DEF Wrap16, Addr

LEMMA WrapOfAddr == \A a \in Addr : Wrap16(a) = a
BY Space, SMT DEF Wrap16, Addr

LEMMA WrapOfWrap == \A x, y \in Int : Wrap16(Wrap16(x) + y) = Wrap16(x + y)
BY SMT DEF Wrap16, AddrSpace

LEMMA ByteSplit ==
  \A a \in Addr : /\ a \div 256 \in Byte /\ a % 256 \in Byte
                  /\ (a % 256) + 256 * (a \div 256) = a
BY SMT DEF Addr, Byte, AddrSpace

LEMMA ByteJoin == \A x, y \in Byte : x + 256 * y \in Addr
<1> SUFFICES ASSUME NEW x \in Byte, NEW y \in Byte PROVE x + 256 * y \in Addr
  OBVIOUS
<1>1. 256 * y <= 256 * 255 /\ 256 * y \in Nat /\ x <= 255 /\ x \in Nat
  BY DEF Byte
<1>2. AddrSpace - 1 = 256 * 255 + 255 /\ AddrSpace \in Nat
  BY SMT DEF AddrSpace
<1>3. x + 256 * y \in Nat /\ x + 256 * y <= 256 * 255 + 255
  BY <1>1
<1> QED
  BY <1>2, <1>3 DEF Addr

LEMMA ReadType == \A m : IsImage(m) => \A a : Read(m, a) \in Byte
BY DEF IsImage, Read, Byte

LEMMA Read16Type ==
  \A m : IsImage(m) => \A a : Read16(m, a) \in Addr
<1> SUFFICES ASSUME NEW m, IsImage(m), NEW a PROVE Read16(m, a) \in Addr
  OBVIOUS
<1>1. Read(m, Wrap16(a)) \in Byte /\ Read(m, Wrap16(a + 1)) \in Byte
  BY ReadType
<1> QED
  BY <1>1, ByteJoin, WrapOfAddr DEF Read16

LEMMA SlotType == \A s \in Int : Slot(s) \in Addr /\ Slot(s) \in StackPage
BY Space, SMT DEF Slot, Addr, StackPage

\* The stack pointer wraps as the slots do.
LEMMA SlotOfWrapped == \A s, k \in Int : Slot((s % 256) + k) = Slot(s + k)
BY SMT DEF Slot

LEMMA SlotsDiffer == \A s, t \in Int : s - t \in 1..255 => Slot(s) # Slot(t)
BY SMT DEF Slot

\* A push writes its bytes to their slots and nothing else.
LEMMA PushedImage ==
  ASSUME IsImage(mem), sp \in Byte, NEW n \in 1..3, NEW bytes \in [1..n -> Byte]
  PROVE  /\ IsImage(Pushed(bytes))
         /\ \A i \in 1..n : Read(Pushed(bytes), Slot(sp - i + 1)) = bytes[i]
         /\ \A a : (\A i \in 1..n : a # Slot(sp - i + 1)) => Read(Pushed(bytes), a) = Read(mem, a)
<1> DEFINE slots == {Slot(sp - i + 1) : i \in 1..n}
<1>1. DOMAIN bytes = 1..n
  OBVIOUS
<1>2. Pushed(bytes) =
        [a \in DOMAIN mem \cup slots |->
           IF a \in slots THEN bytes[CHOOSE i \in 1..n : Slot(sp - i + 1) = a] ELSE mem[a]]
  BY <1>1 DEF Pushed
<1>3. \A i, j \in 1..n : Slot(sp - i + 1) = Slot(sp - j + 1) => i = j
  <2> SUFFICES ASSUME NEW i \in 1..n, NEW j \in 1..n, i < j
               PROVE  Slot(sp - i + 1) # Slot(sp - j + 1)
    BY DEF Byte
  <2> QED
    BY SlotsDiffer DEF Byte
<1>4. slots \subseteq Addr
  BY SlotType DEF Byte
<1>5. ASSUME NEW i \in 1..n
      PROVE  Pushed(bytes)[Slot(sp - i + 1)] = bytes[i] /\ Slot(sp - i + 1) \in slots
  <2>1. PICK a : a = Slot(sp - i + 1)
    OBVIOUS
  <2>2. a \in slots
    BY <2>1
  <2>3. Pushed(bytes)[a] = bytes[CHOOSE j \in 1..n : Slot(sp - j + 1) = a]
    BY <1>2, <2>2
  <2>4. (CHOOSE j \in 1..n : Slot(sp - j + 1) = a) = i
    BY <1>3, <2>1
  <2> QED
    BY <2>1, <2>2, <2>3, <2>4
<1>6. IsImage(Pushed(bytes))
  BY <1>2, <1>4, <1>5 DEF IsImage
<1>7. ASSUME NEW a, \A i \in 1..n : a # Slot(sp - i + 1)
      PROVE  Read(Pushed(bytes), a) = Read(mem, a)
  BY <1>2, <1>7 DEF Read
<1> QED
  BY <1>2, <1>5, <1>6, <1>7 DEF Read

-----------------------------------------------------------------------------
(* The inductive invariant.                                                *)

FrameType ==
  [kind : {"call", "brk", "interrupt"}, to : Addr, flag : BOOLEAN, path : BOOLEAN, depth : Int]

\* What f is to return to, and with which flag, lies in m above Slot(s).
Stored(m, s, f) ==
  IF f.kind = "call"
  THEN Wrap16(Read(m, Slot(s + 1)) + 256 * Read(m, Slot(s + 2)) + 1) = f.to
  ELSE /\ IsI(Read(m, Slot(s + 1))) = f.flag
       /\ Read(m, Slot(s + 2)) + 256 * Read(m, Slot(s + 3)) = f.to

FramesRight ==
  /\ depth \in Int /\ frames \subseteq FrameType
  /\ \A f \in frames : /\ f.depth <= depth
                       /\ f.path => f.to \in reach
                       /\ Stored(mem, sp + (depth - f.depth), f)
  /\ \A f, g \in frames : f.depth = g.depth => f = g

\* The code that is reached is not overwritten, so that what the decoder says
\* of it stays true.
Closed ==
  /\ cpu \in Model /\ start \in reach /\ reach \subseteq Addr
  /\ \A a \in reach : /\ Follows(cpu, mem, a) \subseteq reach
                      /\ {a, Wrap16(a + 1), Wrap16(a + 2)} \cap StackPage = {}

Registers ==
  /\ IsImage(mem) /\ pc \in Addr /\ sp \in Byte /\ currentOpcode \in Byte
  /\ step \in {0, 1}
  /\ flagI \in BOOLEAN /\ wai \in BOOLEAN /\ stp \in BOOLEAN
  /\ nmiPin \in BOOLEAN /\ intPin \in BOOLEAN /\ onPath \in BOOLEAN

IInv == Registers /\ Closed /\ FramesRight /\ InReach

LEMMA InvTypeOK == IInv => cpu_TypeOK
BY DEF IInv, Registers, FramesRight, FrameType, cpu_TypeOK

\* What the decoder says of an instruction depends on its three bytes only.
LEMMA FollowsSame ==
  ASSUME NEW c, NEW m, NEW m2, NEW a \in Addr,
         \A b \in {a, Wrap16(a + 1), Wrap16(a + 2)} : Read(m2, b) = Read(m, b)
  PROVE  Follows(c, m2, a) = Follows(c, m, a)
<1>1. Read(m2, a) = Read(m, a)
  OBVIOUS
<1>2. AbsTarget(m2, a) = AbsTarget(m, a)
  <2>1. (a + 1) + 1 = a + 2
    BY DEF Addr
  <2> QED
    BY <2>1 DEF AbsTarget, Read16
<1>3. ASSUME NEW len \in {2, 3} PROVE RelTarget(m2, a, len) = RelTarget(m, a, len)
  <2>1. a + len - 1 \in {a + 1, a + 2}
    BY <1>3 DEF Addr
  <2> QED
    BY <2>1 DEF RelTarget
<1>4. Target(c, m2, a) = Target(c, m, a)
  BY <1>1, <1>2, <1>3 DEF Target
<1>5. DisFlowOf(c, m2, a) = DisFlowOf(c, m, a) /\ DisOne(c, m2, a) = DisOne(c, m, a)
  BY <1>1 DEF DisFlowOf, DisOne, InstLen
<1> QED
  BY <1>4, <1>5 DEF Follows

LEMMA StoredSame ==
  ASSUME NEW m, NEW m2, NEW s, NEW s2, NEW f,
         \A k \in 1..3 : Read(m2, Slot(s2 + k)) = Read(m, Slot(s + k)),
         Stored(m, s, f)
  PROVE  Stored(m2, s2, f)
BY DEF Stored

\* A push overwrites neither the code nor a frame that Intact keeps.
LEMMA PushKeeps ==
  ASSUME IInv, UNCHANGED fixed,
         NEW n \in 1..3, NEW bytes \in [1..n -> Byte], Len(bytes) = n, Push(bytes)
  PROVE  /\ IsImage(mem') /\ sp' \in Byte /\ depth' = depth + n
         /\ Closed'
         /\ \A f \in frames : Intact(f) => Stored(mem', sp' + (depth' - f.depth), f)
         /\ \A k \in 1..n : Read(mem', Slot(sp' + k)) = bytes[n + 1 - k]
<1>1. /\ IsImage(mem) /\ sp \in Byte /\ depth \in Int
      /\ mem' = Pushed(bytes) /\ sp' = (sp - n) % 256 /\ depth' = depth + n
  BY DEF IInv, Registers, FramesRight, Push
<1>2. sp' \in Byte /\ sp' \in Int
  BY <1>1 DEF Byte
<1>3. PICK m2 : m2 = mem'
  OBVIOUS
<1>4. /\ IsImage(m2)
      /\ \A i \in 1..n : Read(m2, Slot(sp - i + 1)) = bytes[i]
      /\ \A a : (\A i \in 1..n : a # Slot(sp - i + 1)) => Read(m2, a) = Read(mem, a)
  BY <1>1, <1>3, PushedImage
<1>5. \A k \in Int : Slot(sp' + k) = Slot((sp - n) + k)
  BY <1>1, SlotOfWrapped DEF Byte
<1>6. ASSUME NEW k \in 1..n PROVE Read(m2, Slot(sp' + k)) = bytes[n + 1 - k]
  <2>1. n + 1 - k \in 1..n /\ sp - (n + 1 - k) + 1 = (sp - n) + k
    BY <1>1 DEF Byte
  <2> QED
    BY <1>4, <1>5, <2>1
<1>7. ASSUME NEW f \in frames, Intact(f)
      PROVE  Stored(m2, sp' + (depth' - f.depth), f)
  <2>1. f.depth \in Int /\ f.depth <= depth /\ Stored(mem, sp + (depth - f.depth), f)
    BY DEF IInv, FramesRight, FrameType
  <2>2. PICK d \in Int : d = depth - f.depth
    BY <1>1, <2>1
  <2>3. d >= 0 /\ d + n <= 253 /\ depth' - f.depth = d + n
    BY <1>1, <1>7, <2>1, <2>2 DEF Intact
  <2>4. ASSUME NEW k \in 1..3
        PROVE  Read(m2, Slot(sp' + (d + n) + k)) = Read(mem, Slot(sp + d + k))
    <3>1. Slot(sp' + ((d + n) + k)) = Slot(sp + d + k)
      <4>1. (sp - n) + ((d + n) + k) = sp + d + k
        BY <1>1 DEF Byte
      <4> QED
        BY <1>5, <4>1
    <3>2. \A i \in 1..n : Slot(sp + d + k) # Slot(sp - i + 1)
      BY <1>1, <2>3, SlotsDiffer DEF Byte
    <3>3. sp' + (d + n) + k = sp' + ((d + n) + k)
      BY <1>2
    <3> QED
      BY <1>4, <3>1, <3>2, <3>3
  <2> QED
    BY <2>1, <2>2, <2>3, <2>4, StoredSame
<1>8. Closed'
  <2>1. \A a \in reach : /\ a \in Addr /\ Follows(cpu, mem, a) \subseteq reach
                         /\ {a, Wrap16(a + 1), Wrap16(a + 2)} \cap StackPage = {}
    BY DEF IInv, Closed
  <2>2. \A i \in 1..n : Slot(sp - i + 1) \in StackPage
    BY <1>1, SlotType DEF Byte
  <2>3. ASSUME NEW a \in reach PROVE Follows(cpu, m2, a) = Follows(cpu, mem, a)
    <3>1. \A b \in {a, Wrap16(a + 1), Wrap16(a + 2)} : Read(m2, b) = Read(mem, b)
      BY <1>4, <2>1, <2>2
    <3> QED
      BY <2>1, <3>1, FollowsSame
  <2> QED
    BY <1>3, <2>1, <2>3 DEF IInv, Closed, fixed
<1> QED
  BY <1>1, <1>2, <1>3, <1>4, <1>6, <1>7, <1>8

\* A pull takes bytes away without changing them.
LEMMA PopKeeps ==
  ASSUME IInv, UNCHANGED fixed, NEW n \in 1..3, Pop(n)
  PROVE  /\ IsImage(mem') /\ sp' \in Byte /\ depth' = depth - n
         /\ Closed'
         /\ \A f \in frames : Intact(f) => Stored(mem', sp' + (depth' - f.depth), f)
<1>1. /\ IsImage(mem) /\ sp \in Byte /\ depth \in Int
      /\ mem' = mem /\ sp' = (sp + n) % 256 /\ depth' = depth - n
  BY DEF IInv, Registers, FramesRight, Pop
<1>2. sp' \in Byte /\ sp' \in Int
  BY <1>1 DEF Byte
<1>3. \A k \in Int : Slot(sp' + k) = Slot((sp + n) + k)
  <2>1. PICK s \in Int : s = sp + n
    BY <1>1 DEF Byte
  <2> QED
    BY <1>1, <2>1, SlotOfWrapped
<1>4. ASSUME NEW f \in frames
      PROVE  Stored(mem', sp' + (depth' - f.depth), f)
  <2>1. f.depth \in Int /\ Stored(mem, sp + (depth - f.depth), f)
    BY DEF IInv, FramesRight, FrameType
  <2>2. PICK d \in Int : d = depth - f.depth
    BY <1>1, <2>1
  <2>3. depth' - f.depth = d - n
    BY <1>1, <2>1, <2>2
  <2>4. ASSUME NEW k \in 1..3
        PROVE  Slot(sp' + (d - n) + k) = Slot(sp + d + k)
    <3>1. (sp + n) + ((d - n) + k) = sp + d + k /\ sp' + (d - n) + k = sp' + ((d - n) + k)
      BY <1>1, <1>2 DEF Byte
    <3> QED
      BY <1>3, <3>1
  <2> QED
    BY <1>1, <2>1, <2>2, <2>3, <2>4, StoredSame
<1>5. Closed'
  BY <1>1 DEF IInv, Closed, fixed
<1> QED
  BY <1>1, <1>2, <1>4, <1>5

LEMMA KeepFrames ==
  ASSUME IInv, UNCHANGED fixed, Keep, depth' \in Int,
         \A f \in frames : Intact(f) => Stored(mem', sp' + (depth' - f.depth), f)
  PROVE  FramesRight'
<1>1. \A f \in frames' : f \in frames /\ Intact(f)
  BY DEF Keep
<1>2. \A f \in frames' : f.depth <= depth'
  BY <1>1 DEF Intact
<1> QED
  BY <1>1, <1>2 DEF IInv, FramesRight, fixed

\* The new frame is deeper than every other.
LEMMA AddFrame ==
  ASSUME IInv, UNCHANGED fixed, depth' \in Int, depth' > depth,
         \A f \in frames : Intact(f) => Stored(mem', sp' + (depth' - f.depth), f),
         NEW new \in FrameType, KeepAnd(new), new.depth = depth', new.path => new.to \in reach,
         Stored(mem', sp' + (depth' - new.depth), new)
  PROVE  FramesRight'
<1>1. \A f \in frames' : (f \in frames /\ Intact(f)) \/ f = new
  BY DEF KeepAnd
<1>2. \A f \in frames : f.depth \in Int /\ f.depth < depth'
  BY DEF IInv, FramesRight, FrameType
<1>3. \A f, g \in frames' : f.depth = g.depth => f = g
  BY <1>1, <1>2 DEF IInv, FramesRight
<1>4. \A f \in frames' : /\ f.depth <= depth'
                         /\ f.path => f.to \in reach'
                         /\ Stored(mem', sp' + (depth' - f.depth), f)
  BY <1>1, <1>2 DEF IInv, FramesRight, fixed
<1>5. frames' \subseteq FrameType
  BY <1>1 DEF IInv, FramesRight
<1> QED
  BY <1>3, <1>4, <1>5 DEF FramesRight

-----------------------------------------------------------------------------
(* Where the instruction at pc takes the CPU, as decoded.                  *)

LEMMA Decoded ==
  ASSUME IInv
  PROVE  /\ pc \in Addr /\ Opcode \in Byte /\ Agree(cpu, Opcode)
         /\ DisFlowOf(cpu, mem, pc) = FlowOfOp(Mnemonic(cpu, Opcode), Opcode)
         /\ DisOne(cpu, mem, pc) = Wrap16(pc + DisInstLen(cpu, Opcode))
         /\ Past = Wrap16(pc + (1 + Advance(Entry.addrMode)))
<1>1. pc \in Addr /\ Opcode \in Byte /\ cpu \in Model
  BY ReadType DEF IInv, Registers, Closed, Opcode
<1>2. Agree(cpu, Opcode)
  BY <1>1, TablesAgree
<1>3. cpu # NoCpu
  BY <1>1, TableAssumption
<1>4. Past = Wrap16(pc + (1 + Advance(Entry.addrMode)))
  <2>1. PICK k \in Int : k = Advance(Entry.addrMode)
    BY DEF Advance
  <2>2. (pc + 1) + k = pc + (1 + k)
    BY <1>1 DEF Addr
  <2> QED
    BY <2>1, <2>2 DEF Past, Operand
<1> QED
  BY <1>1, <1>2, <1>3, <1>4 DEF DisFlowOf, DisOne, InstLen, Opcode

LEMMA RelAt ==
  ASSUME IsImage(mem), pc \in Addr, NEW k \in 1..2
  PROVE  rel(Wrap16(pc + k)) = RelTarget(mem, pc, k + 1) /\ rel(pc + k) = RelTarget(mem, pc, k + 1)
<1>1. PICK a \in Int : a = pc + k
  BY DEF Addr
<1>2. Wrap16(Wrap16(a)) = Wrap16(a) /\ Wrap16(a) \in Addr
  BY WrapType, WrapOfAddr
<1>3. PICK d : d = Int8(Read(mem, Wrap16(a)))
  OBVIOUS
<1>4. d \in Int
  BY <1>3, ReadType DEF Int8, Byte
<1>5. pc + (k + 1) - 1 = a /\ pc + (k + 1) = a + 1
  BY <1>1 DEF Addr
<1>6. RelTarget(mem, pc, k + 1) = Wrap16(a + 1 + d)
  BY <1>3, <1>5 DEF RelTarget
<1>7. a + 1 + d = a + d + 1 /\ Wrap16(a) + d + 1 = Wrap16(a) + (d + 1) /\ a + d + 1 = a + (d + 1)
  BY <1>2, <1>4 DEF Addr
<1>8. Wrap16(Wrap16(a) + (d + 1)) = Wrap16(a + (d + 1))
  BY <1>4, WrapOfWrap
<1> QED
  BY <1>1, <1>2, <1>3, <1>6, <1>7, <1>8 DEF rel

LEMMA OperandAt ==
  ASSUME pc \in Addr
  PROVE  Read16(mem, Operand) = AbsTarget(mem, pc) /\ Read16(mem, Wrap16(Operand)) = AbsTarget(mem, pc)
<1>1. Operand \in Int
  BY DEF Operand, Addr
<1>2. Wrap16(Wrap16(Operand)) = Wrap16(Operand) /\ Wrap16(Wrap16(Operand) + 1) = Wrap16(Operand + 1)
  BY <1>1, WrapType, WrapOfAddr, WrapOfWrap
<1> QED
  BY <1>2 DEF Operand, AbsTarget, Read16

LEMMA GoesWhereDecoded ==
  ASSUME IInv
  PROVE  LET flow == DisFlowOf(cpu, mem, pc)
             next == DisOne(cpu, mem, pc)
             target == Target(cpu, mem, pc)
         IN  /\ Runs(RunsOn) => flow = "Normal" /\ Past = next
             /\ Runs({"bcond"}) => flow = "Branch" /\ Past = next /\ rel(Operand) = target
             /\ Runs({"bra"}) => flow = "Jump" /\ rel(Operand) = target
             /\ Runs({"bbx"}) => flow = "Branch" /\ Wrap16(Past + 1) = next /\ rel(Past) = target
             /\ Runs({"jmp"}) => \/ flow = "Indirect" /\ Entry.addrMode # "ab"
                                 \/ flow = "Jump" /\ JumpTargets = {target}
             /\ Runs({"jsr"}) => /\ flow = "Call" /\ Read16(mem, Operand) = target
                                 /\ Past = next /\ next = Wrap16(pc + 3)
             /\ Runs({"rts", "rti", "brk", "stp", "jam"}) => flow = "Return"
             /\ Runs({"brk"}) => next = Wrap16(pc + 2)
<1>1. IsImage(mem)
  BY DEF IInv, Registers
<1> DEFINE does == Entry.instruction
           fn == Entry.addrMode
           moves == 1 + Advance(fn)
           len == DisInstLen(cpu, Opcode)
           flow == FlowOfOp(Mnemonic(cpu, Opcode), Opcode)
<1>2. /\ does \in RunsOn => flow = "Normal" /\ len = moves /\ moves \in 1..3
      /\ does = "bcond" => /\ flow = "Branch" /\ len = 2 /\ moves = 2
                           /\ ~disIsBitBranch(cpu, Opcode) /\ Opcode \notin {32, 76}
      /\ does = "bbx" => flow = "Branch" /\ len = 3 /\ moves = 2 /\ disIsBitBranch(cpu, Opcode)
      /\ does = "bra" => /\ flow = "Jump" /\ len = 2 /\ moves = 2
                         /\ ~disIsBitBranch(cpu, Opcode) /\ Opcode = 128
      /\ does = "jmp" => \/ flow = "Indirect" /\ fn # "ab"
                         \/ flow = "Jump" /\ fn = "ab" /\ ~disIsBitBranch(cpu, Opcode) /\ Opcode = 76
      /\ does = "jsr" => /\ flow = "Call" /\ len = 3 /\ moves = 3
                         /\ ~disIsBitBranch(cpu, Opcode) /\ Opcode = 32
      /\ does \in {"rts", "rti", "brk", "stp", "jam"} => flow = "Return"
      /\ does = "brk" => len = 2
  BY Decoded DEF Agree, Entry
<1>3. /\ DisFlowOf(cpu, mem, pc) = flow /\ DisOne(cpu, mem, pc) = Wrap16(pc + len)
      /\ Past = Wrap16(pc + moves) /\ pc \in Addr
  BY Decoded
<1>4. disIsBitBranch(cpu, Opcode) => Target(cpu, mem, pc) = RelTarget(mem, pc, 3)
  BY DEF Target, Opcode
<1>5. ~disIsBitBranch(cpu, Opcode) =>
        Target(cpu, mem, pc) = IF Opcode \in {32, 76} THEN AbsTarget(mem, pc)
                               ELSE RelTarget(mem, pc, 2)
  BY DEF Target, Opcode
<1>6. rel(Operand) = RelTarget(mem, pc, 2) /\ rel(Wrap16(pc + 2)) = RelTarget(mem, pc, 3)
  BY <1>1, <1>3, RelAt DEF Operand
<1>7. Wrap16(Wrap16(pc + 2) + 1) = Wrap16(pc + 3)
  <2>1. pc + 2 \in Int /\ (pc + 2) + 1 = pc + 3
    BY <1>3 DEF Addr
  <2> QED
    BY <2>1, WrapOfWrap
<1>8. /\ Read16(mem, Operand) = AbsTarget(mem, pc)
      /\ fn = "ab" => JumpTargets = {AbsTarget(mem, pc)}
  BY <1>3, OperandAt DEF JumpTargets
<1> HIDE DEF does, fn, moves, len, flow
<1> QED
  BY <1>2, <1>3, <1>4, <1>5, <1>6, <1>7, <1>8 DEF Runs, does, fn

-----------------------------------------------------------------------------
(* The invariant is inductive.                                             *)

LEMMA SameStack ==
  ASSUME IInv, UNCHANGED fixed, NoStack
  PROVE  IsImage(mem') /\ sp' \in Byte /\ Closed' /\ FramesRight'
BY DEF IInv, Registers, NoStack, fixed, Closed, FramesRight

\* What an instruction leaves to show once its effect on the stack is known.
LEMMA Landed ==
  ASSUME IInv, Execute,
         IsImage(mem'), sp' \in Byte, Closed', FramesRight',
         pc' \in Addr, flagI' \in BOOLEAN, wai' \in BOOLEAN, stp' \in BOOLEAN,
         onPath' \in BOOLEAN, onPath' /\ ~stp' => pc' \in reach
  PROVE  IInv'
<1>1. currentOpcode' \in Byte
  BY Decoded DEF Execute
<1>2. step' \in {0, 1} /\ nmiPin' \in BOOLEAN /\ intPin' \in BOOLEAN
  BY DEF IInv, Registers, Execute, pins
<1>3. InReach'
  BY DEF InReach, Execute, fixed
<1> QED
  BY <1>1, <1>2, <1>3 DEF IInv, Registers

\* An instruction on the path has everything the decoder says follows it in
\* reach.
LEMMA OnPath ==
  ASSUME IInv, onPath, ~stp
  PROVE  /\ pc \in reach
         /\ LET flow == DisFlowOf(cpu, mem, pc)
            IN  /\ flow \in {"Normal", "Branch", "Call"} => DisOne(cpu, mem, pc) \in reach
                /\ flow \in {"Branch", "Jump", "Call"} => Target(cpu, mem, pc) \in reach
<1>1. pc \in reach
  BY DEF IInv, InReach
<1>2. Follows(cpu, mem, pc) \subseteq reach
  BY <1>1 DEF IInv, Closed
<1> QED
  BY <1>1, <1>2 DEF Follows

LEMMA MovesType ==
  ASSUME IInv
  PROVE  /\ Past \in Addr /\ rel(Operand) \in Addr /\ rel(Past) \in Addr
         /\ DisOne(cpu, mem, pc) \in Addr
         /\ JumpTargets \subseteq Addr
         /\ \A n : Pulled(n) \in Byte
<1>1. IsImage(mem) /\ pc \in Addr
  BY DEF IInv, Registers
<1>2. \A a : Int8(Read(mem, a)) \in Int
  BY <1>1, ReadType DEF Int8, Byte
<1>3. Past \in Addr
  <2>1. Advance(Entry.addrMode) \in Int
    BY DEF Advance
  <2> QED
    BY <1>1, <2>1, WrapType DEF Past, Operand, Addr
<1>4. \A p \in Int : rel(p) \in Addr
  BY <1>2, WrapType DEF rel
<1>5. Operand \in Int /\ Past \in Int
  BY <1>1, <1>3 DEF Operand, Addr
<1>6. DisOne(cpu, mem, pc) \in Addr
  <2>1. DisInstLen(cpu, Opcode) \in Int
    BY DEF DisInstLen
  <2> QED
    BY <1>1, <2>1, Decoded, WrapType DEF Addr
<1>7. JumpTargets \subseteq Addr
  BY <1>1, Read16Type DEF JumpTargets
<1>8. \A n : Pulled(n) \in Byte
  BY <1>1, ReadType DEF Pulled
<1> QED
  BY <1>3, <1>4, <1>5, <1>6, <1>7, <1>8

LEMMA ExecuteFixed == Execute => UNCHANGED fixed /\ ~stp
BY DEF Execute, Boundary

\* The instructions that leave the stack alone and go on.
LEMMA StackAlone ==
  ASSUME IInv, Plain \/ SetFlag \/ Branch \/ BitBranch \/ Jump
  PROVE  IInv'
<1>1. Execute /\ UNCHANGED fixed /\ ~stp /\ NoStack /\ wai' = FALSE /\ stp' = stp
  BY ExecuteFixed DEF Plain, SetFlag, Branch, BitBranch, Jump, NoHalt
<1>2. IsImage(mem') /\ sp' \in Byte /\ Closed' /\ FramesRight'
  BY <1>1, SameStack
<1>3. flagI' \in BOOLEAN
  BY DEF IInv, Registers, Plain, SetFlag, Branch, BitBranch, Jump
<1>4. ASSUME Plain \/ SetFlag \/ Branch \/ BitBranch
      PROVE  /\ pc' \in Addr /\ onPath' = onPath
             /\ \/ pc' = DisOne(cpu, mem, pc) /\ DisFlowOf(cpu, mem, pc) \in {"Normal", "Branch"}
                \/ pc' = Target(cpu, mem, pc) /\ DisFlowOf(cpu, mem, pc) \in {"Branch", "Jump"}
  <2>1. CASE Plain
    BY <2>1, MovesType, GoesWhereDecoded DEF Plain, Runs, RunsOn
  <2>2. CASE SetFlag
    BY <2>2, MovesType, GoesWhereDecoded DEF SetFlag, Runs, RunsOn
  <2>3. CASE Branch
    BY <2>3, MovesType, GoesWhereDecoded DEF Branch, Runs
  <2>4. CASE BitBranch
    <3>1. Wrap16(Past + 1) = DisOne(cpu, mem, pc) /\ rel(Past) = Target(cpu, mem, pc)
      BY <2>4, GoesWhereDecoded DEF BitBranch
    <3> QED
      BY <2>4, <3>1, MovesType, GoesWhereDecoded DEF BitBranch
  <2> QED
    BY <1>4, <2>1, <2>2, <2>3, <2>4
<1>5. ASSUME Jump
      PROVE  /\ pc' \in Addr
             /\ onPath' \in BOOLEAN
             /\ onPath' => onPath /\ pc' = Target(cpu, mem, pc) /\ DisFlowOf(cpu, mem, pc) = "Jump"
  <2>1. pc' \in JumpTargets /\ (onPath' <=> onPath /\ Entry.addrMode = "ab") /\ onPath' \in BOOLEAN
    BY <1>5 DEF Jump, IInv, Registers
  <2>2. Entry.addrMode = "ab" =>
          DisFlowOf(cpu, mem, pc) = "Jump" /\ JumpTargets = {Target(cpu, mem, pc)}
    BY <1>5, GoesWhereDecoded DEF Jump
  <2> QED
    BY <2>1, <2>2, MovesType
<1>6. onPath' => pc' \in reach
  BY <1>1, <1>4, <1>5, OnPath
<1>7. pc' \in Addr /\ onPath' \in BOOLEAN
  BY <1>4, <1>5 DEF IInv, Registers
<1>8. stp' \in BOOLEAN
  BY <1>1 DEF IInv, Registers
<1> QED
  BY <1>1, <1>2, <1>3, <1>6, <1>7, <1>8, Landed

\* An interrupt or a BRK pushes an address and the status.
LEMMA PushReturn ==
  ASSUME IInv, UNCHANGED fixed,
         NEW kind \in {"brk", "interrupt"}, NEW to \in Addr, NEW path \in BOOLEAN,
         path => to \in reach,
         Push(Bytes(to) \o <<Status(flagI)>>), KeepAnd(Frame(kind, to, path))
  PROVE  IsImage(mem') /\ sp' \in Byte /\ Closed' /\ FramesRight'
<1>1. PICK new : new = Frame(kind, to, path)
  OBVIOUS
<1>2. PICK bytes : bytes = Bytes(to) \o <<Status(flagI)>>
  OBVIOUS
<1>3. Push(bytes)
  BY <1>2
<1>4. /\ bytes \in [1..3 -> Byte] /\ Len(bytes) = 3
      /\ bytes[1] = to \div 256 /\ bytes[2] = to % 256 /\ bytes[3] = Status(flagI)
  <2>1. PICK address, status : address = Bytes(to) /\ status = <<Status(flagI)>>
    OBVIOUS
  <2>2. /\ address \in Seq(Byte) /\ Len(address) = 2
        /\ address[1] = to \div 256 /\ address[2] = to % 256
    BY <2>1, ByteSplit DEF Bytes
  <2>3. status \in Seq(Byte) /\ Len(status) = 1 /\ status[1] = Status(flagI)
    BY <2>1 DEF Status, Byte
  <2>4. /\ address \o status \in Seq(Byte) /\ Len(address \o status) = Len(address) + Len(status)
        /\ \A i \in 1..Len(address) + Len(status) :
             (address \o status)[i] =
               IF i <= Len(address) THEN address[i] ELSE status[i - Len(address)]
    <3>1. address \in Seq(Byte) /\ status \in Seq(Byte)
      BY <2>2, <2>3
    <3> QED
      BY <3>1, ConcatProperties, Zenon
  <2>5. /\ Len(bytes) = 3 /\ bytes \in Seq(Byte)
        /\ bytes[1] = address[1] /\ bytes[2] = address[2] /\ bytes[3] = status[1]
    BY <1>2, <2>1, <2>2, <2>3, <2>4
  <2> QED
    BY <2>2, <2>3, <2>5, LenProperties
<1>5. /\ IsImage(mem') /\ sp' \in Byte /\ depth' = depth + 3
      /\ Closed'
      /\ \A f \in frames : Intact(f) => Stored(mem', sp' + (depth' - f.depth), f)
      /\ \A k \in 1..3 : Read(mem', Slot(sp' + k)) = bytes[4 - k]
  BY <1>3, <1>4, PushKeeps
<1>6. depth' \in Int /\ depth' > depth
  BY <1>5 DEF IInv, FramesRight
<1>7. /\ new \in FrameType /\ new.kind # "call" /\ new.to = to /\ new.flag = flagI
      /\ new.depth = depth' /\ (new.path => new.to \in reach)
  BY <1>1, <1>6 DEF Frame, FrameType, IInv, Registers
<1>8. Stored(mem', sp' + (depth' - new.depth), new)
  <2>1. sp' + (depth' - new.depth) = sp'
    BY <1>5, <1>6, <1>7 DEF Byte
  <2>2. /\ Read(mem', Slot(sp' + 1)) = Status(flagI)
        /\ Read(mem', Slot(sp' + 2)) = to % 256 /\ Read(mem', Slot(sp' + 3)) = to \div 256
    BY <1>4, <1>5
  <2>3. IsI(Status(flagI)) = flagI
    BY DEF IsI, Status, IInv, Registers
  <2> QED
    BY <1>7, <2>1, <2>2, <2>3, ByteSplit DEF Stored
<1>9. KeepAnd(new)
  BY <1>1
<1> QED
  BY <1>5, <1>6, <1>7, <1>8, <1>9, AddFrame

\* A call pushes the address of its last byte.
LEMMA PushCall ==
  ASSUME IInv, ~stp, Jsr
  PROVE  IsImage(mem') /\ sp' \in Byte /\ Closed' /\ FramesRight'
<1>1. /\ UNCHANGED fixed /\ pc \in Addr
      /\ Past = Wrap16(pc + 3) /\ DisOne(cpu, mem, pc) = Wrap16(pc + 3)
      /\ DisFlowOf(cpu, mem, pc) = "Call"
  BY ExecuteFixed, GoesWhereDecoded DEF Jsr, IInv, Registers
<1>2. PICK last : last = Wrap16(Past - 1)
  OBVIOUS
<1>3. last \in Addr /\ Wrap16(last + 1) = Wrap16(pc + 3)
  <2>1. Wrap16(Wrap16(pc + 3) + (-1)) = Wrap16(pc + 3 + (-1))
    BY <1>1, WrapOfWrap DEF Addr
  <2>2. /\ Wrap16(pc + 3) \in Int /\ Wrap16(pc + 3) + (-1) = Past - 1
        /\ pc + 3 + (-1) = pc + 2 /\ (pc + 2) + 1 = pc + 3
    BY <1>1, MovesType DEF Addr
  <2>3. last = Wrap16(pc + 2)
    BY <1>2, <2>1, <2>2
  <2> QED
    BY <1>1, <2>2, <2>3, WrapType, WrapOfWrap DEF Addr
<1>4. PICK new : new = Frame("call", DisOne(cpu, mem, pc), onPath)
  OBVIOUS
<1>5. PICK bytes : bytes = <<last \div 256, last % 256>>
  OBVIOUS
<1>6. Push(bytes) /\ KeepAnd(new)
  BY <1>2, <1>4, <1>5 DEF Bytes, Jsr
<1>7. bytes \in [1..2 -> Byte] /\ Len(bytes) = 2
  BY <1>3, <1>5, ByteSplit
<1>8. /\ IsImage(mem') /\ sp' \in Byte /\ depth' = depth + 2
      /\ Closed'
      /\ \A f \in frames : Intact(f) => Stored(mem', sp' + (depth' - f.depth), f)
      /\ \A k \in 1..2 : Read(mem', Slot(sp' + k)) = bytes[3 - k]
  BY <1>1, <1>6, <1>7, PushKeeps
<1>9. depth' \in Int /\ depth' > depth
  BY <1>8 DEF IInv, FramesRight
<1>10. /\ new \in FrameType /\ new.kind = "call" /\ new.to = Wrap16(pc + 3)
       /\ new.depth = depth' /\ (new.path => new.to \in reach)
  BY <1>1, <1>4, <1>9, MovesType, OnPath DEF Frame, FrameType, IInv, Registers
<1>11. Stored(mem', sp' + (depth' - new.depth), new)
  <2>1. sp' + (depth' - new.depth) = sp'
    BY <1>8, <1>9, <1>10 DEF Byte
  <2>2. Read(mem', Slot(sp' + 1)) = last % 256 /\ Read(mem', Slot(sp' + 2)) = last \div 256
    BY <1>5, <1>8
  <2>3. (last % 256) + 256 * (last \div 256) = last
    BY <1>3, ByteSplit
  <2> QED
    BY <1>3, <1>10, <2>1, <2>2, <2>3 DEF Stored
<1> QED
  BY <1>1, <1>6, <1>8, <1>9, <1>10, <1>11, AddFrame

\* A return that finds its frame on top pulls what was pushed.
LEMMA PulledHome ==
  ASSUME IInv
  PROVE  /\ Matched({"call"}) =>
              /\ Wrap16(Pulled(1) + 256 * Pulled(2) + 1) = Top.to
              /\ Top.path \in BOOLEAN /\ (Top.path => Top.to \in reach)
         /\ Matched({"brk", "interrupt"}) =>
              /\ Pulled(2) + 256 * Pulled(3) = Top.to /\ IsI(Pulled(1)) = Top.flag
              /\ Top.path \in BOOLEAN /\ (Top.path => Top.to \in reach)
<1> SUFFICES ASSUME NEW kinds \in {{"call"}, {"brk", "interrupt"}},
                    NEW f \in frames, f.depth = depth, f.kind \in kinds
             PROVE  /\ "call" \in kinds => Wrap16(Pulled(1) + 256 * Pulled(2) + 1) = Top.to
                    /\ "call" \notin kinds => /\ Pulled(2) + 256 * Pulled(3) = Top.to
                                              /\ IsI(Pulled(1)) = Top.flag
                    /\ Top.path \in BOOLEAN /\ (Top.path => Top.to \in reach)
  BY DEF Matched
<1>1. Top = f
  BY DEF Top, IInv, FramesRight
<1>2. /\ f \in FrameType /\ (f.path => f.to \in reach)
      /\ Stored(mem, sp + (depth - f.depth), f)
  BY DEF IInv, FramesRight
<1>3. sp + (depth - f.depth) = sp
  BY DEF IInv, Registers, FramesRight, Byte
<1> QED
  BY <1>1, <1>2, <1>3 DEF Stored, Pulled, FrameType

LEMMA OneByte ==
  ASSUME NEW byte \in Byte
  PROVE  <<byte>> \in [1..1 -> Byte] /\ Len(<<byte>>) = 1
OBVIOUS

\* The instructions that push or pull, or load the stack pointer, and go on.
LEMMA StackMoved ==
  ASSUME IInv, PushRegister \/ Pull \/ LoadSP
  PROVE  IInv'
<1>1. /\ Execute /\ UNCHANGED fixed /\ ~stp
      /\ pc' = Past /\ wai' = FALSE /\ stp' = stp /\ onPath' = onPath
      /\ Runs(RunsOn)
  BY ExecuteFixed DEF PushRegister, Pull, LoadSP, NoHalt, Runs, RunsOn
<1>2. pc' \in Addr /\ (onPath' => pc' \in reach)
  BY <1>1, MovesType, GoesWhereDecoded, OnPath
<1>3. flagI' \in BOOLEAN
  BY DEF PushRegister, Pull, LoadSP, IInv, Registers, IsI
<1>4. IsImage(mem') /\ sp' \in Byte /\ Closed' /\ FramesRight'
  <2>1. CASE PushRegister
    <3>1. PICK byte : byte \in DataBytes \cup {Status(flagI)} /\ Push(<<byte>>)
      BY <2>1 DEF PushRegister
    <3>2. byte \in Byte
      BY <3>1, TablesAssumption DEF Status, Byte
    <3>3. PICK bytes : bytes = <<byte>>
      OBVIOUS
    <3>4. bytes \in [1..1 -> Byte] /\ Len(bytes) = 1 /\ Push(bytes)
      BY <3>1, <3>2, <3>3, OneByte
    <3>5. /\ IsImage(mem') /\ sp' \in Byte /\ Closed' /\ depth' = depth + 1
          /\ \A f \in frames : Intact(f) => Stored(mem', sp' + (depth' - f.depth), f)
      BY <1>1, <3>4, PushKeeps
    <3>6. Keep /\ depth' \in Int
      BY <2>1, <3>5 DEF PushRegister, IInv, FramesRight
    <3> QED
      BY <1>1, <3>5, <3>6, KeepFrames
  <2>2. CASE Pull
    <3>1. /\ IsImage(mem') /\ sp' \in Byte /\ Closed' /\ depth' = depth - 1
          /\ \A f \in frames : Intact(f) => Stored(mem', sp' + (depth' - f.depth), f)
      BY <1>1, <2>2, PopKeeps DEF Pull
    <3>2. Keep /\ depth' \in Int
      BY <2>2, <3>1 DEF Pull, IInv, FramesRight
    <3> QED
      BY <1>1, <3>1, <3>2, KeepFrames
  <2>3. CASE LoadSP
    <3>1. mem' = mem /\ sp' \in StackPointers /\ depth' = 0 /\ frames' = {}
      BY <2>3 DEF LoadSP
    <3>2. Closed'
      BY <1>1, <3>1 DEF IInv, Closed, fixed
    <3>3. FramesRight'
      BY <3>1 DEF FramesRight
    <3> QED
      BY <3>1, <3>2, <3>3, TablesAssumption DEF IInv, Registers
  <2> QED
    BY <2>1, <2>2, <2>3
<1>5. stp' \in BOOLEAN /\ onPath' \in BOOLEAN /\ wai' \in BOOLEAN
  BY <1>1 DEF IInv, Registers
<1> QED
  BY <1>1, <1>2, <1>3, <1>4, <1>5, Landed

LEMMA JsrStep == ASSUME IInv, Jsr PROVE IInv'
<1>1. /\ Execute /\ ~stp /\ wai' = FALSE /\ stp' = stp /\ flagI' = flagI /\ onPath' = onPath
      /\ pc' = Read16(mem, Operand) /\ Runs({"jsr"})
  BY ExecuteFixed DEF Jsr, NoHalt
<1>2. IsImage(mem') /\ sp' \in Byte /\ Closed' /\ FramesRight'
  BY <1>1, PushCall
<1>3. pc' \in Addr
  BY <1>1, Read16Type DEF IInv, Registers
<1>4. onPath' => pc' \in reach
  BY <1>1, GoesWhereDecoded, OnPath
<1>5. /\ stp' \in BOOLEAN /\ onPath' \in BOOLEAN /\ wai' \in BOOLEAN /\ flagI' \in BOOLEAN
  BY <1>1 DEF IInv, Registers
<1> QED
  BY <1>1, <1>2, <1>3, <1>4, <1>5, Landed

LEMMA BrkStep == ASSUME IInv, Brk PROVE IInv'
<1>1. /\ Execute /\ UNCHANGED fixed /\ wai' = FALSE /\ stp' = stp /\ flagI' = TRUE
      /\ onPath' = FALSE /\ pc' = Read16(mem', INT_VEC)
  BY ExecuteFixed DEF Brk, NoHalt
<1>2. PICK to : to = Wrap16(pc + 2)
  OBVIOUS
<1>3. to \in Addr /\ to = DisOne(cpu, mem, pc)
  BY <1>2, MovesType, GoesWhereDecoded DEF Brk
<1>4. Push(Bytes(to) \o <<Status(flagI)>>) /\ KeepAnd(Frame("brk", to, FALSE))
  BY <1>2, <1>3 DEF Brk
<1>5. IsImage(mem') /\ sp' \in Byte /\ Closed' /\ FramesRight'
  BY <1>1, <1>3, <1>4, PushReturn
<1>6. pc' \in Addr
  BY <1>1, <1>5, Read16Type
<1>7. stp' \in BOOLEAN
  BY <1>1 DEF IInv, Registers
<1> QED
  BY <1>1, <1>5, <1>6, <1>7, Landed

LEMMA ReturnStep ==
  ASSUME IInv, Rts \/ Rti
  PROVE  IInv'
<1>1. Execute /\ UNCHANGED fixed /\ wai' = FALSE /\ stp' = stp /\ Keep
  BY ExecuteFixed DEF Rts, Rti, NoHalt
<1>2. PICK n \in {2, 3} : Pop(n)
  BY DEF Rts, Rti
<1>3. /\ IsImage(mem') /\ sp' \in Byte /\ Closed' /\ depth' = depth - n
      /\ \A f \in frames : Intact(f) => Stored(mem', sp' + (depth' - f.depth), f)
  BY <1>1, <1>2, PopKeeps
<1>4. depth' \in Int
  BY <1>3 DEF IInv, FramesRight
<1>5. FramesRight'
  BY <1>1, <1>3, <1>4, KeepFrames
<1>6. /\ pc' \in Addr /\ flagI' \in BOOLEAN /\ onPath' \in BOOLEAN
      /\ onPath' => pc' \in reach
  <2>1. CASE Rts
    <3>1. Pulled(1) + 256 * Pulled(2) + 1 \in Int
      BY MovesType, ByteJoin DEF Addr
    <3>2. Matched({"call"}) \in BOOLEAN
      BY DEF Matched
    <3>3. /\ pc' = Wrap16(Pulled(1) + 256 * Pulled(2) + 1) /\ flagI' = flagI
          /\ onPath' = (Matched({"call"}) /\ Top.path)
      BY <2>1 DEF Rts
    <3> QED
      BY <3>1, <3>2, <3>3, WrapType, PulledHome DEF IInv, Registers
  <2>2. CASE Rti
    <3>1. /\ pc' = Pulled(2) + 256 * Pulled(3) /\ flagI' = IsI(Pulled(1))
          /\ onPath' = (Matched({"brk", "interrupt"}) /\ Top.path)
      BY <2>2 DEF Rti
    <3>2. Matched({"brk", "interrupt"}) \in BOOLEAN /\ IsI(Pulled(1)) \in BOOLEAN
      BY DEF Matched, IsI
    <3>3. pc' \in Addr
      BY <3>1, MovesType, ByteJoin
    <3> QED
      BY <3>1, <3>2, <3>3, PulledHome
  <2> QED
    BY <2>1, <2>2
<1>7. stp' \in BOOLEAN
  BY <1>1 DEF IInv, Registers
<1> QED
  BY <1>1, <1>3, <1>5, <1>6, <1>7, Landed

LEMMA HaltStep == ASSUME IInv, Halt PROVE IInv'
<1>1. Execute /\ UNCHANGED fixed /\ ~stp /\ NoStack /\ flagI' = flagI /\ onPath' = onPath
  BY ExecuteFixed DEF Halt
<1>2. IsImage(mem') /\ sp' \in Byte /\ Closed' /\ FramesRight'
  BY <1>1, SameStack
<1>3. pc' \in Addr
  BY MovesType, WrapType DEF Halt, IInv, Registers, Addr
<1>4. wai' \in BOOLEAN /\ stp' \in BOOLEAN
  BY DEF Halt, Runs, IInv, Registers
<1>5. ~stp' => Runs({"wai"}) /\ pc' = Past
  BY DEF Halt, Runs
<1>6. onPath' /\ ~stp' => pc' \in reach
  <2>1. Runs({"wai"}) => Runs(RunsOn)
    BY DEF Runs, RunsOn
  <2> QED
    BY <1>1, <1>5, <2>1, GoesWhereDecoded, OnPath
<1>7. flagI' \in BOOLEAN /\ onPath' \in BOOLEAN
  BY <1>1 DEF IInv, Registers
<1> QED
  BY <1>1, <1>2, <1>3, <1>4, <1>6, <1>7, Landed

LEMMA InterruptStep ==
  ASSUME IInv, TakeNmi \/ TakeInt
  PROVE  IInv'
<1>1. /\ UNCHANGED fixed /\ ~stp /\ stp' = stp /\ step' = step
      /\ currentOpcode' = currentOpcode
      /\ nmiPin' \in BOOLEAN /\ intPin' \in BOOLEAN
  BY DEF TakeNmi, TakeInt, Boundary, pins, IInv, Registers
<1>2. PICK vector : beginInterrupt(vector)
  BY DEF TakeNmi, TakeInt
<1>3. PICK to, path : to = pc /\ path = onPath
  OBVIOUS
<1>4. to \in Addr /\ path \in BOOLEAN /\ (path => to \in reach)
  BY <1>1, <1>3 DEF IInv, Registers, InReach
<1>5. /\ Push(Bytes(to) \o <<Status(flagI)>>) /\ KeepAnd(Frame("interrupt", to, path))
      /\ flagI' = TRUE /\ wai' = FALSE /\ pc' = Read16(mem', vector) /\ onPath' = FALSE
  BY <1>2, <1>3 DEF beginInterrupt
<1>6. IsImage(mem') /\ sp' \in Byte /\ Closed' /\ FramesRight'
  BY <1>1, <1>4, <1>5, PushReturn
<1>7. pc' \in Addr
  BY <1>5, <1>6, Read16Type
<1> QED
  BY <1>1, <1>5, <1>6, <1>7 DEF IInv, Registers, InReach

LEMMA ClientStep ==
  ASSUME IInv, Reset \/ SetPC \/ SetPins \/ Elapse
  PROVE  IInv'
<1>1. UNCHANGED fixed /\ UNCHANGED <<mem, sp, depth, frames>>
  BY DEF Reset, SetPC, SetPins, Elapse, history
<1>2. IsImage(mem') /\ sp' \in Byte /\ Closed' /\ FramesRight'
  BY <1>1, SameStack DEF NoStack
<1>3. CASE Reset
  <2>1. 512 \in Addr /\ 0 \in Byte
    BY Space DEF Addr, Byte
  <2>2. flagI' \in BOOLEAN
    BY <1>3 DEF Reset
  <2>3. /\ pc' = 512 /\ step' = 0 /\ currentOpcode' = 0 /\ nmiPin' = FALSE /\ intPin' = FALSE
        /\ wai' = FALSE /\ stp' = FALSE /\ onPath' = FALSE
    BY <1>3 DEF Reset
  <2> QED
    BY <1>2, <2>1, <2>2, <2>3 DEF IInv, Registers, InReach
<1>4. CASE SetPC
  <2>1. /\ pc' = start /\ step' = 0 /\ onPath' = TRUE
        /\ UNCHANGED <<flagI, currentOpcode, wai, stp, nmiPin, intPin>>
    BY <1>4 DEF SetPC, pins
  <2>2. start \in reach /\ start \in Addr /\ reach' = reach
    BY <1>1 DEF IInv, Closed, fixed
  <2> QED
    BY <1>2, <2>1, <2>2 DEF IInv, Registers, InReach
<1>5. CASE SetPins
  BY <1>1, <1>2, <1>5 DEF SetPins, history, fixed, IInv, Registers, InReach
<1>6. CASE Elapse
  BY <1>1, <1>2, <1>6 DEF Elapse, history, pins, fixed, IInv, Registers, InReach
<1> QED
  BY <1>3, <1>4, <1>5, <1>6

LEMMA InitInv == Init => IInv
<1> SUFFICES ASSUME Init PROVE IInv
  OBVIOUS
<1>1. PICK in \in Inputs :
        /\ cpu = in.cpu /\ mem = in.mem /\ start = in.start /\ reach = in.reach
  BY DEF Init
<1>2. /\ pc = start /\ sp \in StackPointers /\ flagI \in BOOLEAN
      /\ step = 0 /\ currentOpcode = 0 /\ wai = FALSE /\ stp = FALSE
      /\ nmiPin = FALSE /\ intPin = FALSE
      /\ depth = 0 /\ frames = {} /\ onPath = TRUE
  BY DEF Init
<1>3. IsImage(mem) /\ Closed
  BY <1>1, InputsAssumption DEF Closed
<1>4. Registers
  <2>1. pc \in Addr /\ sp \in Byte /\ 0 \in Byte
    BY <1>2, <1>3, TablesAssumption DEF Closed, Byte
  <2> QED
    BY <1>2, <1>3, <2>1 DEF Registers
<1>5. FramesRight
  BY <1>2 DEF FramesRight
<1>6. InReach
  BY <1>2, <1>3 DEF InReach, Closed
<1> QED
  BY <1>3, <1>4, <1>5, <1>6 DEF IInv

LEMMA NextInv == IInv /\ [Next]_vars => IInv'
<1> SUFFICES ASSUME IInv, [Next]_vars PROVE IInv'
  OBVIOUS
<1>1. CASE Reset \/ SetPC \/ SetPins \/ Elapse
  BY <1>1, ClientStep
<1>2. CASE TakeNmi \/ TakeInt
  BY <1>2, InterruptStep
<1>3. CASE Plain \/ SetFlag \/ Branch \/ BitBranch \/ Jump
  BY <1>3, StackAlone
<1>4. CASE PushRegister \/ Pull \/ LoadSP
  BY <1>4, StackMoved
<1>5. CASE Jsr
  BY <1>5, JsrStep
<1>6. CASE Brk
  BY <1>6, BrkStep
<1>7. CASE Rts \/ Rti
  BY <1>7, ReturnStep
<1>8. CASE Halt
  BY <1>8, HaltStep
<1>9. CASE UNCHANGED vars
  BY <1>9 DEF vars, fixed, pins, history, IInv, Registers, Closed, FramesRight, InReach
<1> QED
  BY <1>1, <1>2, <1>3, <1>4, <1>5, <1>6, <1>7, <1>8, <1>9 DEF Next, Tick

\* The registers, the code, the frames on the stack and the path of control
\* agree at any time, whatever the client does.
THEOREM Invariance == Spec => []IInv
BY InitInv, NextInv, PTL DEF Spec

-----------------------------------------------------------------------------
(* The theorems.                                                           *)

\* Program counter, stack pointer and opcode keep within their width, whatever
\* wraps and whatever is popped that was never pushed.
THEOREM CpuTypeCorrect == Spec => []cpu_TypeOK
BY Invariance, InvTypeOK, PTL

\* Execution stays within what the decoder says is reached, through calls,
\* returns, and interrupts nested at any tick: the analysis of analyze.c is
\* sound for the CPU, but for indirect jumps.
THEOREM PathIsInReach == Spec => []InReach
<1>1. IInv => InReach
  BY DEF IInv
<1> QED
  BY <1>1, Invariance, PTL

\* What an instruction does, and what only an instruction does.
LEMMA ExecutesBy ==
  ASSUME [Next]_vars, Executes
  PROVE  /\ ~stp
         /\ \/ Plain \/ SetFlag \/ PushRegister \/ Pull \/ LoadSP
            \/ Branch \/ BitBranch \/ Jump \/ Jsr \/ Brk \/ Rts \/ Rti \/ Halt
<1>1. ~(Reset \/ SetPC \/ SetPins \/ Elapse \/ TakeNmi \/ TakeInt \/ UNCHANGED vars)
  BY DEF Executes, Reset, SetPC, SetPins, Elapse, TakeNmi, TakeInt, vars
<1>2. \/ Plain \/ SetFlag \/ PushRegister \/ Pull \/ LoadSP
      \/ Branch \/ BitBranch \/ Jump \/ Jsr \/ Brk \/ Rts \/ Rti \/ Halt
  BY <1>1 DEF Next, Tick
<1>3. Execute
  BY <1>2 DEF Plain, SetFlag, PushRegister, Pull, LoadSP, Branch, BitBranch, Jump, Jsr, Brk,
              Rts, Rti, Halt
<1> QED
  BY <1>2, <1>3, ExecuteFixed

\* One instruction takes the CPU where the decoder says, whatever the opcode,
\* the model, the operand and the address: disassemble.c "has to stay in step
\* with the CPU".
THEOREM InStepWithDecoder == Spec => StepsAsDecoded
<1> DEFINE AsDecoded ==
      Executes =>
        LET flow == DisFlowOf(cpu, mem, pc)
        IN  /\ flow \in {"Normal", "Branch", "Jump"} => pc' \in Follows(cpu, mem, pc)
            /\ flow = "Call" => pc' = Target(cpu, mem, pc)
            /\ flow = "Return" => stp' \/ Runs({"rts", "rti", "brk"})
<1>1. IInv /\ [Next]_vars => AsDecoded
  <2> SUFFICES ASSUME IInv, [Next]_vars, Executes
               PROVE  AsDecoded
    OBVIOUS
  <2>1. Runs(RunsOn) /\ pc' = Past => AsDecoded
    BY GoesWhereDecoded DEF Follows
  <2>2. CASE Plain \/ SetFlag \/ PushRegister \/ Pull \/ LoadSP
    <3>1. Runs(RunsOn) /\ pc' = Past
      BY <2>2 DEF Plain, SetFlag, PushRegister, Pull, LoadSP, Runs, RunsOn
    <3> QED
      BY <2>1, <3>1
  <2>3. CASE Branch
    <3>1. CASE Runs({"bra"})
      BY <2>3, <3>1, GoesWhereDecoded DEF Branch, Follows, Runs
    <3>2. CASE ~Runs({"bra"})
      <4>1. Runs({"bcond"}) /\ pc' \in {rel(Operand), Past}
        BY <2>3, <3>2 DEF Branch, Runs
      <4> QED
        BY <4>1, GoesWhereDecoded DEF Follows
    <3> QED
      BY <3>1, <3>2
  <2>4. CASE BitBranch
    <3>1. Runs({"bbx"}) /\ pc' \in {rel(Past), Wrap16(Past + 1)}
      BY <2>4 DEF BitBranch
    <3> QED
      BY <3>1, GoesWhereDecoded DEF Follows
  <2>5. CASE Jump
    <3>1. Runs({"jmp"}) /\ pc' \in JumpTargets
      BY <2>5 DEF Jump
    <3> QED
      BY <3>1, GoesWhereDecoded DEF Follows
  <2>6. CASE Jsr
    BY <2>6, GoesWhereDecoded DEF Jsr
  <2>7. CASE Brk \/ Rts \/ Rti
    <3>1. Runs({"rts", "rti", "brk"})
      BY <2>7 DEF Brk, Rts, Rti, Runs
    <3>2. DisFlowOf(cpu, mem, pc) = "Return"
      BY <3>1, GoesWhereDecoded DEF Runs
    <3> QED
      BY <3>1, <3>2
  <2>8. CASE Halt
    <3>1. CASE Runs({"wai"})
      <4>1. Runs(RunsOn) /\ pc' = Past
        BY <2>8, <3>1 DEF Halt, Runs, RunsOn
      <4> QED
        BY <2>1, <4>1
    <3>2. CASE Runs({"stp", "jam"})
      <4>1. stp' = TRUE
        BY <2>8, <3>2 DEF Halt
      <4>2. DisFlowOf(cpu, mem, pc) = "Return"
        BY <3>2, GoesWhereDecoded DEF Runs
      <4> QED
        BY <4>1, <4>2
    <3> QED
      BY <2>8, <3>1, <3>2 DEF Halt, Runs
  <2> QED
    BY ExecutesBy, <2>2, <2>3, <2>4, <2>5, <2>6, <2>7, <2>8
<1> QED
  BY <1>1, Invariance, PTL DEF Spec, StepsAsDecoded

\* A return whose own address is on top of the stack goes on where the event
\* that pushed it was to be returned to, with the interrupt flag of then:
\* the bytes of a frame outlive every push and pull above them.
THEOREM ReturnsComeHome == Spec => ReturnsHome
<1> DEFINE Home ==
      Executes /\ \/ Runs({"rts"}) /\ Matched({"call"})
                  \/ Runs({"rti"}) /\ Matched({"brk", "interrupt"})
      => pc' = Top.to /\ (Runs({"rti"}) => flagI' = Top.flag)
<1>1. IInv /\ [Next]_vars => Home
  <2>1. ASSUME IInv, [Next]_vars, Executes, Runs({"rts"}), Matched({"call"})
        PROVE  pc' = Top.to /\ ~Runs({"rti"})
    <3>1. Rts
      BY <2>1, ExecutesBy
      DEF Plain, SetFlag, PushRegister, Pull, LoadSP, Branch, BitBranch, Jump, Jsr, Brk, Rti, Halt, Runs
    <3> QED
      BY <2>1, <3>1, PulledHome DEF Rts, Runs
  <2>2. ASSUME IInv, [Next]_vars, Executes, Runs({"rti"}), Matched({"brk", "interrupt"})
        PROVE  pc' = Top.to /\ flagI' = Top.flag
    <3>1. Rti
      BY <2>2, ExecutesBy
      DEF Plain, SetFlag, PushRegister, Pull, LoadSP, Branch, BitBranch, Jump, Jsr, Brk, Rts, Halt, Runs
    <3> QED
      BY <2>2, <3>1, PulledHome DEF Rti
  <2> QED
    BY <2>1, <2>2
<1> QED
  BY <1>1, Invariance, PTL DEF Spec, ReturnsHome
=============================================================================
