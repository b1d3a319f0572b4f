------------------------- MODULE AluRoutineProofs -------------------------
(***************************************************************************)
(* The routines of the library do their tasks, whatever their operands.    *)
(* An instruction's action is first reduced to what it changes; then, for  *)
(* each routine, a lemma Runs says which instruction each place has and    *)
(* what it does, and a lemma Kept that what holds before one instruction   *)
(* makes what holds before the next.  The notes at the end of the routines *)
(* are the invariants of Alu.                                              *)
(***************************************************************************)
EXTENDS AluRoutines, AluProofs

-----------------------------------------------------------------------------
(* The actions of the instructions, by their names and modes.              *)

LEMMA Known ==
  ASSUME AluTypeOK
  PROVE  /\ routine \in DOMAIN Library
         /\ Routine.task = Library[routine].task
         /\ Routine.decimal = Library[routine].decimal
         /\ Routine.code = Library[routine].code
         /\ cpu \in Cpus /\ start \in [Cells -> Byte]
         /\ at \in 1..Len(Routine.code) + 1
BY LibraryAssumption DEF AluTypeOK, Routine

\* The action of an instruction is the one of its name.
LEMMA Taken ==
  ASSUME aluNext, Running
  PROVE  /\ Ins.op \in {"LDA", "LDX", "LDY"} => Load
         /\ Ins.op \in {"STA", "STX", "STY"} => Store
         /\ Ins.op = "STZ" => Zero
         /\ Ins.op \in {"TAX", "TAY", "TXA", "TYA"} => Transfer
         /\ Ins.op \in {"INX", "DEX", "INY", "DEY"} => Count
         /\ Ins.op \in {"CLC", "SEC", "CLD", "SED", "CLV"} => FlagOp
         /\ Ins.op \in {"CMP", "CPX", "CPY"} => Cmp
         /\ Ins.op \in {"BCC", "BCS", "BNE", "BEQ", "BPL", "BMI", "BVC", "BVS"} => Branch
         /\ Ins.op \in {"BBR", "BBS"} => BitBranch
         /\ (Ins.op = "AND" => And) /\ (Ins.op = "ORA" => Ora) /\ (Ins.op = "EOR" => Eor)
         /\ (Ins.op = "ADC" => Adc) /\ (Ins.op = "SBC" => Sbc)
         /\ (Ins.op = "INC" => Inc) /\ (Ins.op = "DEC" => Dec)
         /\ (Ins.op = "ASL" => Asl) /\ (Ins.op = "LSR" => Lsr)
         /\ (Ins.op = "ROL" => Rol) /\ (Ins.op = "ROR" => Ror)
         /\ (Ins.op = "BIT" => BitTest) /\ (Ins.op = "TRB" => Trb) /\ (Ins.op = "TSB" => Tsb)
         /\ (Ins.op = "RMB" => Rmb) /\ (Ins.op = "SMB" => Smb)
         /\ (Ins.op = "SLO" => Slo) /\ (Ins.op = "RLA" => Rla)
         /\ (Ins.op = "SRE" => Sre) /\ (Ins.op = "RRA" => Rra)
         /\ (Ins.op = "DCP" => Dcp) /\ (Ins.op = "ISC" => Isc)
         /\ (Ins.op = "SAX" => Sax) /\ (Ins.op = "LAX" => Lax) /\ (Ins.op = "ANC" => Anc)
         /\ (Ins.op = "ALR" => Alr) /\ (Ins.op = "ARR" => Arr) /\ (Ins.op = "SBX" => Sbx)
<1>1. \A op, s : Does(op, s) => Ins.op = op
  BY DEF Does
<1>2. Load => Ins.op \in {"LDA", "LDX", "LDY"}
  <2>1. \A i \in Loads : i[1] \in {"LDA", "LDX", "LDY"}
    BY DEF Loads
  <2> QED
    BY <1>1, <2>1 DEF Load
<1>3. Store => Ins.op \in {"STA", "STX", "STY"}
  <2>1. \A i \in Stores : i[1] \in {"STA", "STX", "STY"}
    BY DEF Stores
  <2> QED
    BY <1>1, <2>1 DEF Store
<1>4. Transfer => Ins.op \in {"TAX", "TAY", "TXA", "TYA"}
  <2>1. \A i \in Transfers : i[1] \in {"TAX", "TAY", "TXA", "TYA"}
    BY DEF Transfers
  <2> QED
    BY <1>1, <2>1 DEF Transfer
<1>5. Count => Ins.op \in {"INX", "DEX", "INY", "DEY"}
  <2>1. \A i \in Counts : i[1] \in {"INX", "DEX", "INY", "DEY"}
    BY DEF Counts
  <2> QED
    BY <1>1, <2>1 DEF Count
<1>6. FlagOp => Ins.op \in {"CLC", "SEC", "CLD", "SED", "CLV"}
  <2>1. \A i \in FlagOps : i[1] \in {"CLC", "SEC", "CLD", "SED", "CLV"}
    BY Instructions DEF Names
  <2> QED
    BY <1>1, <2>1 DEF FlagOp
<1>7. Cmp => Ins.op \in {"CMP", "CPX", "CPY"}
  <2>1. \A i \in Compares : i[1] \in {"CMP", "CPX", "CPY"}
    BY DEF Compares
  <2> QED
    BY <1>1, <2>1 DEF Cmp
<1>8. Branch => Ins.op \in {"BCC", "BCS", "BNE", "BEQ", "BPL", "BMI", "BVC", "BVS"}
  BY Instructions DEF Names, Branch
<1>9. BitBranch => Ins.op \in {"BBR", "BBS"}
  BY Instructions DEF Names, BitBranch
<1>10. /\ (Zero => Ins.op = "STZ") /\ (And => Ins.op = "AND") /\ (Ora => Ins.op = "ORA")
       /\ (Eor => Ins.op = "EOR") /\ (Adc => Ins.op = "ADC") /\ (Sbc => Ins.op = "SBC")
       /\ (Inc => Ins.op = "INC") /\ (Dec => Ins.op = "DEC")
       /\ (Asl => Ins.op = "ASL") /\ (Lsr => Ins.op = "LSR")
       /\ (Rol => Ins.op = "ROL") /\ (Ror => Ins.op = "ROR")
  BY <1>1 DEF Zero, And, Ora, Eor, Adc, Sbc, Inc, Dec, Asl, Lsr, Rol, Ror
<1>11. /\ (BitTest => Ins.op = "BIT") /\ (Trb => Ins.op = "TRB") /\ (Tsb => Ins.op = "TSB")
       /\ (Rmb => Ins.op = "RMB") /\ (Smb => Ins.op = "SMB")
  BY <1>1 DEF BitTest, Trb, Tsb, Rmb, Smb
<1>12. /\ (Slo => Ins.op = "SLO") /\ (Rla => Ins.op = "RLA")
       /\ (Sre => Ins.op = "SRE") /\ (Rra => Ins.op = "RRA")
       /\ (Dcp => Ins.op = "DCP") /\ (Isc => Ins.op = "ISC")
       /\ (Sax => Ins.op = "SAX") /\ (Lax => Ins.op = "LAX") /\ (Anc => Ins.op = "ANC")
       /\ (Alr => Ins.op = "ALR") /\ (Arr => Ins.op = "ARR") /\ (Sbx => Ins.op = "SBX")
  BY <1>1 DEF Slo, Rla, Sre, Rra, Dcp, Isc, Sax, Lax, Anc, Alr, Arr, Sbx
<1>13. ~Halted
  BY DEF Halted
<1> QED
  BY <1>2, <1>3, <1>4, <1>5, <1>6, <1>7, <1>8, <1>9, <1>10, <1>11, <1>12, <1>13 DEF aluNext
\* The operand of an instruction, by its mode.
LEMMA Modes ==
  /\ \A op : Ins = I(op) => Ins.op = op
  /\ \A op, n : Ins = Imm(op, n) => Ins.op = op /\ Value = n /\ Ins.mode = "imm"
  /\ \A op, c : Ins = Zp(op, c) => Ins.op = op /\ Target = c /\ Value = cpu.mem[c] /\ Ins.mode = "zp"
  /\ \A op, c : Ins = ZpX(op, c) =>
       Ins.op = op /\ Target = Wrap8(c + cpu.ix) /\ Value = cpu.mem[Wrap8(c + cpu.ix)]
  /\ \A op : Ins = ToAcc(op) => Ins.op = op /\ Target = Acc
  /\ \A op, n : Ins = To(op, n) => Ins.op = op /\ Ins.to = n
  /\ \A op, i, c : Ins = BitOf(op, i, c) =>
       Ins.op = op /\ Target = c /\ Value = cpu.mem[c] /\ Ins.bit = i
  /\ \A op, i, c, n : Ins = BitTo(op, i, c, n) =>
       Ins.op = op /\ Value = cpu.mem[c] /\ Ins.bit = i /\ Ins.to = n
BY DEF I, Imm, Zp, ZpX, ToAcc, To, BitOf, BitTo, Target, Value

-----------------------------------------------------------------------------
(***************************************************************************)
(* What a step does, by kind: where it leads, what the registers and the   *)
(* cells hold after it, and the flags.                                     *)
(***************************************************************************)
OnTo(n)       == at' = n /\ UNCHANGED <<routine, start>>
Regs(a, x, y) == cpu'.ac = a /\ cpu'.ix = x /\ cpu'.iy = y
SameRegs      == Regs(cpu.ac, cpu.ix, cpu.iy)
SameMem       == cpu'.mem = cpu.mem
SameFlags(fs) == Keeps(cpu, cpu', fs)
Elsewhere(c)  == \A d \in Cells : d # c => cpu'.mem[d] = cpu.mem[d]
Shown(v)      == NZOf(cpu', v) /\ SameFlags({"C", "V", "D"})

ToAc(v)     == OnTo(at + 1) /\ Regs(v, cpu.ix, cpu.iy) /\ SameMem /\ Shown(v)
ToIx(v)     == OnTo(at + 1) /\ Regs(cpu.ac, v, cpu.iy) /\ SameMem /\ Shown(v)
ToIy(v)     == OnTo(at + 1) /\ Regs(cpu.ac, cpu.ix, v) /\ SameMem /\ Shown(v)
ToMem(c, v) == /\ OnTo(at + 1) /\ SameRegs /\ SameFlags(Flags)
               /\ cpu'.mem[c] = v /\ Elsewhere(c)
Counted(c, n) == /\ OnTo(at + 1) /\ SameRegs
                 /\ cpu'.mem[c] = Wrap8(cpu.mem[c] + n) /\ Elsewhere(c) /\ Shown(cpu'.mem[c])
ToFlag(f, set) == /\ OnTo(at + 1) /\ SameRegs /\ SameMem
                  /\ (f \in cpu'.flags <=> set) /\ SameFlags(Flags \ {f})
Jumps(taken, n) == OnTo(IF taken THEN n ELSE at + 1) /\ UNCHANGED cpu

\* Register by register, the instructions that move and count.
LEMMA Moves ==
  ASSUME AluTypeOK, aluNext, Running
  PROVE  /\ Ins.op = "LDA" => ToAc(Value)
         /\ Ins.op = "LDX" => ToIx(Value)
         /\ Ins.op = "LDY" => ToIy(Value)
         /\ Ins.op = "TAX" => ToIx(cpu.ac)
         /\ Ins.op = "INX" => ToIx(Wrap8(cpu.ix + 1))
         /\ Ins.op = "DEX" => ToIx(Wrap8(cpu.ix + 255))
         /\ Ins.op = "INY" => ToIy(Wrap8(cpu.iy + 1))
         /\ Ins.op = "DEY" => ToIy(Wrap8(cpu.iy + 255))
<1>1. cpu \in Cpus
  BY DEF AluTypeOK
<1>2. ASSUME NEW op, NEW reg \in {"ac", "ix", "iy"}, NEW v \in Byte, Does(op, Set(cpu, reg, v))
      PROVE  /\ reg = "ac" => ToAc(v)
             /\ reg = "ix" => ToIx(v)
             /\ reg = "iy" => ToIy(v)
  <2>1. /\ cpu' = Set(cpu, reg, v) /\ OnTo(at + 1)
    BY <1>2 DEF Does, OnTo
  <2>2. /\ cpu'.mem = cpu.mem /\ cpu'.flags = setNZ(cpu.flags, v)
        /\ cpu'.ac = (IF reg = "ac" THEN v ELSE cpu.ac)
        /\ cpu'.ix = (IF reg = "ix" THEN v ELSE cpu.ix)
        /\ cpu'.iy = (IF reg = "iy" THEN v ELSE cpu.iy)
    BY <1>1, <2>1, SetFacts
  <2>3. Shown(v)
    <3>1. PICK flags \in SUBSET Flags : flags = cpu.flags
      BY <1>1, CpuFacts
    <3>2. /\ "N" \in cpu'.flags <=> v >= 128
          /\ "Z" \in cpu'.flags <=> v = 0
          /\ \A f \in {"V", "D", "C"} : f \in cpu'.flags <=> f \in flags
      BY <2>2, <3>1, NZFacts
    <3> QED
      BY <3>1, <3>2 DEF Shown, SameFlags, NZOf, Keeps
  <2> QED
    BY <2>1, <2>2, <2>3 DEF ToAc, ToIx, ToIy, Regs, SameMem
<1>3. ASSUME Ins.op \in {"LDA", "LDX", "LDY"}
      PROVE  /\ Ins.op = "LDA" => ToAc(Value)
             /\ Ins.op = "LDX" => ToIx(Value)
             /\ Ins.op = "LDY" => ToIy(Value)
  <2>1. PICK i \in Loads : Does(i[1], Set(cpu, i[2], Value))
    BY <1>3, Taken DEF Load
  <2>2. Value \in Byte
    BY <1>3, Operands DEF Operates
  <2>3. Ins.op = i[1] /\ i \in {<<"LDA", "ac">>, <<"LDX", "ix">>, <<"LDY", "iy">>}
    BY <2>1 DEF Does, Loads
  <2> QED
    BY <1>2, <2>1, <2>2, <2>3
<1>4. ASSUME Ins.op = "TAX"
      PROVE  ToIx(cpu.ac)
  <2>1. PICK i \in Transfers : Does(i[1], Set(cpu, i[3], cpu[i[2]]))
    BY <1>4, Taken DEF Transfer
  <2>2. i = <<"TAX", "ac", "ix">>
    BY <1>4, <2>1 DEF Does, Transfers
  <2> QED
    BY <1>1, <1>2, <2>1, <2>2, CpuFacts
<1>5. ASSUME Ins.op \in {"INX", "DEX", "INY", "DEY"}
      PROVE  /\ Ins.op = "INX" => ToIx(Wrap8(cpu.ix + 1))
             /\ Ins.op = "DEX" => ToIx(Wrap8(cpu.ix + 255))
             /\ Ins.op = "INY" => ToIy(Wrap8(cpu.iy + 1))
             /\ Ins.op = "DEY" => ToIy(Wrap8(cpu.iy + 255))
  <2>1. PICK i \in Counts : Does(i[1], Set(cpu, i[2], Wrap8(cpu[i[2]] + i[3])))
    BY <1>5, Taken DEF Count
  <2>2. Ins.op = i[1]
    BY <2>1 DEF Does
  <2>3. PICK x \in Byte, y \in Byte : x = cpu.ix /\ y = cpu.iy
    BY <1>1, CpuFacts
  <2>4. Wrap8(x + 1) \in Byte /\ Wrap8(x + 255) \in Byte /\ Wrap8(y + 1) \in Byte /\ Wrap8(y + 255) \in Byte
    BY DEF Wrap8, Byte
  <2>5. CASE i = <<"INX", "ix", 1>>
    BY <1>2, <2>1, <2>2, <2>3, <2>4, <2>5
  <2>6. CASE i = <<"DEX", "ix", 255>>
    BY <1>2, <2>1, <2>2, <2>3, <2>4, <2>6
  <2>7. CASE i = <<"INY", "iy", 1>>
    BY <1>2, <2>1, <2>2, <2>3, <2>4, <2>7
  <2>8. CASE i = <<"DEY", "iy", 255>>
    BY <1>2, <2>1, <2>2, <2>3, <2>4, <2>8
  <2> QED
    BY <2>5, <2>6, <2>7, <2>8 DEF Counts
<1> QED
  BY <1>3, <1>4, <1>5

\* An operation on a cell, or on the accumulator.
LEMMA AtCell ==
  ASSUME NEW s \in Cpus, NEW t \in Cpus, NEW x \in Cells, OnlyAt(s, t, x)
  PROVE  /\ t.ac = s.ac /\ t.ix = s.ix /\ t.iy = s.iy
         /\ \A d \in Cells : d # x => t.mem[d] = s.mem[d]
         /\ Fetch(s, x) = s.mem[x] /\ Fetch(t, x) = t.mem[x]
<1>1. Fetch(t, Acc) = t.ac /\ Fetch(s, Acc) = s.ac /\ Acc # x
  BY DEF Fetch, Acc, Cells, Byte
<1>2. \A y \in Cells : Fetch(t, y) = t.mem[y] /\ Fetch(s, y) = s.mem[y]
  BY DEF Fetch
<1> QED
  BY <1>1, <1>2 DEF OnlyAt

LEMMA AtAcc ==
  ASSUME NEW s \in Cpus, NEW t \in Cpus, OnlyAt(s, t, Acc)
  PROVE  /\ t.mem = s.mem /\ t.ix = s.ix /\ t.iy = s.iy
         /\ Fetch(s, Acc) = s.ac /\ Fetch(t, Acc) = t.ac
<1>1. Acc \notin Cells
  BY DEF Acc, Cells, Byte
<1>2. \A y \in Cells : Fetch(t, y) = t.mem[y] /\ Fetch(s, y) = s.mem[y] /\ y # Acc
  BY <1>1 DEF Fetch
<1>3. \A y \in Cells : t.mem[y] = s.mem[y]
  BY <1>2 DEF OnlyAt
<1>4. t.mem \in [Cells -> Byte] /\ s.mem \in [Cells -> Byte]
  BY CpuFacts
<1> QED
  BY <1>1, <1>3, <1>4 DEF OnlyAt, Fetch

LEMMA Stored ==
  ASSUME AluTypeOK, aluNext, Running, Target \in Cells
  PROVE  /\ Ins.op = "STA" => ToMem(Target, cpu.ac)
         /\ Ins.op = "STX" => ToMem(Target, cpu.ix)
         /\ Ins.op = "STY" => ToMem(Target, cpu.iy)
         /\ Ins.op = "STZ" => ToMem(Target, 0)
         /\ Ins.op = "SAX" => ToMem(Target, And8(cpu.ac, cpu.ix))
         /\ Ins.op = "INC" => Counted(Target, 1)
         /\ Ins.op = "DEC" => Counted(Target, 255)
<1>1. cpu \in Cpus
  BY DEF AluTypeOK
<1>2. ASSUME NEW op, NEW v, Does(op, [cpu EXCEPT !.mem[Target] = v])
      PROVE  ToMem(Target, v)
  <2>1. cpu' = [cpu EXCEPT !.mem[Target] = v] /\ OnTo(at + 1)
    BY <1>2 DEF Does, OnTo
  <2> QED
    BY <1>1, <2>1 DEF Cpus, ToMem, SameRegs, Regs, SameFlags, Keeps, Elsewhere
<1>3. ASSUME Ins.op \in {"STA", "STX", "STY"}
      PROVE  /\ Ins.op = "STA" => ToMem(Target, cpu.ac)
             /\ Ins.op = "STX" => ToMem(Target, cpu.ix)
             /\ Ins.op = "STY" => ToMem(Target, cpu.iy)
  <2>1. PICK i \in Stores : Does(i[1], [cpu EXCEPT !.mem[Target] = cpu[i[2]]])
    BY <1>3, Taken DEF Store
  <2>2. Ins.op = i[1] /\ i \in {<<"STA", "ac">>, <<"STX", "ix">>, <<"STY", "iy">>}
    BY <2>1 DEF Does, Stores
  <2> QED
    BY <1>2, <2>1, <2>2
<1>4. /\ Ins.op = "STZ" => ToMem(Target, 0)
      /\ Ins.op = "SAX" => ToMem(Target, And8(cpu.ac, cpu.ix))
  BY <1>2, Taken DEF Zero, Sax
<1>5. ASSUME NEW op, NEW n \in Byte, Does(op, Add(cpu, Target, n))
      PROVE  Counted(Target, n)
  <2>1. cpu' = Add(cpu, Target, n) /\ OnTo(at + 1)
    BY <1>5 DEF Does, OnTo
  <2>2. PICK s, t \in Cpus : s = cpu /\ t = cpu' /\ t = Add(s, Target, n)
    BY <1>1, <2>1, AddFacts
  <2>3. /\ OnlyAt(s, t, Target) /\ Fetch(t, Target) = Wrap8(Fetch(s, Target) + n)
        /\ NZOf(t, Fetch(t, Target)) /\ Keeps(s, t, {"V", "D", "C"})
    BY <2>2, AddFacts
  <2>4. /\ t.ac = s.ac /\ t.ix = s.ix /\ t.iy = s.iy
        /\ \A d \in Cells : d # Target => t.mem[d] = s.mem[d]
        /\ Fetch(s, Target) = s.mem[Target] /\ Fetch(t, Target) = t.mem[Target]
    BY <2>3, AtCell
  <2>5. NZOf(t, t.mem[Target]) /\ Keeps(s, t, {"C", "V", "D"})
    BY <2>3, <2>4 DEF Keeps
  <2> QED
    BY <2>1, <2>2, <2>3, <2>4, <2>5 DEF Counted, SameRegs, Regs, Elsewhere, Shown, SameFlags
<1>6. /\ Ins.op = "INC" => Counted(Target, 1)
      /\ Ins.op = "DEC" => Counted(Target, 255)
  <2>1. 1 \in Byte /\ 255 \in Byte
    BY DEF Byte
  <2> QED
    BY <1>5, <2>1, Taken DEF Inc, Dec
<1> QED
  BY <1>3, <1>4, <1>6
LEMMA Flagged ==
  ASSUME AluTypeOK, aluNext, Running
  PROVE  /\ Ins.op = "CLC" => ToFlag("C", FALSE)
         /\ Ins.op = "SEC" => ToFlag("C", TRUE)
         /\ Ins.op = "CLD" => ToFlag("D", FALSE)
         /\ Ins.op = "SED" => ToFlag("D", TRUE)
         /\ Ins.op = "CLV" => ToFlag("V", FALSE)
<1>1. cpu \in Cpus /\ cpu.flags \in SUBSET Flags
  BY CpuFacts DEF AluTypeOK
<1>2. ASSUME NEW op, NEW f \in Flags, NEW set \in BOOLEAN,
             Does(op, [cpu EXCEPT !.flags = setOrClearBit(@, f, set)])
      PROVE  ToFlag(f, set)
  <2>1. cpu' = [cpu EXCEPT !.flags = setOrClearBit(cpu.flags, f, set)] /\ OnTo(at + 1)
    BY <1>2 DEF Does, OnTo
  <2>2. SameRegs /\ SameMem /\ cpu'.flags = setOrClearBit(cpu.flags, f, set)
    BY <1>1, <2>1 DEF Cpus, SameRegs, Regs, SameMem
  <2>3. (f \in cpu'.flags <=> set) /\ SameFlags(Flags \ {f})
    BY <2>2 DEF setOrClearBit, SameFlags, Keeps
  <2> QED
    BY <2>1, <2>2, <2>3 DEF ToFlag
<1>3. ASSUME Ins.op \in {"CLC", "SEC", "CLD", "SED", "CLV"}
      PROVE  /\ Ins.op = "CLC" => ToFlag("C", FALSE)
             /\ Ins.op = "SEC" => ToFlag("C", TRUE)
             /\ Ins.op = "CLD" => ToFlag("D", FALSE)
             /\ Ins.op = "SED" => ToFlag("D", TRUE)
             /\ Ins.op = "CLV" => ToFlag("V", FALSE)
  <2>1. PICK i \in FlagOps : Does(i[1], [cpu EXCEPT !.flags = setOrClearBit(@, i[2], i[3])])
    BY <1>3, Taken DEF FlagOp
  <2>2. Ins.op = i[1] /\ "C" \in Flags /\ "D" \in Flags /\ "V" \in Flags
    BY <2>1 DEF Does, Flags
  <2>3. \/ i = <<"CLC", "C", FALSE>> \/ i = <<"SEC", "C", TRUE>> \/ i = <<"CLD", "D", FALSE>>
        \/ i = <<"SED", "D", TRUE>> \/ i = <<"CLV", "V", FALSE>>
    BY Zenon DEF FlagOps
  <2>4. CASE i = <<"CLC", "C", FALSE>>
    BY <1>2, <2>1, <2>2, <2>4
  <2>5. CASE i = <<"SEC", "C", TRUE>>
    BY <1>2, <2>1, <2>2, <2>5
  <2>6. CASE i = <<"CLD", "D", FALSE>>
    BY <1>2, <2>1, <2>2, <2>6
  <2>7. CASE i = <<"SED", "D", TRUE>>
    BY <1>2, <2>1, <2>2, <2>7
  <2>8. CASE i = <<"CLV", "V", FALSE>>
    BY <1>2, <2>1, <2>2, <2>8
  <2> QED
    BY <2>3, <2>4, <2>5, <2>6, <2>7, <2>8
<1> QED
  BY <1>3

\* A bit that is not set is clear.
LEMMA Reset ==
  ASSUME NEW n \in Byte, NEW i \in 0..7
  PROVE  Bit(n, i) = 0 <=> ~Is(n, i)
<1>1. \A j \in 0..3 : Bit(n, j) \in {0, 1} /\ Bit(n, j + 4) \in {0, 1}
  BY ByteBits
<1>2. i \in 0..3 \/ (i - 4 \in 0..3 /\ i = (i - 4) + 4)
  OBVIOUS
<1>3. Bit(n, i) \in {0, 1}
  BY <1>1, <1>2
<1> QED
  BY <1>3 DEF Is

LEMMA Jumped ==
  ASSUME AluTypeOK, aluNext, Running
  PROVE  /\ Ins.op = "BCC" => Jumps(~C, Ins.to)
         /\ Ins.op = "BCS" => Jumps(C, Ins.to)
         /\ Ins.op = "BNE" => Jumps(~Z, Ins.to)
         /\ Ins.op = "BEQ" => Jumps(Z, Ins.to)
         /\ Ins.op = "BPL" => Jumps(~N, Ins.to)
         /\ Ins.op = "BMI" => Jumps(N, Ins.to)
         /\ Ins.op = "BVC" => Jumps(~V, Ins.to)
         /\ Ins.op = "BVS" => Jumps(V, Ins.to)
         /\ Ins.op = "BBR" /\ Ins.bit \in 0..7 => Jumps(~Is(Value, Ins.bit), Ins.to)
         /\ Ins.op = "BBS" => Jumps(Is(Value, Ins.bit), Ins.to)
<1>1. ASSUME NEW taken \in BOOLEAN, BranchTo(taken)
      PROVE  Jumps(taken, Ins.to)
  BY <1>1 DEF BranchTo, Jumps, OnTo
<1>2. ASSUME Ins.op \in {"BCC", "BCS", "BNE", "BEQ", "BPL", "BMI", "BVC", "BVS"}
      PROVE  /\ Ins.op = "BCC" => Jumps(~C, Ins.to)
             /\ Ins.op = "BCS" => Jumps(C, Ins.to)
             /\ Ins.op = "BNE" => Jumps(~Z, Ins.to)
             /\ Ins.op = "BEQ" => Jumps(Z, Ins.to)
             /\ Ins.op = "BPL" => Jumps(~N, Ins.to)
             /\ Ins.op = "BMI" => Jumps(N, Ins.to)
             /\ Ins.op = "BVC" => Jumps(~V, Ins.to)
             /\ Ins.op = "BVS" => Jumps(V, Ins.to)
  <2>1. PICK i \in Branches : Ins.op = i[1] /\ BranchTo((i[2] \in cpu.flags) = i[3])
    BY <1>2, Taken DEF Branch
  <2>2. \/ i = <<"BCC", "C", FALSE>> \/ i = <<"BCS", "C", TRUE>>
        \/ i = <<"BNE", "Z", FALSE>> \/ i = <<"BEQ", "Z", TRUE>>
        \/ i = <<"BPL", "N", FALSE>> \/ i = <<"BMI", "N", TRUE>>
        \/ i = <<"BVC", "V", FALSE>> \/ i = <<"BVS", "V", TRUE>>
    BY Zenon DEF Branches
  <2>3. PICK taken \in BOOLEAN : (taken <=> (i[2] \in cpu.flags) = i[3]) /\ Jumps(taken, Ins.to)
    BY <1>1, <2>1
  <2>4. CASE i = <<"BCC", "C", FALSE>>
    <3>1. i[1] = "BCC" /\ i[2] = "C" /\ i[3] = FALSE
      BY <2>4
    <3>2. taken <=> ((i[2] \in cpu.flags) = FALSE)
      BY <2>3, <3>1, Zenon
    <3>3. taken <=> ~C
      BY <3>1, <3>2 DEF C
    <3> QED
      BY <2>1, <2>3, <3>1, <3>3 DEF Jumps
  <2>5. CASE i = <<"BCS", "C", TRUE>>
    BY <2>1, <2>3, <2>5 DEF Jumps, C
  <2>6. CASE i = <<"BNE", "Z", FALSE>>
    <3>1. i[1] = "BNE" /\ i[2] = "Z" /\ i[3] = FALSE
      BY <2>6
    <3>2. taken <=> ((i[2] \in cpu.flags) = FALSE)
      BY <2>3, <3>1, Zenon
    <3>3. taken <=> ~Z
      BY <3>1, <3>2 DEF Z
    <3> QED
      BY <2>1, <2>3, <3>1, <3>3 DEF Jumps
  <2>7. CASE i = <<"BEQ", "Z", TRUE>>
    BY <2>1, <2>3, <2>7 DEF Jumps, Z
  <2>8. CASE i = <<"BPL", "N", FALSE>>
    <3>1. i[1] = "BPL" /\ i[2] = "N" /\ i[3] = FALSE
      BY <2>8
    <3>2. taken <=> ((i[2] \in cpu.flags) = FALSE)
      BY <2>3, <3>1, Zenon
    <3>3. taken <=> ~N
      BY <3>1, <3>2 DEF N
    <3> QED
      BY <2>1, <2>3, <3>1, <3>3 DEF Jumps
  <2>9. CASE i = <<"BMI", "N", TRUE>>
    BY <2>1, <2>3, <2>9 DEF Jumps, N
  <2>10. CASE i = <<"BVC", "V", FALSE>>
    <3>1. i[1] = "BVC" /\ i[2] = "V" /\ i[3] = FALSE
      BY <2>10
    <3>2. taken <=> ((i[2] \in cpu.flags) = FALSE)
      BY <2>3, <3>1, Zenon
    <3>3. taken <=> ~V
      BY <3>1, <3>2 DEF V
    <3> QED
      BY <2>1, <2>3, <3>1, <3>3 DEF Jumps
  <2>11. CASE i = <<"BVS", "V", TRUE>>
    BY <2>1, <2>3, <2>11 DEF Jumps, V
  <2> QED
    BY <2>2, <2>4, <2>5, <2>6, <2>7, <2>8, <2>9, <2>10, <2>11
<1>3. ASSUME Ins.op \in {"BBR", "BBS"}
      PROVE  /\ Ins.op = "BBR" /\ Ins.bit \in 0..7 => Jumps(~Is(Value, Ins.bit), Ins.to)
             /\ Ins.op = "BBS" => Jumps(Is(Value, Ins.bit), Ins.to)
  <2>1. PICK i \in BitBranches : Ins.op = i[1] /\ BranchTo(Bit(Value, Ins.bit) = i[2])
    BY <1>3, Taken DEF BitBranch
  <2>2. i = <<"BBR", 0>> \/ i = <<"BBS", 1>>
    BY DEF BitBranches
  <2>3. Jumps(Bit(Value, Ins.bit) = i[2], Ins.to)
    BY <1>1, <2>1
  <2>4. Ins.bit \in 0..7 => (Bit(Value, Ins.bit) = 0 <=> ~Is(Value, Ins.bit))
    BY <1>3, Operands, Reset DEF Operates
  <2> QED
    BY <2>1, <2>2, <2>3, <2>4 DEF Jumps, Is
<1> QED
  BY <1>2, <1>3

-----------------------------------------------------------------------------
(* Arithmetic, with what EveryAddition and the like say of it.             *)

Adds(v)       == OnTo(at + 1) /\ Added(cpu, v, cpu')
Subtracts(v)  == OnTo(at + 1) /\ Subtracted(cpu, v, cpu')
Compares8(a, v) == OnTo(at + 1) /\ Compared(cpu, a, v, cpu')

LEMMA Computed ==
  ASSUME AluTypeOK, aluNext, Running
  PROVE  /\ Ins.op = "ADC" => Adds(Value)
         /\ Ins.op = "SBC" => Subtracts(Value)
         /\ Ins.op = "CMP" => Compares8(cpu.ac, Value)
         /\ Ins.op = "CPX" => Compares8(cpu.ix, Value)
<1>1. cpu \in Cpus /\ cpu.ac \in Byte /\ cpu.ix \in Byte
  BY CpuFacts DEF AluTypeOK
<1>2. CASE Ins.op \in {"ADC", "SBC"}
  <2>1. Value \in Byte
    BY <1>2, Operands DEF Operates
  <2> QED
    BY <1>1, <1>2, <2>1, Taken, AddedRight, SubtractedRight DEF Adc, Sbc, Does, Adds, Subtracts, OnTo
<1>3. CASE Ins.op \in {"CMP", "CPX"}
  <2>1. PICK i \in Compares : Does(i[1], Compare(cpu, cpu[i[2]], Value))
    BY <1>3, Taken DEF Cmp
  <2>2. Ins.op = i[1] /\ i \in {<<"CMP", "ac">>, <<"CPX", "ix">>, <<"CPY", "iy">>}
    BY <2>1 DEF Does, Compares
  <2>3. Value \in Byte
    BY <1>3, Operands DEF Operates
  <2>4. PICK a \in Byte : a = cpu[i[2]] /\ cpu' = Compare(cpu, a, Value) /\ OnTo(at + 1)
    BY <1>1, <1>3, <2>1, <2>2 DEF Does, OnTo
  <2>5. Compared(cpu, a, Value, cpu')
    <3>1. PICK v \in Byte : v = Value
      BY <2>3
    <3>2. \A s \in Cpus : Compared(s, a, v, Compare(s, a, v))
      BY CompareRight DEF Compared
    <3> QED
      BY <1>1, <2>4, <3>1, <3>2
  <2> QED
    BY <1>3, <2>2, <2>4, <2>5 DEF Compares8
<1> QED
  BY <1>2, <1>3
-----------------------------------------------------------------------------
(* Shifts, of a cell or of the accumulator, and what else they do.         *)

Left(c, in)  == /\ OnTo(at + 1) /\ Elsewhere(c)
                /\ cpu'.mem[c] + 256 * Carry' = 2 * cpu.mem[c] + in
Right(c, in) == /\ OnTo(at + 1) /\ Elsewhere(c)
                /\ 2 * cpu'.mem[c] + Carry' = cpu.mem[c] + 256 * in
AccLeft(in)  == /\ OnTo(at + 1) /\ SameMem /\ Regs(cpu'.ac, cpu.ix, cpu.iy) /\ SameFlags({"V", "D"})
                /\ cpu'.ac + 256 * Carry' = 2 * cpu.ac + in
AccRight(in) == /\ OnTo(at + 1) /\ SameMem /\ Regs(cpu'.ac, cpu.ix, cpu.iy) /\ SameFlags({"V", "D"})
                /\ 2 * cpu'.ac + Carry' = cpu.ac + 256 * in
Quietly      == SameRegs /\ SameFlags({"V", "D"})

LEMMA ShiftedCell ==
  ASSUME AluTypeOK, aluNext, Running, Target \in Cells
  PROVE  /\ Ins.op = "ASL" => Left(Target, 0) /\ Quietly
         /\ Ins.op = "ROL" => Left(Target, Carry) /\ Quietly
         /\ Ins.op = "LSR" => Right(Target, 0) /\ Quietly
         /\ Ins.op = "ROR" => Right(Target, Carry) /\ Quietly
         /\ Ins.op = "SLO" => Left(Target, 0)
         /\ Ins.op = "RLA" => Left(Target, Carry)
         /\ Ins.op = "SRE" => Right(Target, 0)
<1>1. PICK s \in Cpus, x \in Cells, c \in {0, 1} : s = cpu /\ x = Target /\ c = Carry
  BY CpuFacts DEF AluTypeOK, Carry
<1>2. PICK a, b, d, e \in Cpus : a = asl(s, x) /\ b = rol(s, x) /\ d = lsr(s, x) /\ e = ror(s, x)
  BY ShiftsAreRight
<1>3. c = testBit(s, "C")
  BY <1>1 DEF Carry
<1>4. /\ ShiftsLeft(a, x, Fetch(s, x), 0) /\ ShiftsLeft(b, x, Fetch(s, x), c)
      /\ ShiftsRight(d, x, Fetch(s, x), 0) /\ ShiftsRight(e, x, Fetch(s, x), c)
      /\ \A t \in {a, b, d, e} : OnlyAt(s, t, x) /\ Keeps(s, t, {"V", "D"})
  BY <1>2, <1>3, ShiftsAreRight
<1>5. \A t \in {a, b, d, e} :
        /\ t.ac = s.ac /\ t.ix = s.ix /\ t.iy = s.iy
        /\ \A y \in Cells : y # x => t.mem[y] = s.mem[y]
        /\ Fetch(s, x) = s.mem[x] /\ Fetch(t, x) = t.mem[x]
  BY <1>4, AtCell
<1>6. s.mem[x] \in Int
  <2>1. s.mem[x] \in Byte
    BY CellFacts
  <2> QED
    BY <2>1 DEF Byte
<1>7. /\ a.mem[x] + 256 * testBit(a, "C") = 2 * s.mem[x]
      /\ b.mem[x] + 256 * testBit(b, "C") = 2 * s.mem[x] + c
      /\ 2 * d.mem[x] + testBit(d, "C") = s.mem[x]
      /\ 2 * e.mem[x] + testBit(e, "C") = s.mem[x] + 256 * c
  BY <1>4, <1>5, <1>6 DEF ShiftsLeft, ShiftsRight
<1>8. /\ Ins.op = "ASL" => cpu' = a /\ OnTo(at + 1)
      /\ Ins.op = "ROL" => cpu' = b /\ OnTo(at + 1)
      /\ Ins.op = "LSR" => cpu' = d /\ OnTo(at + 1)
      /\ Ins.op = "ROR" => cpu' = e /\ OnTo(at + 1)
  BY <1>1, <1>2, Taken DEF Asl, Rol, Lsr, Ror, Does, OnTo
<1>9. /\ Ins.op = "ASL" => Left(Target, 0)
      /\ Ins.op = "ROL" => Left(Target, Carry)
      /\ Ins.op = "LSR" => Right(Target, 0)
      /\ Ins.op = "ROR" => Right(Target, Carry)
  BY <1>1, <1>5, <1>6, <1>7, <1>8 DEF Left, Right, Elsewhere, Carry
<1>10. Ins.op \in {"ASL", "ROL", "LSR", "ROR"} => Quietly
  BY <1>1, <1>4, <1>5, <1>8 DEF Quietly, SameRegs, Regs, SameFlags
<1>11. ASSUME NEW t \in Cpus, NEW v \in Byte
       PROVE  Set(t, "ac", v).mem = t.mem /\ testBit(Set(t, "ac", v), "C") = testBit(t, "C")
  <2>1. PICK flags \in SUBSET Flags : flags = t.flags
    BY CpuFacts
  <2>2. Set(t, "ac", v).flags = setNZ(flags, v)
    BY <2>1, SetFacts
  <2>3. "C" \in setNZ(flags, v) <=> "C" \in flags
    BY NZFacts
  <2> QED
    BY <2>1, <2>2, <2>3, SetFacts, ZenonT(30) DEF testBit
<1>12. \A t \in Cpus : /\ Or8(t.ac, t.mem[x]) \in Byte /\ And8(t.ac, t.mem[x]) \in Byte
                       /\ Xor8(t.ac, t.mem[x]) \in Byte
  BY CpuFacts, CellFacts, Operations
<1>13. /\ Ins.op = "SLO" => cpu'.mem = a.mem /\ Carry' = testBit(a, "C") /\ OnTo(at + 1)
       /\ Ins.op = "RLA" => cpu'.mem = b.mem /\ Carry' = testBit(b, "C") /\ OnTo(at + 1)
       /\ Ins.op = "SRE" => cpu'.mem = d.mem /\ Carry' = testBit(d, "C") /\ OnTo(at + 1)
  BY <1>1, <1>2, <1>11, <1>12, Taken DEF Slo, Rla, Sre, Does, OnTo, Carry
<1>14. /\ Ins.op = "SLO" => Left(Target, 0)
       /\ Ins.op = "RLA" => Left(Target, Carry)
       /\ Ins.op = "SRE" => Right(Target, 0)
  BY <1>1, <1>5, <1>6, <1>7, <1>13 DEF Left, Right, Elsewhere
<1> QED
  BY <1>9, <1>10, <1>14

\* The carry of RRA is that of its sum.
LEMMA RotatedAndAdded ==
  ASSUME AluTypeOK, aluNext, Running, Target \in Cells, Ins.op = "RRA"
  PROVE  /\ OnTo(at + 1) /\ Elsewhere(Target)
         /\ \E bit \in {0, 1} : 2 * cpu'.mem[Target] + bit = cpu.mem[Target] + 256 * Carry
<1>1. PICK s \in Cpus, x \in Cells, c \in {0, 1} : s = cpu /\ x = Target /\ c = Carry /\ c = testBit(s, "C")
  BY CpuFacts DEF AluTypeOK, Carry
<1>2. PICK e \in Cpus : e = ror(s, x) /\ e.mem[x] \in Byte
  BY Combined
<1>3. ShiftsRight(e, x, Fetch(s, x), c) /\ OnlyAt(s, e, x)
  BY <1>1, <1>2, ShiftsAreRight
<1>4. /\ \A y \in Cells : y # x => e.mem[y] = s.mem[y]
      /\ Fetch(s, x) = s.mem[x] /\ Fetch(e, x) = e.mem[x]
  BY <1>3, AtCell
<1>5. cpu' = adc(e, e.mem[x]) /\ OnTo(at + 1)
  BY <1>1, <1>2, Taken DEF Rra, Does, OnTo
<1>6. cpu'.mem = e.mem
  BY <1>2, <1>5, AddedRight DEF Added, OnlyAc
<1>7. testBit(e, "C") \in {0, 1}
  BY CpuFacts
<1>8. 2 * e.mem[x] + testBit(e, "C") = s.mem[x] + 256 * c
  BY <1>3, <1>4 DEF ShiftsRight
<1> QED
  BY <1>1, <1>4, <1>5, <1>6, <1>7, <1>8 DEF Elsewhere

LEMMA ShiftedAcc ==
  ASSUME AluTypeOK, aluNext, Running, Target = Acc
  PROVE  /\ Ins.op = "ROL" => AccLeft(Carry)
         /\ Ins.op = "ROR" => AccRight(Carry)
<1>1. PICK s \in Cpus, c \in {0, 1} : s = cpu /\ c = Carry /\ c = testBit(s, "C")
  BY CpuFacts DEF AluTypeOK, Carry
<1>2. PICK b, e \in Cpus : b = rol(s, Acc) /\ e = ror(s, Acc)
  BY ShiftsAreRight
<1>3. /\ ShiftsLeft(b, Acc, Fetch(s, Acc), c) /\ ShiftsRight(e, Acc, Fetch(s, Acc), c)
      /\ \A t \in {b, e} : OnlyAt(s, t, Acc) /\ Keeps(s, t, {"V", "D"})
  BY <1>1, <1>2, ShiftsAreRight
<1>4. \A t \in {b, e} : /\ t.mem = s.mem /\ t.ix = s.ix /\ t.iy = s.iy
                        /\ Fetch(s, Acc) = s.ac /\ Fetch(t, Acc) = t.ac
  BY <1>3, AtAcc
<1>5. /\ b.ac + 256 * testBit(b, "C") = 2 * s.ac + c
      /\ 2 * e.ac + testBit(e, "C") = s.ac + 256 * c
  BY <1>3, <1>4 DEF ShiftsLeft, ShiftsRight
<1>6. /\ Ins.op = "ROL" => cpu' = b /\ OnTo(at + 1)
      /\ Ins.op = "ROR" => cpu' = e /\ OnTo(at + 1)
  BY <1>1, <1>2, Taken DEF Rol, Ror, Does, OnTo
<1> QED
  BY <1>1, <1>3, <1>4, <1>5, <1>6 DEF AccLeft, AccRight, SameMem, Regs, SameFlags, Carry
-----------------------------------------------------------------------------
(* A count and what it is compared with or taken from.                     *)

CountedThen(c, n) == /\ OnTo(at + 1) /\ Elsewhere(c) /\ cpu'.mem[c] = Wrap8(cpu.mem[c] + n)
                     /\ cpu'.ix = cpu.ix /\ cpu'.iy = cpu.iy /\ SameFlags({"D"})

LEMMA CountedAndUsed ==
  ASSUME AluTypeOK, aluNext, Running, Target \in Cells
  PROVE  /\ Ins.op = "DCP" => /\ CountedThen(Target, 255) /\ cpu'.ac = cpu.ac
                              /\ Z' <=> cpu.ac = cpu'.mem[Target]
         /\ Ins.op = "ISC" /\ ~D =>
              /\ CountedThen(Target, 1)
              /\ cpu'.ac - 256 * (1 - Carry') = cpu.ac - cpu'.mem[Target] - (1 - Carry)
<1>1. PICK s \in Cpus, x \in Cells : s = cpu /\ x = Target
  BY DEF AluTypeOK
<1>2. ASSUME NEW n \in {1, 255}, NEW t, t = Add(s, x, n)
      PROVE  /\ t \in Cpus /\ t.ac = s.ac /\ t.ix = s.ix /\ t.iy = s.iy
             /\ t.mem[x] \in Byte /\ t.mem[x] = Wrap8(s.mem[x] + n)
             /\ \A d \in Cells : d # x => t.mem[d] = s.mem[d]
             /\ "D" \in t.flags <=> "D" \in s.flags
             /\ testBit(t, "C") = testBit(s, "C")
  <2>1. n \in Byte
    BY DEF Byte
  <2>2. /\ t \in Cpus /\ OnlyAt(s, t, x) /\ Fetch(t, x) = Wrap8(Fetch(s, x) + n)
        /\ Keeps(s, t, {"V", "D", "C"})
    BY <1>2, <2>1, AddFacts
  <2>3. /\ t.ac = s.ac /\ t.ix = s.ix /\ t.iy = s.iy
        /\ \A d \in Cells : d # x => t.mem[d] = s.mem[d]
        /\ Fetch(s, x) = s.mem[x] /\ Fetch(t, x) = t.mem[x]
    BY <2>2, AtCell
  <2>4. t.mem[x] \in Byte
    BY <2>2, CellFacts
  <2> QED
    BY <2>2, <2>3, <2>4 DEF Keeps, testBit
<1>3. CASE Ins.op = "DCP"
  <2>1. PICK t \in Cpus : t = Add(s, x, 255)
    BY <1>2
  <2>2. cpu' = Compare(t, t.ac, t.mem[x]) /\ OnTo(at + 1)
    BY <1>1, <1>3, <2>1, Taken DEF Dcp, Does, OnTo
  <2>3. t.ac \in Byte /\ t.mem[x] \in Byte
    BY CpuFacts, CellFacts
  <2>4. /\ cpu'.ac = t.ac /\ OnlyAc(t, cpu') /\ Keeps(t, cpu', {"V", "D"})
        /\ "Z" \in cpu'.flags <=> t.ac = t.mem[x]
    BY <2>2, <2>3, CompareRight
  <2> QED
    BY <1>1, <1>2, <1>3, <2>1, <2>2, <2>4 DEF CountedThen, Elsewhere, OnlyAc, SameFlags, Keeps, Z
<1>4. CASE Ins.op = "ISC" /\ ~D
  <2>1. PICK t \in Cpus : t = Add(s, x, 1)
    BY <1>2
  <2>2. cpu' = sbc(t, t.mem[x]) /\ OnTo(at + 1)
    BY <1>1, <1>4, <2>1, Taken DEF Isc, Does, OnTo
  <2>3. t.ac \in Byte /\ t.mem[x] \in Byte
    BY CpuFacts, CellFacts
  <2>4. Subtracted(t, t.mem[x], cpu')
    BY <2>2, <2>3, SubtractedRight
  <2>5. "D" \notin t.flags
    BY <1>1, <1>2, <1>4, <2>1 DEF D
  <2>6. /\ cpu'.ac - 256 * (1 - testBit(cpu', "C")) = t.ac - t.mem[x] - (1 - testBit(t, "C"))
        /\ OnlyAc(t, cpu') /\ Keeps(t, cpu', {"D"})
    BY <2>4, <2>5 DEF Subtracted
  <2> QED
    BY <1>1, <1>2, <1>4, <2>1, <2>2, <2>6 DEF CountedThen, Elsewhere, OnlyAc, SameFlags, Keeps, Carry
<1> QED
  BY <1>3, <1>4

-----------------------------------------------------------------------------
(* Bits.                                                                   *)

\* A byte of memory that is made of bits of two, and the rest as it was.
Merges(c) == /\ OnTo(at + 1) /\ SameRegs /\ Elsewhere(c) /\ SameFlags({"N", "V", "D", "C"})

LEMMA Logic ==
  ASSUME AluTypeOK, aluNext, Running
  PROVE  /\ Ins.op = "AND" => ToAc(And8(cpu.ac, Value))
         /\ Ins.op = "ORA" => ToAc(Or8(cpu.ac, Value))
         /\ Ins.op = "EOR" => ToAc(Xor8(cpu.ac, Value))
<1>1. PICK s \in Cpus, ac \in Byte : s = cpu /\ ac = cpu.ac
  BY CpuFacts DEF AluTypeOK
<1>2. ASSUME NEW op, NEW v \in Byte, Does(op, Set(cpu, "ac", v))
      PROVE  ToAc(v)
  <2>1. cpu' = Set(s, "ac", v) /\ OnTo(at + 1)
    BY <1>1, <1>2 DEF Does, OnTo
  <2>2. /\ cpu'.mem = s.mem /\ cpu'.flags = setNZ(s.flags, v)
        /\ cpu'.ac = v /\ cpu'.ix = s.ix /\ cpu'.iy = s.iy
    BY <2>1, SetFacts, ZenonT(30)
  <2>3. PICK flags \in SUBSET Flags : flags = s.flags
    BY CpuFacts
  <2>4. /\ "N" \in cpu'.flags <=> v >= 128
        /\ "Z" \in cpu'.flags <=> v = 0
        /\ \A f \in {"V", "D", "C"} : f \in cpu'.flags <=> f \in flags
    BY <2>2, <2>3, NZFacts
  <2> QED
    BY <1>1, <2>1, <2>2, <2>3, <2>4 DEF ToAc, Regs, SameMem, Shown, SameFlags, NZOf, Keeps
<1>3. CASE Ins.op \in {"AND", "ORA", "EOR"}
  <2>1. PICK v \in Byte : v = Value
    BY <1>3, Operands DEF Operates
  <2>2. And8(ac, v) \in Byte /\ Or8(ac, v) \in Byte /\ Xor8(ac, v) \in Byte
    BY Operations
  <2> QED
    BY <1>1, <1>2, <1>3, <2>1, <2>2, Taken DEF And, Ora, Eor
<1> QED
  BY <1>3

LEMMA BitsTested ==
  ASSUME AluTypeOK, aluNext, Running, Ins.op = "BIT"
  PROVE  /\ OnTo(at + 1) /\ SameRegs /\ SameMem /\ SameFlags({"D", "C"})
         /\ Ins.mode = "imm" => SameFlags({"N", "V"})
         /\ Ins.mode # "imm" => (N' <=> Is(Value, 7)) /\ (V' <=> Is(Value, 6))
<1>1. cpu \in Cpus
  BY DEF AluTypeOK
<1> DEFINE flags == IF Ins.mode = "imm" THEN cpu.flags
                    ELSE setOrClearBit(setOrClearBit(cpu.flags, "V", Bit(Value, 6) = 1), "N", Bit(Value, 7) = 1)
           all   == setOrClearBit(flags, "Z", And8(Value, cpu.ac) = 0)
<1>2. cpu' = [cpu EXCEPT !.flags = all] /\ OnTo(at + 1)
  BY Taken DEF BitTest, Does, OnTo
<1>3. SameRegs /\ SameMem /\ cpu'.flags = all
  BY <1>1, <1>2 DEF Cpus, SameRegs, Regs, SameMem
<1>4. \A f \in {"N", "V", "D", "C"} : f \in all <=> f \in flags
  BY DEF setOrClearBit
<1>5. /\ Ins.mode = "imm" => flags = cpu.flags
      /\ Ins.mode # "imm" => /\ "N" \in flags <=> Bit(Value, 7) = 1
                             /\ "V" \in flags <=> Bit(Value, 6) = 1
      /\ "D" \in flags <=> "D" \in cpu.flags
      /\ "C" \in flags <=> "C" \in cpu.flags
  BY DEF setOrClearBit
<1> HIDE DEF all, flags
<1> QED
  BY <1>2, <1>3, <1>4, <1>5 DEF SameFlags, Keeps, N, V, Is

LEMMA BitsSet ==
  ASSUME AluTypeOK, aluNext, Running, Target \in Cells
  PROVE  /\ Ins.op \in {"TRB", "TSB", "RMB", "SMB"} => Merges(Target)
         /\ Ins.op = "TRB" => \A i \in 0..7 :
              Is(cpu'.mem[Target], i) <=> Is(cpu.mem[Target], i) /\ ~Is(cpu.ac, i)
         /\ Ins.op = "TSB" => \A i \in 0..7 :
              Is(cpu'.mem[Target], i) <=> Is(cpu.mem[Target], i) \/ Is(cpu.ac, i)
         /\ Ins.op = "RMB" => \A i \in 0..7 :
              Is(cpu'.mem[Target], i) <=> Is(cpu.mem[Target], i) /\ i # Ins.bit
         /\ Ins.op = "SMB" => \A i \in 0..7 :
              Is(cpu'.mem[Target], i) <=> Is(cpu.mem[Target], i) \/ i = Ins.bit
<1>1. PICK s \in Cpus, x \in Cells, ac \in Byte : s = cpu /\ x = Target /\ ac = cpu.ac
  BY CpuFacts DEF AluTypeOK
<1>2. PICK v \in Byte : v = s.mem[x]
  BY CellFacts
<1>3. ASSUME NEW w, NEW f, cpu' = [cpu EXCEPT !.mem[Target] = w, !.flags = f],
             \A g \in {"N", "V", "D", "C"} : g \in f <=> g \in cpu.flags, OnTo(at + 1)
      PROVE  Merges(Target) /\ cpu'.mem[Target] = w
  <2>1. cpu' = [s EXCEPT !.mem[x] = w, !.flags = f]
    BY <1>1, <1>3
  <2>2. /\ cpu'.ac = s.ac /\ cpu'.ix = s.ix /\ cpu'.iy = s.iy /\ cpu'.flags = f
        /\ cpu'.mem = [s.mem EXCEPT ![x] = w]
    BY <2>1 DEF Cpus
  <2>3. s.mem \in [Cells -> Byte]
    BY CpuFacts
  <2> QED
    BY <1>1, <1>3, <2>2, <2>3 DEF Merges, SameRegs, Regs, Elsewhere, SameFlags, Keeps
<1>4. CASE Ins.op \in {"TRB", "TSB"}
  <2>1. PICK f : f = setOrClearBit(cpu.flags, "Z", And8(Value, cpu.ac) = 0)
    OBVIOUS
  <2>2. \A g \in {"N", "V", "D", "C"} : g \in f <=> g \in cpu.flags
    BY <2>1 DEF setOrClearBit
  <2>3. /\ Ins.op = "TRB" => cpu' = [cpu EXCEPT !.mem[Target] = And8(v, Not8(ac)), !.flags = f]
        /\ Ins.op = "TSB" => cpu' = [cpu EXCEPT !.mem[Target] = Or8(v, ac), !.flags = f]
        /\ OnTo(at + 1)
    BY <1>1, <1>2, <1>4, <2>1, Taken DEF Trb, Tsb, Does, OnTo, Cpus
  <2>4. \A i \in 0..7 : /\ Is(And8(v, Not8(ac)), i) <=> Is(v, i) /\ ~Is(ac, i)
                        /\ Is(Or8(v, ac), i) <=> Is(v, i) \/ Is(ac, i)
    BY Both
  <2>5. CASE Ins.op = "TRB"
    <3>1. cpu' = [cpu EXCEPT !.mem[Target] = And8(v, Not8(ac)), !.flags = f] /\ OnTo(at + 1)
      BY <2>3, <2>5
    <3>2. Merges(Target) /\ cpu'.mem[Target] = And8(v, Not8(ac))
      BY <1>3, <2>2, <3>1
    <3> QED
      BY <1>1, <1>2, <2>4, <2>5, <3>2
  <2>6. CASE Ins.op = "TSB"
    <3>1. cpu' = [cpu EXCEPT !.mem[Target] = Or8(v, ac), !.flags = f] /\ OnTo(at + 1)
      BY <2>3, <2>6
    <3>2. Merges(Target) /\ cpu'.mem[Target] = Or8(v, ac)
      BY <1>3, <2>2, <3>1
    <3> QED
      BY <1>1, <1>2, <2>4, <2>6, <3>2
  <2> QED
    BY <1>4, <2>5, <2>6
<1>5. CASE Ins.op \in {"RMB", "SMB"}
  <2>1. Ins.bit \in 0..7
    BY <1>5, InsFacts, Instructions DEF Legal
  <2>2. PICK m \in Byte : m = 2^Ins.bit /\ \A i \in 0..7 : Is(m, i) <=> i = Ins.bit
    BY <2>1, PowerBits DEF Is
  <2>3. /\ Ins.op = "RMB" => cpu' = [cpu EXCEPT !.mem[Target] = And8(v, Not8(m)), !.flags = cpu.flags]
        /\ Ins.op = "SMB" => cpu' = [cpu EXCEPT !.mem[Target] = Or8(v, m), !.flags = cpu.flags]
        /\ OnTo(at + 1)
    BY <1>1, <1>2, <1>5, <2>2, Taken DEF Rmb, Smb, Does, OnTo, Cpus
  <2>4. \A i \in 0..7 : /\ Is(And8(v, Not8(m)), i) <=> Is(v, i) /\ ~Is(m, i)
                        /\ Is(Or8(v, m), i) <=> Is(v, i) \/ Is(m, i)
    BY Both
  <2>5. CASE Ins.op = "RMB"
    <3>1. cpu' = [cpu EXCEPT !.mem[Target] = And8(v, Not8(m)), !.flags = cpu.flags] /\ OnTo(at + 1)
      BY <2>3, <2>5
    <3>2. Merges(Target) /\ cpu'.mem[Target] = And8(v, Not8(m))
      BY <1>3, <3>1
    <3> QED
      BY <1>1, <1>2, <2>2, <2>4, <2>5, <3>2
  <2>6. CASE Ins.op = "SMB"
    <3>1. cpu' = [cpu EXCEPT !.mem[Target] = Or8(v, m), !.flags = cpu.flags] /\ OnTo(at + 1)
      BY <2>3, <2>6
    <3>2. Merges(Target) /\ cpu'.mem[Target] = Or8(v, m)
      BY <1>3, <3>1
    <3> QED
      BY <1>1, <1>2, <2>2, <2>4, <2>6, <3>2
  <2> QED
    BY <1>5, <2>5, <2>6
<1> QED
  BY <1>4, <1>5
-----------------------------------------------------------------------------
(* The undocumented instructions that load, mask and subtract at once.     *)

LEMMA Masked ==
  ASSUME AluTypeOK, aluNext, Running
  PROVE  /\ Ins.op \in {"LAX", "ANC", "ALR", "ARR", "SBX"} =>
              OnTo(at + 1) /\ SameMem /\ cpu'.iy = cpu.iy /\ SameFlags({"D"})
         /\ Ins.op = "LAX" => cpu'.ac = Value /\ cpu'.ix = Value
         /\ Ins.op = "ANC" => /\ cpu'.ac = And8(cpu.ac, Value)
                              /\ C' <=> cpu'.ac >= 128
         /\ Ins.op = "ALR" => 2 * cpu'.ac + Carry' = And8(cpu.ac, Value)
         /\ Ins.op = "ARR" => /\ cpu'.ac = And8(cpu.ac, Value) \div 2 + 128 * Carry
                              /\ Carry' = Carry
         /\ Ins.op = "SBX" => /\ cpu'.ix = Wrap8(And8(cpu.ac, cpu.ix) + Not8(Value) + 1)
                              /\ C' <=> And8(cpu.ac, cpu.ix) >= Value
<1>1. PICK s \in Cpus, ac \in Byte, ix \in Byte : s = cpu /\ ac = cpu.ac /\ ix = cpu.ix
  BY CpuFacts DEF AluTypeOK
<1>2. ASSUME NEW w \in Byte, NEW t, t = Set(s, "ac", w)
      PROVE  /\ t \in Cpus /\ t.ac = w /\ t.ix = s.ix /\ t.iy = s.iy /\ t.mem = s.mem
             /\ "N" \in t.flags <=> w >= 128
             /\ "D" \in t.flags <=> "D" \in s.flags
             /\ testBit(t, "C") = testBit(s, "C")
  <2>1. PICK flags \in SUBSET Flags : flags = s.flags
    BY CpuFacts
  <2>2. /\ "N" \in setNZ(flags, w) <=> w >= 128
        /\ "D" \in setNZ(flags, w) <=> "D" \in flags
        /\ "C" \in setNZ(flags, w) <=> "C" \in flags
    BY NZFacts
  <2> QED
    BY <1>2, <2>1, <2>2, SetFacts, ZenonT(30) DEF testBit
<1>3. CASE Ins.op \in {"LAX", "ANC", "ALR", "ARR", "SBX"}
  <2>1. PICK v \in Byte : v = Value
    BY <1>3, Operands DEF Operates
  <2>2. PICK m \in Byte, n \in Byte : m = And8(ac, v) /\ n = And8(ac, ix)
    BY Operations
  <2>3. PICK t \in Cpus, u \in Cpus : t = Set(s, "ac", m) /\ u = Set(s, "ac", v)
    BY <1>2
  <2>4. CASE Ins.op = "LAX"
    <3>1. cpu' = [u EXCEPT !.ix = v] /\ OnTo(at + 1)
      BY <1>1, <2>1, <2>3, <2>4, Taken DEF Lax, Does, OnTo
    <3>2. cpu'.ac = u.ac /\ cpu'.ix = v /\ cpu'.iy = u.iy /\ cpu'.mem = u.mem /\ cpu'.flags = u.flags
      BY <3>1 DEF Cpus
    <3> QED
      BY <1>1, <1>2, <2>1, <2>3, <2>4, <3>1, <3>2 DEF SameMem, SameFlags, Keeps
  <2>5. CASE Ins.op = "ANC"
    <3>1. cpu' = [t EXCEPT !.flags = setOrClearBit(t.flags, "C", "N" \in t.flags)] /\ OnTo(at + 1)
      BY <1>1, <2>1, <2>2, <2>3, <2>5, Taken DEF Anc, Does, OnTo
    <3>2. /\ cpu'.ac = t.ac /\ cpu'.ix = t.ix /\ cpu'.iy = t.iy /\ cpu'.mem = t.mem
          /\ cpu'.flags = setOrClearBit(t.flags, "C", "N" \in t.flags)
      BY <3>1 DEF Cpus
    <3>3. /\ "C" \in cpu'.flags <=> "N" \in t.flags
          /\ "D" \in cpu'.flags <=> "D" \in t.flags
      BY <3>2 DEF setOrClearBit
    <3> QED
      BY <1>1, <1>2, <2>1, <2>2, <2>3, <2>5, <3>1, <3>2, <3>3 DEF SameMem, SameFlags, Keeps, C
  <2>6. CASE Ins.op = "ALR"
    <3>1. cpu' = lsr(t, Acc) /\ OnTo(at + 1)
      BY <1>1, <2>1, <2>2, <2>3, <2>6, Taken DEF Alr, Does, OnTo
    <3>2. PICK r \in Cpus : r = lsr(t, Acc) /\ OnlyAt(t, r, Acc) /\ Keeps(t, r, {"V", "D"})
                            /\ ShiftsRight(r, Acc, Fetch(t, Acc), 0)
      BY ShiftsAreRight
    <3>3. /\ r.mem = t.mem /\ r.iy = t.iy
          /\ Fetch(t, Acc) = t.ac /\ Fetch(r, Acc) = r.ac
      BY <3>2, AtAcc
    <3>4. 2 * r.ac + testBit(r, "C") = m
      <4>1. t.ac = m
        BY <1>2, <2>3
      <4> QED
        BY <3>2, <3>3, <4>1 DEF ShiftsRight, Byte
    <3> QED
      BY <1>1, <1>2, <2>1, <2>2, <2>3, <2>6, <3>1, <3>2, <3>3, <3>4 DEF SameMem, SameFlags, Keeps, Carry
  <2>7. CASE Ins.op = "ARR"
    <3>1. /\ cpu' = [t EXCEPT !.flags = setOrClearBit(t.flags, "V", FALSE),
                              !.ac = t.ac \div 2 + 128 * testBit(t, "C")]
          /\ OnTo(at + 1)
      BY <1>1, <2>1, <2>2, <2>3, <2>7, Taken DEF Arr, Does, OnTo, Cpus
    <3>2. /\ cpu'.ac = t.ac \div 2 + 128 * testBit(t, "C") /\ cpu'.iy = t.iy /\ cpu'.mem = t.mem
          /\ cpu'.flags = setOrClearBit(t.flags, "V", FALSE)
      BY <3>1 DEF Cpus
    <3>3. ("D" \in cpu'.flags <=> "D" \in t.flags) /\ testBit(cpu', "C") = testBit(t, "C")
      BY <3>2 DEF setOrClearBit, testBit
    <3>4. t.ac = m /\ testBit(t, "C") = testBit(s, "C") /\ t.iy = s.iy /\ t.mem = s.mem
      BY <1>2, <2>3
    <3>5. cpu'.ac = m \div 2 + 128 * Carry
      BY <1>1, <3>2, <3>4 DEF Carry
    <3>6. m = And8(cpu.ac, Value)
      BY <1>1, <2>1, <2>2
    <3>7. cpu'.ac = And8(cpu.ac, Value) \div 2 + 128 * Carry
      BY <3>5, <3>6, Zenon
    <3>8. SameMem /\ cpu'.iy = cpu.iy /\ SameFlags({"D"})
      BY <1>1, <1>2, <2>3, <3>2, <3>3, <3>4, ZenonT(30) DEF SameMem, SameFlags, Keeps
    <3>9. Carry' = Carry
      BY <1>1, <3>3, <3>4 DEF Carry
    <3> QED
      BY <2>7, <3>1, <3>7, <3>8, <3>9
  <2>8. CASE Ins.op = "SBX"
    <3>1. PICK r \in Cpus : r = Compare(s, n, v) /\ OnlyAc(s, r) /\ r.ac = s.ac /\ Keeps(s, r, {"V", "D"})
                            /\ ("C" \in r.flags <=> n >= v)
      BY CompareRight
    <3>2. cpu' = [r EXCEPT !.ix = Wrap8(n + Not8(v) + 1)] /\ OnTo(at + 1)
      <4>1. r.ac = ac /\ r.ix = ix
        BY <1>1, <3>1 DEF OnlyAc
      <4> QED
        BY <1>1, <2>1, <2>2, <2>8, <3>1, <4>1, Taken DEF Sbx, Does, OnTo, Cpus
    <3>3. /\ cpu'.ix = Wrap8(n + Not8(v) + 1) /\ cpu'.iy = r.iy /\ cpu'.mem = r.mem
          /\ cpu'.flags = r.flags
      BY <3>2 DEF Cpus
    <3> QED
      BY <1>1, <2>1, <2>2, <2>8, <3>1, <3>2, <3>3 DEF SameMem, SameFlags, Keeps, OnlyAc, C
  <2> QED
    BY <1>3, <2>4, <2>5, <2>6, <2>7, <2>8
<1> QED
  BY <1>3

\* A mask of all bits leaves a byte, and a byte without it is the complement.
LEMMA AllBits ==
  ASSUME NEW n \in Byte
  PROVE  And8(n, 255) = n /\ Xor8(n, 255) = 255 - n
<1>1. ASSUME NEW h \in 0..15
      PROVE  AndNibbles[h][15] = h
  <2>1. Bit(15, 0) = 1 /\ Bit(15, 1) = 1 /\ Bit(15, 2) = 1 /\ Bit(15, 3) = 1
    BY NibbleBits
  <2>2. PICK a, b, c, d \in {0, 1} :
          /\ Bit(h, 0) = a /\ Bit(h, 1) = b /\ Bit(h, 2) = c /\ Bit(h, 3) = d
          /\ h = (a + 2 * b) + (4 * c + 8 * d)
    BY NibbleBits
  <2>3. AndNibbles[h][15] = 2^0 * (a * 1) + 2^1 * (b * 1) + 2^2 * (c * 1) + 2^3 * (d * 1)
    BY <2>1, <2>2 DEF AndNibbles
  <2> QED
    BY <2>2, <2>3
<1>2. Hi(n) \in 0..15 /\ Lo(n) \in 0..15 /\ n = 16 * Hi(n) + Lo(n)
  BY ByteFacts
<1>3. Hi(255) = 15 /\ Lo(255) = 15
  BY DEF Hi, Lo
<1>4. And8(n, 255) = n
  BY <1>1, <1>2, <1>3 DEF And8
<1> QED
  BY <1>4 DEF Xor8, Byte

LEMMA TopBit ==
  ASSUME NEW n \in Byte
  PROVE  /\ Is(n, 7) <=> n >= 128
         /\ And8(n, 128) >= 128 <=> n >= 128
         /\ Xor8(n, 128) >= 128 <=> n < 128
<1>1. \A m \in Byte : Is(m, 7) <=> m >= 128
  BY DEF Is, Bit, Byte
<1>2. 128 \in Byte /\ 7 \in 0..7
  BY DEF Byte
<1>3. /\ And8(n, 128) \in Byte /\ Xor8(n, 128) \in Byte
      /\ Is(And8(n, 128), 7) <=> Is(n, 7) /\ Is(128, 7)
      /\ Is(Xor8(n, 128), 7) <=> (Is(n, 7) # Is(128, 7))
  BY <1>2, Both
<1>4. Is(128, 7)
  BY <1>1, <1>2
<1>5. Is(Xor8(n, 128), 7) <=> ~Is(n, 7)
  BY <1>3, <1>4, Zenon
<1> QED
  BY <1>1, <1>3, <1>4, <1>5 DEF Byte
-----------------------------------------------------------------------------
LEMMA InsAt ==
  ASSUME AluTypeOK, Running
  PROVE  at \in 1..Len(Library[routine].code) /\ Ins = Library[routine].code[at]
BY Known, InsFacts DEF Running, Ins

\* The cells that the routines use.
LEMMA Bytes ==
  ASSUME AluTypeOK
  PROVE  /\ cpu.ac \in Byte /\ cpu.ix \in Byte /\ cpu.iy \in Byte /\ Carry \in {0, 1}
         /\ \A c \in 1..6 : c \in Cells /\ cpu.mem[c] \in Byte /\ start[c] \in Byte
<1>1. \A c \in 1..6 : c \in Cells
  BY DEF Cells, Byte
<1> QED
  BY <1>1, CpuFacts DEF AluTypeOK, Carry

Small(n) == n \in Int /\ 0 <= n /\ n <= 255

LEMMA SmallByte == \A n \in Byte : Small(n)
BY DEF Byte, Small

LEMMA BytesNow ==
  ASSUME AluTypeOK
  PROVE  /\ Small(cpu.ac) /\ Small(cpu.ix) /\ Small(cpu.iy)
         /\ Small(cpu.mem[1]) /\ Small(cpu.mem[2]) /\ Small(cpu.mem[3])
         /\ Small(cpu.mem[4]) /\ Small(cpu.mem[5]) /\ Small(cpu.mem[6])
         /\ Small(start[1]) /\ Small(start[2]) /\ Small(start[3])
         /\ Small(start[4]) /\ Small(start[5]) /\ Small(start[6])
         /\ 1 \in Cells /\ 2 \in Cells /\ 3 \in Cells /\ 4 \in Cells /\ 5 \in Cells /\ 6 \in Cells
BY SmallByte, Bytes

LEMMA BytesThen ==
  ASSUME AluTypeOK, aluNext
  PROVE  /\ Small(cpu'.ac) /\ Small(cpu'.ix) /\ Small(cpu'.iy)
         /\ Small(cpu'.mem[1]) /\ Small(cpu'.mem[2]) /\ Small(cpu'.mem[3])
         /\ Small(cpu'.mem[4]) /\ Small(cpu'.mem[5]) /\ Small(cpu'.mem[6])
<1>1. cpu' \in Cpus
  BY StepTypes DEF AluTypeOK
<1> QED
  BY <1>1, SmallByte, CpuFacts, BytesNow

LEMMA OfCells ==
  A \in Cells /\ A + 1 \in Cells /\ B \in Cells /\ B + 1 \in Cells /\ R \in Cells /\ R + 1 \in Cells
BY DEF A, B, R, Cells, Byte

\* The sums and the differences of binary numbers.
Sums(v)    == /\ OnTo(at + 1) /\ Regs(cpu'.ac, cpu.ix, cpu.iy) /\ SameMem /\ SameFlags({"D"})
              /\ cpu'.ac + 256 * Carry' = cpu.ac + v + Carry
Differs(v) == /\ OnTo(at + 1) /\ Regs(cpu'.ac, cpu.ix, cpu.iy) /\ SameMem /\ SameFlags({"D"})
              /\ cpu'.ac - 256 * (1 - Carry') = cpu.ac - v - (1 - Carry)

LEMMA InBinary ==
  ASSUME ~D, NEW v
  PROVE  (Adds(v) => Sums(v)) /\ (Subtracts(v) => Differs(v))
<1>1. Adds(v) => Sums(v)
  BY Zenon DEF Adds, Added, Sums, D, Carry, OnlyAc, Regs, SameMem, SameFlags
<1>2. Subtracts(v) => Differs(v)
  BY Zenon DEF Subtracts, Subtracted, Differs, D, Carry, OnlyAc, Regs, SameMem, SameFlags
<1> QED
  BY <1>1, <1>2

\* The routine and its operands stay.
LEMMA Fixed ==
  ASSUME AluTypeOK, aluNext
  PROVE  /\ UNCHANGED <<routine, start>>
         /\ Routine' = Routine /\ Routine.decimal = Library[routine].decimal
<1>1. UNCHANGED <<routine, start>>
  <2>1. \A op, s : Does(op, s) => UNCHANGED <<routine, start>>
    BY DEF Does
  <2>2. \A taken : BranchTo(taken) => UNCHANGED <<routine, start>>
    BY DEF BranchTo
  <2>3. Load \/ Store \/ Transfer \/ Count \/ FlagOp \/ Cmp => UNCHANGED <<routine, start>>
    BY <2>1 DEF Load, Store, Transfer, Count, FlagOp, Cmp
  <2>4. /\ Zero \/ And \/ Ora \/ Eor \/ Adc \/ Sbc \/ Inc \/ Dec => UNCHANGED <<routine, start>>
        /\ Asl \/ Lsr \/ Rol \/ Ror \/ BitTest \/ Trb \/ Tsb \/ Rmb \/ Smb => UNCHANGED <<routine, start>>
    BY <2>1 DEF Zero, And, Ora, Eor, Adc, Sbc, Inc, Dec, Asl, Lsr, Rol, Ror, BitTest, Trb, Tsb, Rmb, Smb
  <2>5. /\ Slo \/ Rla \/ Sre \/ Rra \/ Dcp \/ Isc => UNCHANGED <<routine, start>>
        /\ Sax \/ Lax \/ Anc \/ Alr \/ Arr \/ Sbx => UNCHANGED <<routine, start>>
    BY <2>1 DEF Slo, Rla, Sre, Rra, Dcp, Isc, Sax, Lax, Anc, Alr, Arr, Sbx
  <2>6. Branch \/ BitBranch => UNCHANGED <<routine, start>>
    BY <2>2 DEF Branch, BitBranch
  <2>7. Halted => UNCHANGED <<routine, start>>
    BY DEF Halted, aluVars
  <2> QED
    BY <2>3, <2>4, <2>5, <2>6, <2>7 DEF aluNext
<1> QED
  BY <1>1, Known DEF Routine, Repertoire

LEMMA Codes ==
  /\ Library["binarySum"].code = Straight("CLD", "CLC", "ADC")
  /\ Library["decimalSum"].code = Straight("SED", "CLC", "ADC")
  /\ Library["loopedSum"].code = LoopedSum /\ Library["bitwiseSum"].code = BitwiseSum
  /\ Library["binaryDifference"].code = Straight("CLD", "SEC", "SBC")
  /\ Library["decimalDifference"].code = Straight("SED", "SEC", "SBC")
  /\ Library["byIncrement"].code = ByIncrement /\ Library["toDecimal"].code = ToDecimal
  /\ Library["product"].code = Product /\ Library["quotient"].code = Quotient
  /\ Library["unsignedLess"].code = UnsignedLess /\ Library["signedLess"].code = SignedLess
  /\ Library["equal"].code = Equal /\ Library["equalToo"].code = EqualToo
  /\ Library["double"].code = Double /\ Library["doubleToo"].code = DoubleToo
  /\ Library["half"].code = Half /\ Library["halfToo"].code = HalfToo
  /\ Library["halfInA"].code = HalfInA /\ Library["up"].code = Up
  /\ Library["down"].code = Down /\ Library["downToo"].code = DownToo
  /\ Library["extend"].code = Extend /\ Library["extendToo"].code = ExtendToo
  /\ Library["copy"].code = Copy /\ Library["copyToo"].code = CopyToo
  /\ Library["merge"].code = Merge
BY DEF Library, Task

\* The routines whose results are decimal numbers.
LEMMA Decimals ==
  ASSUME AluTypeOK
  PROVE  /\ Routine.decimal \in BOOLEAN
         /\ Routine.decimal <=> routine \in {"decimalSum", "decimalDifference", "toDecimal"}
<1>1. DOMAIN Library =
        {"binarySum", "decimalSum", "loopedSum", "bitwiseSum", "binaryDifference",
         "decimalDifference", "byIncrement", "toDecimal", "product", "quotient",
         "unsignedLess", "signedLess", "equal", "equalToo", "double",
         "doubleToo", "half", "halfToo", "halfInA", "up",
         "down", "downToo", "extend", "extendToo", "copy",
         "copyToo", "merge"}
  BY DEF Library
<1>2. /\ Library["decimalSum"].decimal = TRUE /\ Library["decimalDifference"].decimal = TRUE
      /\ Library["toDecimal"].decimal = TRUE
  BY DEF Library, Task
<1>3. /\ Library["binarySum"].decimal = FALSE /\ Library["loopedSum"].decimal = FALSE
      /\ Library["bitwiseSum"].decimal = FALSE /\ Library["binaryDifference"].decimal = FALSE
      /\ Library["byIncrement"].decimal = FALSE /\ Library["product"].decimal = FALSE
      /\ Library["quotient"].decimal = FALSE /\ Library["unsignedLess"].decimal = FALSE
      /\ Library["signedLess"].decimal = FALSE /\ Library["equal"].decimal = FALSE
      /\ Library["equalToo"].decimal = FALSE /\ Library["double"].decimal = FALSE
      /\ Library["doubleToo"].decimal = FALSE /\ Library["half"].decimal = FALSE
      /\ Library["halfToo"].decimal = FALSE /\ Library["halfInA"].decimal = FALSE
      /\ Library["up"].decimal = FALSE /\ Library["down"].decimal = FALSE
      /\ Library["downToo"].decimal = FALSE /\ Library["extend"].decimal = FALSE
      /\ Library["extendToo"].decimal = FALSE /\ Library["copy"].decimal = FALSE
      /\ Library["copyToo"].decimal = FALSE /\ Library["merge"].decimal = FALSE
  BY DEF Library, Task
<1>4. routine \in DOMAIN Library /\ Routine.decimal = Library[routine].decimal
  BY Known
<1> QED
  BY <1>1, <1>2, <1>3, <1>4

LEMMA Radices ==
  ASSUME AluTypeOK, aluNext
  PROVE  /\ Routine'.decimal = Routine.decimal /\ Routine.decimal \in BOOLEAN
         /\ Routine.decimal <=> routine \in {"decimalSum", "decimalDifference", "toDecimal"}
BY Fixed, Decimals

(* Counting up and down, in one byte and in two.                           *)
LEMMA Wrapped ==
  ASSUME NEW n, Small(n)
  PROVE  /\ n = 255 => Wrap8(n + 1) = 0
         /\ n # 255 => Wrap8(n + 1) = n + 1
         /\ n = 0 => Wrap8(n + 255) = 255
         /\ n # 0 => Wrap8(n + 255) = n - 1
BY DEF Small, Wrap8

LEMMA Undone ==
  ASSUME NEW n, Small(n)
  PROVE  Wrap8(Wrap8(n + 1) + 255) = n /\ Wrap8(Wrap8(n + 255) + 1) = n
<1>1. (n = 255 => Wrap8(n + 1) = 0) /\ (n # 255 => Wrap8(n + 1) = n + 1)
  BY Wrapped
<1>2. (n = 0 => Wrap8(n + 255) = 255) /\ (n # 0 => Wrap8(n + 255) = n - 1)
  BY Wrapped
<1>3. Wrap8(Wrap8(n + 1) + 255) = n
  BY <1>1 DEF Small, Wrap8
<1>4. Wrap8(Wrap8(n + 255) + 1) = n
  BY <1>2 DEF Small, Wrap8
<1> QED
  BY <1>3, <1>4

LEMMA WrappedWord ==
  ASSUME NEW n \in Int, 0 <= n, n <= 65535
  PROVE  /\ n = 65535 => Wrap16(n + 1) = 0
         /\ n # 65535 => Wrap16(n + 1) = n + 1
         /\ n = 0 => Wrap16(n - 1) = 65535
         /\ n # 0 => Wrap16(n - 1) = n - 1
BY DEF Wrap16

\* The order of signed numbers is that of their high bytes, and of the low ones.
LEMMA SignedOrder ==
  ASSUME NEW k, NEW l, NEW g, NEW h, Small(k), Small(l), Small(g), Small(h)
  PROVE  Int16(k + 256 * g) < Int16(l + 256 * h) <=>
           Int8(g) - Int8(h) - (IF k >= l THEN 0 ELSE 1) < 0
<1>1. \A m, n : Small(m) /\ Small(n) => /\ Int8(n) \in Int
                                        /\ Int16(m + 256 * n) = m + 256 * Int8(n)
  <2>1. \A n : Small(n) => n % 256 = n
    BY DEF Small
  <2> QED
    BY <2>1 DEF Small, Int8, Wrap8, Int16, Negative
<1>2. PICK x \in Int, y \in Int : x = Int8(g) /\ y = Int8(h)
  BY <1>1, ZenonT(30)
<1>3. k + 256 * x < l + 256 * y <=> x - y - (IF k >= l THEN 0 ELSE 1) < 0
  BY DEF Small
<1> QED
  BY <1>1, <1>2, <1>3

\* Two bytes that count up, and down, with the carry to the high one.
LEMMA CountsUp ==
  ASSUME AluTypeOK, aluNext, Routine.decimal = FALSE,
         \/ start[A] # 255 /\ cpu'.mem[A] = start[A] + 1 /\ cpu'.mem[A + 1] = start[A + 1]
         \/ start[A] = 255 /\ cpu'.mem[A] = 0 /\ cpu'.mem[A + 1] = Wrap8(start[A + 1] + 1)
  PROVE  (Number(cpu.mem, A) = Wrap16(Number(start, A) + 1))'
<1>1. start' = start /\ Routine' = Routine
  BY Fixed
<1>2. PICK n \in Int, m \in Int : n = Number(start, A) /\ m = Number(cpu.mem, A)'
  BY <1>1, BytesNow, BytesThen DEF Number, Digits, Radix, A, Small
<1>3. n = start[A] + 256 * start[A + 1] /\ m = cpu'.mem[A] + 256 * cpu'.mem[A + 1]
  BY <1>1, <1>2 DEF Number, Digits, Radix
<1>4. /\ start[A + 1] = 255 => Wrap8(start[A + 1] + 1) = 0
      /\ start[A + 1] # 255 => Wrap8(start[A + 1] + 1) = start[A + 1] + 1
  BY BytesNow, Wrapped DEF A
<1>5. 0 <= n /\ n <= 65535 /\ (n = 65535 => m = 0) /\ (n # 65535 => m = n + 1)
  BY <1>3, <1>4, BytesNow DEF A, Small
<1>6. m = Wrap16(n + 1)
  BY <1>2, <1>5, WrappedWord
<1>7. Number(start, A)' = n
  BY <1>1, <1>2 DEF Number, Digits, Radix
<1> QED
  BY <1>2, <1>6, <1>7

LEMMA CountsDown ==
  ASSUME AluTypeOK, aluNext, Routine.decimal = FALSE, cpu'.mem[A] = Wrap8(start[A] + 255),
         \/ start[A] # 0 /\ cpu'.mem[A + 1] = start[A + 1]
         \/ start[A] = 0 /\ cpu'.mem[A + 1] = Wrap8(start[A + 1] + 255)
  PROVE  (Number(cpu.mem, A) = Wrap16(Number(start, A) - 1))'
<1>1. start' = start /\ Routine' = Routine
  BY Fixed
<1>2. PICK n \in Int, m \in Int : n = Number(start, A) /\ m = Number(cpu.mem, A)'
  BY <1>1, BytesNow, BytesThen DEF Number, Digits, Radix, A, Small
<1>3. n = start[A] + 256 * start[A + 1] /\ m = cpu'.mem[A] + 256 * cpu'.mem[A + 1]
  BY <1>1, <1>2 DEF Number, Digits, Radix
<1>4. /\ start[A] = 0 => Wrap8(start[A] + 255) = 255
      /\ start[A] # 0 => Wrap8(start[A] + 255) = start[A] - 1
      /\ start[A + 1] = 0 => Wrap8(start[A + 1] + 255) = 255
      /\ start[A + 1] # 0 => Wrap8(start[A + 1] + 255) = start[A + 1] - 1
  BY BytesNow, Wrapped DEF A
<1>5. 0 <= n /\ n <= 65535 /\ (n = 0 => m = 65535) /\ (n # 0 => m = n - 1)
  <2>1. CASE start[A] # 0
    <3>1. m = (start[A] - 1) + 256 * start[A + 1]
      BY <1>3, <1>4, <2>1
    <3> QED
      BY <1>3, <2>1, <3>1, BytesNow DEF A, Small
  <2>2. CASE start[A] = 0 /\ start[A + 1] = 0
    BY <1>3, <1>4, <2>2
  <2>3. CASE start[A] = 0 /\ start[A + 1] # 0
    <3>1. m = 255 + 256 * (start[A + 1] - 1) /\ n = 256 * start[A + 1]
      BY <1>3, <1>4, <2>3, BytesNow DEF A, Small
    <3> QED
      BY <2>3, <3>1, BytesNow DEF A, Small
  <2> QED
    BY <2>1, <2>2, <2>3
<1>6. m = Wrap16(n - 1)
  BY <1>2, <1>5, WrappedWord
<1>7. Number(start, A)' = n
  BY <1>1, <1>2 DEF Number, Digits, Radix
<1> QED
  BY <1>2, <1>6, <1>7

-----------------------------------------------------------------------------
(* Sums and differences of two bytes.                                      *)

Given == start \in Routine.operands

\* A routine may count on what its operands are.
LEMMA Valid ==
  ASSUME AluTypeOK, Given
  PROVE  Admits(routine, start)
BY Known, LibraryAssumption DEF AluTypeOK, Given, Routine

LEMMA StraightRuns ==
  ASSUME AluTypeOK, aluNext, Running,
         routine \in {"binarySum", "decimalSum", "binaryDifference", "decimalDifference"}
  PROVE  /\ at \in 1..8
         /\ at = 1 => ToFlag("D", Routine.decimal)
         /\ at = 2 => ToFlag("C", routine \in {"binaryDifference", "decimalDifference"})
         /\ at = 3 => ToAc(cpu.mem[A])
         /\ at = 4 => IF routine \in {"binarySum", "decimalSum"}
                      THEN Adds(cpu.mem[B]) ELSE Subtracts(cpu.mem[B])
         /\ at = 5 => ToMem(R, cpu.ac)
         /\ at = 6 => ToAc(cpu.mem[A + 1])
         /\ at = 7 => IF routine \in {"binarySum", "decimalSum"}
                      THEN Adds(cpu.mem[B + 1]) ELSE Subtracts(cpu.mem[B + 1])
         /\ at = 8 => ToMem(R + 1, cpu.ac)
<1>1. PICK mode, set, op :
        /\ Library[routine].code = Straight(mode, set, op)
        /\ mode = IF routine \in {"decimalSum", "decimalDifference"} THEN "SED" ELSE "CLD"
        /\ set = IF routine \in {"binarySum", "decimalSum"} THEN "CLC" ELSE "SEC"
        /\ op = IF routine \in {"binarySum", "decimalSum"} THEN "ADC" ELSE "SBC"
  BY Codes
<1>2. /\ at \in 1..8
      /\ at = 1 => Ins = I(mode)
      /\ at = 2 => Ins = I(set)
      /\ at = 3 => Ins = Zp("LDA", A)
      /\ at = 4 => Ins = Zp(op, B)
      /\ at = 5 => Ins = Zp("STA", R)
      /\ at = 6 => Ins = Zp("LDA", A + 1)
      /\ at = 7 => Ins = Zp(op, B + 1)
      /\ at = 8 => Ins = Zp("STA", R + 1)
  BY <1>1, InsAt DEF Straight
<1>3. /\ at = 1 => ToFlag("D", Routine.decimal)
      /\ at = 2 => ToFlag("C", routine \in {"binaryDifference", "decimalDifference"})
  <2>1. /\ at = 1 => IF routine \in {"decimalSum", "decimalDifference"}
                     THEN ToFlag("D", TRUE) ELSE ToFlag("D", FALSE)
        /\ at = 2 => IF routine \in {"binarySum", "decimalSum"}
                     THEN ToFlag("C", FALSE) ELSE ToFlag("C", TRUE)
    BY <1>1, <1>2, Modes, Flagged
  <2> QED
    BY <2>1, Radices DEF ToFlag
<1>4. /\ at = 3 => ToAc(cpu.mem[A])
      /\ at = 6 => ToAc(cpu.mem[A + 1])
  BY <1>2, Modes, Moves
<1>5. /\ at = 4 => IF op = "ADC" THEN Adds(cpu.mem[B]) ELSE Subtracts(cpu.mem[B])
      /\ at = 7 => IF op = "ADC" THEN Adds(cpu.mem[B + 1]) ELSE Subtracts(cpu.mem[B + 1])
  BY <1>1, <1>2, Modes, Computed
<1>6. /\ at = 5 => ToMem(R, cpu.ac)
      /\ at = 8 => ToMem(R + 1, cpu.ac)
  BY <1>2, Modes, Stored, OfCells
<1> QED
  BY <1>1, <1>2, <1>3, <1>4, <1>5, <1>6

\* A sum and a difference of digits, in the radix of the routine.
SumsDigits(v) ==
  /\ OnTo(at + 1) /\ Regs(cpu'.ac, cpu.ix, cpu.iy) /\ SameMem /\ SameFlags({"D"})
  /\ Digits(cpu.ac)' + Radix * Carry' = Digits(cpu.ac) + Digits(v) + Carry
DiffersDigits(v) ==
  /\ OnTo(at + 1) /\ Regs(cpu'.ac, cpu.ix, cpu.iy) /\ SameMem /\ SameFlags({"D"})
  /\ Digits(cpu.ac)' - Radix * (1 - Carry') = Digits(cpu.ac) - Digits(v) - (1 - Carry)

LEMMA InRadix ==
  ASSUME AluTypeOK, aluNext, D <=> Routine.decimal, NEW v,
         Routine.decimal => Bcd(cpu.ac) /\ Bcd(v)
  PROVE  /\ Adds(v) => SumsDigits(v) /\ (Routine.decimal => Bcd(cpu'.ac))
         /\ Subtracts(v) => DiffersDigits(v) /\ (Routine.decimal => Bcd(cpu'.ac))
<1>1. /\ Routine' = Routine
      /\ Routine.decimal = FALSE => Radix = 256 /\ \A n : Digits(n) = n /\ Digits(n)' = n
      /\ Routine.decimal = TRUE => Radix = 100 /\ \A n : Digits(n) = Decimal(n) /\ Digits(n)' = Decimal(n)
  BY Fixed DEF Radix, Digits, Decimal
<1>2. Routine.decimal \in BOOLEAN
  BY Radices
<1>3. Digits(cpu.ac)' = IF Routine.decimal THEN Decimal(cpu'.ac) ELSE cpu'.ac
  BY <1>1 DEF Digits, Decimal
<1>4. CASE Routine.decimal = FALSE
  <2>1. (Adds(v) => Sums(v)) /\ (Subtracts(v) => Differs(v))
    BY <1>4, InBinary
  <2> QED
    BY <1>1, <1>3, <1>4, <2>1 DEF Sums, Differs, SumsDigits, DiffersDigits
<1>5. CASE Routine.decimal = TRUE
  <2>1. D /\ Bcd(cpu.ac) /\ Bcd(v)
    BY <1>5
  <2>2. Adds(v) => /\ OnTo(at + 1) /\ Regs(cpu'.ac, cpu.ix, cpu.iy) /\ SameMem /\ SameFlags({"D"})
                   /\ Bcd(cpu'.ac) /\ Decimal(cpu'.ac) + 100 * Carry' = Decimal(cpu.ac) + Decimal(v) + Carry
    BY <2>1, Zenon DEF Adds, Added, D, Carry, OnlyAc, Regs, SameMem, SameFlags
  <2>3. Subtracts(v) => /\ OnTo(at + 1) /\ Regs(cpu'.ac, cpu.ix, cpu.iy) /\ SameMem /\ SameFlags({"D"})
                        /\ Bcd(cpu'.ac)
                        /\ Decimal(cpu'.ac) - 100 * (1 - Carry') = Decimal(cpu.ac) - Decimal(v) - (1 - Carry)
    BY <2>1, Zenon DEF Subtracts, Subtracted, D, Carry, OnlyAc, Regs, SameMem, SameFlags
  <2> QED
    BY <1>1, <1>3, <1>5, <2>2, <2>3 DEF SumsDigits, DiffersDigits
<1> QED
  BY <1>2, <1>4, <1>5

LEMMA DigitsAre == \A n : Small(n) => Digits(n) \in Int
BY DEF Small, Digits, Hi, Lo

\* The low digits, with no carry and no borrow before them.
LEMMA FirstDigits ==
  ASSUME AluTypeOK, aluNext, cpu.ac = start[A]
  PROVE  /\ Carry = 0 /\ SumsDigits(start[B]) => LowSum(cpu.ac)'
         /\ Carry = 1 /\ DiffersDigits(start[B]) => LowDifference(cpu.ac)'
<1>1. start' = start /\ Routine' = Routine
  BY Fixed
<1>2. PICK a, b : a = Digits(start[A]) /\ b = Digits(start[B])
  OBVIOUS
<1>3. a \in Int /\ b \in Int
  BY <1>2, DigitsAre, BytesNow DEF A, B
<1>4. Digits(cpu.ac) = a /\ Digits(start[A])' = a /\ Digits(start[B])' = b /\ Radix' = Radix
  BY <1>1, <1>2 DEF Digits, Radix
<1>5. Carry = 0 /\ SumsDigits(start[B]) => Digits(cpu.ac)' + Radix * Carry' = a + b
  BY <1>2, <1>3, <1>4 DEF SumsDigits
<1>6. Carry = 1 /\ DiffersDigits(start[B]) => Digits(cpu.ac)' - Radix * (1 - Carry') = a - b
  BY <1>2, <1>3, <1>4 DEF DiffersDigits
<1> QED
  BY <1>4, <1>5, <1>6 DEF LowSum, LowDifference

\* Two places: what the low one carries, or borrows, the high one takes.
PlacesAdd(d, e, a, b, g, h, r, c, k) ==
  d + r * c = a + b /\ e + r * k = g + h + c => d + r * (e + r * k) = (a + r * g) + (b + r * h)
PlacesSubtract(d, e, a, b, g, h, r, c, k) ==
  d - r * (1 - c) = a - b /\ e - r * (1 - k) = g - h - (1 - c) =>
    d + r * (e - r * (1 - k)) = (a + r * g) - (b + r * h)

\* The high digits with the carry of the low ones.
LEMMA Carried ==
  ASSUME AluTypeOK, aluNext, SameMem, cpu.ac = start[A + 1]
  PROVE  /\ LowSum(cpu.mem[R]) /\ SumsDigits(start[B + 1]) => WholeSum(cpu.ac)'
         /\ LowDifference(cpu.mem[R]) /\ DiffersDigits(start[B + 1]) => WholeDifference(cpu.ac)'
<1>1. start' = start /\ Routine' = Routine /\ cpu'.mem[R] = cpu.mem[R]
  BY Fixed DEF SameMem
<1>2. PICK d \in Int, a \in Int, b \in Int, g \in Int, h \in Int, e \in Int :
        /\ d = Digits(cpu.mem[R]) /\ a = Digits(start[A]) /\ b = Digits(start[B])
        /\ g = Digits(start[A + 1]) /\ h = Digits(start[B + 1]) /\ e = Digits(cpu'.ac)
  <2>1. /\ Digits(cpu.mem[R]) \in Int /\ Digits(start[A]) \in Int /\ Digits(start[B]) \in Int
        /\ Digits(start[A + 1]) \in Int /\ Digits(start[B + 1]) \in Int /\ Digits(cpu'.ac) \in Int
    BY DigitsAre, BytesNow, BytesThen DEF A, B, R
  <2> QED
    BY <2>1, Zenon
<1>3. PICK r \in {100, 256}, c \in {0, 1}, k \in {0, 1} : r = Radix /\ c = Carry /\ k = Carry'
  BY DEF Radix, Carry, testBit
<1>4. /\ LowSum(cpu.mem[R]) => d + r * c = a + b
      /\ LowDifference(cpu.mem[R]) => d - r * (1 - c) = a - b
      /\ SumsDigits(start[B + 1]) => e + r * k = g + h + c
      /\ DiffersDigits(start[B + 1]) => e - r * (1 - k) = g - h - (1 - c)
  <2>1. Digits(cpu.ac)' = e /\ Digits(cpu.ac) = g
    BY <1>1, <1>2 DEF Digits
  <2> QED
    BY <1>2, <1>3, <2>1 DEF LowSum, LowDifference, SumsDigits, DiffersDigits
<1>5. /\ WholeSum(cpu.ac)' <=> d + r * (e + r * k) = (a + r * g) + (b + r * h)
      /\ WholeDifference(cpu.ac)' <=> d + r * (e - r * (1 - k)) = (a + r * g) - (b + r * h)
  <2>1. Radix' = r /\ Carry' = k /\ Number(start, A)' = a + r * g /\ Number(start, B)' = b + r * h
    BY <1>1, <1>2, <1>3 DEF Radix, Number, Digits
  <2>2. Digits(cpu.mem[R])' = d /\ Digits(cpu.ac)' = e
    BY <1>1, <1>2 DEF Digits
  <2> QED
    BY <2>1, <2>2 DEF WholeSum, WholeDifference
<1>6. PlacesAdd(d, e, a, b, g, h, r, c, k) /\ PlacesSubtract(d, e, a, b, g, h, r, c, k)
  <2>1. /\ d \in Int /\ a \in Int /\ b \in Int /\ g \in Int /\ h \in Int /\ e \in Int
        /\ r \in {100, 256} /\ c \in {0, 1} /\ k \in {0, 1}
    BY <1>2, <1>3
  <2>2. PlacesAdd(d, e, a, b, g, h, 100, c, k) /\ PlacesAdd(d, e, a, b, g, h, 256, c, k)
    BY <2>1 DEF PlacesAdd
  <2>3. PlacesSubtract(d, e, a, b, g, h, 100, c, k) /\ PlacesSubtract(d, e, a, b, g, h, 256, c, k)
    BY <2>1 DEF PlacesSubtract
  <2> QED
    BY <2>1, <2>2, <2>3
<1> QED
  BY <1>4, <1>5, <1>6, Zenon DEF PlacesAdd, PlacesSubtract

LEMMA StraightSumKept ==
  ASSUME AluTypeOK, aluNext, Running, routine \in {"binarySum", "decimalSum"}, Given, StraightSumNote
  PROVE  StraightSumNote'
<1>1. start' = start /\ Routine' = Routine
  BY Fixed
<1>2. Routine.decimal =>
        Bcd(start[A]) /\ Bcd(start[A + 1]) /\ Bcd(start[B]) /\ Bcd(start[B + 1])
  BY Valid, Radices DEF Admits
<1>3. CASE at = 4 \/ at = 7
  <2>1. SumsDigits(IF at = 4 THEN start[B] ELSE start[B + 1])
    BY <1>2, <1>3, StraightRuns, InRadix DEF StraightSumNote, Kept, A, B
  <2>2. at' = at + 1 /\ (Kept(1..4) /\ (D <=> Routine.decimal))'
    BY <1>1, <1>3, <2>1 DEF SumsDigits, OnTo, SameMem, SameFlags, Keeps, StraightSumNote, Kept, D
  <2>3. CASE at = 4
    <3>1. SumsDigits(start[B]) /\ Carry = 0 /\ cpu.ac = start[A]
      BY <2>1, <2>3 DEF StraightSumNote, C, Carry, testBit
    <3>2. LowSum(cpu.ac)'
      BY <1>1, <3>1, FirstDigits
    <3> QED
      BY <2>2, <2>3, <3>2 DEF StraightSumNote
  <2>4. CASE at = 7
    <3>1. WholeSum(cpu.ac)'
      BY <2>1, <2>4, Carried DEF SumsDigits, StraightSumNote
    <3> QED
      BY <2>2, <2>4, <3>1 DEF StraightSumNote
  <2> QED
    BY <1>3, <2>3, <2>4
<1>4. CASE at \notin {4, 7}
  <2> USE DEF StraightSumNote, Kept, C, D, Carry, testBit, A, B, R, Number, Digits, Radix,
          LowSum, WholeSum, OnTo, Regs, SameRegs, SameMem, SameFlags, Keeps, Elsewhere, Shown, NZOf
  <2>1. CASE at = 1
    BY <1>1, <2>1, StraightRuns DEF ToFlag, Flags
  <2>2. CASE at = 2
    BY <1>1, <2>2, StraightRuns DEF ToFlag, Flags
  <2>3. CASE at = 3
    BY <1>1, <2>3, StraightRuns DEF ToAc
  <2>4. CASE at = 5
    BY <1>1, <2>4, StraightRuns, BytesNow DEF ToMem, Flags
  <2>5. CASE at = 6
    BY <1>1, <2>5, StraightRuns DEF ToAc
  <2>6. CASE at = 8
    BY <1>1, <2>6, StraightRuns, BytesNow DEF ToMem, Flags
  <2> HIDE DEF StraightSumNote
  <2> QED
    BY <1>4, <2>1, <2>2, <2>3, <2>4, <2>5, <2>6, StraightRuns
<1> QED
  BY <1>3, <1>4

LEMMA StraightDifferenceKept ==
  ASSUME AluTypeOK, aluNext, Running, routine \in {"binaryDifference", "decimalDifference"},
         Given, StraightDifferenceNote
  PROVE  StraightDifferenceNote'
<1>1. start' = start /\ Routine' = Routine
  BY Fixed
<1>2. Routine.decimal =>
        Bcd(start[A]) /\ Bcd(start[A + 1]) /\ Bcd(start[B]) /\ Bcd(start[B + 1])
  BY Valid, Radices DEF Admits
<1>3. CASE at = 4 \/ at = 7
  <2>1. DiffersDigits(IF at = 4 THEN start[B] ELSE start[B + 1])
    BY <1>2, <1>3, StraightRuns, InRadix DEF StraightDifferenceNote, Kept, A, B
  <2>2. at' = at + 1 /\ (Kept(1..4) /\ (D <=> Routine.decimal))'
    BY <1>1, <1>3, <2>1 DEF DiffersDigits, OnTo, SameMem, SameFlags, Keeps, StraightDifferenceNote, Kept, D
  <2>3. CASE at = 4
    <3>1. DiffersDigits(start[B]) /\ Carry = 1 /\ cpu.ac = start[A]
      BY <2>1, <2>3 DEF StraightDifferenceNote, C, Carry, testBit
    <3>2. LowDifference(cpu.ac)'
      BY <1>1, <3>1, FirstDigits
    <3> QED
      BY <2>2, <2>3, <3>2 DEF StraightDifferenceNote
  <2>4. CASE at = 7
    <3>1. WholeDifference(cpu.ac)'
      BY <2>1, <2>4, Carried DEF DiffersDigits, StraightDifferenceNote
    <3> QED
      BY <2>2, <2>4, <3>1 DEF StraightDifferenceNote
  <2> QED
    BY <1>3, <2>3, <2>4
<1>4. CASE at \notin {4, 7}
  <2> USE DEF StraightDifferenceNote, Kept, C, D, Carry, testBit, A, B, R, Number, Digits, Radix,
          LowDifference, WholeDifference, OnTo, Regs, SameRegs, SameMem, SameFlags, Keeps, Elsewhere,
          Shown, NZOf
  <2>1. CASE at = 1
    BY <1>1, <2>1, StraightRuns DEF ToFlag, Flags
  <2>2. CASE at = 2
    BY <1>1, <2>2, StraightRuns DEF ToFlag, Flags
  <2>3. CASE at = 3
    BY <1>1, <2>3, StraightRuns DEF ToAc
  <2>4. CASE at = 5
    BY <1>1, <2>4, StraightRuns, BytesNow DEF ToMem, Flags
  <2>5. CASE at = 6
    BY <1>1, <2>5, StraightRuns DEF ToAc
  <2>6. CASE at = 8
    BY <1>1, <2>6, StraightRuns, BytesNow DEF ToMem, Flags
  <2> HIDE DEF StraightDifferenceNote
  <2> QED
    BY <1>4, <2>1, <2>2, <2>3, <2>4, <2>5, <2>6, StraightRuns
<1> QED
  BY <1>3, <1>4

\* A sum stays while what it is made of does.
LEMMA SumsStay ==
  ASSUME AluTypeOK, aluNext, Carry' = Carry
  PROVE  /\ cpu'.mem[R] = cpu.mem[R] /\ LowSum(cpu.mem[R]) => LowSum(cpu.mem[R])'
         /\ cpu'.mem[R] = cpu.ac /\ LowSum(cpu.ac) => LowSum(cpu.mem[R])'
         /\ cpu'.mem[R] = cpu.mem[R] /\ cpu'.mem[R + 1] = cpu.ac /\ WholeSum(cpu.ac) =>
              WholeSum(cpu.mem[R + 1])'
         /\ cpu'.mem[R] = cpu.mem[R] /\ cpu'.mem[R + 1] = cpu.mem[R + 1] /\ WholeSum(cpu.mem[R + 1]) =>
              WholeSum(cpu.mem[R + 1])'
<1>1. start' = start /\ Routine' = Routine /\ Radix' = Radix
  BY Fixed DEF Radix
<1>2. /\ Digits(cpu.mem[R])' = IF Routine.decimal THEN 10 * Hi(cpu'.mem[R]) + Lo(cpu'.mem[R]) ELSE cpu'.mem[R]
      /\ Digits(cpu.mem[R + 1])' = IF Routine.decimal THEN 10 * Hi(cpu'.mem[R + 1]) + Lo(cpu'.mem[R + 1])
                                   ELSE cpu'.mem[R + 1]
      /\ Digits(start[A])' = Digits(start[A]) /\ Digits(start[B])' = Digits(start[B])
      /\ Number(start, A)' = Number(start, A) /\ Number(start, B)' = Number(start, B)
  BY <1>1 DEF Digits, Number, Radix
<1>3. /\ cpu'.mem[R] = cpu.mem[R] => Digits(cpu.mem[R])' = Digits(cpu.mem[R])
      /\ cpu'.mem[R] = cpu.ac => Digits(cpu.mem[R])' = Digits(cpu.ac)
      /\ cpu'.mem[R + 1] = cpu.ac => Digits(cpu.mem[R + 1])' = Digits(cpu.ac)
      /\ cpu'.mem[R + 1] = cpu.mem[R + 1] => Digits(cpu.mem[R + 1])' = Digits(cpu.mem[R + 1])
  BY <1>2 DEF Digits
<1> QED
  BY <1>1, <1>2, <1>3 DEF LowSum, WholeSum

\* The cells that X, which counts up to 0, leads to.
LEMMA Pointed ==
  /\ Wrap8(A + 2 + 254) = A /\ Wrap8(A + 2 + 255) = A + 1
  /\ Wrap8(B + 2 + 254) = B /\ Wrap8(B + 2 + 255) = B + 1
  /\ Wrap8(R + 2 + 254) = R /\ Wrap8(R + 2 + 255) = R + 1
  /\ Wrap8(254 + 1) = 255 /\ Wrap8(255 + 1) = 0
BY DEF Wrap8, A, B, R

LEMMA LoopedSumRuns ==
  ASSUME AluTypeOK, aluNext, Running, routine = "loopedSum"
  PROVE  /\ at \in 1..8
         /\ at = 1 => ToFlag("D", FALSE)
         /\ at = 2 => ToFlag("C", FALSE)
         /\ at = 3 => ToIx(254)
         /\ at = 4 => ToAc(cpu.mem[Wrap8(A + 2 + cpu.ix)])
         /\ at = 5 => Adds(cpu.mem[Wrap8(B + 2 + cpu.ix)])
         /\ at = 6 /\ Wrap8(R + 2 + cpu.ix) \in Cells => ToMem(Wrap8(R + 2 + cpu.ix), cpu.ac)
         /\ at = 7 => ToIx(Wrap8(cpu.ix + 1))
         /\ at = 8 => Jumps(~Z, 4)
<1>1. /\ at \in 1..8
      /\ at = 1 => Ins = I("CLD")
      /\ at = 2 => Ins = I("CLC")
      /\ at = 3 => Ins = Imm("LDX", 254)
      /\ at = 4 => Ins = ZpX("LDA", A + 2)
      /\ at = 5 => Ins = ZpX("ADC", B + 2)
      /\ at = 6 => Ins = ZpX("STA", R + 2)
      /\ at = 7 => Ins = I("INX")
      /\ at = 8 => Ins = To("BNE", 4)
  BY Codes, InsAt DEF LoopedSum
<1>2. /\ at = 1 => ToFlag("D", FALSE)
      /\ at = 2 => ToFlag("C", FALSE)
  BY <1>1, Modes, Flagged
<1>3. /\ at = 3 => ToIx(254)
      /\ at = 4 => ToAc(cpu.mem[Wrap8(A + 2 + cpu.ix)])
      /\ at = 7 => ToIx(Wrap8(cpu.ix + 1))
  BY <1>1, Modes, Moves
<1>4. at = 5 => Adds(cpu.mem[Wrap8(B + 2 + cpu.ix)])
  BY <1>1, Modes, Computed
<1>5. at = 6 /\ Wrap8(R + 2 + cpu.ix) \in Cells => ToMem(Wrap8(R + 2 + cpu.ix), cpu.ac)
  BY <1>1, Modes, Stored
<1>6. at = 8 => Jumps(~Z, 4)
  BY <1>1, Modes, Jumped
<1> QED
  BY <1>1, <1>2, <1>3, <1>4, <1>5, <1>6

LEMMA LoopedSumKept ==
  ASSUME AluTypeOK, aluNext, Running, routine = "loopedSum", LoopedSumNote
  PROVE  LoopedSumNote'
<1>1. start' = start /\ Routine' = Routine /\ Routine.decimal = FALSE
  BY Fixed, Radices
<1>2. CASE at \in 1..3
  BY <1>1, <1>2, LoopedSumRuns
  DEF LoopedSumNote, Kept, C, D, Z, ToFlag, ToIx, OnTo, Regs, SameRegs, SameMem, SameFlags, Keeps, Flags,
      Shown, NZOf
<1>3. CASE at = 4
  <2>1. /\ OnTo(5) /\ SameMem /\ cpu'.ix = cpu.ix /\ Carry' = Carry /\ (C' <=> C) /\ (D' <=> D)
        /\ cpu.ix = 254 => cpu'.ac = cpu.mem[A]
        /\ cpu.ix = 255 => cpu'.ac = cpu.mem[A + 1]
    BY <1>3, LoopedSumRuns, Pointed
    DEF ToAc, OnTo, Regs, SameMem, Shown, SameFlags, Keeps, Carry, testBit, C, D
  <2>2. cpu.ix = 255 => LowSum(cpu.mem[R])'
    BY <1>3, <2>1, SumsStay DEF LoopedSumNote, SameMem
  <2> QED
    BY <1>1, <1>3, <2>1, <2>2 DEF LoopedSumNote, OnTo, SameMem, Kept, A
<1>4. CASE at = 5
  <2>1. cpu.mem[Wrap8(B + 2 + cpu.ix)] = start[IF cpu.ix = 254 THEN B ELSE B + 1]
    BY <1>4, Pointed DEF LoopedSumNote, Kept, B
  <2>2. /\ cpu.ix = 254 => SumsDigits(start[B])
        /\ cpu.ix = 255 => SumsDigits(start[B + 1])
    BY <1>1, <1>4, <2>1, LoopedSumRuns, InRadix DEF LoopedSumNote
  <2>3. OnTo(6) /\ SameMem /\ cpu'.ix = cpu.ix /\ (D' <=> D)
    BY <1>4, <2>2 DEF LoopedSumNote, SumsDigits, Regs, SameFlags, Keeps, D, OnTo
  <2>4. CASE cpu.ix = 254
    <3>1. Carry = 0 /\ cpu.ac = start[A]
      BY <1>4, <2>4 DEF LoopedSumNote, C, Carry, testBit
    <3>2. LowSum(cpu.ac)'
      BY <2>2, <2>4, <3>1, FirstDigits
    <3> QED
      BY <1>1, <1>4, <2>3, <2>4, <3>2 DEF LoopedSumNote, OnTo, SameMem, Kept
  <2>5. CASE cpu.ix = 255
    <3>1. WholeSum(cpu.ac)'
      BY <1>4, <2>2, <2>3, <2>5, Carried DEF LoopedSumNote
    <3> QED
      BY <1>1, <1>4, <2>3, <2>5, <3>1 DEF LoopedSumNote, OnTo, SameMem, Kept
  <2> QED
    BY <1>4, <2>4, <2>5 DEF LoopedSumNote
<1>5. CASE at = 6
  <2>1. /\ cpu.ix = 254 => ToMem(R, cpu.ac)
        /\ cpu.ix = 255 => ToMem(R + 1, cpu.ac)
    BY <1>5, LoopedSumRuns, Pointed, OfCells
  <2>2. cpu.ix \in {254, 255}
    BY <1>5 DEF LoopedSumNote
  <2>3. OnTo(7) /\ cpu'.ix = cpu.ix /\ Carry' = Carry /\ (D' <=> D)
    BY <1>5, <2>1, <2>2 DEF ToMem, OnTo, SameRegs, Regs, SameFlags, Keeps, Flags, Carry, testBit, D
  <2>4. Kept(1..4)'
    BY <1>1, <1>5, <2>1, <2>2, BytesNow DEF LoopedSumNote, Kept, ToMem, Elsewhere, R
  <2>5. /\ cpu.ix = 254 => LowSum(cpu.mem[R])'
        /\ cpu.ix = 255 => WholeSum(cpu.mem[R + 1])'
    BY <1>5, <2>1, <2>3, SumsStay, BytesNow DEF LoopedSumNote, ToMem, Elsewhere, R
  <2> QED
    BY <1>1, <1>5, <2>2, <2>3, <2>4, <2>5 DEF LoopedSumNote, OnTo
<1>6. CASE at = 7
  <2>1. /\ OnTo(8) /\ SameMem /\ Carry' = Carry /\ (D' <=> D)
        /\ cpu'.ix = (IF cpu.ix = 254 THEN 255 ELSE 0) /\ (Z' <=> cpu'.ix = 0)
        /\ cpu.ix \in {254, 255}
    BY <1>6, LoopedSumRuns, Pointed
    DEF LoopedSumNote, ToIx, OnTo, Regs, SameMem, Shown, NZOf, SameFlags, Keeps, Carry, testBit, D, Z
  <2>2. /\ cpu.ix = 254 => LowSum(cpu.mem[R])'
        /\ cpu.ix = 255 => WholeSum(cpu.mem[R + 1])'
    BY <1>6, <2>1, SumsStay DEF LoopedSumNote, SameMem
  <2> QED
    BY <1>1, <1>6, <2>1, <2>2 DEF LoopedSumNote, OnTo, SameMem, Kept
<1>7. CASE at = 8
  <2>1. /\ OnTo(IF Z THEN 9 ELSE 4) /\ cpu' = cpu
    BY <1>7, LoopedSumRuns DEF Jumps, OnTo
  <2>2. /\ Z => WholeSum(cpu.mem[R + 1])'
        /\ ~Z => LowSum(cpu.mem[R])' /\ cpu.ix = 255
    BY <1>7, <2>1, SumsStay DEF LoopedSumNote, Carry
  <2> QED
    BY <1>1, <1>7, <2>1, <2>2 DEF LoopedSumNote, OnTo, Kept, D
<1>8. at \in 1..8
  BY LoopedSumRuns
<1> QED
  BY <1>2, <1>3, <1>4, <1>5, <1>6, <1>7, <1>8

LEMMA BitwiseSumRuns ==
  ASSUME AluTypeOK, aluNext, Running, routine = "bitwiseSum"
  PROVE  /\ at \in 1..11
         /\ at = 1 => /\ OnTo(at + 1) /\ SameMem /\ cpu'.iy = cpu.iy /\ SameFlags({"D"})
                      /\ cpu'.ac = cpu.mem[A] /\ cpu'.ix = cpu.mem[A]
         /\ at = 2 => ToAc(cpu.mem[B])
         /\ at = 3 => ToMem(R, And8(cpu.ac, cpu.ix))
         /\ at = 4 => ToAc(Or8(cpu.ac, cpu.mem[A]))
         /\ at = 5 => ToFlag("C", FALSE)
         /\ at = 6 => Adds(cpu.mem[R])
         /\ at = 7 => ToMem(R, cpu.ac)
         /\ at = 8 => ToAc(0)
         /\ at = 9 => Adds(0)
         /\ at = 10 => ToMem(R + 1, cpu.ac)
         /\ at = 11 => ToFlag("C", FALSE)
<1>1. /\ at \in 1..11
      /\ at = 1 => Ins = Zp("LAX", A)
      /\ at = 2 => Ins = Zp("LDA", B)
      /\ at = 3 => Ins = Zp("SAX", R)
      /\ at = 4 => Ins = Zp("ORA", A)
      /\ at = 5 => Ins = I("CLC")
      /\ at = 6 => Ins = Zp("ADC", R)
      /\ at = 7 => Ins = Zp("STA", R)
      /\ at = 8 => Ins = Imm("LDA", 0)
      /\ at = 9 => Ins = Imm("ADC", 0)
      /\ at = 10 => Ins = Zp("STA", R + 1)
      /\ at = 11 => Ins = I("CLC")
  BY Codes, InsAt DEF BitwiseSum
<1>2. at = 1 => /\ OnTo(at + 1) /\ SameMem /\ cpu'.iy = cpu.iy /\ SameFlags({"D"})
                /\ cpu'.ac = cpu.mem[A] /\ cpu'.ix = cpu.mem[A]
  BY <1>1, Modes, Masked
<1>3. /\ at = 2 => ToAc(cpu.mem[B])
      /\ at = 8 => ToAc(0)
  BY <1>1, Modes, Moves
<1>4. /\ at = 3 => ToMem(R, And8(cpu.ac, cpu.ix))
      /\ at = 7 => ToMem(R, cpu.ac)
      /\ at = 10 => ToMem(R + 1, cpu.ac)
  BY <1>1, Modes, Stored, OfCells
<1>5. at = 4 => ToAc(Or8(cpu.ac, cpu.mem[A]))
  BY <1>1, Modes, Logic
<1>6. /\ at = 5 => ToFlag("C", FALSE)
      /\ at = 11 => ToFlag("C", FALSE)
  BY <1>1, Modes, Flagged
<1>7. /\ at = 6 => Adds(cpu.mem[R])
      /\ at = 9 => Adds(0)
  BY <1>1, Modes, Computed
<1> QED
  BY <1>1, <1>2, <1>3, <1>4, <1>5, <1>6, <1>7

LEMMA BitwiseSumKept ==
  ASSUME AluTypeOK, aluNext, Running, routine = "bitwiseSum", BitwiseSumNote
  PROVE  BitwiseSumNote'
<1> USE DEF BitwiseSumNote, Kept, C, Z, N, V, D, Carry, testBit, A, B, R, OnTo, Regs,
        SameRegs, SameMem, SameFlags, Keeps, Elsewhere, Shown, NZOf
<1>1. start' = start
  BY Fixed
<1>2. CASE at = 1
  BY <1>1, <1>2, BitwiseSumRuns, BytesNow, BytesThen DEF Small
<1>3. CASE at = 2
  BY <1>1, <1>3, BitwiseSumRuns DEF ToAc
<1>4. CASE at = 3
  BY <1>1, <1>4, BitwiseSumRuns, BytesNow, BytesThen DEF ToMem, Flags, Small
<1>5. CASE at = 4
  BY <1>1, <1>5, BitwiseSumRuns DEF ToAc
<1>6. CASE at = 5
  BY <1>1, <1>6, BitwiseSumRuns DEF ToFlag, Flags
<1>7. CASE at = 6
  <2>1. Sums(cpu.mem[R])
    BY <1>7, BitwiseSumRuns, InBinary
  <2>2. Small(And8(start[B], start[A]))
    BY Both, Bytes, SmallByte
  <2>3. Or8(start[B], start[A]) + And8(start[B], start[A]) = start[A] + start[B]
    BY <2>2, BytesNow DEF Small, Or8
  <2> QED
    BY <1>1, <1>7, <2>1, <2>2, <2>3, BytesNow, BytesThen DEF Sums, Small
<1>8. CASE at = 7
  BY <1>1, <1>8, BitwiseSumRuns, BytesNow, BytesThen DEF ToMem, Flags, Small
<1>9. CASE at = 8
  BY <1>1, <1>9, BitwiseSumRuns DEF ToAc
<1>10. CASE at = 9
  <2>1. Sums(0)
    BY <1>10, BitwiseSumRuns, InBinary
  <2>2. cpu'.ac = Carry
    BY <1>10, <2>1, BytesThen DEF Sums, Small
  <2> QED
    BY <1>1, <1>10, <2>1, <2>2, BytesNow, BytesThen DEF Sums, Small
<1>11. CASE at = 10
  BY <1>1, <1>11, BitwiseSumRuns, BytesNow, BytesThen DEF ToMem, Flags, Small
<1>12. CASE at = 11
  BY <1>1, <1>12, BitwiseSumRuns DEF ToFlag, Flags
<1> HIDE DEF BitwiseSumNote
<1>13. at \in 1..11
  BY BitwiseSumRuns
<1> QED
  BY <1>2, <1>3, <1>4, <1>5, <1>6, <1>7, <1>8, <1>9, <1>10, <1>11, <1>12, <1>13

LEMMA ByIncrementRuns ==
  ASSUME AluTypeOK, aluNext, Running, routine = "byIncrement"
  PROVE  /\ at \in 1..9
         /\ at = 1 => ToAc(cpu.mem[A])
         /\ at = 2 => Counted(B, 255)
         /\ at = 3 => ToFlag("C", TRUE)
         /\ at = 4 => (~D =>
                        /\ CountedThen(B, 1)
                        /\ cpu'.ac - 256 * (1 - Carry') = cpu.ac - cpu'.mem[B] - (1 - Carry))
         /\ at = 5 => ToMem(R, cpu.ac)
         /\ at = 6 => ToAc(cpu.mem[A + 1])
         /\ at = 7 => Counted(B + 1, 255)
         /\ at = 8 => (~D =>
                        /\ CountedThen(B + 1, 1)
                        /\ cpu'.ac - 256 * (1 - Carry') = cpu.ac - cpu'.mem[B + 1] - (1 - Carry))
         /\ at = 9 => ToMem(R + 1, cpu.ac)
<1>1. /\ at \in 1..9
      /\ at = 1 => Ins = Zp("LDA", A)
      /\ at = 2 => Ins = Zp("DEC", B)
      /\ at = 3 => Ins = I("SEC")
      /\ at = 4 => Ins = Zp("ISC", B)
      /\ at = 5 => Ins = Zp("STA", R)
      /\ at = 6 => Ins = Zp("LDA", A + 1)
      /\ at = 7 => Ins = Zp("DEC", B + 1)
      /\ at = 8 => Ins = Zp("ISC", B + 1)
      /\ at = 9 => Ins = Zp("STA", R + 1)
  BY Codes, InsAt DEF ByIncrement
<1>2. /\ at = 1 => ToAc(cpu.mem[A])
      /\ at = 6 => ToAc(cpu.mem[A + 1])
  BY <1>1, Modes, Moves
<1>3. /\ at = 2 => Counted(B, 255)
      /\ at = 5 => ToMem(R, cpu.ac)
      /\ at = 7 => Counted(B + 1, 255)
      /\ at = 9 => ToMem(R + 1, cpu.ac)
  BY <1>1, Modes, Stored, OfCells
<1>4. at = 3 => ToFlag("C", TRUE)
  BY <1>1, Modes, Flagged
<1>5. /\ at = 4 => (~D =>
                     /\ CountedThen(B, 1)
                     /\ cpu'.ac - 256 * (1 - Carry') = cpu.ac - cpu'.mem[B] - (1 - Carry))
      /\ at = 8 => (~D =>
                     /\ CountedThen(B + 1, 1)
                     /\ cpu'.ac - 256 * (1 - Carry') = cpu.ac - cpu'.mem[B + 1] - (1 - Carry))
  BY <1>1, Modes, CountedAndUsed, OfCells
<1> QED
  BY <1>1, <1>2, <1>3, <1>4, <1>5

LEMMA ByIncrementKept ==
  ASSUME AluTypeOK, aluNext, Running, routine = "byIncrement", ByIncrementNote
  PROVE  ByIncrementNote'
<1>0. Routine.decimal = FALSE /\ Routine'.decimal = FALSE
  BY Radices
<1> USE <1>0 DEF ByIncrementNote, Kept, C, Z, N, V, D, Carry, testBit, A, B, R, OnTo, Regs,
        SameRegs, SameMem, SameFlags, Keeps, Elsewhere, Shown, NZOf, Number, Digits, Radix,
        LowDifference, WholeDifference
<1>1. start' = start
  BY Fixed
<1>2. CASE at = 1
  BY <1>1, <1>2, ByIncrementRuns DEF ToAc
<1>3. CASE at = 2
  BY <1>1, <1>3, ByIncrementRuns, BytesNow, BytesThen DEF Counted, Small
<1>4. CASE at = 3
  BY <1>1, <1>4, ByIncrementRuns DEF ToFlag, Flags
<1>5. CASE at = 4
  <2>1. Wrap8(Wrap8(start[B] + 255) + 1) = start[B]
    BY BytesNow, Undone
  <2> QED
    BY <1>1, <1>5, ByIncrementRuns, <2>1, BytesNow, BytesThen DEF CountedThen, Small
<1>6. CASE at = 5
  BY <1>1, <1>6, ByIncrementRuns, BytesNow, BytesThen DEF ToMem, Flags, Small
<1>7. CASE at = 6
  BY <1>1, <1>7, ByIncrementRuns DEF ToAc
<1>8. CASE at = 7
  BY <1>1, <1>8, ByIncrementRuns, BytesNow, BytesThen DEF Counted, Small
<1>9. CASE at = 8
  <2>1. Wrap8(Wrap8(start[B + 1] + 255) + 1) = start[B + 1]
    BY BytesNow, Undone
  <2>2. /\ OnTo(9) /\ cpu'.mem[R] = cpu.mem[R]
        /\ cpu'.ac - 256 * (1 - Carry') = start[A + 1] - start[B + 1] - (1 - Carry)
    BY <1>9, <2>1, ByIncrementRuns, BytesNow DEF CountedThen
  <2>3. cpu.mem[R] - 256 * (1 - Carry) = start[A] - start[B]
    BY <1>9, BytesNow DEF Small
  <2>4. cpu'.mem[R] + 256 * (cpu'.ac - 256 * (1 - Carry'))
          = 256 * (start[A + 1] - start[B + 1]) + (start[A] - start[B])
    BY <2>2, <2>3, BytesNow, BytesThen DEF Small
  <2>5. WholeDifference(cpu.ac)'
    BY <1>1, <2>4, BytesNow, BytesThen DEF Small
  <2>6. (Kept({A, A + 1}) /\ ~D)'
    BY <1>1, <1>9, ByIncrementRuns, BytesNow DEF CountedThen
  <2> QED
    BY <2>2, <2>5, <2>6
<1>10. CASE at = 9
  <2>1. cpu.mem[R] + 256 * (cpu.ac - 256 * (1 - Carry))
          = 256 * (start[A + 1] - start[B + 1]) + (start[A] - start[B])
    <3>1. Radix = 256 /\ \A v : Digits(v) = v
      BY <1>0
    <3>2. cpu.mem[R] + 256 * (cpu.ac - 256 * (1 - Carry))
            = (start[A] + 256 * start[A + 1]) - (start[B] + 256 * start[B + 1])
      BY <1>10, <3>1 DEF WholeDifference
    <3> QED
      BY <3>2, BytesNow DEF Small
  <2>2. OnTo(10) /\ cpu'.mem[R] = cpu.mem[R] /\ cpu'.mem[R + 1] = cpu.ac /\ Carry' = Carry
    BY <1>10, ByIncrementRuns, BytesNow DEF ToMem, Flags
  <2>3. cpu'.mem[R] + 256 * (cpu'.mem[R + 1] - 256 * (1 - Carry'))
          = 256 * (start[A + 1] - start[B + 1]) + (start[A] - start[B])
    BY <2>1, <2>2
  <2>4. WholeDifference(cpu.mem[R + 1])'
    BY <1>1, <2>3, BytesNow, BytesThen DEF Small
  <2>5. (Kept({A, A + 1}) /\ ~D)'
    BY <1>1, <1>10, ByIncrementRuns, BytesNow DEF ToMem, Flags
  <2> QED
    BY <2>2, <2>4, <2>5
<1> HIDE DEF ByIncrementNote
<1>11. at \in 1..9
  BY ByIncrementRuns
<1> QED
  BY <1>2, <1>3, <1>4, <1>5, <1>6, <1>7, <1>8, <1>9, <1>10, <1>11

-----------------------------------------------------------------------------
(* A number that is doubled bit by bit.                                    *)

Times(k) == start[A] * Power[k]

LEMMA Powers ==
  /\ Power[0] = 1 /\ Power[1] = 2 /\ Power[2] = 4 /\ Power[3] = 8 /\ Power[4] = 16
  /\ Power[5] = 32 /\ Power[6] = 64 /\ Power[7] = 128 /\ Power[8] = 256 /\ Power[9] = 512
BY DEF Power

LEMMA Doubled ==
  ASSUME AluTypeOK
  PROVE  /\ Times(0) = start[A] /\ Times(8) = 256 * start[A]
         /\ \A k \in 0..8 : /\ Times(k) \in Int /\ Times(k + 1) \in Int
                            /\ Times(k + 1) = 2 * Times(k)
                            /\ Times(k) <= 256 * start[A]
<1>1. PICK a \in Int : a = start[A] /\ 0 <= a
  BY BytesNow DEF A, Small
<1>2. \A k \in 0..9 : Times(k) = a * Power[k]
  BY <1>1 DEF Times
<1>3. /\ Times(0) = a /\ Times(1) = 2 * a /\ Times(2) = 4 * a /\ Times(3) = 8 * a /\ Times(4) = 16 * a
      /\ Times(5) = 32 * a /\ Times(6) = 64 * a /\ Times(7) = 128 * a /\ Times(8) = 256 * a
      /\ Times(9) = 512 * a
  BY <1>1, <1>2, Powers
<1>4. ASSUME NEW k \in 0..8
      PROVE  /\ Times(k) \in Int /\ Times(k + 1) \in Int
             /\ Times(k + 1) = 2 * Times(k) /\ Times(k) <= 256 * a
  <2>1. k \in {0, 1, 2, 3, 4, 5, 6, 7, 8}
    OBVIOUS
  <2> QED
    BY <1>1, <1>3, <2>1
<1> QED
  BY <1>1, <1>3, <1>4

LEMMA ToDecimalRuns ==
  ASSUME AluTypeOK, aluNext, Running, routine = "toDecimal"
  PROVE  /\ at \in 1..12
         /\ at = 1 => ToFlag("D", TRUE)
         /\ at = 2 => ToIx(8)
         /\ at = 3 => ToAc(0)
         /\ at = 4 => ToMem(R, cpu.ac)
         /\ at = 5 => ToMem(R + 1, cpu.ac)
         /\ at = 6 => Left(A, 0) /\ Quietly
         /\ at = 7 => ToAc(cpu.mem[R])
         /\ at = 8 => Adds(cpu.mem[R])
         /\ at = 9 => ToMem(R, cpu.ac)
         /\ at = 10 => Left(R + 1, Carry) /\ Quietly
         /\ at = 11 => ToIx(Wrap8(cpu.ix + 255))
         /\ at = 12 => Jumps(~Z, 6)
<1>1. /\ at \in 1..12
      /\ at = 1 => Ins = I("SED")
      /\ at = 2 => Ins = Imm("LDX", 8)
      /\ at = 3 => Ins = Imm("LDA", 0)
      /\ at = 4 => Ins = Zp("STA", R)
      /\ at = 5 => Ins = Zp("STA", R + 1)
      /\ at = 6 => Ins = Zp("ASL", A)
      /\ at = 7 => Ins = Zp("LDA", R)
      /\ at = 8 => Ins = Zp("ADC", R)
      /\ at = 9 => Ins = Zp("STA", R)
      /\ at = 10 => Ins = Zp("ROL", R + 1)
      /\ at = 11 => Ins = I("DEX")
      /\ at = 12 => Ins = To("BNE", 6)
  BY Codes, InsAt DEF ToDecimal
<1>2. at = 1 => ToFlag("D", TRUE)
  BY <1>1, Modes, Flagged
<1>3. /\ at = 2 => ToIx(8)
      /\ at = 3 => ToAc(0)
      /\ at = 7 => ToAc(cpu.mem[R])
      /\ at = 11 => ToIx(Wrap8(cpu.ix + 255))
  BY <1>1, Modes, Moves
<1>4. /\ at = 4 => ToMem(R, cpu.ac)
      /\ at = 5 => ToMem(R + 1, cpu.ac)
      /\ at = 9 => ToMem(R, cpu.ac)
  BY <1>1, Modes, Stored, OfCells
<1>5. /\ at = 6 => Left(A, 0) /\ Quietly
      /\ at = 10 => Left(R + 1, Carry) /\ Quietly
  BY <1>1, Modes, ShiftedCell, OfCells
<1>6. at = 8 => Adds(cpu.mem[R])
  BY <1>1, Modes, Computed
<1>7. at = 12 => Jumps(~Z, 6)
  BY <1>1, Modes, Jumped
<1> QED
  BY <1>1, <1>2, <1>3, <1>4, <1>5, <1>6, <1>7

\* What is converted, and what Converted says of the next state.
LEMMA ConvertedIs ==
  ASSUME AluTypeOK, aluNext, routine = "toDecimal"
  PROVE  /\ \A u, h, k : Converted(u, h, k) <=> 256 * (Decimal(u) + 100 * h) + cpu.mem[A] = Times(k)
         /\ Converted(cpu.mem[R], cpu.mem[R + 1], 8 - cpu.ix)' <=>
              256 * (Decimal(cpu'.mem[R]) + 100 * cpu'.mem[R + 1]) + cpu'.mem[A] = Times(8 - cpu'.ix)
         /\ Converted(cpu.mem[R], cpu.mem[R + 1], (8 - cpu.ix) + 1)' <=>
              256 * (Decimal(cpu'.mem[R]) + 100 * cpu'.mem[R + 1]) + cpu'.mem[A] = Times((8 - cpu'.ix) + 1)
         /\ Converted(cpu.mem[R], cpu.mem[R + 1], 8)' <=>
              256 * (Decimal(cpu'.mem[R]) + 100 * cpu'.mem[R + 1]) + cpu'.mem[A] = Times(8)
         /\ Converted(cpu.ac, 2 * cpu.mem[R + 1] + Carry, (8 - cpu.ix) + 1)' <=>
              256 * (Decimal(cpu'.ac) + 100 * (2 * cpu'.mem[R + 1] + Carry')) + cpu'.mem[A]
                = Times((8 - cpu'.ix) + 1)
         /\ Converted(cpu.mem[R], 2 * cpu.mem[R + 1] + Carry, (8 - cpu.ix) + 1)' <=>
              256 * (Decimal(cpu'.mem[R]) + 100 * (2 * cpu'.mem[R + 1] + Carry')) + cpu'.mem[A]
                = Times((8 - cpu'.ix) + 1)
<1>1. /\ Routine.decimal = TRUE /\ Routine'.decimal = TRUE /\ start' = start
  BY Fixed, Radices
<1>2. \A u : Digits(u) = Decimal(u) /\ Digits(u)' = Decimal(u)
  BY <1>1 DEF Digits, Decimal
<1>3. /\ Digits(cpu.mem[R])' = Decimal(cpu'.mem[R]) /\ Digits(cpu.ac)' = Decimal(cpu'.ac)
  BY <1>1 DEF Digits, Decimal
<1> QED
  BY <1>1, <1>2, <1>3 DEF Converted, Times

LEMMA DecimalIs ==
  /\ \A n : Small(n) => Decimal(n) \in Int /\ 0 <= Decimal(n)
  /\ Decimal(0) = 0 /\ Bcd(0)
BY DEF Small, Decimal, Hi, Lo, Bcd, Byte

\* The cells of the number and what is made of it stay, as do X and the mode.
SameNumber == cpu'.mem[A] = cpu.mem[A] /\ cpu'.mem[R] = cpu.mem[R] /\ cpu'.mem[R + 1] = cpu.mem[R + 1]
SameLoop   == cpu'.ix = cpu.ix /\ (D' <=> D)

LEMMA ToDecimalKept ==
  ASSUME AluTypeOK, aluNext, Running, routine = "toDecimal", ToDecimalNote
  PROVE  ToDecimalNote'
<1>1. start' = start /\ Routine' = Routine /\ Routine.decimal = TRUE
  BY Fixed, Radices
<1>2. /\ start[A] \in Int /\ cpu.mem[A] \in Int /\ cpu.mem[R + 1] \in Int /\ cpu'.mem[R + 1] \in Int
      /\ 0 <= cpu.mem[A] /\ 0 <= cpu.mem[R + 1] /\ cpu'.mem[A] \in Int /\ 0 <= cpu'.mem[R + 1]
      /\ Decimal(cpu.mem[R]) \in Int /\ 0 <= Decimal(cpu.mem[R]) /\ Decimal(cpu'.ac) \in Int
      /\ start[A] <= 255 /\ Carry \in 0..1 /\ Carry' \in Int /\ cpu'.mem[R + 1] <= 255
  BY BytesNow, BytesThen, DecimalIs, SmallByte DEF A, R, Small, Carry, testBit
<1>3. CASE at \in 1..4
  <2>1. at \in 1..3 => SameNumber /\ (at' = at + 1) /\ D'
    BY <1>3, ToDecimalRuns
    DEF ToDecimalNote, ToFlag, ToIx, ToAc, OnTo, SameMem, SameNumber, Shown, SameFlags, Keeps, D
  <2>2. at = 4 => /\ at' = 5 /\ cpu'.mem[A] = cpu.mem[A] /\ cpu'.mem[R] = 0
                  /\ D' /\ cpu'.ac = cpu.ac /\ cpu'.ix = cpu.ix
    BY ToDecimalRuns, BytesNow
    DEF ToDecimalNote, ToMem, OnTo, SameRegs, Regs, Elsewhere, SameFlags, Keeps, Flags, D, A, R
  <2>3. /\ at = 2 => cpu'.ix = 8
        /\ at = 3 => cpu'.ac = 0 /\ cpu'.ix = cpu.ix
    BY ToDecimalRuns DEF ToIx, ToAc, Regs
  <2> QED
    BY <1>1, <1>3, <2>1, <2>2, <2>3, DecimalIs DEF ToDecimalNote, SameNumber
<1>4. CASE at = 5
  <2>1. /\ at' = 6 /\ cpu'.mem[A] = start[A] /\ cpu'.mem[R] = 0 /\ cpu'.mem[R + 1] = 0
        /\ D' /\ cpu'.ix = 8
    BY <1>4, ToDecimalRuns, BytesNow
    DEF ToDecimalNote, ToMem, OnTo, SameRegs, Regs, Elsewhere, SameFlags, Keeps, Flags, D, A, R
  <2>2. Converted(cpu.mem[R], cpu.mem[R + 1], 8 - cpu.ix)'
    BY <1>2, <2>1, ConvertedIs, Doubled, DecimalIs
  <2> QED
    BY <2>1, <2>2, DecimalIs DEF ToDecimalNote
<1>5. CASE at \in 6..12
  <2>1. PICK k \in 0..8 : k = 8 - cpu.ix /\ (at <= 11 => k <= 7)
    BY <1>5 DEF ToDecimalNote
  <2>2. Times(k) \in Int /\ Times(k + 1) \in Int /\ Times(k + 1) = 2 * Times(k) /\ Times(k) <= 256 * start[A]
    BY <2>1, Doubled
  <2>3. CASE at = 6
    <3>1. /\ at' = 7 /\ cpu'.mem[R] = cpu.mem[R] /\ cpu'.mem[R + 1] = cpu.mem[R + 1] /\ SameLoop
          /\ cpu'.mem[A] + 256 * Carry' = 2 * cpu.mem[A] + 0
      BY <2>3, ToDecimalRuns, BytesNow
      DEF Left, Quietly, OnTo, SameRegs, Regs, Elsewhere, SameFlags, Keeps, D, A, R, SameLoop
    <3>2. 256 * (Decimal(cpu.mem[R]) + 100 * cpu.mem[R + 1]) + cpu.mem[A] = Times(k)
      BY <2>1, <2>3, ConvertedIs DEF ToDecimalNote
    <3>3. 256 * (2 * (Decimal(cpu.mem[R]) + 100 * cpu.mem[R + 1]) + Carry') + cpu'.mem[A] = Times(k + 1)
      <4>1. PICK u \in Int, h \in Int, m \in Int, n \in Int, c \in Int, t \in Int :
              /\ u = Decimal(cpu.mem[R]) /\ h = cpu.mem[R + 1] /\ m = cpu.mem[A] /\ n = cpu'.mem[A]
              /\ c = Carry' /\ t = Times(k)
        BY <1>2, <2>2, Zenon
      <4>2. n + 256 * c = 2 * m /\ 256 * (u + 100 * h) + m = t
        BY <3>1, <3>2, <4>1
      <4>3. 256 * (2 * (u + 100 * h) + c) + n = 2 * t
        BY <4>2
      <4> QED
        BY <2>2, <4>1, <4>3
    <3>4. (256 * (2 * (Digits(cpu.mem[R]) + 100 * cpu.mem[R + 1]) + Carry) + cpu.mem[A]
             = start[A] * Power[(8 - cpu.ix) + 1])'
      BY <1>1, <2>1, <3>1, <3>3 DEF Times, Digits, Decimal, SameLoop
    <3> QED
      BY <2>3, <3>1, <3>4 DEF ToDecimalNote, SameLoop
  <2>4. CASE at = 7
    <3>1. at' = 8 /\ SameNumber /\ SameLoop /\ Carry' = Carry /\ cpu'.ac = cpu'.mem[R]
      BY <2>4, ToDecimalRuns
      DEF ToAc, OnTo, Regs, SameMem, SameNumber, SameLoop, Shown, SameFlags, Keeps, D, Carry, testBit
    <3>2. 256 * (2 * (Decimal(cpu.mem[R]) + 100 * cpu.mem[R + 1]) + Carry) + cpu.mem[A] = Times(k + 1)
      BY <1>1, <2>1, <2>4 DEF ToDecimalNote, Digits, Decimal, Times
    <3>3. (256 * (2 * (Digits(cpu.mem[R]) + 100 * cpu.mem[R + 1]) + Carry) + cpu.mem[A]
             = start[A] * Power[(8 - cpu.ix) + 1])'
      BY <1>1, <2>1, <3>1, <3>2 DEF Times, Digits, Decimal, SameLoop, SameNumber
    <3> QED
      BY <2>4, <3>1, <3>3 DEF ToDecimalNote, SameLoop, SameNumber
  <2>5. CASE at = 8
    <3>1. SumsDigits(cpu.mem[R]) /\ Bcd(cpu'.ac)
      BY <1>1, <2>5, ToDecimalRuns, InRadix DEF ToDecimalNote
    <3>2. /\ at' = 9 /\ SameNumber /\ SameLoop
          /\ Decimal(cpu'.ac) + 100 * Carry' = Decimal(cpu.mem[R]) + Decimal(cpu.mem[R]) + Carry
      BY <1>1, <2>5, <3>1
      DEF ToDecimalNote, SumsDigits, OnTo, Regs, SameMem, SameNumber, SameLoop, SameFlags, Keeps, D,
          Digits, Radix, Decimal
    <3>3. 256 * (2 * (Decimal(cpu.mem[R]) + 100 * cpu.mem[R + 1]) + Carry) + cpu.mem[A] = Times(k + 1)
      BY <1>1, <2>1, <2>5 DEF ToDecimalNote, Digits, Decimal, Times
    <3>4. 256 * (Decimal(cpu'.ac) + 100 * (2 * cpu.mem[R + 1] + Carry')) + cpu.mem[A] = Times(k + 1)
      <4>1. PICK u \in Int, h \in Int, c \in Int, d \in Int, v \in Int :
              /\ u = Decimal(cpu.mem[R]) /\ h = cpu.mem[R + 1] /\ c = Carry /\ d = Carry'
              /\ v = Decimal(cpu'.ac)
        BY <1>2
      <4>2. v + 100 * d = u + u + c
        BY <3>2, <4>1
      <4>3. 256 * (v + 100 * (2 * h + d)) = 256 * (2 * (u + 100 * h) + c)
        BY <4>2
      <4> QED
        BY <3>3, <4>1, <4>3
    <3>5. Converted(cpu.ac, 2 * cpu.mem[R + 1] + Carry, (8 - cpu.ix) + 1)'
      BY <2>1, <3>2, <3>4, ConvertedIs DEF SameNumber, SameLoop
    <3> QED
      BY <2>5, <3>1, <3>2, <3>5 DEF ToDecimalNote, SameLoop, SameNumber
  <2>6. CASE at = 9
    <3>1. /\ at' = 10 /\ SameLoop /\ Carry' = Carry /\ cpu'.mem[R] = cpu.ac
          /\ cpu'.mem[A] = cpu.mem[A] /\ cpu'.mem[R + 1] = cpu.mem[R + 1]
      BY <2>6, ToDecimalRuns, BytesNow
      DEF ToMem, OnTo, SameRegs, Regs, Elsewhere, SameLoop, SameFlags, Keeps, Flags, D, Carry, testBit, A, R
    <3>2. 256 * (Decimal(cpu.ac) + 100 * (2 * cpu.mem[R + 1] + Carry)) + cpu.mem[A] = Times(k + 1)
      BY <2>1, <2>6, ConvertedIs DEF ToDecimalNote
    <3>3. Converted(cpu.mem[R], 2 * cpu.mem[R + 1] + Carry, (8 - cpu.ix) + 1)'
      BY <2>1, <3>1, <3>2, ConvertedIs DEF SameLoop
    <3> QED
      BY <2>6, <3>1, <3>3 DEF ToDecimalNote, SameLoop
  <2>7. CASE at = 10
    <3>1. /\ at' = 11 /\ SameLoop /\ cpu'.mem[R] = cpu.mem[R] /\ cpu'.mem[A] = cpu.mem[A]
          /\ cpu'.mem[R + 1] + 256 * Carry' = 2 * cpu.mem[R + 1] + Carry
      BY <2>7, ToDecimalRuns, BytesNow
      DEF Left, Quietly, OnTo, SameRegs, Regs, Elsewhere, SameFlags, Keeps, D, A, R, SameLoop
    <3>2. cpu'.mem[R + 1] = 2 * cpu.mem[R + 1] + Carry
      BY <1>2, <2>7, <3>1 DEF ToDecimalNote
    <3>3. 256 * (Decimal(cpu.mem[R]) + 100 * cpu'.mem[R + 1]) + cpu.mem[A] = Times(k + 1)
      BY <2>1, <2>7, <3>2, ConvertedIs DEF ToDecimalNote
    <3>4. cpu'.mem[R + 1] <= 2
      <4>1. k + 1 \in 0..8
        BY <2>1, <2>7
      <4>2. Times(k + 1) <= 256 * start[A]
        BY <4>1, Doubled
      <4> QED
        BY <1>2, <2>2, <3>3, <4>2
    <3>5. Converted(cpu.mem[R], cpu.mem[R + 1], (8 - cpu.ix) + 1)'
      BY <2>1, <3>1, <3>3, ConvertedIs DEF SameLoop
    <3> QED
      BY <2>7, <3>1, <3>4, <3>5 DEF ToDecimalNote, SameLoop
  <2>8. CASE at = 11
    <3>1. cpu.ix \in 1..8 /\ Wrap8(cpu.ix + 255) = cpu.ix - 1
      BY <2>8, BytesNow, Wrapped DEF ToDecimalNote
    <3>2. /\ at' = 12 /\ SameNumber /\ (D' <=> D) /\ cpu'.ix = cpu.ix - 1 /\ (Z' <=> cpu'.ix = 0)
      BY <2>8, <3>1, ToDecimalRuns
      DEF ToIx, OnTo, Regs, SameMem, SameNumber, Shown, NZOf, SameFlags, Keeps, D, Z
    <3>3. 256 * (Decimal(cpu.mem[R]) + 100 * cpu.mem[R + 1]) + cpu.mem[A] = Times(8 - cpu'.ix)
      <4>1. 8 - cpu'.ix = (8 - cpu.ix) + 1
        BY <3>1, <3>2
      <4> QED
        BY <2>8, <4>1, ConvertedIs DEF ToDecimalNote
    <3>4. Converted(cpu.mem[R], cpu.mem[R + 1], 8 - cpu.ix)'
      BY <3>2, <3>3, ConvertedIs DEF SameNumber
    <3> QED
      BY <2>8, <3>1, <3>2, <3>4 DEF ToDecimalNote, SameNumber
  <2>9. CASE at = 12
    <3>1. at' = (IF Z THEN 13 ELSE 6) /\ cpu' = cpu
      BY <2>9, ToDecimalRuns DEF Jumps, OnTo
    <3>2. 256 * (Decimal(cpu.mem[R]) + 100 * cpu.mem[R + 1]) + cpu.mem[A] = Times(8 - cpu.ix)
      BY <2>9, ConvertedIs DEF ToDecimalNote
    <3>3. /\ Converted(cpu.mem[R], cpu.mem[R + 1], 8 - cpu.ix)'
          /\ Z => Converted(cpu.mem[R], cpu.mem[R + 1], 8)'
      BY <2>9, <3>1, <3>2, ConvertedIs DEF ToDecimalNote
    <3> QED
      BY <2>9, <3>1, <3>3 DEF ToDecimalNote, D, Z
  <2> QED
    BY <1>5, <2>3, <2>4, <2>5, <2>6, <2>7, <2>8, <2>9
<1> QED
  BY <1>3, <1>4, <1>5, ToDecimalRuns

-----------------------------------------------------------------------------
(* A product, by shifting and adding.                                      *)

LEMMA PowersDouble ==
  \A k \in 0..8 : Power[k] \in Int /\ 1 <= Power[k] /\ Power[k + 1] = 2 * Power[k]
<1>1. ASSUME NEW k \in 0..8
      PROVE  Power[k] \in Int /\ 1 <= Power[k] /\ Power[k + 1] = 2 * Power[k]
  <2>1. k \in {0, 1, 2, 3, 4, 5, 6, 7, 8}
    OBVIOUS
  <2> QED
    BY <2>1, Powers
<1> QED
  BY <1>1

MultipliedOf(a, b, word, k) ==
  \E l \in 0..Power[k] - 1 : word * Power[k] + l = a + 512 * (l * b)

\* A bit of the multiplier that is clear, and one that is set.
LEMMA MultipliedOn ==
  ASSUME NEW a \in Int, NEW b \in Int, NEW w \in Int, NEW v \in Int, NEW k \in 0..7,
         MultipliedOf(a, b, w, k)
  PROVE  /\ w = 2 * v => MultipliedOf(a, b, v, k + 1)
         /\ 2 * v = (w - 1) + 512 * b => MultipliedOf(a, b, v, k + 1)
<1>1. PICK p \in Int : p = Power[k] /\ 1 <= p /\ Power[k + 1] = 2 * p
  BY PowersDouble
<1>2. PICK l \in 0..(p - 1) : w * p + l = a + 512 * (l * b)
  BY <1>1 DEF MultipliedOf
<1>3. l \in Int /\ 0 <= l /\ l <= p - 1
  BY <1>1, <1>2
<1>4. CASE w = 2 * v
  <2>1. v * (2 * p) + l = a + 512 * (l * b)
    BY <1>1, <1>2, <1>3, <1>4
  <2>2. l \in 0..(2 * p - 1)
    BY <1>1, <1>3
  <2> QED
    BY <1>1, <2>1, <2>2 DEF MultipliedOf
<1>5. CASE 2 * v = (w - 1) + 512 * b
  <2>1. PICK x \in Int, y \in Int, z \in Int, u \in Int : x = w * p /\ y = b * p /\ z = l * b /\ u = v * p
    BY <1>1, <1>3
  <2>2. (2 * v) * p = ((w - 1) + 512 * b) * p
    BY <1>5
  <2>3. 2 * u = x - p + 512 * y
    BY <1>1, <2>1, <2>2
  <2>4. v * (2 * p) = 2 * u /\ (l + p) * b = z + y
    BY <1>1, <1>3, <2>1
  <2>5. x + l = a + 512 * z
    BY <1>2, <2>1
  <2>6. 2 * u + (l + p) = a + 512 * (z + y)
    <3>1. x \in Int /\ y \in Int /\ z \in Int /\ u \in Int /\ l \in Int /\ p \in Int
      BY <1>1, <1>3, <2>1
    <3> QED
      BY <2>3, <2>5, <3>1
  <2>7. v * (2 * p) + (l + p) = a + 512 * ((l + p) * b)
    BY <2>4, <2>6
  <2>8. l + p \in 0..(2 * p - 1)
    BY <1>1, <1>3
  <2> QED
    BY <1>1, <2>7, <2>8 DEF MultipliedOf
<1> QED
  BY <1>4, <1>5

\* The bits read are those of the multiplier, once they are eight.
LEMMA MultipliedWhole ==
  ASSUME NEW a \in 0..255, NEW b \in Int, NEW w \in Int, MultipliedOf(a, b, w, 8)
  PROVE  w = 2 * (a * b)
<1>0. PICK l \in 0..Power[8] - 1 : w * Power[8] + l = a + 512 * (l * b)
  BY DEF MultipliedOf
<1>1. l \in 0..255 /\ w * 256 + l = a + 512 * (l * b)
  BY <1>0, Powers
<1>2. PICK z \in Int : z = l * b
  BY <1>1
<1>3. w * 256 + l = a + 512 * z
  BY <1>1, <1>2
<1>4. l \in Int /\ 0 <= l /\ l <= 255 /\ z \in Int
  BY <1>1, <1>2
<1>5. l = a /\ w = 2 * z
  BY <1>3, <1>4
<1> QED
  BY <1>2, <1>5

LEMMA ProductRuns ==
  ASSUME AluTypeOK, aluNext, Running, routine = "product"
  PROVE  /\ at \in 1..11
         /\ at = 1 => ToAc(0)
         /\ at = 2 => ToIy(8)
         /\ at = 3 => Right(A, 0) /\ Quietly
         /\ at = 4 => Jumps(~C, 7)
         /\ at = 5 => ToFlag("C", FALSE)
         /\ at = 6 => Adds(cpu.mem[B])
         /\ at = 7 => AccRight(Carry)
         /\ at = 8 => Right(A, Carry) /\ Quietly
         /\ at = 9 => ToIy(Wrap8(cpu.iy + 255))
         /\ at = 10 => Jumps(~Z, 4)
         /\ at = 11 => ToMem(A + 1, cpu.ac)
<1>1. /\ at \in 1..11
      /\ at = 1 => Ins = Imm("LDA", 0)
      /\ at = 2 => Ins = Imm("LDY", 8)
      /\ at = 3 => Ins = Zp("LSR", A)
      /\ at = 4 => Ins = To("BCC", 7)
      /\ at = 5 => Ins = I("CLC")
      /\ at = 6 => Ins = Zp("ADC", B)
      /\ at = 7 => Ins = ToAcc("ROR")
      /\ at = 8 => Ins = Zp("ROR", A)
      /\ at = 9 => Ins = I("DEY")
      /\ at = 10 => Ins = To("BNE", 4)
      /\ at = 11 => Ins = Zp("STA", A + 1)
  BY Codes, InsAt DEF Product
<1>2. /\ at = 1 => ToAc(0)
      /\ at = 2 => ToIy(8)
      /\ at = 9 => ToIy(Wrap8(cpu.iy + 255))
  BY <1>1, Modes, Moves
<1>3. /\ at = 3 => Right(A, 0) /\ Quietly
      /\ at = 8 => Right(A, Carry) /\ Quietly
  BY <1>1, Modes, ShiftedCell, OfCells
<1>4. /\ at = 4 => Jumps(~C, 7)
      /\ at = 10 => Jumps(~Z, 4)
  BY <1>1, Modes, Jumped
<1>5. at = 5 => ToFlag("C", FALSE)
  BY <1>1, Modes, Flagged
<1>6. at = 6 => Adds(cpu.mem[B])
  BY <1>1, Modes, Computed
<1>7. at = 7 => AccRight(Carry)
  BY <1>1, Modes, ShiftedAcc
<1>8. at = 11 => ToMem(A + 1, cpu.ac)
  BY <1>1, Modes, Stored, OfCells
<1> QED
  BY <1>1, <1>2, <1>3, <1>4, <1>5, <1>6, <1>7, <1>8

\* What Multiplied says, of the next state too.
LEMMA MultipliedIs ==
  ASSUME AluTypeOK, aluNext
  PROVE  /\ \A w, k : Multiplied(w, k) <=> MultipliedOf(start[A], start[B], w, k)
         /\ Multiplied(512 * cpu.ac + 2 * cpu.mem[A] + Carry, 8 - cpu.iy)' <=>
              MultipliedOf(start[A], start[B], 512 * cpu'.ac + 2 * cpu'.mem[A] + Carry', 8 - cpu'.iy)
         /\ Multiplied(512 * cpu.ac + 2 * cpu.mem[A] + 1, 8 - cpu.iy)' <=>
              MultipliedOf(start[A], start[B], 512 * cpu'.ac + 2 * cpu'.mem[A] + 1, 8 - cpu'.iy)
         /\ Multiplied(256 * (cpu.ac + 256 * Carry) + cpu.mem[A], (8 - cpu.iy) + 1)' <=>
              MultipliedOf(start[A], start[B], 256 * (cpu'.ac + 256 * Carry') + cpu'.mem[A], (8 - cpu'.iy) + 1)
         /\ Multiplied(512 * cpu.ac + 256 * Carry + cpu.mem[A], (8 - cpu.iy) + 1)' <=>
              MultipliedOf(start[A], start[B], 512 * cpu'.ac + 256 * Carry' + cpu'.mem[A], (8 - cpu'.iy) + 1)
         /\ Multiplied(512 * cpu.ac + 2 * cpu.mem[A] + Carry, (8 - cpu.iy) + 1)' <=>
              MultipliedOf(start[A], start[B], 512 * cpu'.ac + 2 * cpu'.mem[A] + Carry', (8 - cpu'.iy) + 1)
         /\ Multiplied(512 * cpu.ac + 2 * cpu.mem[A] + Carry, 8)' <=>
              MultipliedOf(start[A], start[B], 512 * cpu'.ac + 2 * cpu'.mem[A] + Carry', 8)
<1>1. start' = start
  BY Fixed
<1> QED
  BY <1>1 DEF Multiplied, MultipliedOf

LEMMA ProductKept ==
  ASSUME AluTypeOK, aluNext, Running, routine = "product", ProductNote
  PROVE  ProductNote'
<1>1. start' = start
  BY Fixed
<1>2. /\ start[A] \in 0..255 /\ start[A] \in Int /\ start[B] \in Int /\ cpu.ac \in Int /\ cpu'.ac \in Int
      /\ cpu.mem[A] \in Int /\ cpu'.mem[A] \in Int
      /\ Carry \in Int /\ Carry' \in Int /\ (C <=> Carry = 1) /\ (~C <=> Carry = 0)
  BY BytesNow, BytesThen DEF A, B, Small, Carry, testBit, C
<1>3. at <= 10 => cpu'.mem[B] = start[B]
  BY ProductRuns, BytesNow, SMTT(30)
  DEF ProductNote, ToAc, ToIy, ToFlag, Right, AccRight, Elsewhere, Adds, Added, OnlyAc, Jumps, SameMem, A, B
<1>4. CASE at \in 1..2
  BY <1>1, <1>4, ProductRuns
  DEF ProductNote, ToAc, ToIy, OnTo, Regs, SameMem, Shown, SameFlags, Keeps, D
<1>5. CASE at = 3
  <2>1. /\ at' = 4 /\ ~D' /\ cpu'.iy = 8 /\ cpu'.ac = 0
        /\ 2 * cpu'.mem[A] + Carry' = start[A] + 256 * 0
    BY <1>5, ProductRuns
    DEF ProductNote, Right, Quietly, OnTo, SameRegs, Regs, SameFlags, Keeps, D
  <2>2. 512 * cpu'.ac + 2 * cpu'.mem[A] + Carry' = start[A] /\ 8 - cpu'.iy = 0
    BY <1>2, <2>1
  <2>3. MultipliedOf(start[A], start[B], start[A], 0)
    <3>1. 0 \in 0..Power[0] - 1 /\ start[A] * Power[0] + 0 = start[A] + 512 * (0 * start[B])
      BY <1>2, Powers
    <3> QED
      BY <3>1 DEF MultipliedOf
  <2>4. Multiplied(512 * cpu.ac + 2 * cpu.mem[A] + Carry, 8 - cpu.iy)'
    BY <2>2, <2>3, MultipliedIs
  <2> QED
    BY <1>1, <1>3, <1>5, <2>1, <2>4 DEF ProductNote
<1>6. CASE at \in 4..9
  <2>1. PICK k \in 0..7 : k = 8 - cpu.iy
    BY <1>6 DEF ProductNote
  <2>2. CASE at = 4
    <3>1. cpu' = cpu /\ at' = (IF C THEN 5 ELSE 7)
      BY <2>2, ProductRuns DEF Jumps, OnTo
    <3>2. MultipliedOf(start[A], start[B], 512 * cpu.ac + 2 * cpu.mem[A] + Carry, k)
      BY <2>1, <2>2, MultipliedIs DEF ProductNote
    <3>3. CASE C
      <4>1. Multiplied(512 * cpu.ac + 2 * cpu.mem[A] + Carry, 8 - cpu.iy)'
        BY <2>1, <3>1, <3>2, MultipliedIs DEF Carry
      <4> QED
        BY <1>1, <1>3, <2>2, <3>1, <3>3, <4>1 DEF ProductNote, C, D
    <3>4. CASE ~C
      <4>1. PICK w \in Int, v \in Int : /\ w = 512 * cpu.ac + 2 * cpu.mem[A] + Carry
                                        /\ v = 256 * (cpu.ac + 256 * Carry) + cpu.mem[A] /\ w = 2 * v
        BY <1>2, <3>4
      <4>2. MultipliedOf(start[A], start[B], w, k)
        BY <3>2, <4>1
      <4>3. MultipliedOf(start[A], start[B], v, k + 1)
        <5>1. start[A] \in Int /\ start[B] \in Int /\ w \in Int /\ v \in Int /\ k \in 0..7 /\ w = 2 * v
          BY <1>2, <2>1, <4>1
        <5> QED
          BY <4>2, <5>1, MultipliedOn, Zenon
      <4>4. Multiplied(256 * (cpu.ac + 256 * Carry) + cpu.mem[A], (8 - cpu.iy) + 1)'
        BY <2>1, <3>1, <4>1, <4>3, MultipliedIs DEF Carry
      <4> QED
        BY <1>1, <1>3, <2>2, <3>1, <3>4, <4>4 DEF ProductNote, C, D
    <3> QED
      BY <3>3, <3>4
  <2>3. CASE at = 5
    <3>1. /\ at' = 6 /\ cpu'.ac = cpu.ac /\ cpu'.iy = cpu.iy /\ cpu'.mem = cpu.mem /\ ~C' /\ (D' <=> D)
      BY <2>3, ProductRuns DEF ToFlag, OnTo, SameRegs, Regs, SameMem, SameFlags, Keeps, Flags, C, D
    <3>2. MultipliedOf(start[A], start[B], 512 * cpu.ac + 2 * cpu.mem[A] + 1, k)
      <4>1. Carry = 1
        BY <1>2, <2>3 DEF ProductNote
      <4> QED
        BY <2>1, <2>3, <4>1, MultipliedIs DEF ProductNote
    <3>3. Multiplied(512 * cpu.ac + 2 * cpu.mem[A] + 1, 8 - cpu.iy)'
      BY <2>1, <3>1, <3>2, MultipliedIs
    <3> QED
      BY <1>1, <1>3, <2>3, <3>1, <3>3 DEF ProductNote
  <2>4. CASE at = 6
    <3>1. /\ at' = 7 /\ cpu'.iy = cpu.iy /\ cpu'.mem = cpu.mem /\ (D' <=> D)
          /\ cpu'.ac + 256 * Carry' = cpu.ac + start[B] + Carry
      BY <2>4, ProductRuns, InBinary DEF ProductNote, Sums, OnTo, Regs, SameMem, SameFlags, Keeps, D
    <3>2. PICK w \in Int, v \in Int : /\ w = 512 * cpu.ac + 2 * cpu.mem[A] + 1
                                      /\ v = 256 * (cpu'.ac + 256 * Carry') + cpu'.mem[A]
                                      /\ 2 * v = (w - 1) + 512 * start[B]
      <4>1. Carry = 0
        BY <1>2, <2>4 DEF ProductNote
      <4>2. cpu'.ac + 256 * Carry' = cpu.ac + start[B] /\ cpu'.mem[A] = cpu.mem[A]
        BY <1>2, <3>1, <4>1
      <4>3. 2 * (256 * (cpu'.ac + 256 * Carry') + cpu'.mem[A])
              = ((512 * cpu.ac + 2 * cpu.mem[A] + 1) - 1) + 512 * start[B]
        BY <1>2, <4>2
      <4>4. 512 * cpu.ac + 2 * cpu.mem[A] + 1 \in Int /\ 256 * (cpu'.ac + 256 * Carry') + cpu'.mem[A] \in Int
        BY <1>2
      <4> QED
        BY <4>3, <4>4
    <3>3. MultipliedOf(start[A], start[B], w, k)
      BY <2>1, <2>4, <3>2, MultipliedIs DEF ProductNote
    <3>4. MultipliedOf(start[A], start[B], v, k + 1)
      <4>1. /\ start[A] \in Int /\ start[B] \in Int /\ w \in Int /\ v \in Int /\ k \in 0..7
            /\ 2 * v = (w - 1) + 512 * start[B]
        BY <1>2, <2>1, <3>2
      <4> QED
        BY <3>3, <4>1, MultipliedOn, ZenonT(30)
    <3>5. Multiplied(256 * (cpu.ac + 256 * Carry) + cpu.mem[A], (8 - cpu.iy) + 1)'
      BY <2>1, <3>1, <3>2, <3>4, MultipliedIs
    <3> QED
      BY <1>1, <1>3, <2>4, <3>1, <3>5 DEF ProductNote
  <2>5. CASE at = 7
    <3>1. /\ at' = 8 /\ cpu'.iy = cpu.iy /\ cpu'.mem = cpu.mem /\ (D' <=> D)
          /\ 2 * cpu'.ac + Carry' = cpu.ac + 256 * Carry
      BY <2>5, ProductRuns DEF AccRight, OnTo, Regs, SameMem, SameFlags, Keeps, D
    <3>2. 512 * cpu'.ac + 256 * Carry' + cpu'.mem[A] = 256 * (cpu.ac + 256 * Carry) + cpu.mem[A]
      BY <1>2, <3>1
    <3>3. Multiplied(512 * cpu.ac + 256 * Carry + cpu.mem[A], (8 - cpu.iy) + 1)'
      BY <2>1, <2>5, <3>1, <3>2, MultipliedIs DEF ProductNote
    <3> QED
      BY <1>1, <1>3, <2>5, <3>1, <3>3 DEF ProductNote
  <2>6. CASE at = 8
    <3>1. /\ at' = 9 /\ cpu'.iy = cpu.iy /\ cpu'.ac = cpu.ac /\ (D' <=> D)
          /\ 2 * cpu'.mem[A] + Carry' = cpu.mem[A] + 256 * Carry
      BY <2>6, ProductRuns DEF Right, Quietly, OnTo, SameRegs, Regs, SameFlags, Keeps, D
    <3>2. 512 * cpu'.ac + 2 * cpu'.mem[A] + Carry' = 512 * cpu.ac + 256 * Carry + cpu.mem[A]
      <4>1. PICK a \in Int, m \in Int, n \in Int, c \in Int, d \in Int :
              a = cpu.ac /\ m = cpu.mem[A] /\ n = cpu'.mem[A] /\ c = Carry /\ d = Carry'
        BY <1>2, Zenon
      <4>2. 2 * n + d = m + 256 * c
        BY <3>1, <4>1
      <4>3. 512 * a + 2 * n + d = 512 * a + 256 * c + m
        BY <4>1, <4>2
      <4> QED
        BY <3>1, <4>1, <4>3
    <3>3. Multiplied(512 * cpu.ac + 2 * cpu.mem[A] + Carry, (8 - cpu.iy) + 1)'
      BY <2>1, <2>6, <3>1, <3>2, MultipliedIs DEF ProductNote
    <3> QED
      BY <1>1, <1>3, <2>6, <3>1, <3>3 DEF ProductNote
  <2>7. CASE at = 9
    <3>1. cpu.iy \in 1..8 /\ Wrap8(cpu.iy + 255) = cpu.iy - 1
      BY <2>7, BytesNow, Wrapped DEF ProductNote
    <3>2. /\ at' = 10 /\ cpu'.iy = cpu.iy - 1 /\ cpu'.ac = cpu.ac /\ cpu'.mem = cpu.mem /\ (D' <=> D)
          /\ Carry' = Carry /\ (Z' <=> cpu'.iy = 0)
      BY <2>7, <3>1, ProductRuns
      DEF ToIy, OnTo, Regs, SameMem, Shown, NZOf, SameFlags, Keeps, D, Z, Carry, testBit
    <3>3. 8 - cpu'.iy = (8 - cpu.iy) + 1
      BY <3>1, <3>2
    <3>4. Multiplied(512 * cpu.ac + 2 * cpu.mem[A] + Carry, 8 - cpu.iy)'
      BY <2>7, <3>2, <3>3, MultipliedIs DEF ProductNote
    <3> QED
      BY <1>1, <1>3, <2>7, <3>1, <3>2, <3>4 DEF ProductNote
  <2> QED
    BY <1>6, <2>2, <2>3, <2>4, <2>5, <2>6, <2>7
<1>7. CASE at = 10
  <2>1. cpu' = cpu /\ at' = (IF Z THEN 11 ELSE 4)
    BY <1>7, ProductRuns DEF Jumps, OnTo
  <2>2. /\ Multiplied(512 * cpu.ac + 2 * cpu.mem[A] + Carry, 8 - cpu.iy)'
        /\ Z => Multiplied(512 * cpu.ac + 2 * cpu.mem[A] + Carry, 8)'
    BY <1>7, <2>1, MultipliedIs DEF ProductNote, Carry
  <2> QED
    BY <1>1, <1>3, <1>7, <2>1, <2>2 DEF ProductNote, D, Z
<1>8. CASE at = 11
  <2>1. /\ at' = 12 /\ cpu'.mem[A] = cpu.mem[A] /\ cpu'.mem[A + 1] = cpu.ac /\ cpu'.mem[B] = cpu.mem[B]
        /\ (D' <=> D)
    BY <1>8, ProductRuns, BytesNow DEF ToMem, OnTo, Elsewhere, SameFlags, Keeps, Flags, D, A, B
  <2>2. 512 * cpu.ac + 2 * cpu.mem[A] + Carry = 2 * (start[A] * start[B])
    <3>1. 512 * cpu.ac + 2 * cpu.mem[A] + Carry \in Int
      BY <1>2
    <3>2. MultipliedOf(start[A], start[B], 512 * cpu.ac + 2 * cpu.mem[A] + Carry, 8)
      BY <1>8, MultipliedIs DEF ProductNote
    <3> QED
      BY <1>2, <3>1, <3>2, MultipliedWhole, ZenonT(30)
  <2>3. PICK n \in Int : n = start[A] * start[B]
    BY <1>2
  <2>4. cpu.mem[A] + 256 * cpu.ac = n
    <3>1. PICK a \in Int, m \in Int, c \in {0, 1} : a = cpu.ac /\ m = cpu.mem[A] /\ c = Carry
      BY <1>2
    <3>2. 512 * a + 2 * m + c = 2 * n
      BY <2>2, <2>3, <3>1
    <3>3. m + 256 * a = n
      <4>1. n \in Int /\ a \in Int /\ m \in Int /\ c \in {0, 1}
        BY <2>3, <3>1
      <4> QED
        BY <3>2, <4>1
    <3> QED
      BY <3>1, <3>3
  <2>5. Routine'.decimal = FALSE
    BY Radices
  <2>6. (Number(cpu.mem, A) = start[A] * start[B])'
    BY <1>1, <2>1, <2>3, <2>4, <2>5 DEF Number, Digits, Radix
  <2> QED
    BY <1>1, <1>8, <2>1, <2>6 DEF ProductNote
<1> QED
  BY <1>4, <1>5, <1>6, <1>7, <1>8, ProductRuns

-----------------------------------------------------------------------------
(* A quotient, by shifting and subtracting.                                *)

DividedOf(a, b, rest, remainder, k) ==
  \E q \in 0..Power[k] - 1 : a * Power[k + 1] = 512 * (q * b + remainder) + rest - q
LengthenedOf(a, b, rest, remainder, k) ==
  \E q \in 0..Power[k] - 1 : a * Power[k + 2] = 512 * (2 * (q * b) + remainder) + 2 * rest - 2 * q

\* The remainder takes a bit of the dividend.
LEMMA Lengthening ==
  ASSUME NEW a \in Int, NEW b \in Int, NEW w \in Int, NEW m \in Int, NEW r \in Int, NEW s \in Int,
         NEW k \in 0..7, DividedOf(a, b, w, r, k), 512 * s + 2 * m = 1024 * r + 2 * w
  PROVE  LengthenedOf(a, b, m, s, k)
<1>1. PICK p \in Int : p = Power[k + 1] /\ Power[k + 2] = 2 * p
  <2>1. k + 1 \in 0..8 /\ (k + 1) + 1 = k + 2
    OBVIOUS
  <2> QED
    BY <2>1, PowersDouble
<1>2. PICK q \in 0..Power[k] - 1 : a * p = 512 * (q * b + r) + w - q
  BY <1>1 DEF DividedOf
<1>3. Power[k] \in Int /\ q \in Int
  BY <1>2, PowersDouble
<1>4. PICK x \in Int, y \in Int : x = a * p /\ y = q * b
  BY <1>1, <1>3
<1>5. 2 * x = 512 * (2 * y + s) + 2 * m - 2 * q
  <2>1. x = 512 * (y + r) + w - q
    BY <1>2, <1>4
  <2>2. x \in Int /\ y \in Int /\ q \in Int
    BY <1>3, <1>4
  <2> QED
    BY <2>1, <2>2
<1>6. a * (2 * p) = 2 * x
  BY <1>1, <1>4
<1>7. a * Power[k + 2] = 512 * (2 * (q * b) + s) + 2 * m - 2 * q
  BY <1>1, <1>4, <1>5, <1>6
<1> QED
  BY <1>2, <1>7 DEF LengthenedOf

\* A bit of the quotient that is clear, and one that is set.
LEMMA DividedOn ==
  ASSUME NEW a \in Int, NEW b \in Int, NEW m \in Int, NEW r \in Int, NEW k \in 0..7,
         LengthenedOf(a, b, m, r, k)
  PROVE  DividedOf(a, b, 2 * m, r, k + 1) /\ DividedOf(a, b, 2 * m + 1, r - b, k + 1)
<1>1. PICK p \in Int : p = Power[k] /\ 1 <= p /\ Power[k + 1] = 2 * p
  BY PowersDouble
<1>2. PICK q \in 0..(p - 1) : a * Power[k + 2] = 512 * (2 * (q * b) + r) + 2 * m - 2 * q
  BY <1>1 DEF LengthenedOf
<1>3. q \in Int /\ 0 <= q /\ q <= p - 1
  BY <1>1, <1>2
<1>4. PICK y \in Int : y = q * b /\ (2 * q) * b = 2 * y /\ (2 * q + 1) * b = 2 * y + b
  BY <1>3
<1>5. 2 * q \in 0..(2 * p - 1) /\ 2 * q + 1 \in 0..(2 * p - 1) /\ (k + 1) + 1 = k + 2
  BY <1>1, <1>3
<1>6. a * Power[k + 2] = 512 * (2 * y + r) + 2 * m - 2 * q
  BY <1>2, <1>4
<1>7. /\ 512 * (2 * y + r) + 2 * m - 2 * q = 512 * ((2 * y + b) + (r - b)) + (2 * m + 1) - (2 * q + 1)
  BY <1>3, <1>4
<1>8. DividedOf(a, b, 2 * m, r, k + 1)
  <2>1. a * Power[(k + 1) + 1] = 512 * ((2 * q) * b + r) + 2 * m - 2 * q
    BY <1>4, <1>5, <1>6
  <2> QED
    BY <1>1, <1>5, <2>1 DEF DividedOf
<1>9. DividedOf(a, b, 2 * m + 1, r - b, k + 1)
  <2>1. a * Power[(k + 1) + 1] = 512 * ((2 * q + 1) * b + (r - b)) + (2 * m + 1) - (2 * q + 1)
    BY <1>4, <1>5, <1>6, <1>7
  <2> QED
    BY <1>1, <1>5, <2>1 DEF DividedOf
<1> QED
  BY <1>8, <1>9

LEMMA OneQuotient ==
  ASSUME NEW a \in Int, NEW b \in Int, NEW m \in Int, NEW r \in Int,
         b > 0, a = m * b + r, 0 <= r, r < b
  PROVE  m = a \div b /\ r = a % b
<1>1. PICK d \in Int, t \in Int : d = a \div b /\ t = a % b /\ a = b * d + t /\ 0 <= t /\ t < b
  OBVIOUS
<1>2. PICK x \in Int, y \in Int : x = m * b /\ y = b * d
  BY <1>1
<1>3. ASSUME NEW u \in Int, NEW v \in Int, u >= v + 1
      PROVE  u * b >= v * b + b
  BY <1>3
<1>4. x + r = y + t
  BY <1>1, <1>2
<1>5. ~(m >= d + 1)
  <2>1. m >= d + 1 => x >= y + b
    BY <1>1, <1>2, <1>3
  <2> QED
    BY <1>1, <1>2, <1>4, <2>1
<1>6. ~(d >= m + 1)
  <2>1. d >= m + 1 => y >= x + b
    BY <1>1, <1>2, <1>3
  <2> QED
    BY <1>1, <1>2, <1>4, <2>1
<1>7. m = d
  BY <1>1, <1>5, <1>6
<1> QED
  BY <1>1, <1>2, <1>4, <1>7

\* What is behind the dividend at the end is the quotient.
LEMMA DividedWhole ==
  ASSUME NEW a \in Int, NEW b \in Int, NEW m \in 0..255, NEW c \in {0, 1}, NEW r \in Int,
         b > 0, 0 <= r, r < b, DividedOf(a, b, 256 * c + m, r, 8)
  PROVE  m = a \div b /\ r = a % b
<1>1. PICK q \in 0..Power[8] - 1 : a * Power[8 + 1] = 512 * (q * b + r) + (256 * c + m) - q
  BY DEF DividedOf
<1>2. q \in 0..255 /\ a * 512 = 512 * (q * b + r) + (256 * c + m) - q
  BY <1>1, Powers
<1>3. PICK y \in Int : y = q * b
  BY <1>2
<1>4. a * 512 = 512 * (y + r) + (256 * c + m) - q
  BY <1>2, <1>3
<1>5. q \in Int /\ 0 <= q /\ q <= 255 /\ y \in Int /\ m \in Int /\ 0 <= m /\ m <= 255
  BY <1>2, <1>3
<1>6. q = m /\ a = y + r
  BY <1>4, <1>5
<1>7. a = m * b + r
  BY <1>3, <1>6
<1> QED
  BY <1>5, <1>7, OneQuotient

LEMMA QuotientRuns ==
  ASSUME AluTypeOK, aluNext, Running, routine = "quotient"
  PROVE  /\ at \in 1..10
         /\ at = 1 => ToAc(0)
         /\ at = 2 => ToIx(8)
         /\ at = 3 => Left(A, 0) /\ Quietly
         /\ at = 4 => AccLeft(Carry)
         /\ at = 5 => Compares8(cpu.ac, cpu.mem[B])
         /\ at = 6 => Jumps(~C, 8)
         /\ at = 7 => Subtracts(cpu.mem[B])
         /\ at = 8 => Left(A, Carry) /\ Quietly
         /\ at = 9 => ToIx(Wrap8(cpu.ix + 255))
         /\ at = 10 => Jumps(~Z, 4)
<1>1. /\ at \in 1..10
      /\ at = 1 => Ins = Imm("LDA", 0)
      /\ at = 2 => Ins = Imm("LDX", 8)
      /\ at = 3 => Ins = Zp("ASL", A)
      /\ at = 4 => Ins = ToAcc("ROL")
      /\ at = 5 => Ins = Zp("CMP", B)
      /\ at = 6 => Ins = To("BCC", 8)
      /\ at = 7 => Ins = Zp("SBC", B)
      /\ at = 8 => Ins = Zp("ROL", A)
      /\ at = 9 => Ins = I("DEX")
      /\ at = 10 => Ins = To("BNE", 4)
  BY Codes, InsAt DEF Quotient
<1>2. /\ at = 1 => ToAc(0)
      /\ at = 2 => ToIx(8)
      /\ at = 9 => ToIx(Wrap8(cpu.ix + 255))
  BY <1>1, Modes, Moves
<1>3. /\ at = 3 => Left(A, 0) /\ Quietly
      /\ at = 8 => Left(A, Carry) /\ Quietly
  BY <1>1, Modes, ShiftedCell, OfCells
<1>4. at = 4 => AccLeft(Carry)
  BY <1>1, Modes, ShiftedAcc
<1>5. /\ at = 5 => Compares8(cpu.ac, cpu.mem[B])
      /\ at = 7 => Subtracts(cpu.mem[B])
  BY <1>1, Modes, Computed
<1>6. /\ at = 6 => Jumps(~C, 8)
      /\ at = 10 => Jumps(~Z, 4)
  BY <1>1, Modes, Jumped
<1> QED
  BY <1>1, <1>2, <1>3, <1>4, <1>5, <1>6

\* What Divided and Lengthened say, of the next state too.
LEMMA DividedIs ==
  ASSUME AluTypeOK, aluNext
  PROVE  /\ \A w, r, k : Divided(w, r, k) <=> DividedOf(start[A], start[B], w, r, k)
         /\ \A w, r, k : Lengthened(w, r, k) <=> LengthenedOf(start[A], start[B], w, r, k)
         /\ Divided(256 * Carry + cpu.mem[A], cpu.ac, 8 - cpu.ix)' <=>
              DividedOf(start[A], start[B], 256 * Carry' + cpu'.mem[A], cpu'.ac, 8 - cpu'.ix)
         /\ Divided(256 * Carry + cpu.mem[A], cpu.ac, (8 - cpu.ix) + 1)' <=>
              DividedOf(start[A], start[B], 256 * Carry' + cpu'.mem[A], cpu'.ac, (8 - cpu'.ix) + 1)
         /\ Divided(256 * Carry + cpu.mem[A], cpu.ac, 8)' <=>
              DividedOf(start[A], start[B], 256 * Carry' + cpu'.mem[A], cpu'.ac, 8)
         /\ Divided(2 * cpu.mem[A] + Carry, cpu.ac, (8 - cpu.ix) + 1)' <=>
              DividedOf(start[A], start[B], 2 * cpu'.mem[A] + Carry', cpu'.ac, (8 - cpu'.ix) + 1)
         /\ Lengthened(cpu.mem[A], cpu.ac, 8 - cpu.ix)' <=>
              LengthenedOf(start[A], start[B], cpu'.mem[A], cpu'.ac, 8 - cpu'.ix)
<1>1. start' = start
  BY Fixed
<1> QED
  BY <1>1 DEF Divided, DividedOf, Lengthened, LengthenedOf

LEMMA QuotientKept ==
  ASSUME AluTypeOK, aluNext, Running, routine = "quotient", Given, QuotientNote
  PROVE  QuotientNote'
<1>1. start' = start
  BY Fixed
<1>2. /\ start[A] \in Int /\ start[B] \in Int /\ 1 <= start[B] /\ start[B] <= 128
      /\ cpu.ac \in Int /\ 0 <= cpu.ac /\ cpu'.ac \in Int /\ 0 <= cpu'.ac /\ cpu'.ac <= 255
      /\ cpu.mem[A] \in Int /\ cpu'.mem[A] \in Int
      /\ Carry \in 0..1 /\ Carry' \in Int /\ Carry' \in 0..1 /\ Carry \in Int
      /\ (C <=> Carry = 1) /\ (~C <=> Carry = 0)
  <2>1. start[B] \in 1..128
    BY Valid DEF Admits
  <2> QED
    BY <2>1, BytesNow, BytesThen DEF A, Small, Carry, testBit, C
<1>3. cpu'.mem[B] = start[B]
  BY QuotientRuns, BytesNow, SMTT(30)
  DEF QuotientNote, ToAc, ToIx, Left, AccLeft, Elsewhere, Compares8, Compared, Subtracts, Subtracted,
      OnlyAc, Jumps, SameMem, A, B
<1>4. CASE at \in 1..2
  BY <1>1, <1>3, <1>4, QuotientRuns
  DEF QuotientNote, ToAc, ToIx, OnTo, Regs, SameMem, Shown, SameFlags, Keeps, D
<1>5. CASE at = 3
  <2>1. /\ at' = 4 /\ ~D' /\ cpu'.ix = 8 /\ cpu'.ac = 0
        /\ cpu'.mem[A] + 256 * Carry' = 2 * start[A] + 0
    BY <1>5, QuotientRuns
    DEF QuotientNote, Left, Quietly, OnTo, SameRegs, Regs, SameFlags, Keeps, D
  <2>2. 256 * Carry' + cpu'.mem[A] = 2 * start[A] /\ 8 - cpu'.ix = 0 /\ cpu'.ac < start[B]
    BY <1>2, <2>1
  <2>3. DividedOf(start[A], start[B], 2 * start[A], 0, 0)
    <3>1. /\ 0 \in 0..Power[0] - 1
          /\ start[A] * Power[0 + 1] = 512 * (0 * start[B] + 0) + 2 * start[A] - 0
      BY <1>2, Powers
    <3> QED
      BY <3>1 DEF DividedOf
  <2>4. Divided(256 * Carry + cpu.mem[A], cpu.ac, 8 - cpu.ix)'
    BY <2>1, <2>2, <2>3, DividedIs
  <2> QED
    BY <1>1, <1>3, <1>5, <2>1, <2>2, <2>4 DEF QuotientNote
<1>6. CASE at \in 4..9
  <2>1. PICK k \in 0..7 : k = 8 - cpu.ix
    BY <1>6 DEF QuotientNote
  <2>2. CASE at = 4
    <3>1. /\ at' = 5 /\ cpu'.ix = cpu.ix /\ cpu'.mem = cpu.mem /\ (D' <=> D)
          /\ cpu'.ac + 256 * Carry' = 2 * cpu.ac + Carry
      BY <2>2, QuotientRuns DEF AccLeft, OnTo, Regs, SameMem, SameFlags, Keeps, D
    <3>2. cpu'.ac = 2 * cpu.ac + Carry /\ cpu'.ac < 2 * start[B]
      <4>1. cpu.ac < start[B]
        BY <2>2 DEF QuotientNote
      <4> QED
        BY <1>2, <3>1, <4>1
    <3>3. DividedOf(start[A], start[B], 256 * Carry + cpu.mem[A], cpu.ac, k)
      BY <2>1, <2>2, DividedIs DEF QuotientNote
    <3>4. PICK w \in Int : w = 256 * Carry + cpu.mem[A]
                           /\ 512 * cpu'.ac + 2 * cpu.mem[A] = 1024 * cpu.ac + 2 * w
      <4>1. /\ Carry \in Int /\ cpu.mem[A] \in Int /\ cpu.ac \in Int /\ cpu'.ac \in Int
            /\ cpu'.ac = 2 * cpu.ac + Carry
        BY <1>2, <3>2
      <4>2. PICK w \in Int : w = 256 * Carry + cpu.mem[A]
        BY <4>1
      <4>3. 512 * cpu'.ac + 2 * cpu.mem[A] = 1024 * cpu.ac + 2 * w
        BY <4>1, <4>2
      <4> QED
        BY <4>2, <4>3
    <3>5. LengthenedOf(start[A], start[B], cpu.mem[A], cpu'.ac, k)
      <4>1. /\ start[A] \in Int /\ start[B] \in Int /\ w \in Int /\ cpu.mem[A] \in Int /\ cpu.ac \in Int
            /\ cpu'.ac \in Int /\ k \in 0..7 /\ DividedOf(start[A], start[B], w, cpu.ac, k)
            /\ 512 * cpu'.ac + 2 * cpu.mem[A] = 1024 * cpu.ac + 2 * w
        BY <1>2, <2>1, <3>3, <3>4
      <4> QED
        BY <4>1, Lengthening, ZenonT(30)
    <3>6. Lengthened(cpu.mem[A], cpu.ac, 8 - cpu.ix)'
      BY <2>1, <3>1, <3>5, DividedIs
    <3> QED
      BY <1>1, <1>3, <2>2, <3>1, <3>2, <3>6 DEF QuotientNote
  <2>3. CASE at = 5
    <3>1. /\ at' = 6 /\ cpu'.ac = cpu.ac /\ cpu'.ix = cpu.ix /\ cpu'.mem = cpu.mem /\ (D' <=> D)
          /\ C' <=> cpu.ac >= start[B]
      BY <2>3, QuotientRuns
      DEF QuotientNote, Compares8, Compared, OnlyAc, OnTo, SameMem, Keeps, D, C
    <3>2. Lengthened(cpu.mem[A], cpu.ac, 8 - cpu.ix)'
      BY <2>3, <3>1, DividedIs DEF QuotientNote
    <3> QED
      BY <1>1, <1>3, <2>3, <3>1, <3>2 DEF QuotientNote
  <2>4. CASE at = 6
    <3>1. cpu' = cpu /\ at' = (IF C THEN 7 ELSE 8)
      BY <2>4, QuotientRuns DEF Jumps, OnTo
    <3>2. CASE C
      <4>1. Lengthened(cpu.mem[A], cpu.ac, 8 - cpu.ix)'
        BY <2>4, <3>1, DividedIs DEF QuotientNote
      <4> QED
        BY <1>1, <1>3, <2>4, <3>1, <3>2, <4>1 DEF QuotientNote, C, D
    <3>3. CASE ~C
      <4>1. LengthenedOf(start[A], start[B], cpu.mem[A], cpu.ac, k)
        BY <2>1, <2>4, DividedIs DEF QuotientNote
      <4>2. DividedOf(start[A], start[B], 2 * cpu.mem[A], cpu.ac, k + 1)
        BY <1>2, <2>1, <4>1, DividedOn
      <4>3. 2 * cpu'.mem[A] + Carry' = 2 * cpu.mem[A]
        <5>1. Carry' = 0
          BY <1>2, <3>1, <3>3 DEF Carry
        <5> QED
          BY <1>2, <3>1, <5>1
      <4>4. Divided(2 * cpu.mem[A] + Carry, cpu.ac, (8 - cpu.ix) + 1)'
        BY <2>1, <3>1, <4>2, <4>3, DividedIs
      <4>5. cpu.ac < start[B]
        BY <1>2, <2>4, <3>3 DEF QuotientNote
      <4> QED
        BY <1>1, <1>3, <2>4, <3>1, <3>3, <4>4, <4>5 DEF QuotientNote, C, D
    <3> QED
      BY <3>2, <3>3
  <2>5. CASE at = 7
    <3>1. /\ at' = 8 /\ cpu'.ix = cpu.ix /\ cpu'.mem = cpu.mem /\ (D' <=> D)
          /\ cpu'.ac - 256 * (1 - Carry') = cpu.ac - start[B] - (1 - Carry)
      BY <2>5, QuotientRuns, InBinary DEF QuotientNote, Differs, OnTo, Regs, SameMem, SameFlags, Keeps, D
    <3>2. Carry' = 1 /\ cpu'.ac = cpu.ac - start[B] /\ cpu'.ac < start[B]
      <4>1. Carry = 1 /\ start[B] <= cpu.ac /\ cpu.ac < 2 * start[B]
        BY <1>2, <2>5 DEF QuotientNote
      <4> QED
        BY <1>2, <3>1, <4>1
    <3>3. LengthenedOf(start[A], start[B], cpu.mem[A], cpu.ac, k)
      BY <2>1, <2>5, DividedIs DEF QuotientNote
    <3>4. DividedOf(start[A], start[B], 2 * cpu.mem[A] + 1, cpu.ac - start[B], k + 1)
      BY <1>2, <2>1, <3>3, DividedOn
    <3>5. Divided(2 * cpu.mem[A] + Carry, cpu.ac, (8 - cpu.ix) + 1)'
      BY <2>1, <3>1, <3>2, <3>4, DividedIs
    <3> QED
      BY <1>1, <1>3, <2>5, <3>1, <3>2, <3>5 DEF QuotientNote
  <2>6. CASE at = 8
    <3>1. /\ at' = 9 /\ cpu'.ix = cpu.ix /\ cpu'.ac = cpu.ac /\ (D' <=> D)
          /\ cpu'.mem[A] + 256 * Carry' = 2 * cpu.mem[A] + Carry
      BY <2>6, QuotientRuns DEF Left, Quietly, OnTo, SameRegs, Regs, SameFlags, Keeps, D
    <3>2. 256 * Carry' + cpu'.mem[A] = 2 * cpu.mem[A] + Carry
      BY <1>2, <3>1
    <3>3. Divided(256 * Carry + cpu.mem[A], cpu.ac, (8 - cpu.ix) + 1)'
      BY <2>1, <2>6, <3>1, <3>2, DividedIs DEF QuotientNote
    <3> QED
      BY <1>1, <1>3, <2>6, <3>1, <3>3 DEF QuotientNote
  <2>7. CASE at = 9
    <3>1. cpu.ix \in 1..8 /\ Wrap8(cpu.ix + 255) = cpu.ix - 1
      BY <2>7, BytesNow, Wrapped DEF QuotientNote
    <3>2. /\ at' = 10 /\ cpu'.ix = cpu.ix - 1 /\ cpu'.ac = cpu.ac /\ cpu'.mem = cpu.mem /\ (D' <=> D)
          /\ Carry' = Carry /\ (Z' <=> cpu'.ix = 0)
      BY <2>7, <3>1, QuotientRuns
      DEF ToIx, OnTo, Regs, SameMem, Shown, NZOf, SameFlags, Keeps, D, Z, Carry, testBit
    <3>3. 8 - cpu'.ix = (8 - cpu.ix) + 1
      BY <3>1, <3>2
    <3>4. Divided(256 * Carry + cpu.mem[A], cpu.ac, 8 - cpu.ix)'
      BY <2>7, <3>2, <3>3, DividedIs DEF QuotientNote
    <3> QED
      BY <1>1, <1>3, <2>7, <3>1, <3>2, <3>4 DEF QuotientNote
  <2> QED
    BY <1>6, <2>2, <2>3, <2>4, <2>5, <2>6, <2>7
<1>7. CASE at = 10
  <2>1. cpu' = cpu /\ at' = (IF Z THEN 11 ELSE 4)
    BY <1>7, QuotientRuns DEF Jumps, OnTo
  <2>2. /\ Divided(256 * Carry + cpu.mem[A], cpu.ac, 8 - cpu.ix)'
        /\ Z => Divided(256 * Carry + cpu.mem[A], cpu.ac, 8)'
    BY <1>7, <2>1, DividedIs DEF QuotientNote, Carry
  <2> QED
    BY <1>1, <1>3, <1>7, <2>1, <2>2 DEF QuotientNote, D, Z
<1> QED
  BY <1>4, <1>5, <1>6, <1>7, QuotientRuns

-----------------------------------------------------------------------------
(* Comparisons.                                                            *)

LEMMA UnsignedLessRuns ==
  ASSUME AluTypeOK, aluNext, Running, routine = "unsignedLess"
  PROVE  /\ at \in 1..7
         /\ at = 1 => ToIy(0)
         /\ at = 2 => ToAc(cpu.mem[A])
         /\ at = 3 => Compares8(cpu.ac, cpu.mem[B])
         /\ at = 4 => ToAc(cpu.mem[A + 1])
         /\ at = 5 => Subtracts(cpu.mem[B + 1])
         /\ at = 6 => Jumps(C, 8)
         /\ at = 7 => ToIy(Wrap8(cpu.iy + 1))
BY Codes, InsAt, Modes, Moves, Computed, Jumped DEF UnsignedLess

LEMMA UnsignedLessKept ==
  ASSUME AluTypeOK, aluNext, Running, routine = "unsignedLess", UnsignedLessNote
  PROVE  UnsignedLessNote'
<1>0. Routine.decimal = FALSE /\ Routine'.decimal = FALSE
  BY Radices
<1> USE <1>0 DEF UnsignedLessNote, Kept, C, Z, N, V, D, Carry, testBit, A, B, R, OnTo,
        Regs, SameRegs, SameMem, SameFlags, Keeps, Elsewhere, Shown, NZOf, Number, Digits,
        Radix, Yes
<1>1. start' = start
  BY Fixed
<1>2. CASE at = 1
  BY <1>1, <1>2, UnsignedLessRuns DEF ToIy
<1>3. CASE at = 2
  BY <1>1, <1>3, UnsignedLessRuns DEF ToAc
<1>4. CASE at = 3
  BY <1>1, <1>4, UnsignedLessRuns, BytesNow, BytesThen DEF Compares8, Compared, OnlyAc, Small
<1>5. CASE at = 4
  BY <1>1, <1>5, UnsignedLessRuns DEF ToAc
<1>6. CASE at = 5
  <2>1. Differs(cpu.mem[B + 1])
    BY <1>6, UnsignedLessRuns, InBinary
  <2> QED
    BY <1>1, <1>6, <2>1, BytesNow, BytesThen DEF Differs, Small
<1>7. CASE at = 6
  BY <1>1, <1>7, UnsignedLessRuns, BytesNow, BytesThen DEF Jumps, Small
<1>8. CASE at = 7
  <2>1. (cpu.iy = 255 => Wrap8(cpu.iy + 1) = 0) /\ (cpu.iy # 255 => Wrap8(cpu.iy + 1) = cpu.iy + 1)
    BY BytesNow, Wrapped
  <2> QED
    BY <1>1, <1>8, UnsignedLessRuns, <2>1, BytesNow, BytesThen DEF ToIy, Small
<1> HIDE DEF UnsignedLessNote
<1>9. at \in 1..7
  BY UnsignedLessRuns
<1> QED
  BY <1>2, <1>3, <1>4, <1>5, <1>6, <1>7, <1>8, <1>9

LEMMA SignedLessRuns ==
  ASSUME AluTypeOK, aluNext, Running, routine = "signedLess"
  PROVE  /\ at \in 1..11
         /\ at = 1 => ToFlag("V", FALSE)
         /\ at = 2 => ToAc(cpu.mem[A])
         /\ at = 3 => Compares8(cpu.ac, cpu.mem[B])
         /\ at = 4 => ToAc(cpu.mem[A + 1])
         /\ at = 5 => Subtracts(cpu.mem[B + 1])
         /\ at = 6 => Jumps(~V, 8)
         /\ at = 7 => ToAc(Xor8(cpu.ac, 128))
         /\ at = 8 => ToIy(0)
         /\ at = 9 => ToAc(And8(cpu.ac, 128))
         /\ at = 10 => Jumps(~N, 12)
         /\ at = 11 => ToIy(Wrap8(cpu.iy + 1))
<1>1. /\ at \in 1..11
      /\ at = 1 => Ins = I("CLV")
      /\ at = 2 => Ins = Zp("LDA", A)
      /\ at = 3 => Ins = Zp("CMP", B)
      /\ at = 4 => Ins = Zp("LDA", A + 1)
      /\ at = 5 => Ins = Zp("SBC", B + 1)
      /\ at = 6 => Ins = To("BVC", 8)
      /\ at = 7 => Ins = Imm("EOR", 128)
      /\ at = 8 => Ins = Imm("LDY", 0)
      /\ at = 9 => Ins = Imm("AND", 128)
      /\ at = 10 => Ins = To("BPL", 12)
      /\ at = 11 => Ins = I("INY")
  BY Codes, InsAt DEF SignedLess
<1>2. at = 1 => ToFlag("V", FALSE)
  BY <1>1, Modes, Flagged
<1>3. /\ at = 2 => ToAc(cpu.mem[A])
      /\ at = 4 => ToAc(cpu.mem[A + 1])
      /\ at = 8 => ToIy(0)
      /\ at = 11 => ToIy(Wrap8(cpu.iy + 1))
  BY <1>1, Modes, Moves
<1>4. /\ at = 3 => Compares8(cpu.ac, cpu.mem[B])
      /\ at = 5 => Subtracts(cpu.mem[B + 1])
  BY <1>1, Modes, Computed
<1>5. /\ at = 6 => Jumps(~V, 8)
      /\ at = 10 => Jumps(~N, 12)
  BY <1>1, Modes, Jumped
<1>6. /\ at = 7 => ToAc(Xor8(cpu.ac, 128))
      /\ at = 9 => ToAc(And8(cpu.ac, 128))
  BY <1>1, Modes, Logic
<1> QED
  BY <1>1, <1>2, <1>3, <1>4, <1>5, <1>6

LEMMA SignedLessKept ==
  ASSUME AluTypeOK, aluNext, Running, routine = "signedLess", SignedLessNote
  PROVE  SignedLessNote'
<1> USE DEF SignedLessNote, Kept, C, Z, N, V, D, Carry, testBit, A, B, R, OnTo, Regs,
        SameRegs, SameMem, SameFlags, Keeps, Elsewhere, Shown, NZOf, Yes
<1>1. start' = start
  BY Fixed
<1>2. CASE at = 1
  BY <1>1, <1>2, SignedLessRuns DEF ToFlag, Flags
<1>3. CASE at = 2
  BY <1>1, <1>3, SignedLessRuns DEF ToAc
<1>4. CASE at = 3
  BY <1>1, <1>4, SignedLessRuns, BytesNow, BytesThen DEF Compares8, Compared, OnlyAc, Small
<1>5. CASE at = 4
  BY <1>1, <1>5, SignedLessRuns DEF ToAc
<1>6. CASE at = 5
  <2>1. /\ OnTo(at + 1) /\ SameMem /\ cpu'.iy = cpu.iy /\ ~D'
        /\ N' <=> cpu'.ac >= 128
        /\ ~(N' <=> V') <=> Int8(cpu.ac) - Int8(cpu.mem[B + 1]) - (1 - Carry) < 0
    BY <1>6, SignedLessRuns DEF Subtracts, Subtracted, OnlyAc
  <2>2. Signed(start, A) < Signed(start, B) <=>
          Int8(start[A + 1]) - Int8(start[B + 1]) - (IF start[A] >= start[B] THEN 0 ELSE 1) < 0
    BY BytesNow, SignedOrder DEF Signed
  <2>3. 1 - Carry = IF start[A] >= start[B] THEN 0 ELSE 1
    BY <1>6
  <2> QED
    BY <1>1, <1>6, <2>1, <2>2, <2>3, BytesNow
<1>7. CASE at = 6
  BY <1>1, <1>7, SignedLessRuns, BytesNow, BytesThen DEF Jumps, Small
<1>8. CASE at = 7
  <2>1. Xor8(cpu.ac, 128) >= 128 <=> cpu.ac < 128
    BY TopBit, Bytes
  <2> QED
    BY <1>1, <1>8, SignedLessRuns, <2>1, BytesNow, BytesThen DEF ToAc, Small
<1>9. CASE at = 8
  BY <1>1, <1>9, SignedLessRuns DEF ToIy
<1>10. CASE at = 9
  <2>1. And8(cpu.ac, 128) >= 128 <=> cpu.ac >= 128
    BY TopBit, Bytes
  <2> QED
    BY <1>1, <1>10, SignedLessRuns, <2>1, BytesNow, BytesThen DEF ToAc, Small
<1>11. CASE at = 10
  BY <1>1, <1>11, SignedLessRuns, BytesNow, BytesThen DEF Jumps, Small
<1>12. CASE at = 11
  <2>1. (cpu.iy = 255 => Wrap8(cpu.iy + 1) = 0) /\ (cpu.iy # 255 => Wrap8(cpu.iy + 1) = cpu.iy + 1)
    BY BytesNow, Wrapped
  <2> QED
    BY <1>1, <1>12, SignedLessRuns, <2>1, BytesNow, BytesThen DEF ToIy, Small
<1> HIDE DEF SignedLessNote
<1>13. at \in 1..11
  BY SignedLessRuns
<1> QED
  BY <1>2, <1>3, <1>4, <1>5, <1>6, <1>7, <1>8, <1>9, <1>10, <1>11, <1>12, <1>13

LEMMA EqualRuns ==
  ASSUME AluTypeOK, aluNext, Running, routine = "equal"
  PROVE  /\ at \in 1..9
         /\ at = 1 => ToIy(1)
         /\ at = 2 => ToIx(cpu.mem[A])
         /\ at = 3 => Compares8(cpu.ix, cpu.mem[B])
         /\ at = 4 => Jumps(~Z, 9)
         /\ at = 5 => ToAc(cpu.mem[A + 1])
         /\ at = 6 => ToIx(cpu.ac)
         /\ at = 7 => Compares8(cpu.ix, cpu.mem[B + 1])
         /\ at = 8 => Jumps(Z, 10)
         /\ at = 9 => ToIy(Wrap8(cpu.iy + 255))
BY Codes, InsAt, Modes, Moves, Computed, Jumped DEF Equal

LEMMA EqualKept ==
  ASSUME AluTypeOK, aluNext, Running, routine = "equal", EqualNote
  PROVE  EqualNote'
<1>0. Routine.decimal = FALSE /\ Routine'.decimal = FALSE
  BY Radices
<1> USE <1>0 DEF EqualNote, Kept, C, Z, N, V, D, Carry, testBit, A, B, R, OnTo, Regs,
        SameRegs, SameMem, SameFlags, Keeps, Elsewhere, Shown, NZOf, Number, Digits, Radix,
        Yes
<1>1. start' = start
  BY Fixed
<1>2. CASE at = 1
  BY <1>1, <1>2, EqualRuns DEF ToIy
<1>3. CASE at = 2
  BY <1>1, <1>3, EqualRuns DEF ToIx
<1>4. CASE at = 3
  BY <1>1, <1>4, EqualRuns, BytesNow, BytesThen DEF Compares8, Compared, OnlyAc, Small
<1>5. CASE at = 4
  BY <1>1, <1>5, EqualRuns, BytesNow, BytesThen DEF Jumps, Small
<1>6. CASE at = 5
  BY <1>1, <1>6, EqualRuns DEF ToAc
<1>7. CASE at = 6
  BY <1>1, <1>7, EqualRuns DEF ToIx
<1>8. CASE at = 7
  BY <1>1, <1>8, EqualRuns, BytesNow, BytesThen DEF Compares8, Compared, OnlyAc, Small
<1>9. CASE at = 8
  BY <1>1, <1>9, EqualRuns, BytesNow, BytesThen DEF Jumps, Small
<1>10. CASE at = 9
  <2>1. (cpu.iy = 0 => Wrap8(cpu.iy + 255) = 255) /\ (cpu.iy # 0 => Wrap8(cpu.iy + 255) = cpu.iy - 1)
    BY BytesNow, Wrapped
  <2> QED
    BY <1>1, <1>10, EqualRuns, <2>1, BytesNow, BytesThen DEF ToIy, Small
<1> HIDE DEF EqualNote
<1>11. at \in 1..9
  BY EqualRuns
<1> QED
  BY <1>2, <1>3, <1>4, <1>5, <1>6, <1>7, <1>8, <1>9, <1>10, <1>11

LEMMA EqualTooRuns ==
  ASSUME AluTypeOK, aluNext, Running, routine = "equalToo"
  PROVE  /\ at \in 1..10
         /\ at = 1 => ToIy(1)
         /\ at = 2 => ToAc(cpu.mem[A])
         /\ at = 3 => Counted(B, 1)
         /\ at = 4 => /\ CountedThen(B, 255) /\ cpu'.ac = cpu.ac
                      /\ Z' <=> cpu.ac = cpu'.mem[B]
         /\ at = 5 => Jumps(~Z, 10)
         /\ at = 6 => ToAc(cpu.mem[A + 1])
         /\ at = 7 => Counted(B + 1, 1)
         /\ at = 8 => /\ CountedThen(B + 1, 255) /\ cpu'.ac = cpu.ac
                      /\ Z' <=> cpu.ac = cpu'.mem[B + 1]
         /\ at = 9 => Jumps(Z, 11)
         /\ at = 10 => ToIy(0)
BY Codes, InsAt, Modes, Moves, Stored, OfCells, CountedAndUsed, Jumped DEF EqualToo

LEMMA EqualTooKept ==
  ASSUME AluTypeOK, aluNext, Running, routine = "equalToo", EqualTooNote
  PROVE  EqualTooNote'
<1>0. Routine.decimal = FALSE /\ Routine'.decimal = FALSE
  BY Radices
<1> USE <1>0 DEF EqualTooNote, Kept, C, Z, N, V, D, Carry, testBit, A, B, R, OnTo, Regs,
        SameRegs, SameMem, SameFlags, Keeps, Elsewhere, Shown, NZOf, Number, Digits, Radix,
        Yes
<1>1. start' = start
  BY Fixed
<1>2. CASE at = 1
  BY <1>1, <1>2, EqualTooRuns DEF ToIy
<1>3. CASE at = 2
  BY <1>1, <1>3, EqualTooRuns DEF ToAc
<1>4. CASE at = 3
  BY <1>1, <1>4, EqualTooRuns, BytesNow, BytesThen DEF Counted, Small
<1>5. CASE at = 4
  <2>1. Wrap8(Wrap8(start[B] + 1) + 255) = start[B]
    BY BytesNow, Undone
  <2>2. cpu'.mem[B] = start[B]
    BY <1>5, <2>1, EqualTooRuns DEF CountedThen
  <2> QED
    BY <1>1, <1>5, EqualTooRuns, <2>1, <2>2, BytesNow, BytesThen DEF CountedThen, Small
<1>6. CASE at = 5
  BY <1>1, <1>6, EqualTooRuns, BytesNow, BytesThen DEF Jumps, Small
<1>7. CASE at = 6
  BY <1>1, <1>7, EqualTooRuns DEF ToAc
<1>8. CASE at = 7
  BY <1>1, <1>8, EqualTooRuns, BytesNow, BytesThen DEF Counted, Small
<1>9. CASE at = 8
  <2>1. Wrap8(Wrap8(start[B + 1] + 1) + 255) = start[B + 1]
    BY BytesNow, Undone
  <2>2. cpu'.mem[B + 1] = start[B + 1]
    BY <1>9, <2>1, EqualTooRuns DEF CountedThen
  <2> QED
    BY <1>1, <1>9, EqualTooRuns, <2>1, <2>2, BytesNow, BytesThen DEF CountedThen, Small
<1>10. CASE at = 9
  <2>1. Number(start, A) = Number(start, B) <=> start[A] = start[B] /\ start[A + 1] = start[B + 1]
    BY BytesNow DEF Small
  <2> QED
    BY <1>1, <1>10, EqualTooRuns, <2>1, BytesNow, BytesThen DEF Jumps, Small
<1>11. CASE at = 10
  BY <1>1, <1>11, EqualTooRuns DEF ToIy
<1> HIDE DEF EqualTooNote
<1>12. at \in 1..10
  BY EqualTooRuns
<1> QED
  BY <1>2, <1>3, <1>4, <1>5, <1>6, <1>7, <1>8, <1>9, <1>10, <1>11, <1>12

-----------------------------------------------------------------------------
(* Shifts and counts.                                                      *)

LEMMA DoubleRuns ==
  ASSUME AluTypeOK, aluNext, Running, routine = "double"
  PROVE  /\ at \in 1..2
         /\ at = 1 => Left(A, 0) /\ Quietly
         /\ at = 2 => Left(A + 1, Carry) /\ Quietly
BY Codes, InsAt, Modes, ShiftedCell, OfCells DEF Double

LEMMA DoubleKept ==
  ASSUME AluTypeOK, aluNext, Running, routine = "double", DoubleNote
  PROVE  DoubleNote'
<1>0. Routine.decimal = FALSE /\ Routine'.decimal = FALSE
  BY Radices
<1> USE <1>0 DEF DoubleNote, Kept, C, Z, N, V, D, Carry, testBit, A, B, R, OnTo, Regs,
        SameRegs, SameMem, SameFlags, Keeps, Elsewhere, Shown, NZOf, Number, Digits, Radix
<1>1. start' = start
  BY Fixed
<1>2. CASE at = 1
  BY <1>1, <1>2, DoubleRuns, BytesNow, BytesThen DEF Left, Right, Quietly, Small
<1>3. CASE at = 2
  BY <1>1, <1>3, DoubleRuns, BytesNow, BytesThen DEF Left, Right, Quietly, Small
<1> HIDE DEF DoubleNote
<1>4. at \in 1..2
  BY DoubleRuns
<1> QED
  BY <1>2, <1>3, <1>4

LEMMA DoubleTooRuns ==
  ASSUME AluTypeOK, aluNext, Running, routine = "doubleToo"
  PROVE  /\ at \in 1..2
         /\ at = 1 => Left(A, 0)
         /\ at = 2 => Left(A + 1, Carry)
BY Codes, InsAt, Modes, ShiftedCell, OfCells DEF DoubleToo

LEMMA DoubleTooKept ==
  ASSUME AluTypeOK, aluNext, Running, routine = "doubleToo", DoubleNote
  PROVE  DoubleNote'
<1>0. Routine.decimal = FALSE /\ Routine'.decimal = FALSE
  BY Radices
<1> USE <1>0 DEF DoubleNote, Kept, C, Z, N, V, D, Carry, testBit, A, B, R, OnTo, Regs,
        SameRegs, SameMem, SameFlags, Keeps, Elsewhere, Shown, NZOf, Number, Digits, Radix
<1>1. start' = start
  BY Fixed
<1>2. CASE at = 1
  BY <1>1, <1>2, DoubleTooRuns, BytesNow, BytesThen DEF Left, Right, Small
<1>3. CASE at = 2
  BY <1>1, <1>3, DoubleTooRuns, BytesNow, BytesThen DEF Left, Right, Small
<1> HIDE DEF DoubleNote
<1>4. at \in 1..2
  BY DoubleTooRuns
<1> QED
  BY <1>2, <1>3, <1>4

LEMMA HalfRuns ==
  ASSUME AluTypeOK, aluNext, Running, routine = "half"
  PROVE  /\ at \in 1..2
         /\ at = 1 => Right(A + 1, 0) /\ Quietly
         /\ at = 2 => Right(A, Carry) /\ Quietly
BY Codes, InsAt, Modes, ShiftedCell, OfCells DEF Half

LEMMA HalfKept ==
  ASSUME AluTypeOK, aluNext, Running, routine = "half", HalfNote
  PROVE  HalfNote'
<1>0. Routine.decimal = FALSE /\ Routine'.decimal = FALSE
  BY Radices
<1> USE <1>0 DEF HalfNote, Kept, C, Z, N, V, D, Carry, testBit, A, B, R, OnTo, Regs,
        SameRegs, SameMem, SameFlags, Keeps, Elsewhere, Shown, NZOf, Number, Digits, Radix
<1>1. start' = start
  BY Fixed
<1>2. CASE at = 1
  BY <1>1, <1>2, HalfRuns, BytesNow, BytesThen DEF Left, Right, Quietly, Small
<1>3. CASE at = 2
  BY <1>1, <1>3, HalfRuns, BytesNow, BytesThen DEF Left, Right, Quietly, Small
<1> HIDE DEF HalfNote
<1>4. at \in 1..2
  BY HalfRuns
<1> QED
  BY <1>2, <1>3, <1>4

LEMMA HalfTooRuns ==
  ASSUME AluTypeOK, aluNext, Running, routine = "halfToo"
  PROVE  /\ at \in 1..2
         /\ at = 1 => Right(A + 1, 0)
         /\ at = 2 => /\ OnTo(at + 1) /\ Elsewhere(A)
                      /\ \E bit \in {0, 1} : 2 * cpu'.mem[A] + bit = cpu.mem[A] + 256 * Carry
BY Codes, InsAt, Modes, ShiftedCell, OfCells, RotatedAndAdded DEF HalfToo

LEMMA HalfTooKept ==
  ASSUME AluTypeOK, aluNext, Running, routine = "halfToo", HalfNote
  PROVE  HalfNote'
<1>0. Routine.decimal = FALSE /\ Routine'.decimal = FALSE
  BY Radices
<1> USE <1>0 DEF HalfNote, Kept, C, Z, N, V, D, Carry, testBit, A, B, R, OnTo, Regs,
        SameRegs, SameMem, SameFlags, Keeps, Elsewhere, Shown, NZOf, Number, Digits, Radix
<1>1. start' = start
  BY Fixed
<1>2. CASE at = 1
  BY <1>1, <1>2, HalfTooRuns, BytesNow, BytesThen DEF Left, Right, Small
<1>3. CASE at = 2
  <2>1. PICK bit \in {0, 1} : 2 * cpu'.mem[A] + bit = cpu.mem[A] + 256 * Carry
    BY <1>3, HalfTooRuns
  <2>2. Number(start, A) = 2 * Number(cpu'.mem, A) + bit
    BY <1>3, <2>1, HalfTooRuns, BytesNow, BytesThen DEF Small
  <2>3. Number(cpu'.mem, A) = Number(start, A) \div 2
    BY <2>1, <2>2, BytesNow, BytesThen DEF Small
  <2> QED
    BY <1>1, <1>3, <2>3, HalfTooRuns
<1> HIDE DEF HalfNote
<1>4. at \in 1..2
  BY HalfTooRuns
<1> QED
  BY <1>2, <1>3, <1>4

LEMMA HalfInARuns ==
  ASSUME AluTypeOK, aluNext, Running, routine = "halfInA"
  PROVE  /\ at \in 1..6
         /\ at = 1 => ToAc(cpu.mem[A + 1])
         /\ at = 2 => /\ OnTo(at + 1) /\ SameMem /\ cpu'.iy = cpu.iy /\ SameFlags({"D"})
                      /\ 2 * cpu'.ac + Carry' = And8(cpu.ac, 255)
         /\ at = 3 => ToMem(A + 1, cpu.ac)
         /\ at = 4 => ToAc(cpu.mem[A])
         /\ at = 5 => /\ OnTo(at + 1) /\ SameMem /\ cpu'.iy = cpu.iy /\ SameFlags({"D"})
                      /\ cpu'.ac = And8(cpu.ac, 255) \div 2 + 128 * Carry /\ Carry' = Carry
         /\ at = 6 => ToMem(A, cpu.ac)
BY Codes, InsAt, Modes, Moves, Masked, Stored, OfCells DEF HalfInA

LEMMA HalfInAKept ==
  ASSUME AluTypeOK, aluNext, Running, routine = "halfInA", HalfInANote
  PROVE  HalfInANote'
<1>0. Routine.decimal = FALSE /\ Routine'.decimal = FALSE
  BY Radices
<1> USE <1>0 DEF HalfInANote, Kept, C, Z, N, V, D, Carry, testBit, A, B, R, OnTo, Regs,
        SameRegs, SameMem, SameFlags, Keeps, Elsewhere, Shown, NZOf, Number, Digits, Radix
<1>1. start' = start
  BY Fixed
<1>2. CASE at = 1
  BY <1>1, <1>2, HalfInARuns DEF ToAc
<1>3. CASE at = 2
  <2>1. And8(cpu.ac, 255) = cpu.ac
    BY AllBits, Bytes
  <2> QED
    BY <1>1, <1>3, HalfInARuns, <2>1, BytesNow, BytesThen DEF Small
<1>4. CASE at = 3
  BY <1>1, <1>4, HalfInARuns, BytesNow, BytesThen DEF ToMem, Flags, Small
<1>5. CASE at = 4
  BY <1>1, <1>5, HalfInARuns DEF ToAc
<1>6. CASE at = 5
  <2>1. And8(cpu.ac, 255) = cpu.ac
    BY AllBits, Bytes
  <2> QED
    BY <1>1, <1>6, HalfInARuns, <2>1, BytesNow, BytesThen DEF Small
<1>7. CASE at = 6
  BY <1>1, <1>7, HalfInARuns, BytesNow, BytesThen DEF ToMem, Flags, Small
<1> HIDE DEF HalfInANote
<1>8. at \in 1..6
  BY HalfInARuns
<1> QED
  BY <1>2, <1>3, <1>4, <1>5, <1>6, <1>7, <1>8

LEMMA UpRuns ==
  ASSUME AluTypeOK, aluNext, Running, routine = "up"
  PROVE  /\ at \in 1..3
         /\ at = 1 => Counted(A, 1)
         /\ at = 2 => Jumps(~Z, 4)
         /\ at = 3 => Counted(A + 1, 1)
BY Codes, InsAt, Modes, Stored, OfCells, Jumped DEF Up

LEMMA UpKept ==
  ASSUME AluTypeOK, aluNext, Running, routine = "up", UpNote
  PROVE  UpNote'
<1>0. Routine.decimal = FALSE /\ Routine'.decimal = FALSE
  BY Radices
<1> USE <1>0 DEF UpNote, Kept, C, Z, N, V, D, Carry, testBit, A, B, R, OnTo, Regs,
        SameRegs, SameMem, SameFlags, Keeps, Elsewhere, Shown, NZOf
<1>1. start' = start
  BY Fixed
<1>2. CASE at = 1
  BY <1>1, <1>2, UpRuns, BytesNow, BytesThen DEF Counted, Small
<1>3. CASE at = 2
  <2>1. /\ start[A] = 255 => Wrap8(start[A] + 1) = 0
        /\ start[A] # 255 => Wrap8(start[A] + 1) = start[A] + 1
    BY BytesNow, Wrapped
  <2>2. CASE Z
    <3>1. start[A] = 255
      BY <1>3, <2>1, <2>2, BytesNow DEF Small
    <3> QED
      BY <1>1, <1>3, <2>2, <3>1, UpRuns DEF Jumps
  <2>3. CASE ~Z
    <3>1. start[A] # 255 /\ cpu'.mem[A] = start[A] + 1 /\ cpu'.mem[A + 1] = start[A + 1]
      BY <1>3, <2>1, <2>3, UpRuns DEF Jumps
    <3>2. (Number(cpu.mem, A) = Wrap16(Number(start, A) + 1))'
      BY <1>0, <3>1, CountsUp
    <3> QED
      BY <1>1, <1>3, <2>3, <3>2, UpRuns DEF Jumps
  <2> QED
    BY <2>2, <2>3
<1>4. CASE at = 3
  <2>1. \/ start[A] # 255 /\ cpu'.mem[A] = start[A] + 1 /\ cpu'.mem[A + 1] = start[A + 1]
        \/ start[A] = 255 /\ cpu'.mem[A] = 0 /\ cpu'.mem[A + 1] = Wrap8(start[A + 1] + 1)
    BY <1>4, UpRuns, BytesNow DEF Counted
  <2>2. (Number(cpu.mem, A) = Wrap16(Number(start, A) + 1))'
    BY <1>0, <2>1, CountsUp
  <2> QED
    BY <1>1, <1>4, <2>2, UpRuns DEF Counted
<1> HIDE DEF UpNote
<1>5. at \in 1..3
  BY UpRuns
<1> QED
  BY <1>2, <1>3, <1>4, <1>5

LEMMA DownRuns ==
  ASSUME AluTypeOK, aluNext, Running, routine = "down"
  PROVE  /\ at \in 1..5
         /\ at = 1 => ToIx(cpu.mem[A])
         /\ at = 2 => Jumps(~Z, 4)
         /\ at = 3 => Counted(A + 1, 255)
         /\ at = 4 => ToIx(Wrap8(cpu.ix + 255))
         /\ at = 5 => ToMem(A, cpu.ix)
BY Codes, InsAt, Modes, Moves, Jumped, Stored, OfCells DEF Down

LEMMA DownKept ==
  ASSUME AluTypeOK, aluNext, Running, routine = "down", DownNote
  PROVE  DownNote'
<1>0. Routine.decimal = FALSE /\ Routine'.decimal = FALSE
  BY Radices
<1> USE <1>0 DEF DownNote, Kept, C, Z, N, V, D, Carry, testBit, A, B, R, OnTo, Regs,
        SameRegs, SameMem, SameFlags, Keeps, Elsewhere, Shown, NZOf
<1>1. start' = start
  BY Fixed
<1>2. CASE at = 1
  BY <1>1, <1>2, DownRuns DEF ToIx
<1>3. CASE at = 2
  BY <1>1, <1>3, DownRuns, BytesNow, BytesThen DEF Jumps, Small
<1>4. CASE at = 3
  BY <1>1, <1>4, DownRuns, BytesNow, BytesThen DEF Counted, Small
<1>5. CASE at = 4
  BY <1>1, <1>5, DownRuns, BytesNow, BytesThen DEF ToIx, Small
<1>6. CASE at = 5
  <2>1. /\ cpu'.mem[A] = Wrap8(start[A] + 255)
        /\ \/ start[A] # 0 /\ cpu'.mem[A + 1] = start[A + 1]
           \/ start[A] = 0 /\ cpu'.mem[A + 1] = Wrap8(start[A + 1] + 255)
    BY <1>6, DownRuns, BytesNow DEF ToMem
  <2>2. (Number(cpu.mem, A) = Wrap16(Number(start, A) - 1))'
    BY <1>0, <2>1, CountsDown
  <2> QED
    BY <1>1, <1>6, <2>2, DownRuns DEF ToMem
<1> HIDE DEF DownNote
<1>7. at \in 1..5
  BY DownRuns
<1> QED
  BY <1>2, <1>3, <1>4, <1>5, <1>6, <1>7

LEMMA DownTooRuns ==
  ASSUME AluTypeOK, aluNext, Running, routine = "downToo"
  PROVE  /\ at \in 1..6
         /\ at = 1 => ToAc(cpu.mem[A])
         /\ at = 2 => ToIx(255)
         /\ at = 3 => /\ OnTo(at + 1) /\ SameMem /\ cpu'.iy = cpu.iy /\ SameFlags({"D"})
                      /\ cpu'.ix = Wrap8(And8(cpu.ac, cpu.ix) + Not8(1) + 1)
                      /\ C' <=> And8(cpu.ac, cpu.ix) >= 1
         /\ at = 4 => ToMem(A, cpu.ix)
         /\ at = 5 => Jumps(C, 7)
         /\ at = 6 => Counted(A + 1, 255)
BY Codes, InsAt, Modes, Moves, Masked, Stored, OfCells, Jumped DEF DownToo

LEMMA DownTooKept ==
  ASSUME AluTypeOK, aluNext, Running, routine = "downToo", DownTooNote
  PROVE  DownTooNote'
<1>0. Routine.decimal = FALSE /\ Routine'.decimal = FALSE
  BY Radices
<1> USE <1>0 DEF DownTooNote, Kept, C, Z, N, V, D, Carry, testBit, A, B, R, OnTo, Regs,
        SameRegs, SameMem, SameFlags, Keeps, Elsewhere, Shown, NZOf
<1>1. start' = start
  BY Fixed
<1>2. CASE at = 1
  BY <1>1, <1>2, DownTooRuns DEF ToAc
<1>3. CASE at = 2
  BY <1>1, <1>3, DownTooRuns DEF ToIx
<1>4. CASE at = 3
  <2>1. And8(start[A], 255) = start[A]
    BY AllBits, Bytes
  <2>2. Wrap8(start[A] + Not8(1) + 1) = Wrap8(start[A] + 255)
    BY BytesNow DEF Small, Wrap8, Not8
  <2> QED
    BY <1>1, <1>4, DownTooRuns, <2>1, <2>2, BytesNow, BytesThen DEF Small
<1>5. CASE at = 4
  BY <1>1, <1>5, DownTooRuns, BytesNow, BytesThen DEF ToMem, Flags, Small
<1>6. CASE at = 5
  <2>1. CASE ~C
    BY <1>1, <1>6, <2>1, DownTooRuns DEF Jumps
  <2>2. CASE C
    <3>1. cpu'.mem[A] = Wrap8(start[A] + 255) /\ start[A] # 0 /\ cpu'.mem[A + 1] = start[A + 1]
      BY <1>6, <2>2, DownTooRuns DEF Jumps
    <3>2. (Number(cpu.mem, A) = Wrap16(Number(start, A) - 1))'
      BY <1>0, <3>1, CountsDown
    <3> QED
      BY <1>1, <1>6, <2>2, <3>2, DownTooRuns DEF Jumps
  <2> QED
    BY <2>1, <2>2
<1>7. CASE at = 6
  <2>1. /\ cpu'.mem[A] = Wrap8(start[A] + 255)
        /\ \/ start[A] # 0 /\ cpu'.mem[A + 1] = start[A + 1]
           \/ start[A] = 0 /\ cpu'.mem[A + 1] = Wrap8(start[A + 1] + 255)
    BY <1>7, DownTooRuns, BytesNow DEF Counted
  <2>2. (Number(cpu.mem, A) = Wrap16(Number(start, A) - 1))'
    BY <1>0, <2>1, CountsDown
  <2> QED
    BY <1>1, <1>7, <2>2, DownTooRuns DEF Counted
<1> HIDE DEF DownTooNote
<1>8. at \in 1..6
  BY DownTooRuns
<1> QED
  BY <1>2, <1>3, <1>4, <1>5, <1>6, <1>7, <1>8

-----------------------------------------------------------------------------
(* Single bits.                                                            *)

LEMMA ExtendRuns ==
  ASSUME AluTypeOK, aluNext, Running, routine = "extend"
  PROVE  /\ at \in 1..7
         /\ at = 1 => ToAc(cpu.mem[A])
         /\ at = 2 => ToMem(R, cpu.ac)
         /\ at = 3 => /\ OnTo(at + 1) /\ SameMem /\ cpu'.iy = cpu.iy /\ SameFlags({"D"})
                      /\ cpu'.ac = And8(cpu.ac, 255) /\ (C' <=> cpu'.ac >= 128)
         /\ at = 4 => ToAc(0)
         /\ at = 5 => Adds(255)
         /\ at = 6 => ToAc(Xor8(cpu.ac, 255))
         /\ at = 7 => ToMem(R + 1, cpu.ac)
BY Codes, InsAt, Modes, Moves, Stored, OfCells, Masked, Computed, Logic DEF Extend

LEMMA ExtendKept ==
  ASSUME AluTypeOK, aluNext, Running, routine = "extend", ExtendNote
  PROVE  ExtendNote'
<1> USE DEF ExtendNote, Kept, C, Z, N, V, D, Carry, testBit, A, B, R, OnTo, Regs, SameRegs,
        SameMem, SameFlags, Keeps, Elsewhere, Shown, NZOf, Sign
<1>1. start' = start
  BY Fixed
<1>2. CASE at = 1
  BY <1>1, <1>2, ExtendRuns DEF ToAc
<1>3. CASE at = 2
  BY <1>1, <1>3, ExtendRuns, BytesNow, BytesThen DEF ToMem, Flags, Small
<1>4. CASE at = 3
  <2>1. And8(cpu.ac, 255) = cpu.ac
    BY AllBits, Bytes
  <2> QED
    BY <1>1, <1>4, ExtendRuns, <2>1, BytesNow, BytesThen DEF Small
<1>5. CASE at = 4
  BY <1>1, <1>5, ExtendRuns DEF ToAc
<1>6. CASE at = 5
  <2>1. Sums(255)
    BY <1>6, ExtendRuns, InBinary
  <2> QED
    BY <1>1, <1>6, <2>1, BytesNow, BytesThen DEF Sums, Small
<1>7. CASE at = 6
  <2>1. Xor8(cpu.ac, 255) = 255 - cpu.ac
    BY AllBits, Bytes
  <2> QED
    BY <1>1, <1>7, ExtendRuns, <2>1, BytesNow, BytesThen DEF ToAc, Small
<1>8. CASE at = 7
  BY <1>1, <1>8, ExtendRuns, BytesNow, BytesThen DEF ToMem, Flags, Small
<1> HIDE DEF ExtendNote
<1>9. at \in 1..7
  BY ExtendRuns
<1> QED
  BY <1>2, <1>3, <1>4, <1>5, <1>6, <1>7, <1>8, <1>9

LEMMA ExtendTooRuns ==
  ASSUME AluTypeOK, aluNext, Running, routine = "extendToo"
  PROVE  /\ at \in 1..5
         /\ at = 1 => ToIy(cpu.mem[A])
         /\ at = 2 => ToMem(R, cpu.iy)
         /\ at = 3 => ToMem(R + 1, 0)
         /\ at = 4 => Jumps(~Is(cpu.mem[A], 7), 6)
         /\ at = 5 => Counted(R + 1, 255)
BY Codes, InsAt, Modes, Moves, Stored, OfCells, Jumped DEF ExtendToo

LEMMA ExtendTooKept ==
  ASSUME AluTypeOK, aluNext, Running, routine = "extendToo", ExtendTooNote
  PROVE  ExtendTooNote'
<1> USE DEF ExtendTooNote, Kept, C, Z, N, V, D, Carry, testBit, A, B, R, OnTo, Regs,
        SameRegs, SameMem, SameFlags, Keeps, Elsewhere, Shown, NZOf, Sign
<1>1. start' = start
  BY Fixed
<1>2. CASE at = 1
  BY <1>1, <1>2, ExtendTooRuns DEF ToIy
<1>3. CASE at = 2
  BY <1>1, <1>3, ExtendTooRuns, BytesNow, BytesThen DEF ToMem, Flags, Small
<1>4. CASE at = 3
  BY <1>1, <1>4, ExtendTooRuns, BytesNow, BytesThen DEF ToMem, Flags, Small
<1>5. CASE at = 4
  <2>1. Is(cpu.mem[A], 7) <=> cpu.mem[A] >= 128
    BY TopBit, Bytes
  <2> QED
    BY <1>1, <1>5, ExtendTooRuns, <2>1, BytesNow, BytesThen DEF Jumps, Small
<1>6. CASE at = 5
  <2>1. /\ cpu.mem[R + 1] = 0 => Wrap8(cpu.mem[R + 1] + 255) = 255
        /\ cpu.mem[R + 1] # 0 => Wrap8(cpu.mem[R + 1] + 255) = cpu.mem[R + 1] - 1
    BY BytesNow, Wrapped
  <2> QED
    BY <1>1, <1>6, ExtendTooRuns, <2>1, BytesNow, BytesThen DEF Counted, Small
<1> HIDE DEF ExtendTooNote
<1>7. at \in 1..5
  BY ExtendTooRuns
<1> QED
  BY <1>2, <1>3, <1>4, <1>5, <1>6, <1>7

LEMMA CopyRuns ==
  ASSUME AluTypeOK, aluNext, Running, routine = "copy"
  PROVE  /\ at \in 1..8
         /\ at = 1 => Merges(R) /\ \A i \in 0..7 : Is(cpu'.mem[R], i) <=> Is(cpu.mem[R], i) \/ i = 7
         /\ at = 2 => /\ OnTo(at + 1) /\ SameRegs /\ SameMem /\ SameFlags({"D", "C"})
                      /\ (N' <=> Is(cpu.mem[A], 7)) /\ (V' <=> Is(cpu.mem[A], 6))
         /\ at = 3 => OnTo(at + 1) /\ SameRegs /\ SameMem /\ SameFlags({"D", "C"}) /\ SameFlags({"N", "V"})
         /\ at = 4 => Jumps(N, 6)
         /\ at = 5 => Merges(R) /\ \A i \in 0..7 : Is(cpu'.mem[R], i) <=> Is(cpu.mem[R], i) /\ i # 7
         /\ at = 6 => Merges(R) /\ \A i \in 0..7 : Is(cpu'.mem[R], i) <=> Is(cpu.mem[R], i) /\ i # 6
         /\ at = 7 => Jumps(~V, 9)
         /\ at = 8 => Merges(R) /\ \A i \in 0..7 : Is(cpu'.mem[R], i) <=> Is(cpu.mem[R], i) \/ i = 6
BY Codes, InsAt, Modes, BitsSet, OfCells, BitsTested, Jumped, SMTT(30) DEF Copy

LEMMA CopyKept ==
  ASSUME AluTypeOK, aluNext, Running, routine = "copy", CopyNote
  PROVE  CopyNote'
<1> USE DEF CopyNote, Kept, C, Z, N, V, D, Carry, testBit, A, B, R, OnTo, Regs, SameRegs,
        SameMem, SameFlags, Keeps, Elsewhere, Shown, NZOf, Below, Copied, Tested
<1>1. start' = start
  BY Fixed
<1>2. CASE at = 1
  BY <1>1, <1>2, CopyRuns, BytesNow, BytesThen DEF Merges, Small
<1>3. CASE at = 2
  BY <1>1, <1>3, CopyRuns
<1>4. CASE at = 3
  BY <1>1, <1>4, CopyRuns
<1>5. CASE at = 4
  BY <1>1, <1>5, CopyRuns, BytesNow, BytesThen DEF Jumps, Small
<1>6. CASE at = 5
  BY <1>1, <1>6, CopyRuns, BytesNow, BytesThen DEF Merges, Small
<1>7. CASE at = 6
  BY <1>1, <1>7, CopyRuns, BytesNow, BytesThen DEF Merges, Small
<1>8. CASE at = 7
  BY <1>1, <1>8, CopyRuns, BytesNow, BytesThen DEF Jumps, Small
<1>9. CASE at = 8
  BY <1>1, <1>9, CopyRuns, BytesNow, BytesThen DEF Merges, Small
<1> HIDE DEF CopyNote
<1>10. at \in 1..8
  BY CopyRuns
<1> QED
  BY <1>2, <1>3, <1>4, <1>5, <1>6, <1>7, <1>8, <1>9, <1>10

LEMMA CopyTooRuns ==
  ASSUME AluTypeOK, aluNext, Running, routine = "copyToo"
  PROVE  /\ at \in 1..9
         /\ at = 1 => Merges(R) /\ \A i \in 0..7 : Is(cpu'.mem[R], i) <=> Is(cpu.mem[R], i) /\ i # 7
         /\ at = 2 => Merges(R) /\ \A i \in 0..7 : Is(cpu'.mem[R], i) <=> Is(cpu.mem[R], i) /\ i # 6
         /\ at = 3 => Jumps(Is(cpu.mem[A], 7), 7)
         /\ at = 4 => /\ OnTo(at + 1) /\ SameRegs /\ SameMem /\ SameFlags({"D", "C"})
                      /\ (N' <=> Is(cpu.mem[A], 7)) /\ (V' <=> Is(cpu.mem[A], 6))
         /\ at = 5 => Jumps(V, 9)
         /\ at = 6 => Jumps(~V, 10)
         /\ at = 7 => Merges(R) /\ \A i \in 0..7 : Is(cpu'.mem[R], i) <=> Is(cpu.mem[R], i) \/ i = 7
         /\ at = 8 => Jumps(~Is(cpu.mem[A], 6), 10)
         /\ at = 9 => Merges(R) /\ \A i \in 0..7 : Is(cpu'.mem[R], i) <=> Is(cpu.mem[R], i) \/ i = 6
BY Codes, InsAt, Modes, BitsSet, OfCells, Jumped, BitsTested, SMTT(30) DEF CopyToo

LEMMA CopyTooKept ==
  ASSUME AluTypeOK, aluNext, Running, routine = "copyToo", CopyTooNote
  PROVE  CopyTooNote'
<1> USE DEF CopyTooNote, Kept, C, Z, N, V, D, Carry, testBit, A, B, R, OnTo, Regs,
        SameRegs, SameMem, SameFlags, Keeps, Elsewhere, Shown, NZOf, Below, Copied
<1>1. start' = start
  BY Fixed
<1>2. CASE at = 1
  BY <1>1, <1>2, CopyTooRuns, BytesNow, BytesThen DEF Merges, Small
<1>3. CASE at = 2
  BY <1>1, <1>3, CopyTooRuns, BytesNow, BytesThen DEF Merges, Small
<1>4. CASE at = 3
  BY <1>1, <1>4, CopyTooRuns, BytesNow, BytesThen DEF Jumps, Small
<1>5. CASE at = 4
  BY <1>1, <1>5, CopyTooRuns
<1>6. CASE at = 5
  BY <1>1, <1>6, CopyTooRuns, BytesNow, BytesThen DEF Jumps, Small
<1>7. CASE at = 6
  BY <1>1, <1>7, CopyTooRuns, BytesNow, BytesThen DEF Jumps, Small
<1>8. CASE at = 7
  BY <1>1, <1>8, CopyTooRuns, BytesNow, BytesThen DEF Merges, Small
<1>9. CASE at = 8
  BY <1>1, <1>9, CopyTooRuns, BytesNow, BytesThen DEF Jumps, Small
<1>10. CASE at = 9
  BY <1>1, <1>10, CopyTooRuns, BytesNow, BytesThen DEF Merges, Small
<1> HIDE DEF CopyTooNote
<1>11. at \in 1..9
  BY CopyTooRuns
<1> QED
  BY <1>2, <1>3, <1>4, <1>5, <1>6, <1>7, <1>8, <1>9, <1>10, <1>11

LEMMA MergeRuns ==
  ASSUME AluTypeOK, aluNext, Running, routine = "merge"
  PROVE  /\ at \in 1..4
         /\ at = 1 => ToAc(cpu.mem[B])
         /\ at = 2 => Merges(R) /\ \A i \in 0..7 : Is(cpu'.mem[R], i) <=> Is(cpu.mem[R], i) /\ ~Is(cpu.ac, i)
         /\ at = 3 => ToAc(And8(cpu.ac, cpu.mem[A]))
         /\ at = 4 => Merges(R) /\ \A i \in 0..7 : Is(cpu'.mem[R], i) <=> Is(cpu.mem[R], i) \/ Is(cpu.ac, i)
BY Codes, InsAt, Modes, Moves, BitsSet, OfCells, Logic DEF Merge

LEMMA MergeKept ==
  ASSUME AluTypeOK, aluNext, Running, routine = "merge", MergeNote
  PROVE  MergeNote'
<1> USE DEF MergeNote, Kept, C, Z, N, V, D, Carry, testBit, A, B, R, OnTo, Regs, SameRegs,
        SameMem, SameFlags, Keeps, Elsewhere, Shown, NZOf
<1>1. start' = start
  BY Fixed
<1>2. CASE at = 1
  BY <1>1, <1>2, MergeRuns DEF ToAc
<1>3. CASE at = 2
  BY <1>1, <1>3, MergeRuns, BytesNow, BytesThen DEF Merges, Small
<1>4. CASE at = 3
  <2>1. cpu.ac \in Byte /\ cpu.mem[A] \in Byte
    BY Bytes
  <2>2. \A i \in 0..7 : Is(And8(cpu.ac, cpu.mem[A]), i) <=> Is(cpu.ac, i) /\ Is(cpu.mem[A], i)
    BY <2>1, Both
  <2> QED
    BY <1>1, <1>4, MergeRuns, <2>1, <2>2, BytesNow, BytesThen DEF ToAc, Small
<1>5. CASE at = 4
  BY <1>1, <1>5, MergeRuns, BytesNow, BytesThen DEF Merges, Small
<1> HIDE DEF MergeNote
<1>6. at \in 1..4
  BY MergeRuns
<1> QED
  BY <1>2, <1>3, <1>4, <1>5, <1>6

-----------------------------------------------------------------------------
(***************************************************************************)
(* The notes hold, of every routine of the library and all its operands.   *)
(***************************************************************************)
LEMMA NotedFirst ==
  ASSUME at = 1, cpu.mem = start, cpu.flags = {}
  PROVE  Noted
<1>1. Kept(1..4) /\ Kept({A, A + 1}) /\ Kept({A}) /\ Kept({A, B}) /\ ~D
  BY DEF Kept, D
<1>2. StraightSumNote /\ StraightDifferenceNote /\ LoopedSumNote /\ BitwiseSumNote /\ ByIncrementNote
  BY <1>1 DEF StraightSumNote, StraightDifferenceNote, LoopedSumNote, BitwiseSumNote, ByIncrementNote
<1>3. ToDecimalNote /\ ProductNote /\ QuotientNote
  BY <1>1 DEF ToDecimalNote, ProductNote, QuotientNote
<1>4. UnsignedLessNote /\ SignedLessNote /\ EqualNote /\ EqualTooNote
  BY <1>1 DEF UnsignedLessNote, SignedLessNote, EqualNote, EqualTooNote
<1>5. DoubleNote /\ HalfNote /\ HalfInANote /\ UpNote /\ DownNote /\ DownTooNote
  BY DEF DoubleNote, HalfNote, HalfInANote, UpNote, DownNote, DownTooNote
<1>6. ExtendNote /\ ExtendTooNote /\ CopyNote /\ CopyTooNote /\ MergeNote
  BY <1>1 DEF ExtendNote, ExtendTooNote, CopyNote, CopyTooNote, MergeNote
<1> QED
  BY <1>2, <1>3, <1>4, <1>5, <1>6 DEF Noted

\* A step that changes nothing.
LEMMA NotedStill ==
  ASSUME UNCHANGED aluVars, Noted
  PROVE  Noted'
<1> USE DEF aluVars, Kept, C, Z, N, V, D, Carry, testBit, Digits, Radix, Number, Routine
<1>1. /\ StraightSumNote => StraightSumNote'
      /\ LoopedSumNote => LoopedSumNote'
      /\ StraightDifferenceNote => StraightDifferenceNote'
  <2>1. StraightSumNote => StraightSumNote'
    BY DEF StraightSumNote, LowSum, WholeSum
  <2>2. LoopedSumNote => LoopedSumNote'
    BY SMTT(30) DEF LoopedSumNote, LowSum, WholeSum
  <2>3. StraightDifferenceNote => StraightDifferenceNote'
    BY DEF StraightDifferenceNote, LowDifference, WholeDifference
  <2> QED
    BY <2>1, <2>2, <2>3
<1>2. /\ BitwiseSumNote => BitwiseSumNote'
      /\ ByIncrementNote => ByIncrementNote'
  BY DEF BitwiseSumNote, ByIncrementNote, LowDifference, WholeDifference
<1>3. ToDecimalNote => ToDecimalNote'
  BY DEF ToDecimalNote, Converted
<1>4. ProductNote => ProductNote'
  BY DEF ProductNote, Multiplied
<1>5. QuotientNote => QuotientNote'
  BY DEF QuotientNote, Divided, Lengthened
<1>6. /\ UnsignedLessNote => UnsignedLessNote'
      /\ SignedLessNote => SignedLessNote'
      /\ EqualNote => EqualNote'
      /\ EqualTooNote => EqualTooNote'
  BY SMTT(30) DEF UnsignedLessNote, SignedLessNote, EqualNote, EqualTooNote, Yes, Signed
<1>7. /\ DoubleNote => DoubleNote'
      /\ HalfNote => HalfNote'
      /\ HalfInANote => HalfInANote'
  BY DEF DoubleNote, HalfNote, HalfInANote
<1>8. /\ UpNote => UpNote'
      /\ DownNote => DownNote'
      /\ DownTooNote => DownTooNote'
  BY DEF UpNote, DownNote, DownTooNote
<1>9. /\ ExtendNote => ExtendNote'
      /\ ExtendTooNote => ExtendTooNote'
      /\ MergeNote => MergeNote'
  BY DEF ExtendNote, ExtendTooNote, MergeNote
<1>10. /\ CopyNote => CopyNote'
       /\ CopyTooNote => CopyTooNote'
  BY DEF CopyNote, CopyTooNote, Below, Copied, Tested
<1>11. routine' = routine
  OBVIOUS
<1> QED
  BY <1>1, <1>2, <1>3, <1>4, <1>5, <1>6, <1>7, <1>8, <1>9, <1>10, <1>11 DEF Noted

LEMMA NotedNext ==
  ASSUME AluTypeOK, aluNext, Running, Given, Noted
  PROVE  Noted'
<1>1. routine' = routine
  BY Fixed
<1>2. /\ routine \in {"binarySum", "decimalSum"} => StraightSumNote'
      /\ routine = "loopedSum" => LoopedSumNote'
      /\ routine = "bitwiseSum" => BitwiseSumNote'
      /\ routine \in {"binaryDifference", "decimalDifference"} => StraightDifferenceNote'
      /\ routine = "byIncrement" => ByIncrementNote'
  BY StraightSumKept, LoopedSumKept, BitwiseSumKept, StraightDifferenceKept, ByIncrementKept DEF Noted
<1>3. /\ routine = "toDecimal" => ToDecimalNote'
      /\ routine = "product" => ProductNote'
      /\ routine = "quotient" => QuotientNote'
  BY ToDecimalKept, ProductKept, QuotientKept DEF Noted
<1>4. /\ routine = "unsignedLess" => UnsignedLessNote'
      /\ routine = "signedLess" => SignedLessNote'
      /\ routine = "equal" => EqualNote'
      /\ routine = "equalToo" => EqualTooNote'
  BY UnsignedLessKept, SignedLessKept, EqualKept, EqualTooKept DEF Noted
<1>5. /\ routine \in {"double", "doubleToo"} => DoubleNote'
      /\ routine \in {"half", "halfToo"} => HalfNote'
      /\ routine = "halfInA" => HalfInANote'
  BY DoubleKept, DoubleTooKept, HalfKept, HalfTooKept, HalfInAKept DEF Noted
<1>6. /\ routine = "up" => UpNote'
      /\ routine = "down" => DownNote'
      /\ routine = "downToo" => DownTooNote'
  BY UpKept, DownKept, DownTooKept DEF Noted
<1>7. /\ routine = "extend" => ExtendNote'
      /\ routine = "extendToo" => ExtendTooNote'
      /\ routine = "copy" => CopyNote'
      /\ routine = "copyToo" => CopyTooNote'
      /\ routine = "merge" => MergeNote'
  BY ExtendKept, ExtendTooKept, CopyKept, CopyTooKept, MergeKept DEF Noted
<1> QED
  BY <1>1, <1>2, <1>3, <1>4, <1>5, <1>6, <1>7 DEF Noted

\* A routine that is not running has halted.
LEMMA NotRunning ==
  ASSUME aluNext, ~Running
  PROVE  UNCHANGED aluVars
<1>1. \A op, s : ~Does(op, s)
  BY DEF Does
<1>2. /\ ~Load /\ ~Store /\ ~Zero /\ ~Transfer /\ ~Count /\ ~FlagOp
      /\ ~And /\ ~Ora /\ ~Eor /\ ~Adc /\ ~Sbc /\ ~Cmp
  BY <1>1 DEF Load, Store, Zero, Transfer, Count, FlagOp, And, Ora, Eor, Adc, Sbc, Cmp
<1>3. /\ ~Inc /\ ~Dec /\ ~Asl /\ ~Lsr /\ ~Rol /\ ~Ror
      /\ ~BitTest /\ ~Trb /\ ~Tsb /\ ~Rmb /\ ~Smb /\ ~Branch /\ ~BitBranch
  BY <1>1 DEF Inc, Dec, Asl, Lsr, Rol, Ror, BitTest, Trb, Tsb, Rmb, Smb, Branch, BitBranch
<1>4. /\ ~Slo /\ ~Rla /\ ~Sre /\ ~Rra /\ ~Dcp /\ ~Isc
      /\ ~Sax /\ ~Lax /\ ~Anc /\ ~Alr /\ ~Arr /\ ~Sbx
  BY <1>1 DEF Slo, Rla, Sre, Rra, Dcp, Isc, Sax, Lax, Anc, Alr, Arr, Sbx
<1> QED
  BY <1>2, <1>3, <1>4 DEF aluNext, Halted

\* Before each instruction of a routine, and after the last, its note holds:
\* what vrEmu6502.c left in the registers, the flags and the memory is what the
\* rest of the routine counts on.
THEOREM RoutinesAsNoted == aluSpec => [](Given /\ Noted)
<1>1. aluInit => Given /\ Noted
  BY NotedFirst DEF aluInit, Given
<1>2. AluTypeOK /\ (Given /\ Noted) /\ [aluNext]_aluVars => (Given /\ Noted)'
  <2>1. ASSUME AluTypeOK, Given, Noted, [aluNext]_aluVars
        PROVE  (Given /\ Noted)'
    <3>1. CASE UNCHANGED aluVars
      BY <2>1, <3>1, NotedStill DEF Given, aluVars, Routine
    <3>2. CASE aluNext /\ ~Running
      BY <2>1, <3>2, NotRunning, NotedStill DEF Given, aluVars, Routine
    <3>3. CASE aluNext /\ Running
      BY <2>1, <3>3, NotedNext, Fixed DEF Given
    <3> QED
      BY <2>1, <3>1, <3>2, <3>3
  <2> QED
    BY <2>1
<1> QED
  BY <1>1, <1>2, AluTypeCorrect, PTL DEF aluSpec

-----------------------------------------------------------------------------
(***************************************************************************)
(* What the notes say at the end, which is what the tasks ask for.         *)
(***************************************************************************)
LEMMA Tasks ==
  ASSUME AluTypeOK
  PROVE  /\ Routine.task = "sum" => routine \in {"binarySum", "decimalSum", "loopedSum", "bitwiseSum"}
         /\ Routine.task = "difference" =>
              routine \in {"binaryDifference", "decimalDifference", "byIncrement"}
         /\ Routine.task = "toDecimal" => routine = "toDecimal"
         /\ Routine.task = "product" => routine = "product"
         /\ Routine.task = "quotient" => routine = "quotient"
         /\ Routine.task = "unsignedLess" => routine = "unsignedLess"
         /\ Routine.task = "signedLess" => routine = "signedLess"
         /\ Routine.task = "equal" => routine \in {"equal", "equalToo"}
         /\ Routine.task = "double" => routine \in {"double", "doubleToo"}
         /\ Routine.task = "half" => routine \in {"half", "halfToo", "halfInA"}
         /\ Routine.task = "up" => routine = "up"
         /\ Routine.task = "down" => routine \in {"down", "downToo"}
         /\ Routine.task = "extend" => routine \in {"extend", "extendToo"}
         /\ Routine.task = "copy" => routine \in {"copy", "copyToo"}
         /\ Routine.task = "merge" => routine = "merge"
BY Known DEF Library, Task

\* How long the routines are, and so where one ends.
LEMMA Lengths ==
  /\ \A r \in {"binarySum", "decimalSum", "binaryDifference", "decimalDifference"} :
       Len(Library[r].code) = 8
  /\ Len(Library["loopedSum"].code) = 8 /\ Len(Library["bitwiseSum"].code) = 11
  /\ Len(Library["byIncrement"].code) = 9 /\ Len(Library["toDecimal"].code) = 12
  /\ Len(Library["product"].code) = 11 /\ Len(Library["quotient"].code) = 10
  /\ Len(Library["unsignedLess"].code) = 7 /\ Len(Library["signedLess"].code) = 11
  /\ Len(Library["equal"].code) = 9 /\ Len(Library["equalToo"].code) = 10
  /\ \A r \in {"double", "doubleToo", "half", "halfToo"} : Len(Library[r].code) = 2
  /\ Len(Library["halfInA"].code) = 6 /\ Len(Library["up"].code) = 3
  /\ Len(Library["down"].code) = 5 /\ Len(Library["downToo"].code) = 6
  /\ Len(Library["extend"].code) = 7 /\ Len(Library["extendToo"].code) = 5
  /\ Len(Library["copy"].code) = 8 /\ Len(Library["copyToo"].code) = 9
  /\ Len(Library["merge"].code) = 4
<1>1. /\ Len(Straight("CLD", "CLC", "ADC")) = 8 /\ Len(Straight("SED", "CLC", "ADC")) = 8
      /\ Len(Straight("CLD", "SEC", "SBC")) = 8 /\ Len(Straight("SED", "SEC", "SBC")) = 8
  BY DEF Straight
<1>2. /\ Len(LoopedSum) = 8 /\ Len(BitwiseSum) = 11 /\ Len(ByIncrement) = 9
      /\ Len(ToDecimal) = 12 /\ Len(Product) = 11 /\ Len(Quotient) = 10
  BY DEF LoopedSum, BitwiseSum, ByIncrement, ToDecimal, Product, Quotient
<1>3. /\ Len(UnsignedLess) = 7 /\ Len(SignedLess) = 11 /\ Len(Equal) = 9 /\ Len(EqualToo) = 10
  BY DEF UnsignedLess, SignedLess, Equal, EqualToo
<1>4. /\ Len(Double) = 2 /\ Len(DoubleToo) = 2 /\ Len(Half) = 2 /\ Len(HalfToo) = 2 /\ Len(HalfInA) = 6
      /\ Len(Up) = 3 /\ Len(Down) = 5 /\ Len(DownToo) = 6
  BY DEF Double, DoubleToo, Half, HalfToo, HalfInA, Up, Down, DownToo
<1>5. /\ Len(Extend) = 7 /\ Len(ExtendToo) = 5 /\ Len(Copy) = 8 /\ Len(CopyToo) = 9 /\ Len(Merge) = 4
  BY DEF Extend, ExtendToo, Copy, CopyToo, Merge
<1> QED
  BY <1>1, <1>2, <1>3, <1>4, <1>5, Codes

LEMMA AtEnd ==
  ASSUME AluTypeOK, ~Running
  PROVE  /\ routine \in {"binarySum", "decimalSum", "binaryDifference", "decimalDifference"} => at = 9
         /\ (routine = "loopedSum" => at = 9) /\ (routine = "bitwiseSum" => at = 12)
         /\ (routine = "byIncrement" => at = 10) /\ (routine = "toDecimal" => at = 13)
         /\ (routine = "product" => at = 12) /\ (routine = "quotient" => at = 11)
         /\ (routine = "unsignedLess" => at = 8) /\ (routine = "signedLess" => at = 12)
         /\ (routine = "equal" => at = 10) /\ (routine = "equalToo" => at = 11)
         /\ routine \in {"double", "doubleToo", "half", "halfToo"} => at = 3
         /\ (routine = "halfInA" => at = 7) /\ (routine = "up" => at = 4)
         /\ (routine = "down" => at = 6) /\ (routine = "downToo" => at = 7)
         /\ (routine = "extend" => at = 8) /\ (routine = "extendToo" => at = 6)
         /\ (routine = "copy" => at = 9) /\ (routine = "copyToo" => at = 10)
         /\ routine = "merge" => at = 5
<1>1. PICK n : n = Len(Library[routine].code)
  OBVIOUS
<1>2. at = n + 1
  <2>1. Len(Routine.code) \in Nat
    BY RoutinesAssumption DEF AluTypeOK, Routine
  <2> QED
    BY <1>1, <2>1, Known DEF Running
<1>3. /\ routine \in {"binarySum", "decimalSum", "binaryDifference", "decimalDifference"} => n = 8
      /\ (routine = "loopedSum" => n = 8) /\ (routine = "bitwiseSum" => n = 11)
      /\ (routine = "byIncrement" => n = 9) /\ (routine = "toDecimal" => n = 12)
      /\ (routine = "product" => n = 11) /\ (routine = "quotient" => n = 10)
  BY <1>1, Lengths
<1>4. /\ (routine = "unsignedLess" => n = 7) /\ (routine = "signedLess" => n = 11)
      /\ (routine = "equal" => n = 9) /\ (routine = "equalToo" => n = 10)
      /\ routine \in {"double", "doubleToo", "half", "halfToo"} => n = 2
      /\ (routine = "halfInA" => n = 6) /\ (routine = "up" => n = 3)
  BY <1>1, Lengths
<1>5. /\ (routine = "down" => n = 5) /\ (routine = "downToo" => n = 6)
      /\ (routine = "extend" => n = 7) /\ (routine = "extendToo" => n = 5)
      /\ (routine = "copy" => n = 8) /\ (routine = "copyToo" => n = 9)
      /\ routine = "merge" => n = 4
  BY <1>1, Lengths
<1> QED
  BY <1>2, <1>3, <1>4, <1>5

\* The radix of a routine, its square and what its digits are.
LEMMA InItsRadix ==
  ASSUME AluTypeOK
  PROVE  /\ Radix^2 = Radix * Radix
         /\ Radix = 100 \/ Radix = 256
         /\ ~Routine.decimal => Radix = 256 /\ \A n : Digits(n) = n
         /\ Routine.decimal => Radix = 100 /\ \A n : Digits(n) = Decimal(n)
         /\ Carry \in {0, 1}
         /\ \A c \in 1..6 : /\ cpu.mem[c] \in Int /\ Digits(cpu.mem[c]) \in Int
                            /\ start[c] \in Int /\ Digits(start[c]) \in Int
<1>1. 100^2 = 100 * 100 /\ 256^2 = 256 * 256
  OBVIOUS
<1>2. ~Routine.decimal => Radix = 256 /\ \A n : Digits(n) = n
  BY DEF Radix, Digits
<1>3. Routine.decimal => Radix = 100 /\ \A n : Digits(n) = Decimal(n)
  BY DEF Radix, Digits, Decimal
<1>4. \A c \in 1..6 : Small(cpu.mem[c]) /\ Small(start[c])
  BY Bytes, SmallByte
<1>5. \A n : Small(n) => n \in Int /\ Digits(n) \in Int
  BY <1>2, <1>3, DecimalIs DEF Small
<1>6. Radix = 100 \/ Radix = 256
  BY DEF Radix
<1>7. Radix^2 = Radix * Radix
  BY <1>1, <1>6
<1> QED
  BY <1>2, <1>3, <1>4, <1>5, <1>6, <1>7, Bytes

LEMMA WholeSumAtEnd ==
  ASSUME AluTypeOK, WholeSum(cpu.mem[R + 1])
  PROVE  Number(cpu.mem, R) + Radix^2 * Carry = Number(start, A) + Number(start, B)
<1>1. PICK s : s = Number(start, A) + Number(start, B)
  OBVIOUS
<1>2. PICK r \in Int, k \in Int, l \in Int, c \in {0, 1} :
        r = Radix /\ k = Digits(cpu.mem[R]) /\ l = Digits(cpu.mem[R + 1]) /\ c = Carry
  BY InItsRadix DEF R
<1>3. k + r * (l + r * c) = s
  BY <1>1, <1>2 DEF WholeSum
<1>4. (k + r * l) + (r * r) * c = s
  <2>1. CASE r = 100
    BY <1>2, <1>3, <2>1
  <2>2. CASE r = 256
    BY <1>2, <1>3, <2>2
  <2> QED
    BY <1>2, <2>1, <2>2, InItsRadix
<1> QED
  BY <1>1, <1>2, <1>4, InItsRadix DEF Number

LEMMA WholeDifferenceAtEnd ==
  ASSUME AluTypeOK, WholeDifference(cpu.mem[R + 1])
  PROVE  Number(cpu.mem, R) - Radix^2 * (1 - Carry) = Number(start, A) - Number(start, B)
<1>1. PICK s : s = Number(start, A) - Number(start, B)
  OBVIOUS
<1>2. PICK r \in Int, k \in Int, l \in Int, c \in {0, 1} :
        r = Radix /\ k = Digits(cpu.mem[R]) /\ l = Digits(cpu.mem[R + 1]) /\ c = Carry
  BY InItsRadix DEF R
<1>3. k + r * (l - r * (1 - c)) = s
  BY <1>1, <1>2 DEF WholeDifference
<1>4. (k + r * l) - (r * r) * (1 - c) = s
  <2>1. CASE r = 100
    BY <1>2, <1>3, <2>1
  <2>2. CASE r = 256
    BY <1>2, <1>3, <2>2
  <2> QED
    BY <1>2, <2>1, <2>2, InItsRadix
<1> QED
  BY <1>1, <1>2, <1>4, InItsRadix DEF Number

LEMMA BitwiseSumAtEnd ==
  ASSUME AluTypeOK, Given, Noted, ~Running, routine = "bitwiseSum"
  PROVE  Number(cpu.mem, R) + Radix^2 * Carry = Number(start, A) + Number(start, B)
<1>1. /\ cpu.mem[R] + 256 * cpu.mem[R + 1] = start[A] + start[B]
      /\ Carry = 0 /\ start[A + 1] = 0 /\ start[B + 1] = 0
  BY AtEnd, Valid DEF Noted, BitwiseSumNote, Admits, Carry, testBit, C
<1>2. Radix = 256 /\ \A n : Digits(n) = n
  BY Decimals, InItsRadix
<1>3. PICK k \in Int, l \in Int, a \in Int, b \in Int :
        k = cpu.mem[R] /\ l = cpu.mem[R + 1] /\ a = start[A] /\ b = start[B]
  <2>1. cpu.mem[R] \in Int /\ cpu.mem[R + 1] \in Int /\ start[A] \in Int /\ start[B] \in Int
    BY InItsRadix DEF R, A, B
  <2> QED
    BY <2>1, Zenon
<1>4. k + 256 * l = a + b
  BY <1>1, <1>3
<1>5. (k + 256 * l) + 256^2 * 0 = (a + 256 * 0) + (b + 256 * 0)
  BY <1>4
<1> QED
  BY <1>1, <1>2, <1>3, <1>5 DEF Number

LEMMA DecimalAtEnd ==
  ASSUME AluTypeOK, Noted, ~Running, routine = "toDecimal"
  PROVE  Number(cpu.mem, R) = start[A]
<1>1. Converted(cpu.mem[R], cpu.mem[R + 1], 8) /\ cpu.mem[R + 1] <= 2
  BY AtEnd DEF Noted, ToDecimalNote
<1>2. Radix = 100 /\ \A n : Digits(n) = Decimal(n)
  BY Decimals, InItsRadix
<1>3. /\ cpu.mem[A] \in Int /\ 0 <= cpu.mem[A] /\ cpu.mem[A] <= 255
      /\ cpu.mem[R + 1] \in 0..2 /\ start[A] \in Int /\ Decimal(cpu.mem[R]) \in Int
  BY <1>1, <1>2, Bytes, SmallByte, InItsRadix DEF A, R, Small
<1>4. 256 * (Decimal(cpu.mem[R]) + 100 * cpu.mem[R + 1]) + cpu.mem[A] = start[A] * 256
  BY <1>1, <1>2, Powers DEF Converted
<1>5. PICK u \in Int, h \in 0..2, m \in Int, a \in Int :
        u = Decimal(cpu.mem[R]) /\ h = cpu.mem[R + 1] /\ m = cpu.mem[A] /\ a = start[A]
  BY <1>3, Zenon
<1>6. 0 <= m /\ m <= 255 /\ 256 * (u + 100 * h) + m = a * 256
  BY <1>3, <1>4, <1>5
<1>7. u + 100 * h = a
  BY <1>6
<1>8. Decimal(h) = h
  BY <1>5 DEF Decimal, Hi, Lo
<1> QED
  BY <1>2, <1>5, <1>7, <1>8 DEF Number

LEMMA SumsAtEnd ==
  ASSUME AluTypeOK, Given, Noted, ~Running
  PROVE  SumsRight
<1>1. routine \in {"binarySum", "decimalSum", "loopedSum"} => WholeSum(cpu.mem[R + 1])
  BY AtEnd DEF Noted, StraightSumNote, LoopedSumNote
<1>2. routine = "product" => Number(cpu.mem, A) = start[A] * start[B]
  BY AtEnd DEF Noted, ProductNote
<1> QED
  BY <1>1, <1>2, Tasks, WholeSumAtEnd, BitwiseSumAtEnd, DecimalAtEnd DEF SumsRight, Finished

LEMMA QuotientAtEnd ==
  ASSUME AluTypeOK, Given, Noted, ~Running, routine = "quotient"
  PROVE  cpu.mem[A] = start[A] \div start[B] /\ cpu.ac = start[A] % start[B]
<1>1. cpu.ac < start[B] /\ Divided(256 * Carry + cpu.mem[A], cpu.ac, 8)
  BY AtEnd DEF Noted, QuotientNote
<1>2. DividedOf(start[A], start[B], 256 * Carry + cpu.mem[A], cpu.ac, 8)
  BY <1>1 DEF Divided, DividedOf
<1>3. start[B] \in 1..128
  BY Valid DEF Admits
<1>4. /\ start[A] \in Int /\ start[B] \in Int /\ cpu.mem[A] \in 0..255 /\ Carry \in {0, 1}
      /\ cpu.ac \in Int /\ start[B] > 0 /\ 0 <= cpu.ac /\ cpu.ac < start[B]
      /\ DividedOf(start[A], start[B], 256 * Carry + cpu.mem[A], cpu.ac, 8)
  BY <1>1, <1>2, <1>3, Bytes, SmallByte DEF A, B, Small
<1>5. PICK a \in Int, b \in Int, m \in 0..255, c \in {0, 1}, r \in Int :
        a = start[A] /\ b = start[B] /\ m = cpu.mem[A] /\ c = Carry /\ r = cpu.ac
  BY <1>4, Zenon
<1>6. b > 0 /\ 0 <= r /\ r < b /\ DividedOf(a, b, 256 * c + m, r, 8)
  BY <1>4, <1>5, Zenon
<1>7. m = a \div b /\ r = a % b
  BY <1>6, DividedWhole, ZenonT(30)
<1> QED
  BY <1>5, <1>7

LEMMA DifferencesAtEnd ==
  ASSUME AluTypeOK, Given, Noted, ~Running
  PROVE  DifferencesRight
<1>1. routine \in {"binaryDifference", "decimalDifference", "byIncrement"} =>
        WholeDifference(cpu.mem[R + 1])
  BY AtEnd DEF Noted, StraightDifferenceNote, ByIncrementNote
<1>2. /\ routine = "unsignedLess" => (Yes <=> Number(start, A) < Number(start, B))
      /\ routine = "signedLess" => (Yes <=> Signed(start, A) < Signed(start, B))
      /\ routine \in {"equal", "equalToo"} => (Yes <=> Number(start, A) = Number(start, B))
  BY AtEnd DEF Noted, UnsignedLessNote, SignedLessNote, EqualNote, EqualTooNote
<1> QED
  BY <1>1, <1>2, Tasks, WholeDifferenceAtEnd, QuotientAtEnd DEF DifferencesRight, Finished

LEMMA ExtendedAtEnd ==
  ASSUME AluTypeOK, Noted, ~Running, routine \in {"extend", "extendToo"}
  PROVE  Signed(cpu.mem, R) = Int8(start[A])
<1>1. cpu.mem[R] = start[A] /\ cpu.mem[R + 1] = Sign(start[A])
  BY AtEnd DEF Noted, ExtendNote, ExtendTooNote
<1>2. PICK a \in Int : a = start[A] /\ 0 <= a /\ a <= 255
  BY Bytes, SmallByte DEF A, Small
<1>3. Int16(a + 256 * Sign(a)) = Int8(a)
  BY <1>2 DEF Int16, Negative, Sign, Int8, Wrap8
<1> QED
  BY <1>1, <1>2, <1>3 DEF Signed

LEMMA TwoValues ==
  ASSUME NEW n \in Byte, NEW i \in 0..7
  PROVE  Bit(n, i) \in {0, 1}
<1>1. CASE i \in 0..3
  BY <1>1, ByteBits
<1>2. CASE i \notin 0..3
  <2>1. PICK j \in 0..3 : i = j + 4
    BY <1>2
  <2> QED
    BY <2>1, ByteBits
<1> QED
  BY <1>1, <1>2

LEMMA MergedAtEnd ==
  ASSUME AluTypeOK, Noted, ~Running, routine = "merge", NEW i \in 0..7
  PROVE  Bit(cpu.mem[R], i) = Bit(start[IF Bit(start[B], i) = 1 THEN A ELSE R], i)
<1>1. Is(cpu.mem[R], i) <=> IF Is(start[B], i) THEN Is(start[A], i) ELSE Is(start[R], i)
  BY AtEnd DEF Noted, MergeNote
<1>2. Bit(cpu.mem[R], i) \in {0, 1} /\ Bit(start[A], i) \in {0, 1} /\ Bit(start[R], i) \in {0, 1}
  BY Bytes, TwoValues DEF A, R
<1> QED
  BY <1>1, <1>2 DEF Is

LEMMA CopiedAtEnd ==
  ASSUME AluTypeOK, Noted, ~Running, routine \in {"copy", "copyToo"}, NEW i \in 0..7
  PROVE  Bit(cpu.mem[R], i) = Bit(start[IF i >= 6 THEN A ELSE R], i)
<1>1. Below(6) /\ Copied(6) /\ Copied(7)
  BY AtEnd DEF Noted, CopyNote, CopyTooNote
<1>2. Is(cpu.mem[R], i) <=> IF i >= 6 THEN Is(start[A], i) ELSE Is(start[R], i)
  BY <1>1 DEF Below, Copied
<1>3. Bit(cpu.mem[R], i) \in {0, 1} /\ Bit(start[A], i) \in {0, 1} /\ Bit(start[R], i) \in {0, 1}
  BY Bytes, TwoValues DEF A, R
<1> QED
  BY <1>2, <1>3 DEF Is

LEMMA BitsAtEnd ==
  ASSUME AluTypeOK, Noted, ~Running
  PROVE  BitsRight
<1>1. /\ routine \in {"double", "doubleToo"} =>
           Number(cpu.mem, A) + 65536 * Carry = 2 * Number(start, A)
      /\ routine \in {"half", "halfToo", "halfInA"} => Number(cpu.mem, A) = Number(start, A) \div 2
  BY AtEnd DEF Noted, DoubleNote, HalfNote, HalfInANote
<1>2. /\ routine = "up" => Number(cpu.mem, A) = Wrap16(Number(start, A) + 1)
      /\ routine \in {"down", "downToo"} => Number(cpu.mem, A) = Wrap16(Number(start, A) - 1)
  BY AtEnd DEF Noted, UpNote, DownNote, DownTooNote
<1> QED
  BY <1>1, <1>2, Tasks, ExtendedAtEnd, MergedAtEnd, CopiedAtEnd DEF BitsRight, Finished

-----------------------------------------------------------------------------
\* A sum of two-byte numbers, binary or of valid decimal digits, straight or in
\* a loop, is right with its carry, whatever the operands and the model; so are a
\* number converted to decimal and a product: adc, asl, lsr, rol and ror
\* leave what the next instruction of vrEmu6502.c counts on.
THEOREM RoutineSums == aluSpec => []SumsRight
<1>1. AluTypeOK /\ (Given /\ Noted) => SumsRight
  <2>1. Running => SumsRight
    BY DEF SumsRight, Finished
  <2> QED
    BY <2>1, SumsAtEnd
<1> QED
  BY <1>1, AluTypeCorrect, RoutinesAsNoted, PTL

\* A difference of two-byte numbers, binary or decimal, is right with its borrow,
\* whatever the operands and the model; comparisons leave the order of numbers with
\* and without a sign in C, N, V and Z; a quotient comes with its remainder.
THEOREM RoutineDifferences == aluSpec => []DifferencesRight
<1>1. AluTypeOK /\ (Given /\ Noted) => DifferencesRight
  <2>1. Running => DifferencesRight
    BY DEF DifferencesRight, Finished
  <2> QED
    BY <2>1, DifferencesAtEnd
<1> QED
  BY <1>1, AluTypeCorrect, RoutinesAsNoted, PTL

\* Shifts and counts over two bytes, an extended sign, copied and merged bits are
\* right for all operands: the bit that leaves a byte enters the next one, and a
\* bit that an instruction does not mean stays.
THEOREM RoutineBits == aluSpec => []BitsRight
<1>1. AluTypeOK /\ (Given /\ Noted) => BitsRight
  <2>1. Running => BitsRight
    BY DEF BitsRight, Finished
  <2> QED
    BY <2>1, BitsAtEnd
<1> QED
  BY <1>1, AluTypeCorrect, RoutinesAsNoted, PTL
=============================================================================
