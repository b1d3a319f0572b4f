------------------------------ MODULE Listing ------------------------------
(***************************************************************************)
(* How dis.c and disassemble.c list the range [lo, hi]: printAnalyzed,     *)
(* from what an analysis has marked, and the flat sweep of DisRange.  Each *)
(* action is one iteration of a loop.                                      *)
(*                                                                         *)
(* The listing is the history variable lines: one record for each line     *)
(* that stands for bytes or names an address.                              *)
(***************************************************************************)
EXTENDS Analyze

VARIABLES
  phase,     \* how far main has come
  addr,      \* printAnalyzed's addr (32 bits wide), DisRange's pc
  consumed,  \* DisRange's count of bytes
  lines

listing == <<addr, consumed, lines>>

\* Lines of the listing: an instruction, a run of data, the header of the entry
\* point or of another function, a label, and the note on an overlapping start.
CodeLine(a)        == [kind |-> "code", first |-> a, last |-> a + LenAt(a) - 1]
DataLine(from, to) == [kind |-> "data", first |-> from, last |-> to]
NoteLine(a)        == [kind |-> "note", first |-> a]
EntryLine(a)       == [kind |-> "entry", first |-> a]
SubLine(a, n)      == [kind |-> "sub", first |-> a, callers |-> n]
LocLine(a)         == [kind |-> "loc", first |-> a]

(***************************************************************************)
(* printAnalyzed.                                                          *)
(***************************************************************************)
\* The first address from a on, up to hi + 1, where an instruction starts.
NextStart(a) ==
  LET starts == {s \in instr : a <= s}
  IN  CHOOSE s \in starts \cup {hi + 1} : \A t \in starts : s <= t

PrintData ==
  /\ phase = "printing" /\ addr <= hi
  /\ addr \notin instr
  /\ LET next == NextStart(addr)
     IN  addr' = next /\ lines' = Append(lines, DataLine(addr, next - 1))
  /\ UNCHANGED <<vars, phase, consumed>>

\* Mutants: functions not counted; labels not printed.
HeaderUncounted(a) ==
  IF a = lo /\ a \in func THEN <<EntryLine(a)>>
  ELSE IF a \in func THEN <<SubLine(a, 0)>>
  ELSE IF a \in label THEN <<LocLine(a)>>
  ELSE <<>>

HeaderFunctionsOnly(a) ==
  IF a = lo /\ a \in func THEN <<EntryLine(a)>>
  ELSE IF a \in func THEN <<SubLine(a, callers[a])>> ELSE <<>>

\* The entry point is announced as such, whatever its callers.
Header(a) ==
  IF a = lo /\ a \in func THEN <<EntryLine(a)>>
  ELSE IF a \in func THEN <<SubLine(a, callers[a])>>
  ELSE IF a \in label THEN <<LocLine(a)>>
  ELSE <<>>

\* The lookup is by 16-bit address, the note prints the sum.
Note(a, i) == IF i < LenAt(a) /\ Wrap16(a + i) \in instr THEN <<NoteLine(a + i)>> ELSE <<>>

\* Mutant: no notes.
NotesNone(a) == <<>>

\* No instruction is longer than three bytes.
Notes(a) == Note(a, 1) \o Note(a, 2)

\* Mutant: the walk goes on at the next instruction start.
PrintInstructionNearest ==
  /\ phase = "printing" /\ addr <= hi
  /\ addr \in instr
  /\ lines' = lines \o Header(addr) \o <<CodeLine(addr)>> \o Notes(addr)
  /\ addr' = NextStart(addr + 1)
  /\ UNCHANGED <<vars, phase, consumed>>

PrintInstruction ==
  /\ phase = "printing" /\ addr <= hi
  /\ addr \in instr
  /\ lines' = lines \o Header(addr) \o <<CodeLine(addr)>> \o Notes(addr)
  /\ addr' = addr + LenAt(addr)
  /\ UNCHANGED <<vars, phase, consumed>>

PrintReturns ==
  /\ phase = "printing" /\ addr > hi
  /\ phase' = "done"
  /\ UNCHANGED <<vars, listing>>

(***************************************************************************)
(* DisRange(lo, hi - lo + 1): one action per iteration.                    *)
(***************************************************************************)
\* Mutant: one byte less.
SweepLengthShort == Wrap16(hi - lo)

SweepLength == Wrap16(hi - lo + 1)

\* There is nothing to list in an empty range, or without a CPU.
StartSweep ==
  /\ phase' = IF cpu = NoCpu \/ SweepLength = 0 THEN "done" ELSE "sweeping"
  /\ UNCHANGED <<vars, listing>>

\* Mutant: the sweep restarts at 0 after a wrap.
EmitWraps ==
  /\ phase = "sweeping"
  /\ lines' = Append(lines, CodeLine(addr))
  /\ consumed' = consumed + LenAt(addr)
  /\ addr' = DisOne(cpu, mem, addr)
  /\ phase' = IF consumed' >= SweepLength THEN "done" ELSE "sweeping"
  /\ UNCHANGED vars

Emit ==
  /\ phase = "sweeping"
  /\ lines' = Append(lines, CodeLine(addr))
  /\ consumed' = consumed + LenAt(addr)
  /\ addr' = DisOne(cpu, mem, addr)
  /\ phase' = IF addr' < addr \/ consumed' >= SweepLength THEN "done" ELSE "sweeping"
  /\ UNCHANGED vars

-----------------------------------------------------------------------------
\* What there is to print.
Line == [kind : {"code", "data"}, first : Nat, last : Nat]
        \cup [kind : {"note", "entry", "loc"}, first : Nat]
        \cup [kind : {"sub"}, first : Nat, callers : 0..CallerMax]

Printed(kinds) == {l \in Members(lines) : l.kind \in kinds}

\* The places of the lines that stand for bytes.
Spans == {i \in DOMAIN lines : lines[i].kind \in {"code", "data"}}

Analysed == phase = "done" /\ Settled /\ entries # {}

\* The range is swept, not analysed, and DisInit has got no memory for its CPU.
Blind == cpu = NoCpu /\ entries = {}

listing_TypeOK ==
  /\ TypeOK
  /\ addr \in Nat /\ consumed \in Nat
  /\ lines \in Seq(Line)

\* printAnalyzed: "Walks the range in address order".  Every listing, analysed
\* or flat, starts at lo, and each line that stands for bytes begins where the
\* one before it ended: nothing is shown twice, nothing between is skipped.
\* DisRange: "len bounds where instructions may start": none starts beyond hi
\* or, in a range that wraps, below lo.
InOrder ==
  \A i \in Spans :
    LET before == {j \in Spans : j < i}
    IN  /\ IF before = {} THEN lines[i].first = lo
           ELSE \E j \in before : /\ \A k \in before : k <= j
                                  /\ lines[i].first = lines[j].last + 1
        /\ lines[i].first <= lines[i].last
        /\ lines[i].first \in Addr
        /\ lo <= hi => lines[i].first <= hi

\* A listing that has ended has shown the range to its last byte, unless the
\* flat sweep was asked for a range that wraps past $ffff: "Ranges wrapping
\* past $FFFF stop at the wrap", and then it has reached the top.  When the
\* malloc of DisInit has failed the walk of an analysis still comes to the end,
\* with data alone, but a flat sweep shows no line at all.
ShownToTheEnd ==
  phase = "done" /\ SweepLength # 0 =>
    IF Blind THEN lines = <<>>
    ELSE \E i \in Spans : lines[i].last >= IF lo <= hi THEN hi ELSE AddrSpace - 1

\* The comment in printAnalyzed: a start that the walk steps over is called
\* out "rather than silently dropping it".  Every instruction AnalyzeRun has
\* marked is printed or noted, and nothing that was not marked is: no note
\* names an address past $ffff, although the sum in it does not wrap.
EveryStartShown ==
  Analysed => instr = {l.first : l \in Printed({"code", "note"})}

\* From the entry point to the page: a reader who follows a call, jump or
\* branch printed in the listing to a target in the range that was not lost
\* to the allocator finds a header there, or the note that an instruction
\* starts there.
TargetsShown ==
  Analysed =>
    \A s \in instr :
      HasTarget(s) /\ inRange(TargetAt(s)) /\ TargetAt(s) \in queued =>
        \E l \in Printed({"entry", "sub", "loc", "note"}) : l.first = TargetAt(s)

\* README: "Function entries come from JSR targets, so they carry a caller
\* count".  The count printed is that of the JSR instructions in the program
\* that control reaches, and each function but the entry point has one.
CallerCounts ==
  Analysed =>
    \A l \in Printed({"sub"}) :
      LET n == Cardinality(Sites(l.first, {"Call"}))
      IN  n > 0 /\ l.callers = IF n > CallerMax THEN CallerMax ELSE n

-----------------------------------------------------------------------------
\* What the sources say, and the program does not do.

\* analyze.h: the traversal "marks every byte it reaches. Whatever is never
\* reached is data."  A byte of an instruction that is marked is no data.
DataIsUnreached ==
  \A d \in Printed({"data"}) : \A s \in instr :
    {s + i : i \in 0..(LenAt(s) - 1)} \cap (d.first..d.last) = {}
=============================================================================
