----------------------------- MODULE DisProofs -----------------------------
(***************************************************************************)
(* Theorems about main of dis.c: what every listing shows, for every       *)
(* command, every file the readers accept, every opcode table and whatever *)
(* the allocator answers.  First what one turn of a loop of Listing adds   *)
(* to the page and keeps of all that is said of it, then which turn main   *)
(* takes.                                                                  *)
(***************************************************************************)
EXTENDS Dis, AnalyzeProofs, SequenceTheorems, WellFoundedInduction

-----------------------------------------------------------------------------
(* Numbers.                                                                *)

LEMMA LeastExists ==
  ASSUME NEW S \in SUBSET Nat, S # {}
  PROVE  \E n \in S : \A m \in S : n <= m
<1> DEFINE R == OpToRel(<, Nat)
<1>1. \A x, y \in Nat : <<x, y>> \in R <=> x < y
  BY DEF OpToRel
<1>2. IsWellFoundedOn(R, Nat)
  BY NatLessThanWellFounded
<1> HIDE DEF R
<1>3. PICK n \in S : \A m \in S : <<m, n>> \notin R
  BY <1>2, WFMin
<1>4. \A m \in S : ~(m < n)
  BY <1>1, <1>3
<1> QED
  BY <1>4

\* NextStart finds the first start from a on, or stops past the range.
LEMMA NextStartFacts ==
  ASSUME TypeOK, NEW a \in Nat, a <= hi
  PROVE  /\ NextStart(a) \in Nat /\ a <= NextStart(a) /\ NextStart(a) <= hi + 1
         /\ NextStart(a) \in instr \cup {hi + 1}
         /\ \A t \in instr : a <= t => NextStart(a) <= t
<1> DEFINE starts == {s \in instr : a <= s}
<1>1. hi \in Nat /\ instr \subseteq lo..hi /\ lo \in Nat
  BY NodeFacts DEF TypeOK, Addr
<1>2. starts \cup {hi + 1} \in SUBSET Nat
  <2>1. instr \subseteq Nat /\ hi + 1 \in Nat
    BY <1>1
  <2> QED
    BY <2>1
<1>3. PICK n \in starts \cup {hi + 1} : \A m \in starts \cup {hi + 1} : n <= m
  BY <1>2, LeastExists
<1>4. \E s \in starts \cup {hi + 1} : \A t \in starts : s <= t
  BY <1>3
<1> DEFINE next == CHOOSE s \in starts \cup {hi + 1} : \A t \in starts : s <= t
<1>5. next \in starts \cup {hi + 1} /\ \A t \in starts : next <= t
  BY <1>4
<1>6. NextStart(a) = next
  BY DEF NextStart
<1> HIDE DEF next
<1> QED
  BY <1>1, <1>5, <1>6

-----------------------------------------------------------------------------
(* Pages.                                                                  *)

SpansOf(page) == {i \in DOMAIN page : page[i].kind \in {"code", "data"}}

LEMMA PageConcat ==
  ASSUME NEW s \in Seq(Line), NEW t \in Seq(Line)
  PROVE  /\ s \o t \in Seq(Line)
         /\ Members(s \o t) = Members(s) \cup Members(t)
         /\ \A i \in DOMAIN s : i \in DOMAIN (s \o t) /\ (s \o t)[i] = s[i]
         /\ \A i \in DOMAIN (s \o t) : \/ i \in DOMAIN s
                                       \/ i - Len(s) \in DOMAIN t /\ (s \o t)[i] = t[i - Len(s)]
<1>1. /\ s \o t \in Seq(Line) /\ Len(s \o t) = Len(s) + Len(t)
      /\ \A i \in 1..(Len(s) + Len(t)) : (s \o t)[i] = IF i <= Len(s) THEN s[i] ELSE t[i - Len(s)]
  BY ConcatProperties, Zenon
<1>2. /\ Len(s) \in Nat /\ Len(t) \in Nat /\ DOMAIN s = 1..Len(s) /\ DOMAIN t = 1..Len(t)
      /\ DOMAIN (s \o t) = 1..(Len(s) + Len(t))
  BY <1>1
<1> DEFINE u == s \o t
<1> HIDE DEF u
<1>3. \A i \in DOMAIN s : i \in DOMAIN u /\ u[i] = s[i]
  BY <1>1, <1>2 DEF u
<1>4. \A i \in DOMAIN t : Len(s) + i \in DOMAIN u /\ u[Len(s) + i] = t[i]
  BY <1>1, <1>2 DEF u
<1>5. \A i \in DOMAIN u : \/ i \in DOMAIN s /\ u[i] = s[i]
                          \/ i - Len(s) \in DOMAIN t /\ u[i] = t[i - Len(s)]
  BY <1>1, <1>2 DEF u
<1>6. Members(u) = Members(s) \cup Members(t)
  <2>1. ASSUME NEW l \in Members(u) PROVE l \in Members(s) \cup Members(t)
    BY <1>5 DEF Members
  <2>2. ASSUME NEW l \in Members(s) PROVE l \in Members(u)
    BY <1>3 DEF Members
  <2>3. ASSUME NEW l \in Members(t) PROVE l \in Members(u)
    <3>1. PICK i \in DOMAIN t : l = t[i]
      BY DEF Members
    <3> QED
      BY <1>4, <3>1 DEF Members
  <2> QED
    BY <2>1, <2>2, <2>3
<1> QED
  BY <1>1, <1>3, <1>5, <1>6 DEF u

LEMMA PageLine ==
  ASSUME NEW s \in Seq(Line), NEW l \in Line
  PROVE  /\ s \o <<l>> \in Seq(Line)
         /\ Members(s \o <<l>>) = Members(s) \cup {l}
         /\ Len(s) + 1 \in Nat /\ DOMAIN (s \o <<l>>) = DOMAIN s \cup {Len(s) + 1}
         /\ (s \o <<l>>)[Len(s) + 1] = l
         /\ \A i \in DOMAIN s : i < Len(s) + 1 /\ (s \o <<l>>)[i] = s[i]
<1> DEFINE u == s \o <<l>>
<1>1. /\ <<l>> \in Seq(Line) /\ Len(<<l>>) = 1 /\ <<l>>[1] = l
      /\ Len(s) \in Nat /\ DOMAIN s = 1..Len(s)
  OBVIOUS
<1>2. /\ u \in Seq(Line) /\ Len(u) = Len(s) + Len(<<l>>)
      /\ \A i \in 1..(Len(s) + Len(<<l>>)) : u[i] = IF i <= Len(s) THEN s[i] ELSE <<l>>[i - Len(s)]
  BY <1>1, ConcatProperties, Zenon
<1> HIDE DEF u
<1>3. DOMAIN u = 1..(Len(s) + 1) /\ u[Len(s) + 1] = l
  BY <1>1, <1>2
<1>4. \A i \in DOMAIN s : i < Len(s) + 1 /\ u[i] = s[i]
  BY <1>1, <1>2
<1>5. DOMAIN u = DOMAIN s \cup {Len(s) + 1}
  BY <1>1, <1>3
<1>6. Members(u) = Members(s) \cup {l}
  BY <1>3, <1>4, <1>5 DEF Members
<1> QED
  BY <1>1, <1>2, <1>3, <1>4, <1>5, <1>6 DEF u

LEMMA OneLine ==
  ASSUME NEW l \in Line
  PROVE  /\ <<l>> \in Seq(Line) /\ Members(<<l>>) = {l}
         /\ l.kind \notin {"code", "data"} => SpansOf(<<l>>) = {}
<1>1. <<l>> \in Seq(Line) /\ DOMAIN <<l>> = {1} /\ <<l>>[1] = l
  OBVIOUS
<1> QED
  BY <1>1 DEF Members, SpansOf

LEMMA NoLine == <<>> \in Seq(Line) /\ Members(<<>>) = {} /\ SpansOf(<<>>) = {}
BY DEF Members, SpansOf

\* What goes onto the page: one line that stands for bytes, and others.
Lists(l, others) ==
  /\ lines' \in Seq(Line)
  /\ Members(lines') = Members(lines) \cup {l} \cup others
  /\ \E n \in Nat : /\ Spans' = Spans \cup {n} /\ lines'[n] = l
                    /\ \A i \in Spans : i < n /\ lines'[i] = lines[i]

LEMMA ListsFacts ==
  ASSUME lines \in Seq(Line), NEW before \in Seq(Line), NEW l \in Line, NEW after \in Seq(Line),
         SpansOf(before) = {}, SpansOf(after) = {}, l.kind \in {"code", "data"},
         lines' = lines \o before \o <<l>> \o after
  PROVE  Lists(l, Members(before) \cup Members(after))
<1> DEFINE s == lines \o before
           u == s \o <<l>>
           n == Len(s) + 1
<1>1. /\ s \in Seq(Line) /\ Members(s) = Members(lines) \cup Members(before)
      /\ \A i \in DOMAIN lines : i \in DOMAIN s /\ s[i] = lines[i]
      /\ \A i \in DOMAIN s : \/ i \in DOMAIN lines
                             \/ i - Len(lines) \in DOMAIN before /\ s[i] = before[i - Len(lines)]
  BY PageConcat
<1>2. SpansOf(s) = Spans
  BY <1>1 DEF SpansOf, Spans
<1> HIDE DEF s
<1>3. /\ u \in Seq(Line) /\ Members(u) = Members(s) \cup {l}
      /\ n \in Nat /\ DOMAIN u = DOMAIN s \cup {n} /\ u[n] = l
      /\ \A i \in DOMAIN s : i < n /\ u[i] = s[i]
  BY <1>1, PageLine
<1> HIDE DEF u, n
<1>4. SpansOf(u) = SpansOf(s) \cup {n}
  BY <1>3 DEF SpansOf
<1>5. lines' = u \o after
  BY DEF u, s
<1>6. /\ lines' \in Seq(Line) /\ Members(lines') = Members(u) \cup Members(after)
      /\ \A i \in DOMAIN u : i \in DOMAIN lines' /\ lines'[i] = u[i]
      /\ \A i \in DOMAIN lines' : \/ i \in DOMAIN u
                                  \/ i - Len(u) \in DOMAIN after /\ lines'[i] = after[i - Len(u)]
  <2>1. /\ u \o after \in Seq(Line) /\ Members(u \o after) = Members(u) \cup Members(after)
        /\ \A i \in DOMAIN u : i \in DOMAIN (u \o after) /\ (u \o after)[i] = u[i]
        /\ \A i \in DOMAIN (u \o after) :
             \/ i \in DOMAIN u
             \/ i - Len(u) \in DOMAIN after /\ (u \o after)[i] = after[i - Len(u)]
    BY <1>3, PageConcat
  <2> QED
    BY <1>5, <2>1
<1>7. Spans' = SpansOf(u)
  <2>1. Spans' = {i \in DOMAIN lines' : lines'[i].kind \in {"code", "data"}}
    BY DEF Spans
  <2>2. \A i \in DOMAIN after : after[i].kind \notin {"code", "data"}
    BY DEF SpansOf
  <2>3. \A i \in DOMAIN lines' : i \in Spans' <=> i \in SpansOf(u)
    BY <1>6, <2>1, <2>2 DEF SpansOf
  <2>4. SpansOf(u) \subseteq DOMAIN u /\ Spans' \subseteq DOMAIN lines'
    BY <2>1 DEF SpansOf
  <2> QED
    BY <1>6, <2>3, <2>4
<1>8. \A i \in Spans : i < n /\ lines'[i] = lines[i]
  BY <1>1, <1>3, <1>6 DEF Spans
<1>9. lines'[n] = l /\ Spans' = Spans \cup {n}
  BY <1>2, <1>3, <1>4, <1>6, <1>7
<1>10. Members(lines') = Members(lines) \cup {l} \cup (Members(before) \cup Members(after))
  BY <1>1, <1>3, <1>6
<1> QED
  BY <1>3, <1>6, <1>8, <1>9, <1>10 DEF Lists

-----------------------------------------------------------------------------
(* The lines of an instruction.                                            *)

LEMMA RangeFacts ==
  ASSUME TypeOK
  PROVE  /\ AddrSpace \in Nat /\ AddrSpace > 255
         /\ lo \in Nat /\ hi \in Nat /\ hi < AddrSpace
         /\ instr \subseteq lo..hi /\ func \subseteq lo..hi /\ label \subseteq lo..hi
         /\ \A a \in lo..hi : a \in Nat /\ lo <= a /\ a <= hi /\ a < AddrSpace
         /\ \A a \in instr : a \in Nat
<1>1. AddrSpace \in Nat /\ AddrSpace > 255
  BY Space
<1>2. lo \in Nat /\ hi \in Nat /\ hi < AddrSpace
  BY <1>1 DEF TypeOK, Addr
<1>3. instr \subseteq lo..hi /\ func \subseteq lo..hi /\ label \subseteq lo..hi
  BY NodeFacts DEF TypeOK
<1>4. \A a \in lo..hi : a \in Nat /\ lo <= a /\ a <= hi /\ a < AddrSpace
  BY <1>1, <1>2
<1> QED
  BY <1>1, <1>2, <1>3, <1>4

\* With a CPU every instruction has a length.
LEMMA LenPositive ==
  ASSUME TypeOK, cpu # NoCpu
  PROVE  \A a : LenAt(a) \in {1, 2, 3}
BY LenType DEF LenAt, InstLen

\* Without a CPU nothing is decoded, and no instruction marked.
LEMMA Undecoded ==
  ASSUME TypeOK, cpu = NoCpu
  PROVE  instr = {}
<1>1. \A a : LenAt(a) = 0
  BY DEF LenAt, InstLen, DisInstLen
<1> QED
  BY <1>1 DEF TypeOK, Node

LEMMA HeaderFacts ==
  ASSUME TypeOK, NEW a \in lo..hi
  PROVE  /\ Header(a) \in Seq(Line) /\ SpansOf(Header(a)) = {}
         /\ \A l \in Members(Header(a)) :
              /\ l.first = a /\ l.kind \in {"entry", "sub", "loc"}
              /\ l.kind = "sub" => a \in func \ {lo} /\ l.callers = callers[a]
         /\ a \in func \cup label => \E l \in Members(Header(a)) : TRUE
<1>1. a \in Nat /\ callers[a] \in 0..CallerMax
  BY NodeFacts DEF TypeOK, Addr
<1>2. /\ EntryLine(a) \in Line /\ SubLine(a, callers[a]) \in Line /\ LocLine(a) \in Line
      /\ EntryLine(a).kind = "entry" /\ SubLine(a, callers[a]).kind = "sub" /\ LocLine(a).kind = "loc"
      /\ EntryLine(a).first = a /\ SubLine(a, callers[a]).first = a /\ LocLine(a).first = a
      /\ SubLine(a, callers[a]).callers = callers[a]
  BY <1>1 DEF EntryLine, SubLine, LocLine, Line
<1>3. CASE a = lo /\ a \in func
  BY <1>2, <1>3, OneLine DEF Header
<1>4. CASE ~(a = lo /\ a \in func) /\ a \in func
  BY <1>2, <1>4, OneLine DEF Header
<1>5. CASE a \notin func /\ a \in label
  BY <1>2, <1>5, OneLine DEF Header
<1>6. CASE a \notin func /\ a \notin label
  BY <1>6, NoLine DEF Header
<1> QED
  BY <1>3, <1>4, <1>5, <1>6

\* What is left of the wrap: no range goes from 0 to the last two bytes, and
\* nothing at $ffff is longer than two bytes.
Unwrapped == /\ cpu # NoCpu => LenAt(AddrSpace - 1) \in {1, 2}
             /\ lo > 0 \/ hi < AddrSpace - 2

LEMMA OverFacts ==
  ASSUME TypeOK, cpu # NoCpu, Unwrapped, NEW a \in lo..hi, NEW i \in {1, 2}, i < LenAt(a)
  PROVE  Wrap16(a + i) \in instr <=> a + i \in instr
<1>1. /\ a \in Nat /\ a < AddrSpace /\ a <= hi /\ AddrSpace \in Nat /\ AddrSpace > 255
      /\ instr \subseteq lo..hi /\ lo \in Nat /\ hi \in Nat /\ hi < AddrSpace
  BY RangeFacts
<1>2. CASE a + i < AddrSpace
  <2>1. Wrap16(a + i) = a + i
    BY <1>1, <1>2, SMT DEF Wrap16
  <2> QED
    BY <2>1
<1>3. CASE ~(a + i < AddrSpace)
  <2>1. a + i \notin instr
    BY <1>1, <1>3
  <2>2. Wrap16(a + i) = a + i - AddrSpace
    BY <1>1, <1>3, SMT DEF Wrap16
  <2>3. a + i = AddrSpace
    <3>1. CASE i = 1
      BY <1>1, <1>3, <3>1
    <3>2. CASE i = 2 /\ a = AddrSpace - 1
      BY <3>2 DEF Unwrapped
    <3>3. CASE i = 2 /\ a # AddrSpace - 1
      BY <1>1, <1>3, <3>3
    <3> QED
      BY <3>1, <3>2, <3>3
  <2>4. Wrap16(a + i) = 0
    BY <1>1, <2>2, <2>3
  <2>5. 0 \notin instr
    BY <1>1, <2>3 DEF Unwrapped
  <2> QED
    BY <2>1, <2>4, <2>5
<1> QED
  BY <1>2, <1>3

LEMMA NoteFacts ==
  ASSUME TypeOK, cpu # NoCpu, Unwrapped, NEW a \in lo..hi, NEW i \in {1, 2}
  PROVE  /\ Note(a, i) \in Seq(Line) /\ SpansOf(Note(a, i)) = {}
         /\ Members(Note(a, i)) = IF i < LenAt(a) /\ a + i \in instr THEN {NoteLine(a + i)} ELSE {}
<1>1. a + i \in Nat
  BY NodeFacts DEF TypeOK, Addr
<1>2. NoteLine(a + i) \in Line /\ NoteLine(a + i).kind = "note"
  BY <1>1 DEF NoteLine, Line
<1>3. i < LenAt(a) => (Wrap16(a + i) \in instr <=> a + i \in instr)
  BY OverFacts
<1>4. CASE i < LenAt(a) /\ a + i \in instr
  BY <1>2, <1>3, <1>4, OneLine DEF Note
<1>5. CASE ~(i < LenAt(a) /\ a + i \in instr)
  BY <1>3, <1>5, NoLine DEF Note
<1> QED
  BY <1>4, <1>5

LEMMA NotesFacts ==
  ASSUME TypeOK, cpu # NoCpu, Unwrapped, NEW a \in lo..hi
  PROVE  /\ Notes(a) \in Seq(Line) /\ SpansOf(Notes(a)) = {}
         /\ \A l \in Members(Notes(a)) : \E b \in instr : /\ l = NoteLine(b)
                                                          /\ a < b /\ b < a + LenAt(a)
         /\ \A b \in instr : a < b /\ b < a + LenAt(a) => NoteLine(b) \in Members(Notes(a))
<1>1. /\ Note(a, 1) \in Seq(Line) /\ SpansOf(Note(a, 1)) = {}
      /\ Note(a, 2) \in Seq(Line) /\ SpansOf(Note(a, 2)) = {}
      /\ Members(Note(a, 1)) = IF 1 < LenAt(a) /\ a + 1 \in instr THEN {NoteLine(a + 1)} ELSE {}
      /\ Members(Note(a, 2)) = IF 2 < LenAt(a) /\ a + 2 \in instr THEN {NoteLine(a + 2)} ELSE {}
  BY NoteFacts
<1> DEFINE u == Note(a, 1) \o Note(a, 2)
<1>2. /\ u \in Seq(Line) /\ Members(u) = Members(Note(a, 1)) \cup Members(Note(a, 2))
      /\ \A i \in DOMAIN Note(a, 1) : i \in DOMAIN u /\ u[i] = Note(a, 1)[i]
      /\ \A i \in DOMAIN u : \/ i \in DOMAIN Note(a, 1)
                             \/ /\ i - Len(Note(a, 1)) \in DOMAIN Note(a, 2)
                                /\ u[i] = Note(a, 2)[i - Len(Note(a, 1))]
  BY <1>1, PageConcat
<1> HIDE DEF u
<1>3. Notes(a) = u
  BY DEF Notes, u
<1>4. SpansOf(u) = {}
  BY <1>1, <1>2 DEF SpansOf
<1>5. a \in Nat /\ (\A b \in instr : b \in Nat) /\ LenAt(a) \in {1, 2, 3}
  BY RangeFacts, LenPositive
<1>6. \A l \in Members(u) : \E b \in instr : l = NoteLine(b) /\ a < b /\ b < a + LenAt(a)
  <2>1. \A i \in {1, 2} : i < LenAt(a) => a < a + i /\ a + i < a + LenAt(a)
    BY <1>5
  <2> QED
    BY <1>1, <1>2, <2>1
<1>7. ASSUME NEW b \in instr, a < b, b < a + LenAt(a)
      PROVE  NoteLine(b) \in Members(u)
  <2>1. b \in Nat
    BY <1>5
  <2>2. b = a + 1 \/ (b = a + 2 /\ 2 < LenAt(a))
    BY <1>5, <1>7, <2>1
  <2> QED
    BY <1>1, <1>2, <1>5, <1>7, <2>2
<1> QED
  BY <1>2, <1>3, <1>4, <1>6, <1>7

LEMMA CodeFacts ==
  ASSUME TypeOK, cpu # NoCpu, NEW a \in Nat
  PROVE  /\ CodeLine(a) \in Line /\ CodeLine(a).kind = "code"
         /\ CodeLine(a).first = a /\ CodeLine(a).last = a + LenAt(a) - 1
         /\ CodeLine(a).last \in Nat /\ a <= CodeLine(a).last
<1>1. LenAt(a) \in {1, 2, 3}
  BY LenPositive
<1>2. a + LenAt(a) - 1 \in Nat /\ a <= a + LenAt(a) - 1
  BY <1>1
<1> QED
  BY <1>2 DEF CodeLine, Line

LEMMA PrintDataLists ==
  ASSUME TypeOK, lines \in Seq(Line), addr \in Nat, PrintData
  PROVE  /\ Lists(DataLine(addr, addr' - 1), {})
         /\ addr' \in Nat /\ addr < addr' /\ addr' <= hi + 1
         /\ \A t \in instr : addr <= t => addr' <= t
<1>1. addr <= hi /\ addr \notin instr /\ addr' = NextStart(addr)
      /\ lines' = Append(lines, DataLine(addr, addr' - 1))
  BY DEF PrintData
<1>2. /\ addr' \in Nat /\ addr <= addr' /\ addr' <= hi + 1
      /\ addr' \in instr \cup {hi + 1}
      /\ \A t \in instr : addr <= t => addr' <= t
  BY <1>1, NextStartFacts
<1>3. addr < addr'
  BY <1>1, <1>2, RangeFacts
<1>4. addr' - 1 \in Nat
  <2>1. \A m, n \in Nat : m < n => n - 1 \in Nat
    OBVIOUS
  <2> QED
    BY <1>2, <1>3, <2>1
<1> DEFINE l == DataLine(addr, addr' - 1)
<1>5. l \in Line /\ l.kind = "data"
  BY <1>4 DEF DataLine, Line
<1> HIDE DEF l
<1>6. Append(lines, l) = lines \o <<l>>
  BY <1>5
<1>7. lines \o <<>> = lines
  OBVIOUS
<1>8. (lines \o <<>>) \o <<l>> \in Seq(Line)
  BY <1>5, <1>7, PageLine
<1>9. lines' = ((lines \o <<>>) \o <<l>>) \o <<>>
  BY <1>1, <1>6, <1>7, <1>8 DEF l
<1>10. Lists(l, Members(<<>>) \cup Members(<<>>))
  BY <1>5, <1>9, NoLine, ListsFacts
<1>11. Members(<<>>) \cup Members(<<>>) = {}
  BY NoLine
<1> QED
  BY <1>2, <1>3, <1>10, <1>11 DEF l

LEMMA PrintInstructionLists ==
  ASSUME TypeOK, cpu # NoCpu, Unwrapped, lines \in Seq(Line), PrintInstruction
  PROVE  Lists(CodeLine(addr), Members(Header(addr)) \cup Members(Notes(addr)))
<1>1. /\ addr \in lo..hi /\ addr \in Nat
      /\ lines' = ((lines \o Header(addr)) \o <<CodeLine(addr)>>) \o Notes(addr)
  BY RangeFacts DEF PrintInstruction
<1> QED
  BY <1>1, HeaderFacts, NotesFacts, CodeFacts, ListsFacts

LEMMA EmitLists ==
  ASSUME TypeOK, cpu # NoCpu, lines \in Seq(Line), addr \in Nat, Emit
  PROVE  Lists(CodeLine(addr), {})
<1> DEFINE l == CodeLine(addr)
<1>1. lines' = Append(lines, l)
  BY DEF Emit
<1>2. l \in Line /\ l.kind = "code"
  BY CodeFacts
<1> HIDE DEF l
<1>3. Append(lines, l) = lines \o <<l>> /\ lines \o <<>> = lines
  BY <1>2
<1>4. (lines \o <<>>) \o <<l>> \in Seq(Line)
  BY <1>2, <1>3, PageLine
<1>5. lines' = ((lines \o <<>>) \o <<l>>) \o <<>>
  BY <1>1, <1>3, <1>4
<1>6. Lists(l, Members(<<>>) \cup Members(<<>>))
  BY <1>2, <1>5, NoLine, ListsFacts
<1>7. Members(<<>>) \cup Members(<<>>) = {}
  BY NoLine
<1> QED
  BY <1>6, <1>7 DEF l

-----------------------------------------------------------------------------
(* What is said of a page that is not finished.                            *)

\* The next line that stands for bytes belongs at addr.
Contiguous ==
  IF Spans = {} THEN addr = lo
  ELSE \E i \in Spans : (\A k \in Spans : k <= i) /\ addr = lines[i].last + 1

Shown == UNION {l.first..l.last : l \in Printed({"code", "data"})}

Covered == {a \in Nat : lo <= a /\ a < addr} \subseteq Shown

Ordered == InOrder /\ Contiguous /\ Covered /\ lines \in Seq(Line) /\ addr \in Nat

LEMMA SpanTypes ==
  ASSUME lines \in Seq(Line)
  PROVE  Spans \subseteq Nat /\ \A i \in Spans : lines[i].first \in Nat /\ lines[i].last \in Nat
<1>1. \A i \in Spans : i \in Nat /\ lines[i] \in Line /\ lines[i].kind \in {"code", "data"}
  BY DEF Spans
<1>2. \A l \in Line : l.kind \in {"code", "data"} => l.first \in Nat /\ l.last \in Nat
  BY DEF Line
<1> QED
  BY <1>1, <1>2

\* A line at addr goes with the order, and if addr moves past it the next will.
LEMMA OrderedStep ==
  ASSUME Ordered, UNCHANGED <<lo, hi>>, NEW l, NEW others, Lists(l, others),
         l.kind \in {"code", "data"}, l.first = addr, l.last \in Nat, l.first <= l.last,
         addr \in Addr, lo <= hi => addr <= hi
  PROVE  /\ InOrder' /\ lines' \in Seq(Line)
         /\ \A a \in Nat : lo <= a /\ a <= l.last => a \in Shown'
         /\ addr' = l.last + 1 => Ordered'
<1>1. PICK n \in Nat : /\ Spans' = Spans \cup {n} /\ lines'[n] = l
                       /\ \A i \in Spans : i < n /\ lines'[i] = lines[i]
  BY DEF Lists
<1>2. Spans \subseteq Nat
  BY SpanTypes DEF Ordered
<1>3. InOrder'
  <2> SUFFICES ASSUME NEW i \in Spans'
               PROVE  LET before == {j \in Spans' : j < i}
                      IN  /\ IF before = {} THEN lines'[i].first = lo'
                             ELSE \E j \in before : /\ \A k \in before : k <= j
                                                    /\ lines'[i].first = lines'[j].last + 1
                          /\ lines'[i].first <= lines'[i].last
                          /\ lines'[i].first \in Addr
                          /\ lo' <= hi' => lines'[i].first <= hi'
    BY DEF InOrder
  <2>1. CASE i = n
    <3>1. {j \in Spans' : j < i} = Spans
      <4>1. \A j \in Spans' : j < i <=> j \in Spans
        BY <1>1, <1>2, <2>1
      <4> QED
        BY <1>1, <4>1
    <3> QED
      BY <1>1, <2>1, <3>1 DEF Ordered, Contiguous
  <2>2. CASE i \in Spans
    <3>1. {j \in Spans' : j < i} = {j \in Spans : j < i}
      <4>1. \A j \in Spans' : j < i => j \in Spans
        BY <1>1, <1>2, <2>2
      <4> QED
        BY <1>1, <4>1
    <3>2. lines'[i] = lines[i] /\ \A j \in {k \in Spans : k < i} : lines'[j] = lines[j]
      BY <1>1, <2>2
    <3> QED
      BY <2>2, <3>1, <3>2 DEF Ordered, InOrder
  <2> QED
    BY <1>1, <2>1, <2>2
<1>4. lines' \in Seq(Line) /\ Members(lines)' = Members(lines) \cup {l} \cup others
  BY DEF Lists, Members
<1>5. ASSUME NEW a \in Nat, lo <= a, a <= l.last
      PROVE  a \in Shown'
  <2>1. CASE a < addr
    <3>1. PICK k \in Printed({"code", "data"}) : a \in k.first..k.last
      BY <1>5, <2>1 DEF Ordered, Covered, Shown
    <3>2. k \in Printed({"code", "data"})'
      BY <1>4, <3>1 DEF Printed
    <3> QED
      BY <3>1, <3>2 DEF Shown
  <2>2. CASE ~(a < addr)
    <3>1. a \in l.first..l.last
      BY <1>5, <2>2 DEF Ordered
    <3>2. l \in Printed({"code", "data"})'
      BY <1>4 DEF Printed
    <3> QED
      BY <3>1, <3>2 DEF Shown
  <2> QED
    BY <2>1, <2>2
<1>6. ASSUME addr' = l.last + 1
      PROVE  Ordered'
  <2>1. Contiguous'
    BY <1>1, <1>2, <1>6 DEF Contiguous
  <2>2. addr' \in Nat
    BY <1>6
  <2>3. Covered'
    BY <1>5, <1>6 DEF Covered
  <2> QED
    BY <1>3, <1>4, <2>1, <2>2, <2>3 DEF Ordered
<1> QED
  BY <1>3, <1>4, <1>5, <1>6

\* printAnalyzed so far: the starts before addr are named, the targets among
\* them are headed, and callers are counted where control was.
Marked ==
  /\ {l.first : l \in Printed({"code", "note"})} = {s \in instr : s < addr}
  /\ \A s \in instr \cap (func \cup label) :
       s < addr => \E l \in Printed({"entry", "sub", "loc", "note"}) : l.first = s
  /\ \A l \in Printed({"sub"}) : l.first \in func \ {lo} /\ l.callers = callers[l.first]

LEMMA PrintDataStep ==
  ASSUME TypeOK, Ordered, Marked, PrintData
  PROVE  Ordered' /\ Marked'
<1> DEFINE l == DataLine(addr, addr' - 1)
<1>1. /\ Lists(l, {}) /\ addr' \in Nat /\ addr < addr' /\ addr' <= hi + 1
      /\ \A t \in instr : addr <= t => addr' <= t
  BY PrintDataLists DEF Ordered
<1>2. /\ l.kind = "data" /\ l.first = addr /\ l.last = addr' - 1
  BY DEF DataLine
<1>3. /\ addr \in Nat /\ addr <= hi /\ UNCHANGED <<lo, hi, instr, func, label, callers>>
  BY DEF PrintData, Ordered, vars
<1> HIDE DEF l
<1>4. l.last \in Nat /\ l.first <= l.last /\ addr' = l.last + 1 /\ addr \in Addr
  <2>1. \A m, n \in Nat : m < n => n - 1 \in Nat /\ m <= n - 1 /\ n = n - 1 + 1
    OBVIOUS
  <2>2. addr \in Addr
    BY <1>3, RangeFacts DEF Addr
  <2> QED
    BY <1>1, <1>2, <1>3, <2>1, <2>2
<1>5. Ordered'
  BY <1>1, <1>2, <1>3, <1>4, OrderedStep
<1>6. Members(lines)' = Members(lines) \cup {l}
  BY <1>1 DEF Lists, Members
<1>7. \A kinds : "data" \notin kinds => Printed(kinds)' = Printed(kinds)
  BY <1>2, <1>6 DEF Printed
<1>8. Printed({"code", "note"})' = Printed({"code", "note"})
  BY <1>2, <1>6 DEF Printed
<1>9. Printed({"entry", "sub", "loc", "note"})' = Printed({"entry", "sub", "loc", "note"})
  BY <1>2, <1>6 DEF Printed
<1>10. Printed({"sub"})' = Printed({"sub"})
  BY <1>2, <1>6 DEF Printed
<1>11. \A t \in instr : t < addr' <=> t < addr
  BY <1>1, <1>3, RangeFacts
<1>12. {t \in instr' : t < addr'} = {t \in instr : t < addr}
  BY <1>3, <1>11
<1>13. {k.first : k \in Printed({"code", "note"})'} = {t \in instr' : t < addr'}
  BY <1>8, <1>12 DEF Marked
<1>14. \A t \in instr' \cap (func' \cup label') :
         t < addr' => \E k \in Printed({"entry", "sub", "loc", "note"})' : k.first = t
  BY <1>3, <1>9, <1>11 DEF Marked
<1>15. \A k \in Printed({"sub"})' : k.first \in func' \ {lo'} /\ k.callers = callers'[k.first]
  BY <1>3, <1>10 DEF Marked
<1>16. Marked'
  BY <1>13, <1>14, <1>15 DEF Marked
<1> QED
  BY <1>5, <1>16

LEMMA PrintInstructionStep ==
  ASSUME TypeOK, cpu # NoCpu, Unwrapped, Ordered, Marked, PrintInstruction
  PROVE  Ordered' /\ Marked'
<1> DEFINE l == CodeLine(addr)
           before == Members(Header(addr))
           after == Members(Notes(addr))
<1>1. Lists(l, before \cup after)
  BY PrintInstructionLists DEF Ordered
<1>2. /\ addr \in lo..hi /\ addr \in Nat /\ addr <= hi /\ addr \in instr
      /\ addr' = addr + LenAt(addr) /\ UNCHANGED <<lo, hi, instr, func, label, callers>>
  BY RangeFacts DEF PrintInstruction, vars
<1>3. LenAt(addr) \in {1, 2, 3}
  BY LenPositive
<1>4. /\ l \in Line /\ l.kind = "code" /\ l.first = addr /\ l.last = addr + LenAt(addr) - 1
      /\ l.last \in Nat /\ addr <= l.last
  BY <1>2, CodeFacts
<1>5. /\ \A k \in before : /\ k.first = addr /\ k.kind \in {"entry", "sub", "loc"}
                           /\ k.kind = "sub" => addr \in func \ {lo} /\ k.callers = callers[addr]
      /\ addr \in func \cup label => \E k \in before : TRUE
  BY <1>2, HeaderFacts
<1>6. /\ \A k \in after : \E b \in instr : k = NoteLine(b) /\ addr < b /\ b < addr + LenAt(addr)
      /\ \A b \in instr : addr < b /\ b < addr + LenAt(addr) => NoteLine(b) \in after
  BY <1>2, NotesFacts
<1>7. \A b : NoteLine(b).kind = "note" /\ NoteLine(b).first = b
  BY DEF NoteLine
<1> HIDE DEF l, before, after
<1>8. addr' = l.last + 1
  BY <1>2, <1>3, <1>4
<1>9. addr \in Addr
  BY <1>2, NodeFacts
<1>10. Ordered'
  BY <1>1, <1>2, <1>4, <1>8, <1>9, OrderedStep
<1>11. Members(lines)' = Members(lines) \cup {l} \cup (before \cup after)
  BY <1>1 DEF Lists, Members
<1>12. \A t \in instr : t < addr' <=> \/ t < addr \/ t = addr
                                      \/ (addr < t /\ t < addr + LenAt(addr))
  BY <1>2, <1>3, RangeFacts
<1>13. {k.first : k \in Printed({"code", "note"})'} = {t \in instr' : t < addr'}
  <2>1. ASSUME NEW k \in Printed({"code", "note"})' PROVE k.first \in instr /\ k.first < addr'
    <3>1. k \in Members(lines)' /\ k.kind \in {"code", "note"}
      BY <2>1 DEF Printed
    <3>2. CASE k \in Members(lines)
      <4>1. k \in Printed({"code", "note"})
        BY <3>1, <3>2 DEF Printed
      <4> QED
        BY <1>12, <4>1 DEF Marked
    <3>3. CASE k = l
      BY <1>2, <1>4, <1>12, <3>3
    <3>4. CASE k \in before
      BY <1>5, <3>1, <3>4
    <3>5. CASE k \in after
      BY <1>6, <1>7, <1>12, <3>5
    <3> QED
      BY <1>11, <3>1, <3>2, <3>3, <3>4, <3>5
  <2>2. ASSUME NEW t \in instr, t < addr'
        PROVE  \E k \in Printed({"code", "note"})' : k.first = t
    <3>1. CASE t < addr
      <4>1. PICK k \in Printed({"code", "note"}) : k.first = t
        BY <3>1 DEF Marked
      <4>2. k \in Printed({"code", "note"})'
        BY <1>11, <4>1 DEF Printed
      <4> QED
        BY <4>1, <4>2
    <3>2. CASE t = addr
      <4>1. l \in Printed({"code", "note"})'
        BY <1>4, <1>11 DEF Printed
      <4> QED
        BY <1>4, <3>2, <4>1
    <3>3. CASE addr < t /\ t < addr + LenAt(addr)
      <4>1. NoteLine(t) \in Printed({"code", "note"})'
        BY <1>6, <1>7, <1>11, <3>3 DEF Printed
      <4> QED
        BY <1>7, <4>1
    <3> QED
      BY <1>12, <2>2, <3>1, <3>2, <3>3
  <2> QED
    BY <1>2, <2>1, <2>2
<1>14. ASSUME NEW t \in instr \cap (func \cup label), t < addr'
       PROVE  \E k \in Printed({"entry", "sub", "loc", "note"})' : k.first = t
  <2>1. CASE t < addr
    <3>1. PICK k \in Printed({"entry", "sub", "loc", "note"}) : k.first = t
      BY <2>1 DEF Marked
    <3>2. k \in Printed({"entry", "sub", "loc", "note"})'
      BY <1>11, <3>1 DEF Printed
    <3> QED
      BY <3>1, <3>2
  <2>2. CASE t = addr
    <3>1. PICK k \in before : TRUE
      BY <1>5, <2>2
    <3>2. k \in Printed({"entry", "sub", "loc", "note"})' /\ k.first = t
      BY <1>5, <1>11, <2>2, <3>1 DEF Printed
    <3> QED
      BY <3>2
  <2>3. CASE addr < t /\ t < addr + LenAt(addr)
    <3>1. NoteLine(t) \in Printed({"entry", "sub", "loc", "note"})'
      BY <1>6, <1>7, <1>11, <2>3 DEF Printed
    <3> QED
      BY <1>7, <3>1
  <2> QED
    BY <1>12, <1>14, <2>1, <2>2, <2>3
<1>15. ASSUME NEW k \in Printed({"sub"})'
       PROVE  k.first \in func \ {lo} /\ k.callers = callers[k.first]
  <2>1. k \in Members(lines)' /\ k.kind = "sub"
    BY <1>15 DEF Printed
  <2>2. CASE k \in Members(lines)
    <3>1. k \in Printed({"sub"})
      BY <2>1, <2>2 DEF Printed
    <3> QED
      BY <3>1 DEF Marked
  <2>3. CASE k = l
    BY <1>4, <2>1, <2>3
  <2>4. CASE k \in before
    BY <1>5, <2>1, <2>4
  <2>5. CASE k \in after
    BY <1>6, <1>7, <2>1, <2>5
  <2> QED
    BY <1>11, <2>1, <2>2, <2>3, <2>4, <2>5
<1>16. Marked'
  BY <1>2, <1>13, <1>14, <1>15 DEF Marked
<1> QED
  BY <1>10, <1>16

-----------------------------------------------------------------------------
(* The page when a listing has ended.                                      *)

\* The last byte there is to show.
Bottom == IF lo <= hi THEN hi ELSE AddrSpace - 1

Whole == SweepLength # 0 => \A a \in Nat : lo <= a /\ a <= Bottom => a \in Shown

LEMMA WholeShows ==
  ASSUME TypeOK, lines \in Seq(Line), IF Blind THEN lines = <<>> ELSE Whole
  PROVE  ShownToTheEnd
<1> SUFFICES ASSUME SweepLength # 0, ~Blind
             PROVE  \E i \in Spans : lines[i].last >= Bottom
  BY DEF ShownToTheEnd, Bottom
<1>1. Bottom \in Nat /\ lo <= Bottom
  BY Space DEF TypeOK, Addr, Bottom
<1>2. Bottom \in Shown
  BY <1>1 DEF Whole
<1>3. PICK l \in Printed({"code", "data"}) : Bottom \in l.first..l.last
  BY <1>2 DEF Shown
<1>4. PICK i \in DOMAIN lines : l = lines[i]
  BY <1>3 DEF Printed, Members
<1>5. i \in Spans
  BY <1>3, <1>4 DEF Printed, Spans
<1>6. l.first \in Nat /\ l.last \in Nat
  BY <1>4, <1>5, SpanTypes
<1> QED
  BY <1>1, <1>3, <1>4, <1>5, <1>6

\* printAnalyzed returns at the end of the range.
LEMMA PrintedWhole ==
  ASSUME TypeOK, Ordered, addr > hi, lo <= hi
  PROVE  Whole
<1>1. Bottom = hi /\ hi \in Nat
  BY DEF Bottom, TypeOK, Addr
<1>2. \A a \in Nat : lo <= a /\ a <= hi => a < addr
  BY <1>1 DEF Ordered
<1> QED
  BY <1>1, <1>2 DEF Whole, Ordered, Covered

LEMMA SweepLengthFacts ==
  ASSUME TypeOK
  PROVE  /\ SweepLength \in Nat
         /\ lo <= hi => SweepLength = hi - lo + 1 \/ SweepLength = 0
         /\ lo > hi => SweepLength = hi - lo + 1 + AddrSpace \/ SweepLength = 0
         /\ SweepLength = 0 => hi = lo - 1 \/ (lo = 0 /\ hi = AddrSpace - 1)
<1>1. /\ lo \in Nat /\ hi \in Nat /\ lo < AddrSpace /\ hi < AddrSpace
      /\ AddrSpace \in Nat /\ AddrSpace > 255
  BY RangeFacts DEF TypeOK, Addr
<1>2. CASE lo <= hi /\ hi - lo + 1 < AddrSpace
  <2>1. SweepLength = hi - lo + 1
    BY <1>1, <1>2, SMT DEF SweepLength, Wrap16
  <2> QED
    BY <1>1, <1>2, <2>1
<1>3. CASE lo <= hi /\ ~(hi - lo + 1 < AddrSpace)
  <2>1. lo = 0 /\ hi = AddrSpace - 1
    BY <1>1, <1>3
  <2>2. hi - lo + 1 = AddrSpace
    BY <1>1, <2>1
  <2>3. SweepLength = 0
    BY <1>1, <2>2, SMT DEF SweepLength, Wrap16
  <2> QED
    BY <1>1, <2>1, <2>3
<1>4. CASE lo > hi /\ hi = lo - 1
  <2>1. hi - lo + 1 = 0
    BY <1>1, <1>4
  <2>2. SweepLength = 0
    BY <1>1, <2>1, SMT DEF SweepLength, Wrap16
  <2> QED
    BY <1>1, <1>4, <2>2
<1>5. CASE lo > hi /\ hi # lo - 1
  <2>1. hi - lo + 1 < 0 /\ hi - lo + 1 + AddrSpace > 0 /\ hi - lo + 1 + AddrSpace < AddrSpace
    BY <1>1, <1>5
  <2>2. SweepLength = hi - lo + 1 + AddrSpace
    BY <1>1, <2>1, SMT DEF SweepLength, Wrap16
  <2> QED
    BY <1>1, <1>5, <2>1, <2>2
<1> QED
  BY <1>1, <1>2, <1>3, <1>4, <1>5

\* DisRange between two turns of its loop.
Swept ==
  /\ Ordered /\ addr \in Addr /\ consumed \in Nat
  /\ addr = lo + consumed /\ consumed < SweepLength

LEMMA EmitStep ==
  ASSUME TypeOK, cpu # NoCpu, Swept, Emit
  PROVE  /\ addr' \in Nat /\ consumed' \in Nat
         /\ InOrder' /\ lines' \in Seq(Line)
         /\ \/ phase' = "sweeping" /\ Swept'
            \/ phase' = "done" /\ Whole'
<1> DEFINE l == CodeLine(addr)
           n == LenAt(addr)
<1>1. /\ addr \in Nat /\ consumed \in Nat /\ addr < AddrSpace
      /\ AddrSpace \in Nat /\ AddrSpace > 255 /\ lo \in Nat /\ hi \in Nat /\ hi < AddrSpace
  BY RangeFacts DEF Swept, Addr
<1>2. n \in {1, 2, 3}
  BY LenPositive
<1>3. /\ l.kind = "code" /\ l.first = addr /\ l.last = addr + n - 1
      /\ l.last \in Nat /\ l.first <= l.last
  BY <1>1, CodeFacts
<1>4. Lists(l, {})
  BY <1>1, EmitLists DEF Swept, Ordered
<1>5. /\ UNCHANGED vars /\ consumed' = consumed + n
      /\ phase' = IF addr' < addr \/ consumed' >= SweepLength THEN "done" ELSE "sweeping"
  BY DEF Emit
<1>6. addr' = Wrap16(addr + n)
  BY DEF Emit, DisOne, LenAt
<1>7. /\ UNCHANGED <<lo, hi>> /\ SweepLength' = SweepLength /\ Bottom' = Bottom
  BY <1>5 DEF vars, SweepLength, Bottom
<1>8. /\ SweepLength \in Nat
      /\ lo <= hi => SweepLength = hi - lo + 1 \/ SweepLength = 0
      /\ lo > hi => SweepLength = hi - lo + 1 + AddrSpace \/ SweepLength = 0
  BY SweepLengthFacts
<1>9. lo <= hi => addr <= hi
  BY <1>1, <1>8 DEF Swept
<1> HIDE DEF l, n
<1>10. /\ InOrder' /\ lines' \in Seq(Line)
       /\ \A a \in Nat : lo <= a /\ a <= l.last => a \in Shown'
       /\ addr' = l.last + 1 => Ordered'
  BY <1>3, <1>4, <1>7, <1>9, OrderedStep DEF Swept
<1>11. addr' \in Addr /\ addr' \in Nat /\ consumed' \in Nat
  <2>1. addr + n \in Int
    BY <1>1, <1>2
  <2>2. addr' \in Addr
    BY <1>6, <2>1, WrapType
  <2> QED
    BY <1>1, <1>2, <1>5, <2>2 DEF Addr
<1>12. CASE addr + n < AddrSpace /\ consumed + n < SweepLength
  <2>1. addr' = addr + n
    BY <1>1, <1>2, <1>6, <1>12, SMT DEF Wrap16
  <2>2. addr' = l.last + 1 /\ phase' = "sweeping"
    BY <1>1, <1>2, <1>3, <1>5, <1>8, <1>12, <2>1
  <2>3. addr' = lo' + consumed' /\ consumed' < SweepLength'
    BY <1>1, <1>2, <1>5, <1>7, <1>12, <2>1 DEF Swept
  <2>4. Swept'
    BY <1>10, <1>11, <2>2, <2>3 DEF Swept
  <2> QED
    BY <1>10, <1>11, <2>2, <2>4
<1>13. CASE ~(addr + n < AddrSpace /\ consumed + n < SweepLength)
  <2>1. phase' = "done"
    <3>1. CASE ~(consumed + n < SweepLength)
      BY <1>1, <1>2, <1>5, <1>8, <3>1
    <3>2. CASE ~(addr + n < AddrSpace)
      <4>1. addr' = addr + n - AddrSpace
        BY <1>1, <1>2, <1>6, <3>2, SMT DEF Wrap16
      <4>2. addr' < addr
        BY <1>1, <1>2, <4>1
      <4> QED
        BY <1>5, <4>2
    <3> QED
      BY <1>13, <3>1, <3>2
  <2>2. Bottom <= l.last
    <3>1. CASE ~(addr + n < AddrSpace)
      BY <1>1, <1>2, <1>3, <3>1 DEF Bottom
    <3>2. CASE ~(consumed + n < SweepLength)
      BY <1>1, <1>2, <1>3, <1>8, <3>2 DEF Swept, Bottom
    <3> QED
      BY <1>13, <3>1, <3>2
  <2>3. Bottom \in Nat
    BY <1>1 DEF Bottom
  <2>4. \A a \in Nat : a <= Bottom => a <= l.last
    BY <1>3, <2>2, <2>3
  <2>5. Whole'
    BY <1>7, <1>10, <2>4 DEF Whole
  <2> QED
    BY <1>10, <1>11, <2>1, <2>5
<1> QED
  BY <1>12, <1>13

-----------------------------------------------------------------------------
(* What the readers promise.                                               *)

LEMMA GreatestExists ==
  ASSUME NEW b \in Nat, NEW S \in SUBSET (0..b), S # {}
  PROVE  Reader!Greatest(S) \in S /\ \A m \in S : m <= Reader!Greatest(S)
<1> DEFINE T == {b - n : n \in S}
<1>1. T \in SUBSET Nat /\ T # {}
  <2>1. \A n \in S : n \in Nat /\ b - n \in Nat
    OBVIOUS
  <2> QED
    BY <2>1
<1>2. PICK t \in T : \A u \in T : t <= u
  BY <1>1, LeastExists
<1>3. PICK n \in S : t = b - n
  BY <1>2
<1>4. \A m \in S : b - n <= b - m
  BY <1>2, <1>3
<1>5. \A m \in S : m <= n
  <2>1. \A m, k \in 0..b : b - k <= b - m => m <= k
    OBVIOUS
  <2> QED
    BY <1>4, <2>1
<1> DEFINE g == CHOOSE x \in S : \A m \in S : m <= x
<1>6. g \in S /\ \A m \in S : m <= g
  BY <1>5
<1>7. Reader!Greatest(S) = g
  BY DEF Reader!Greatest
<1> QED
  BY <1>6, <1>7

LEMMA LeastFacts ==
  ASSUME NEW S \in SUBSET Nat, S # {}
  PROVE  Reader!Least(S) \in S /\ \A m \in S : Reader!Least(S) <= m
BY LeastExists DEF Reader!Least

LEMMA NarrowFacts ==
  /\ \A n \in Int : Reader!Narrow(n) \in Addr
  /\ \A n \in Addr : Reader!Narrow(n) = n
  /\ \A n \in Addr : Reader!Narrow(n + AddrSpace) = n
  /\ \A n \in Addr : Reader!Narrow(n - AddrSpace) = n
BY Space, SMT DEF Reader!Narrow, Addr

\* What the loader was given: records that fit into memory.
Fits(records) ==
  /\ records \in Seq(FileRecord)
  /\ \A i \in DOMAIN records : Len(records[i].bytes) <= AddrSpace

LEMMA CoveredFacts ==
  ASSUME NEW r \in FileRecord, Len(r.bytes) <= AddrSpace
  PROVE  /\ Reader!Covered(r) \subseteq Addr
         /\ \A a \in Reader!Covered(r) : Reader!ByteOf(r, a) \in Byte
<1>1. r.addr \in Addr /\ r.bytes \in Seq(Byte) /\ DOMAIN r.bytes = 1..Len(r.bytes)
  BY DEF FileRecord
<1>2. Len(r.bytes) \in Nat /\ AddrSpace \in Nat /\ r.addr \in Nat /\ r.addr < AddrSpace
  BY <1>1, Space DEF Addr
<1> SUFFICES ASSUME NEW i \in DOMAIN r.bytes
             PROVE  /\ Reader!Narrow(r.addr + i - 1) \in Addr
                    /\ Reader!ByteOf(r, Reader!Narrow(r.addr + i - 1)) \in Byte
  BY DEF Reader!Covered
<1>3. i \in Nat /\ 1 <= i /\ i <= AddrSpace
  BY <1>1, <1>2
<1> DEFINE a == Reader!Narrow(r.addr + i - 1)
<1>4. a \in Addr
  BY <1>2, <1>3, NarrowFacts
<1>5. a = r.addr + i - 1 \/ a = r.addr + i - 1 - AddrSpace
  <2>1. CASE r.addr + i - 1 < AddrSpace
    <3>1. r.addr + i - 1 \in Addr
      BY <1>2, <1>3, <2>1 DEF Addr
    <3> QED
      BY <3>1, NarrowFacts
  <2>2. CASE ~(r.addr + i - 1 < AddrSpace)
    <3>1. /\ r.addr + i - 1 - AddrSpace \in Addr
          /\ r.addr + i - 1 = (r.addr + i - 1 - AddrSpace) + AddrSpace
      BY <1>2, <1>3, <2>2 DEF Addr
    <3> QED
      BY <3>1, NarrowFacts
  <2> QED
    BY <2>1, <2>2
<1> HIDE DEF a
<1>6. Reader!Narrow(a - r.addr) = i - 1
  <2>1. i - 1 \in Addr
    BY <1>2, <1>3 DEF Addr
  <2>2. a - r.addr = i - 1 \/ a - r.addr = (i - 1) - AddrSpace
    BY <1>2, <1>3, <1>4, <1>5 DEF Addr
  <2> QED
    BY <2>1, <2>2, NarrowFacts
<1>7. Reader!ByteOf(r, a) = r.bytes[i]
  BY <1>3, <1>6 DEF Reader!ByteOf
<1>8. r.bytes[i] \in Byte
  BY <1>1
<1> QED
  BY <1>4, <1>7, <1>8 DEF a

\* Memory after loading holds bytes, and none at $ffff.
LEMMA ImageFacts ==
  ASSUME NEW records, Fits(records)
  PROVE  /\ Reader!CoveredBy(records) \subseteq Addr
         /\ \A a \in Reader!CoveredBy(records) : Reader!LastByte(records, a) \in Byte
         /\ IsImage(Reader!Image(records)) /\ AddrSpace - 1 \notin DOMAIN Reader!Image(records)
<1>1. /\ Len(records) \in Nat /\ DOMAIN records = 1..Len(records)
      /\ \A i \in DOMAIN records : records[i] \in FileRecord /\ Len(records[i].bytes) <= AddrSpace
  BY DEF Fits
<1>2. \A i \in DOMAIN records :
        /\ Reader!Covered(records[i]) \subseteq Addr
        /\ \A a \in Reader!Covered(records[i]) : Reader!ByteOf(records[i], a) \in Byte
  BY <1>1, CoveredFacts
<1>3. Reader!CoveredBy(records) \subseteq Addr
  BY <1>2 DEF Reader!CoveredBy
<1>4. ASSUME NEW a \in Reader!CoveredBy(records)
      PROVE  Reader!LastByte(records, a) \in Byte
  <2> DEFINE S == {i \in DOMAIN records : a \in Reader!Covered(records[i])}
  <2>1. S \in SUBSET (0..Len(records)) /\ S # {}
    BY <1>1 DEF Reader!CoveredBy
  <2>2. Reader!Greatest(S) \in S
    BY <1>1, <2>1, GreatestExists
  <2> QED
    BY <1>2, <2>2 DEF Reader!LastByte
<1>5. /\ DOMAIN Reader!Image(records) = Reader!CoveredBy(records) \ {AddrSpace - 1}
      /\ \A a \in DOMAIN Reader!Image(records) :
           Reader!Image(records)[a] = Reader!LastByte(records, a)
  BY DEF Reader!Image
<1> QED
  BY <1>3, <1>4, <1>5 DEF IsImage

\* The range of a ROM: from the entry point to the last byte of code, which
\* lies below the vectors.
LEMMA RomRange ==
  ASSUME NEW records, Fits(records), Reader!Code(records) # {}
  PROVE  /\ Reader!EntryPoint(records) \in Addr /\ Reader!CodeHigh(records) \in Addr
         /\ Reader!EntryPoint(records) <= Reader!CodeHigh(records)
         /\ Reader!CodeHigh(records) < AddrSpace - 2
         /\ \A a \in Reader!Code(records) : a \in Nat /\ a <= Reader!CodeHigh(records)
<1> DEFINE code == Reader!Code(records)
           low  == Reader!CodeLow(records)
           high == Reader!CodeHigh(records)
<1>1. AddrSpace \in Nat /\ AddrSpace > 255
  BY Space
<1>2. code \in SUBSET (0..(AddrSpace - 1)) /\ \A a \in code : a < AddrSpace - 6
  <2>1. code \subseteq Addr
    BY ImageFacts DEF Reader!Code
  <2>2. \A a \in code : a \notin (AddrSpace - 6)..(AddrSpace - 1)
    BY DEF Reader!Code, Reader!Vectors
  <2> QED
    BY <1>1, <2>1, <2>2 DEF Addr
<1> HIDE DEF code
<1>3. AddrSpace - 1 \in Nat
  BY <1>1
<1>4. high \in code /\ \A a \in code : a <= high
  BY <1>2, <1>3, GreatestExists DEF Reader!CodeHigh, code
<1>5. low \in code /\ \A a \in code : low <= a
  <2>1. code \in SUBSET Nat
    BY <1>2
  <2> QED
    BY <2>1, LeastFacts DEF Reader!CodeLow, code
<1> HIDE DEF low, high
<1>6. high \in Nat /\ low \in Nat /\ high < AddrSpace - 6 /\ low <= high
  BY <1>2, <1>4, <1>5
<1>7. Reader!EntryPoint(records) = low \/ Reader!EntryPoint(records) \in low..high
  BY DEF Reader!EntryPoint, low, high
<1>8. Reader!EntryPoint(records) \in low..high
  BY <1>6, <1>7
<1>9. low..high \subseteq Addr /\ high \in Addr /\ high < AddrSpace - 2 /\ \A a \in low..high : a <= high
  BY <1>1, <1>6 DEF Addr
<1>10. \A a \in code : a \in Nat
  BY <1>2
<1> QED
  BY <1>4, <1>8, <1>9, <1>10 DEF code, high

\* The range of an Intel HEX file ends at or after each record that does not
\* go past the top.
LEMMA HexRange ==
  ASSUME NEW records, Fits(records)
  PROVE  /\ Reader!HexBase(records) \in Addr /\ Reader!HexEnd(records) \in Addr
         /\ \A i \in DOMAIN records :
              records[i].addr + Len(records[i].bytes) <= AddrSpace =>
                \A a \in Reader!Covered(records[i]) : a \in Nat /\ a <= Reader!HexEnd(records)
<1>1. /\ Len(records) \in Nat /\ DOMAIN records = 1..Len(records)
      /\ \A i \in DOMAIN records : /\ records[i] \in FileRecord
                                   /\ records[i].addr \in Nat /\ records[i].addr \in Addr
                                   /\ records[i].bytes \in Seq(Byte)
                                   /\ Len(records[i].bytes) \in Nat
  <2>1. \A r \in FileRecord : /\ r.addr \in Nat /\ r.addr \in Addr
                             /\ r.bytes \in Seq(Byte) /\ Len(r.bytes) \in Nat
    BY DEF FileRecord, Addr
  <2>2. /\ Len(records) \in Nat /\ DOMAIN records = 1..Len(records)
        /\ \A i \in DOMAIN records : records[i] \in FileRecord
    BY DEF Fits
  <2> QED
    BY <2>1, <2>2
<1>2. AddrSpace \in Nat /\ AddrSpace > 255 /\ AddrSpace - 1 \in Nat /\ 0 \in Addr
  BY Space DEF Addr
<1>3. Reader!HexBase(records) \in Addr
  <2> DEFINE starts == {i \in DOMAIN records : records[i].addr # 0}
  <2>1. Reader!HexBase(records) = IF starts = {} THEN 0 ELSE records[Reader!Least(starts)].addr
    BY DEF Reader!HexBase
  <2>2. starts \in SUBSET Nat /\ starts \subseteq DOMAIN records
    BY <1>1
  <2>3. starts # {} => Reader!Least(starts) \in starts
    BY <2>2, LeastFacts
  <2> HIDE DEF starts
  <2> QED
    BY <1>1, <1>2, <2>1, <2>2, <2>3
<1> DEFINE ends == {0} \cup {Reader!Narrow(records[i].addr + Len(records[i].bytes) - 1) :
                               i \in DOMAIN records}
           end == Reader!HexEnd(records)
<1>4. \A i \in DOMAIN records : records[i].addr + Len(records[i].bytes) - 1 \in Int
  BY <1>1
<1>5. ends \in SUBSET (0..(AddrSpace - 1)) /\ ends # {}
  <2>1. \A i \in DOMAIN records :
          Reader!Narrow(records[i].addr + Len(records[i].bytes) - 1) \in Addr
    BY <1>4, NarrowFacts
  <2> QED
    BY <1>2, <2>1 DEF Addr
<1>6. end \in ends /\ \A m \in ends : m <= end
  BY <1>2, <1>5, GreatestExists DEF Reader!HexEnd
<1>7. end \in Addr /\ end \in Nat
  BY <1>2, <1>5, <1>6 DEF Addr
<1> HIDE DEF end
<1>8. ASSUME NEW i \in DOMAIN records, records[i].addr + Len(records[i].bytes) <= AddrSpace,
             NEW a \in Reader!Covered(records[i])
      PROVE  a \in Nat /\ a <= end
  <2> DEFINE r == records[i]
             n == Len(r.bytes)
  <2>1. /\ r.addr \in Nat /\ r.bytes \in Seq(Byte) /\ n \in Nat /\ DOMAIN r.bytes = 1..n
        /\ r.addr + n <= AddrSpace
    BY <1>1, <1>8
  <2>2. PICK k \in DOMAIN r.bytes : a = Reader!Narrow(r.addr + k - 1)
    BY DEF Reader!Covered
  <2>3. Reader!Narrow(r.addr + n - 1) <= end
    BY <1>6
  <2> HIDE DEF r, n
  <2>4. k \in Nat /\ 1 <= k /\ k <= n
    BY <2>1, <2>2
  <2>5. r.addr + k - 1 \in Addr /\ r.addr + n - 1 \in Addr /\ r.addr + k - 1 <= r.addr + n - 1
    BY <1>2, <2>1, <2>4 DEF Addr
  <2>6. a = r.addr + k - 1 /\ Reader!Narrow(r.addr + n - 1) = r.addr + n - 1
    BY <2>2, <2>5, NarrowFacts
  <2> QED
    BY <1>2, <1>7, <2>3, <2>5, <2>6 DEF Addr
<1> QED
  BY <1>3, <1>7, <1>8 DEF end

-----------------------------------------------------------------------------
(* The inductive invariant.                                                *)

Idle == {"arguments", "failed", "helped"}

CommandOK ==
  /\ \E c \in Commands : argv = c.argv /\ files = c.files
  /\ phase \in Phases
  /\ argi \in 1..(Len(argv) + 1)
  /\ model \in Model /\ linear \in BOOLEAN
  /\ inputPath = NoPath \/ inputPath \in Members(argv)

\* The analysis as AnalyzeNew leaves it.
Blank ==
  /\ entries = {} /\ instr = {} /\ func = {} /\ label = {} /\ queued = {}
  /\ callers = [a \in lo..hi |-> 0]
  /\ work = <<>> /\ workCap = 0 /\ outOfRange = 0
  /\ running = FALSE /\ pc = NoPc

\* The analysis at any time.
Sane == IInv /\ TargetsExact /\ CallersExact

\* What has been loaded, after the arguments.
Loaded ==
  /\ Unwrapped
  /\ inputPath # NoPath =>
       /\ inputPath \in DOMAIN files
       /\ File.format = "rom" => /\ Reader!Code(Records) # {}
                                 /\ lo = Reader!EntryPoint(Records)
                                 /\ hi = Reader!CodeHigh(Records)
       /\ File.format = "hex" => /\ lo = Reader!HexBase(Records) /\ lo # 0
                                 /\ hi = Reader!HexEnd(Records)

\* How the phases of main go with the analysis ...
Traced ==
  /\ running <=> phase = "tracing"
  /\ phase \in Idle \cup {"loaded", "outOfMemory", "sweeping"} => Blank
  /\ phase \in {"seeded", "tracing", "printing"} => lo <= hi /\ entries = {lo}
  /\ phase \in {"printing", "done"} => work = <<>>

\* ... and with the page.
Paged ==
  /\ lines \in Seq(Line) /\ addr \in Nat /\ consumed \in Nat
  /\ phase \in Idle => lines = <<>> /\ consumed = 0
  /\ phase \in {"loaded", "seeded", "tracing", "outOfMemory"} =>
       addr = lo /\ consumed = 0 /\ lines = <<>>
  /\ phase = "printing" => Ordered /\ Marked
  /\ phase = "sweeping" => Swept /\ cpu # NoCpu
  /\ phase = "done" => /\ InOrder
                       /\ IF Blind THEN lines = <<>> ELSE Whole
                       /\ Blank \/ (entries = {lo} /\ addr > hi /\ Marked)

DInv == /\ CommandOK /\ Sane /\ Traced /\ Paged
        /\ phase \in Idle => cpu = NoCpu
        /\ phase \notin Idle => Loaded

LEMMA BlankIsSane ==
  (cpu = NoCpu \/ cpu \in Model) /\ IsImage(mem) /\ lo \in Addr /\ hi \in Addr /\ Blank => Sane
<1> SUFFICES ASSUME cpu = NoCpu \/ cpu \in Model, IsImage(mem), lo \in Addr, hi \in Addr, Blank
             PROVE  Sane
  OBVIOUS
<1>1. CallerMax \in Nat /\ 0 \in 0..CallerMax
  BY BoundsAssumption
<1>2. TypeOK
  <2>1. callers \in [lo..hi -> 0..CallerMax]
    BY <1>1 DEF Blank
  <2>2. work \in Seq(Addr) /\ workCap \in Nat /\ outOfRange \in Nat
    BY DEF Blank
  <2> QED
    BY <2>1, <2>2 DEF Blank, TypeOK
<1>3. WorklistSafe /\ Pending /\ Accounted
  BY DEF Blank, WorklistSafe, Pending, Accounted, Members
<1>4. Contained
  BY <1>2, NodeFacts, BoundsAssumption DEF Blank, Contained
<1>5. TargetsExact
  BY DEF Blank, TargetsExact, TargetsOf
<1>6. CallersExact
  <2>1. \A a : Calls(a) = {}
    BY DEF Blank, Calls
  <2>2. \A a \in lo..hi : callers[a] = 0
    BY DEF Blank
  <2>3. Held(0) = 0
    BY BoundsAssumption DEF Held
  <2> QED
    BY <2>1, <2>2, <2>3, FS_EmptySet, CallersAsCalls DEF CountsCalls
<1> QED
  BY <1>2, <1>3, <1>4, <1>5, <1>6 DEF Sane, IInv

\* Nothing listed yet.
LEMMA EmptyPage ==
  TypeOK /\ lines = <<>> /\ addr = lo => Ordered /\ Marked
<1> SUFFICES ASSUME TypeOK, lines = <<>>, addr = lo
             PROVE  Ordered /\ Marked
  OBVIOUS
<1>1. Spans = {} /\ Members(lines) = {} /\ lines \in Seq(Line)
  BY DEF Spans, Members
<1>2. lo \in Nat /\ \A s \in instr : s \in Nat /\ lo <= s
  BY RangeFacts
<1>3. \A kinds : Printed(kinds) = {}
  BY <1>1 DEF Printed
<1>4. \A s \in instr : ~(s < addr)
  BY <1>2
<1>5. \A a \in Nat : ~(lo <= a /\ a < addr)
  BY <1>2
<1>6. InOrder /\ Contiguous
  BY <1>1 DEF InOrder, Contiguous
<1>7. Covered
  BY <1>5 DEF Covered
<1>8. Ordered
  BY <1>1, <1>2, <1>6, <1>7 DEF Ordered
<1>9. Marked
  <2>1. Printed({"code", "note"}) = {} /\ Printed({"sub"}) = {}
    BY <1>3
  <2>2. {s \in instr : s < addr} = {}
    BY <1>4
  <2> QED
    BY <1>4, <2>1, <2>2 DEF Marked
<1> QED
  BY <1>8, <1>9

LEMMA InitInv == disInit => DInv
<1> SUFFICES ASSUME disInit PROVE DInv
  OBVIOUS
<1>1. lo = 1 /\ hi = 0 /\ cpu = NoCpu /\ phase = "arguments" /\ lines = <<>> /\ addr = 0 /\ consumed = 0
  BY DEF disInit
<1>2. lo \in Addr /\ hi \in Addr /\ lo..hi = {}
  BY <1>1, Space DEF Addr
<1>3. IsImage(mem)
  BY DEF disInit, IsImage
<1>4. Blank
  BY <1>2 DEF disInit, Blank
<1>5. Sane
  BY <1>1, <1>2, <1>3, <1>4, BlankIsSane
<1>6. CommandOK
  <2>1. "CPU_65C02" \in Model
    BY TablesAssumption DEF cpuNames
  <2>2. argv \in Seq(STRING)
    BY CommandsAssumption DEF disInit
  <2>3. 1 \in 1..(Len(argv) + 1)
    BY <2>2
  <2> QED
    BY <2>1, <2>3 DEF disInit, CommandOK, Phases
<1>7. Traced
  BY <1>1, <1>4 DEF Traced, Idle, Blank
<1>8. Paged
  BY <1>1 DEF Paged, Idle
<1> QED
  BY <1>1, <1>5, <1>6, <1>7, <1>8 DEF DInv, Idle

-----------------------------------------------------------------------------
(* Steps that leave the analysis, or the page, as it is.                   *)

LEMMA SaneStep ==
  ASSUME Sane, [Next]_vars
  PROVE  Sane'
BY StepInvariant, TargetsStep, CallersStep DEF Sane

LEMMA SaneStill ==
  ASSUME Sane, UNCHANGED vars
  PROVE  Sane' /\ (Blank' <=> Blank) /\ (Unwrapped' <=> Unwrapped)
<1>1. Sane'
  BY SaneStep
<1>2. UNCHANGED input
  BY DEF vars, input
<1>3. Unwrapped' <=> Unwrapped
  BY <1>2, StaticGraph DEF Unwrapped
<1>4. Blank' <=> Blank
  BY DEF vars, Blank
<1> QED
  BY <1>1, <1>3, <1>4

LEMMA PageStill ==
  ASSUME UNCHANGED <<vars, listing>>
  PROVE  /\ (Ordered' <=> Ordered) /\ (Marked' <=> Marked) /\ (Swept' <=> Swept)
         /\ (InOrder' <=> InOrder) /\ (Whole' <=> Whole)
<1>1. /\ lines' = lines /\ addr' = addr /\ consumed' = consumed
      /\ UNCHANGED <<lo, hi, instr, func, label, callers>>
  BY DEF vars, listing
<1>2. Spans' = Spans
  BY <1>1 DEF Spans
<1>3. Members(lines)' = Members(lines)
  BY <1>1 DEF Members
<1>4. /\ Printed({"code", "data"})' = Printed({"code", "data"})
      /\ Printed({"code", "note"})' = Printed({"code", "note"})
      /\ Printed({"entry", "sub", "loc", "note"})' = Printed({"entry", "sub", "loc", "note"})
      /\ Printed({"sub"})' = Printed({"sub"})
  BY <1>3 DEF Printed
<1>5. Shown' = Shown
  BY <1>4 DEF Shown
<1>6. InOrder' <=> InOrder
  BY <1>1, <1>2 DEF InOrder
<1>7. Ordered' <=> Ordered
  BY <1>1, <1>2, <1>5, <1>6 DEF Ordered, Contiguous, Covered
<1>8. Marked' <=> Marked
  BY <1>1, <1>4 DEF Marked
<1>9. SweepLength' = SweepLength /\ Bottom' = Bottom
  BY <1>1 DEF SweepLength, Bottom
<1>10. Whole' <=> Whole
  BY <1>1, <1>5, <1>9 DEF Whole
<1>11. Swept' <=> Swept
  BY <1>1, <1>7, <1>9 DEF Swept
<1> QED
  BY <1>6, <1>7, <1>8, <1>10, <1>11

\* Steps of main's own: the arguments, and the changes of phase that print
\* nothing and analyse nothing.
LEMMA CommandStep ==
  ASSUME DInv, UNCHANGED <<vars, listing>>, CommandOK', Traced',
         \/ phase \in Idle /\ phase' \in Idle
         \/ phase \notin Idle /\ phase' \notin Idle /\ UNCHANGED <<files, inputPath>>,
         phase' = phase \/ phase' \in Idle \cup {"outOfMemory"},
         phase' = "outOfMemory" => phase \in {"loaded", "outOfMemory"}
  PROVE  DInv'
<1>1. Sane' /\ (Blank' <=> Blank) /\ (Unwrapped' <=> Unwrapped) /\ cpu' = cpu
  BY SaneStill DEF DInv, vars
<1>2. /\ lines' = lines /\ addr' = addr /\ consumed' = consumed /\ lo' = lo /\ hi' = hi
      /\ entries' = entries
  BY DEF vars, listing
<1>3. phase' \notin Idle => Loaded'
  BY <1>1, <1>2 DEF DInv, Loaded, File, Records
<1>4. Paged'
  <2>1. Blind' <=> Blind
    BY <1>1, <1>2 DEF Blind
  <2>2. CASE phase' = "done"
    <3>1. phase = "done"
      BY <2>2 DEF Idle
    <3> QED
      BY <1>1, <1>2, <2>1, <2>2, <3>1, PageStill DEF DInv, Paged, Idle
  <2>3. CASE phase' # "done"
    BY <1>1, <1>2, <2>3, PageStill DEF DInv, Paged, Idle
  <2> QED
    BY <2>2, <2>3
<1>5. phase' \in Idle => cpu' = NoCpu
  BY <1>1 DEF DInv
<1> QED
  BY <1>1, <1>3, <1>4, <1>5 DEF DInv

LEMMA ArgsStep ==
  ASSUME DInv, ArgCpu \/ ArgLinear \/ ArgPath \/ ArgHelp \/ ArgWrong \/ LoadFails
  PROVE  DInv'
<1>1. /\ UNCHANGED <<vars, listing, argv, files>> /\ phase = "arguments"
      /\ phase' \in {phase, "helped", "failed"}
  BY DEF ArgCpu, ArgLinear, ArgPath, ArgHelp, ArgWrong, LoadFails, NextArg, ArgsDone, command
<1>2. argv \in Seq(STRING) /\ Len(argv) \in Nat /\ argi \in 1..(Len(argv) + 1)
  <2>1. argv \in Seq(STRING)
    BY CommandsAssumption DEF DInv, CommandOK
  <2> QED
    BY <2>1 DEF DInv, CommandOK
<1>3. /\ argi' \in 1..(Len(argv) + 1) /\ model' \in Model /\ linear' \in BOOLEAN
      /\ inputPath' = NoPath \/ inputPath' \in Members(argv)
  <2>1. CASE ArgCpu
    <3>1. cpuNames[argv[argi + 1]] \in Model
      BY <2>1, TablesAssumption DEF ArgCpu, CpuNamed
    <3> QED
      BY <1>2, <2>1, <3>1 DEF ArgCpu, CpuNamed, DInv, CommandOK
  <2>2. CASE ArgLinear
    BY <1>2, <2>2 DEF ArgLinear, NextArg, DInv, CommandOK
  <2>3. CASE ArgPath
    BY <1>2, <2>3 DEF ArgPath, NextArg, Arg, Members, DInv, CommandOK
  <2>4. CASE ArgHelp \/ ArgWrong \/ LoadFails
    BY <1>2, <2>4 DEF ArgHelp, ArgWrong, LoadFails, command, DInv, CommandOK
  <2> QED
    BY <2>1, <2>2, <2>3, <2>4
<1>4. CommandOK'
  BY <1>1, <1>3 DEF DInv, CommandOK, Phases, Members
<1>5. Traced'
  BY <1>1, SaneStill DEF DInv, Traced, Idle, vars
<1> QED
  BY <1>1, <1>4, <1>5, CommandStep DEF Idle

LEMMA NoAnalysisStep ==
  ASSUME DInv, NoAnalysis
  PROVE  DInv'
<1>1. UNCHANGED <<vars, listing, command>> /\ phase = "loaded" /\ phase' = "outOfMemory"
  BY DEF NoAnalysis
<1>2. CommandOK'
  BY <1>1 DEF DInv, CommandOK, Phases, Members, command
<1>3. Traced'
  BY <1>1, SaneStill DEF DInv, Traced, Idle, vars
<1> QED
  BY <1>1, <1>2, <1>3, CommandStep DEF Idle, command

LEMMA StillStep ==
  ASSUME DInv, UNCHANGED disVars
  PROVE  DInv'
<1>1. UNCHANGED <<vars, listing, command>> /\ phase' = phase
  BY DEF disVars
<1>2. CommandOK'
  BY <1>1 DEF DInv, CommandOK, Phases, Members, command
<1>3. Traced'
  BY <1>1, SaneStill DEF DInv, Traced, Idle, vars
<1> QED
  BY <1>1, <1>2, <1>3, CommandStep DEF Idle, command

-----------------------------------------------------------------------------
(* Loading.                                                                *)

\* Every file named by a command is one the loader can be given.
LEMMA FileFacts ==
  ASSUME CommandOK
  PROVE  inputPath \in DOMAIN files => Fits(Records)
<1>1. PICK c \in Commands : argv = c.argv /\ files = c.files
  BY DEF CommandOK
<1>2. ASSUME inputPath \in DOMAIN files
      PROVE  Fits(Records)
  <2>1. /\ Records \in Seq(FileRecord)
        /\ \A i \in DOMAIN Records :
             IF File.format = "rom" THEN Len(Records[i].bytes) > 0
                                         /\ Records[i].addr + Len(Records[i].bytes) <= AddrSpace
             ELSE Len(Records[i].bytes) < 256
    BY <1>1, <1>2, CommandsAssumption DEF Records, File
  <2>2. \A r \in FileRecord : r.addr \in Nat /\ Len(r.bytes) \in Nat
    BY DEF FileRecord, Addr
  <2>3. \A i \in DOMAIN Records : Records[i] \in FileRecord
    BY <2>1
  <2>4. AddrSpace \in Nat /\ AddrSpace > 255
    BY Space
  <2>5. \A i \in DOMAIN Records : Len(Records[i].bytes) <= AddrSpace
    BY <2>1, <2>2, <2>3, <2>4
  <2> QED
    BY <2>1, <2>5 DEF Fits
<1> QED
  BY <1>2

LEMMA LoadsStep ==
  ASSUME DInv, ArgsDone, NEW image, NEW base, NEW end, Loads(image, base, end),
         IsImage(image), AddrSpace - 1 \notin DOMAIN image,
         base \in Addr, end \in Addr, base > 0 \/ end < AddrSpace - 2,
         inputPath # NoPath =>
           /\ inputPath \in DOMAIN files
           /\ File.format = "rom" => /\ Reader!Code(Records) # {}
                                     /\ base = Reader!EntryPoint(Records)
                                     /\ end = Reader!CodeHigh(Records)
           /\ File.format = "hex" => /\ base = Reader!HexBase(Records) /\ base # 0
                                     /\ end = Reader!HexEnd(Records)
  PROVE  DInv'
<1>1. /\ mem' = image /\ lo' = base /\ hi' = end /\ addr' = base /\ phase' = "loaded"
      /\ cpu' = model \/ cpu' = NoCpu
      /\ UNCHANGED <<entries, instr, func, label, queued, work, workCap, outOfRange,
                     running, pc, consumed, lines, command>>
      /\ callers' = [a \in base..end |-> 0]
  BY DEF Loads
<1>2. phase = "arguments" /\ Blank /\ lines = <<>> /\ consumed = 0 /\ model \in Model
  BY DEF ArgsDone, DInv, Traced, Paged, CommandOK, Idle
<1>3. Blank'
  BY <1>1, <1>2 DEF Blank
<1>4. (cpu' = NoCpu \/ cpu' \in Model) /\ IsImage(mem)' /\ lo' \in Addr /\ hi' \in Addr
  BY <1>1, <1>2 DEF IsImage
<1>5. Sane'
  <2>1. (cpu = NoCpu \/ cpu \in Model)' /\ IsImage(mem)' /\ (lo \in Addr)' /\ (hi \in Addr)'
    BY <1>4, Space DEF Addr
  <2> QED
    BY <1>3, <2>1, BlankIsSane, PTL
<1>6. Unwrapped'
  <2>1. Mnemonic(model, 0) = "brk" /\ NoCpu \notin Model
    BY <1>2, TablesAssumption, TableAssumption
  <2>2. cpu' # NoCpu => LenAt(AddrSpace - 1)' = DisInstLen(model, 0)
    BY <1>1 DEF LenAt, InstLen, Read
  <2>3. DisInstLen(model, 0) = 2
    BY <1>2, <2>1 DEF DisInstLen, disIsBitBranch, disIsBrk
  <2> QED
    BY <1>1, <2>2, <2>3 DEF Unwrapped
<1>7. Loaded'
  BY <1>1, <1>4, <1>6 DEF Loaded, command, File, Records
<1>8. CommandOK'
  BY <1>1 DEF DInv, CommandOK, Phases, Members, command
<1>9. Traced'
  BY <1>1, <1>2, <1>3 DEF DInv, Traced, Idle
<1>10. base \in Nat
  BY Space DEF Addr
<1>11. Paged'
  BY <1>1, <1>2, <1>10 DEF Paged, Idle
<1> QED
  BY <1>1, <1>5, <1>7, <1>8, <1>9, <1>11 DEF DInv, Idle

LEMMA LoadDemoStep ==
  ASSUME DInv, LoadDemo
  PROVE  DInv'
<1> DEFINE image == [a \in \h0200..\h020b |-> demo_image[a - \h01ff]]
<1>1. ArgsDone /\ inputPath = NoPath /\ Loads(image, \h0200, \h020b)
  BY DEF LoadDemo
<1>2. demo_image \in [1..12 -> Byte]
  BY DEF demo_image, Byte
<1>3. AddrSpace > 600 /\ AddrSpace \in Nat
  BY SMT DEF AddrSpace
<1>4. \h0200 \in Addr /\ \h020b \in Addr /\ \h0200 > 0 /\ \h0200..\h020b \subseteq Addr
  BY <1>3, SMT DEF Addr
<1>5. \A a \in \h0200..\h020b : a - \h01ff \in 1..12
  BY SMT
<1>6. IsImage(image)
  BY <1>2, <1>4, <1>5 DEF IsImage
<1>7. AddrSpace - 1 \notin \h0200..\h020b
  BY <1>3, SMT
<1>8. AddrSpace - 1 \notin DOMAIN image
  BY <1>7
<1> HIDE DEF image
<1> QED
  BY <1>1, <1>4, <1>6, <1>8, LoadsStep

LEMMA LoadFileStep ==
  ASSUME DInv, LoadRom \/ LoadHex
  PROVE  DInv'
<1>1. ArgsDone /\ inputPath \in DOMAIN files /\ File.format = IF LoadRom THEN "rom" ELSE "hex"
  BY DEF LoadRom, LoadHex, Readable
<1>2. Fits(Records)
  BY <1>1, FileFacts DEF DInv
<1>3. IsImage(Reader!Image(Records)) /\ AddrSpace - 1 \notin DOMAIN Reader!Image(Records)
  BY <1>2, ImageFacts
<1>4. CASE LoadRom
  <2>1. /\ File.format = "rom" /\ Reader!Code(Records) # {}
        /\ Loads(Reader!Image(Records), Reader!EntryPoint(Records), Reader!CodeHigh(Records))
    BY <1>4 DEF LoadRom, Readable
  <2>2. /\ Reader!EntryPoint(Records) \in Addr /\ Reader!CodeHigh(Records) \in Addr
        /\ Reader!CodeHigh(Records) < AddrSpace - 2
    BY <1>2, <2>1, RomRange
  <2> QED
    BY <1>1, <1>3, <2>1, <2>2, LoadsStep
<1>5. CASE LoadHex
  <2>1. /\ File.format = "hex" /\ Reader!HexBase(Records) # 0
        /\ Loads(Reader!Image(Records), Reader!HexBase(Records), Reader!HexEnd(Records))
    BY <1>5 DEF LoadHex, Readable, HexLoads
  <2>2. Reader!HexBase(Records) \in Addr /\ Reader!HexEnd(Records) \in Addr
    BY <1>2, HexRange
  <2>3. Reader!HexBase(Records) > 0
    BY <2>1, <2>2, Space DEF Addr
  <2> QED
    BY <1>1, <1>3, <2>1, <2>2, <2>3, LoadsStep
<1> QED
  BY <1>4, <1>5

-----------------------------------------------------------------------------
(* The calls on the analysis.                                              *)

\* What a step of the analysis leaves of all that has been loaded.
LEMMA LoadedStays ==
  ASSUME Loaded, UNCHANGED input, UNCHANGED <<files, inputPath>>
  PROVE  Loaded'
<1>1. cpu' = cpu /\ lo' = lo /\ hi' = hi /\ (Unwrapped' <=> Unwrapped)
  BY StaticGraph DEF Unwrapped
<1> QED
  BY <1>1 DEF Loaded, File, Records

LEMMA SeedStep ==
  ASSUME DInv, Seed
  PROVE  DInv'
<1>1. /\ phase = "loaded" /\ lo <= hi /\ AnalyzeAddEntry(lo) /\ phase' = "seeded"
      /\ UNCHANGED <<listing, command>>
  BY DEF Seed
<1>2. /\ UNCHANGED <<input, instr, label, callers, running, pc>> /\ UNCHANGED input
      /\ func' = func \cup {lo} /\ entries' = entries \cup {lo}
  BY <1>1 DEF AnalyzeAddEntry
<1>3. Blank /\ TypeOK /\ IInv /\ CallersExact /\ addr = lo /\ consumed = 0 /\ lines = <<>>
  BY <1>1 DEF DInv, Sane, IInv, Traced, Paged
<1>4. lo' = lo /\ hi' = hi /\ lo \in Addr /\ lo \in lo..hi
  BY <1>1, <1>2, <1>3, RangeFacts, StaticGraph DEF TypeOK
<1>5. IInv'
  BY <1>1, <1>3, <1>4, AddEntryStep
<1>6. TargetsExact'
  <2>1. entries' = {lo} /\ func' = {lo} /\ instr' = {} /\ label' = {}
    BY <1>2, <1>3 DEF Blank
  <2>2. \A flows : TargetsOf(flows)' = {}
    BY <2>1 DEF TargetsOf
  <2> QED
    BY <2>1, <2>2 DEF TargetsExact
<1>7. CallersExact'
  <2>1. \A a : Calls(a)' = Calls(a)
    BY <1>2, StaticGraph DEF Calls
  <2> QED
    BY <1>2, <1>3, <1>4, <2>1, CallersAsCalls DEF CountsCalls, Held
<1>8. Loaded'
  BY <1>1, <1>2, LoadedStays DEF DInv, Idle, command
<1>9. CommandOK'
  BY <1>1 DEF DInv, CommandOK, Phases, Members, command
<1>10. Traced'
  BY <1>1, <1>2, <1>3, <1>4 DEF Traced, Idle, Blank
<1>11. Paged'
  BY <1>1, <1>3, <1>4 DEF DInv, Paged, Idle, listing
<1> QED
  BY <1>1, <1>5, <1>6, <1>7, <1>8, <1>9, <1>10, <1>11 DEF DInv, Sane, Idle

LEMMA TracingStep ==
  ASSUME DInv, CallRun \/ Trace
  PROVE  DInv'
<1>1. /\ phase \in {"seeded", "tracing"} /\ phase' = "tracing" /\ running' = TRUE
      /\ UNCHANGED <<listing, command>> /\ UNCHANGED input /\ UNCHANGED entries
  <2>1. CASE CallRun
    BY <2>1 DEF CallRun, AnalyzeRun
  <2>2. CASE Trace
    <3>1. running = TRUE
      BY <2>2 DEF Trace, DInv, Sane, IInv, TypeOK, Traced
    <3> QED
      BY <2>2, <3>1 DEF Trace, Pop, EndTrail, TraceCall, TraceJump, TraceOther
  <2> QED
    BY <2>1, <2>2
<1>2. Next
  BY DEF CallRun, Trace, Next, Step
<1>3. Sane'
  BY <1>2, SaneStep DEF DInv
<1>4. Loaded'
  BY <1>1, LoadedStays DEF DInv, Idle, command
<1>5. CommandOK'
  BY <1>1 DEF DInv, CommandOK, Phases, Members, command
<1>6. lo' = lo /\ hi' = hi
  BY <1>1, StaticGraph
<1>7. Traced'
  BY <1>1, <1>6 DEF DInv, Traced, Idle
<1>8. Paged'
  BY <1>1, <1>6 DEF DInv, Paged, Idle, listing
<1> QED
  BY <1>1, <1>3, <1>4, <1>5, <1>7, <1>8 DEF DInv, Idle

LEMMA RunReturnsStep ==
  ASSUME DInv, RunReturns
  PROVE  DInv'
<1>1. /\ phase = "tracing" /\ Return /\ phase' = "printing" /\ UNCHANGED <<listing, command>>
  BY DEF RunReturns
<1>2. /\ running' = FALSE /\ work = <<>> /\ work' = work /\ UNCHANGED input /\ UNCHANGED entries
  BY <1>1 DEF Return
<1>3. Sane'
  BY <1>1, SaneStep DEF DInv, Next, Step
<1>4. Loaded'
  BY <1>1, <1>2, LoadedStays DEF DInv, Idle, command
<1>5. CommandOK'
  BY <1>1 DEF DInv, CommandOK, Phases, Members, command
<1>6. lo' = lo /\ hi' = hi
  BY <1>2, StaticGraph
<1>7. Traced'
  BY <1>1, <1>2, <1>6 DEF DInv, Traced, Idle
<1>8. Ordered' /\ Marked'
  <2>1. TypeOK' /\ (lines = <<>>)' /\ (addr = lo)'
    BY <1>1, <1>3, <1>6 DEF DInv, Paged, listing, Sane, IInv
  <2> QED
    BY <2>1, EmptyPage, PTL
<1>9. Paged'
  BY <1>1, <1>8 DEF DInv, Paged, Idle, listing
<1> QED
  BY <1>1, <1>3, <1>4, <1>5, <1>7, <1>9 DEF DInv, Idle

-----------------------------------------------------------------------------
(* The listing.                                                            *)

LEMMA PrintStep ==
  ASSUME DInv, PrintLines
  PROVE  DInv'
<1>1. /\ phase = "printing" /\ UNCHANGED vars /\ UNCHANGED command
  BY DEF PrintLines, PrintData, PrintInstruction, PrintReturns
<1>2. /\ TypeOK /\ Unwrapped /\ Ordered /\ Marked /\ work = <<>>
      /\ lo <= hi /\ entries = {lo} /\ consumed \in Nat
  BY <1>1 DEF DInv, Sane, IInv, Loaded, Traced, Paged, Idle
<1>3. Sane' /\ cpu' = cpu /\ UNCHANGED input /\ lo' = lo /\ hi' = hi /\ entries' = entries
      /\ work' = work /\ running' = running
  BY <1>1, SaneStill DEF DInv, vars, input
<1>4. Loaded'
  BY <1>1, <1>3, LoadedStays DEF DInv, Idle, command
<1>5. phase' \in {"printing", "done"}
  BY <1>1 DEF PrintLines, PrintData, PrintInstruction, PrintReturns
<1>6. CommandOK'
  BY <1>1, <1>5 DEF DInv, CommandOK, Phases, Members, command
<1>7. Traced'
  BY <1>1, <1>2, <1>3, <1>5 DEF DInv, Traced, Idle
<1>8. CASE PrintData \/ PrintInstruction
  <2>1. Ordered' /\ Marked'
    <3>1. PrintInstruction => cpu # NoCpu
      BY <1>2, Undecoded DEF PrintInstruction
    <3> QED
      BY <1>2, <1>8, <3>1, PrintDataStep, PrintInstructionStep
  <2>2. phase' = "printing" /\ consumed' = consumed
    BY <1>1, <1>8 DEF PrintData, PrintInstruction
  <2>3. Paged'
    BY <1>2, <2>1, <2>2 DEF Paged, Idle, Ordered
  <2> QED
    BY <1>3, <1>4, <1>6, <1>7, <2>2, <2>3 DEF DInv, Idle
<1>9. CASE PrintReturns
  <2>1. addr > hi /\ phase' = "done" /\ UNCHANGED <<vars, listing>>
    BY <1>9 DEF PrintReturns
  <2>2. InOrder' /\ Whole' /\ Marked'
    BY <1>2, <2>1, PrintedWhole, PageStill DEF Ordered
  <2>3. addr' > hi' /\ lines' = lines /\ addr' = addr /\ consumed' = consumed
    BY <1>3, <2>1 DEF listing
  <2>4. Paged'
    BY <1>2, <1>3, <2>1, <2>2, <2>3 DEF Paged, Idle, Ordered, Blind
  <2> QED
    BY <1>3, <1>4, <1>6, <1>7, <2>1, <2>4 DEF DInv, Idle
<1> QED
  BY <1>8, <1>9 DEF PrintLines

LEMMA StartSweepStep ==
  ASSUME DInv, StartSweep, phase \in {"loaded", "outOfMemory"}, UNCHANGED command
  PROVE  DInv'
<1>1. /\ UNCHANGED <<vars, listing>> /\ UNCHANGED vars
      /\ phase' = IF cpu = NoCpu \/ SweepLength = 0 THEN "done" ELSE "sweeping"
  BY DEF StartSweep
<1>2. /\ TypeOK /\ Sane /\ Loaded /\ Blank
      /\ addr = lo /\ consumed = 0 /\ lines = <<>> /\ lines \in Seq(Line) /\ addr \in Nat
  BY DEF DInv, Sane, IInv, Traced, Paged, Idle
<1>3. /\ Sane' /\ Blank' /\ lo' = lo /\ hi' = hi /\ UNCHANGED input
      /\ cpu' = cpu /\ entries' = {}
  BY <1>1, <1>2, SaneStill DEF vars, input, Blank
<1>4. Loaded'
  BY <1>2, <1>3, LoadedStays DEF command
<1>5. CommandOK'
  BY <1>1 DEF DInv, CommandOK, Phases, Members, command
<1>6. Traced'
  BY <1>1, <1>3 DEF Traced, Idle, Blank
<1>7. Ordered
  BY <1>2, EmptyPage
<1>8. SweepLength \in Nat /\ SweepLength' = SweepLength
  BY <1>2, <1>3, SweepLengthFacts DEF SweepLength
<1>9. Ordered' /\ InOrder'
  BY <1>1, <1>7, PageStill DEF Ordered
<1>10. lines' = lines /\ addr' = addr /\ consumed' = consumed
  BY <1>1 DEF listing
<1>11. CASE cpu = NoCpu \/ SweepLength = 0
  <2>1. phase' = "done" /\ IF Blind' THEN (lines = <<>>)' ELSE Whole'
    BY <1>1, <1>2, <1>3, <1>8, <1>10, <1>11 DEF Whole, Blind
  <2>2. Paged'
    BY <1>2, <1>3, <1>9, <1>10, <2>1 DEF Paged, Idle
  <2> QED
    BY <1>3, <1>4, <1>5, <1>6, <2>1, <2>2 DEF DInv, Idle
<1>12. CASE cpu # NoCpu /\ SweepLength # 0
  <2>1. lo \in Nat /\ lo \in Addr
    BY <1>2, RangeFacts DEF TypeOK
  <2>2. Swept'
    BY <1>2, <1>3, <1>8, <1>9, <1>10, <1>12, <2>1 DEF Swept
  <2>3. phase' = "sweeping"
    BY <1>1, <1>12
  <2>4. Paged'
    BY <1>2, <1>3, <1>10, <1>12, <2>2, <2>3 DEF Paged, Idle
  <2> QED
    BY <1>3, <1>4, <1>5, <1>6, <2>3, <2>4 DEF DInv, Idle
<1> QED
  BY <1>11, <1>12

LEMMA SweepStep ==
  ASSUME DInv, Sweep
  PROVE  DInv'
<1>1. CASE StartSweep /\ phase \in {"loaded", "outOfMemory"}
  BY <1>1, StartSweepStep DEF Sweep
<1>2. CASE Emit
  <2>1. phase = "sweeping" /\ UNCHANGED vars /\ UNCHANGED command
    BY <1>2 DEF Emit, Sweep
  <2>2. TypeOK /\ cpu # NoCpu /\ Sane /\ Loaded /\ Blank /\ Swept
    BY <2>1 DEF DInv, Sane, IInv, Traced, Paged, Idle, Loaded
  <2>3. /\ addr' \in Nat /\ consumed' \in Nat /\ InOrder' /\ lines' \in Seq(Line)
        /\ \/ phase' = "sweeping" /\ Swept'
           \/ phase' = "done" /\ Whole'
    BY <1>2, <2>2, EmitStep
  <2>4. Sane' /\ Blank' /\ UNCHANGED input /\ cpu' # NoCpu
    BY <2>1, <2>2, SaneStill DEF vars, input
  <2>5. Loaded'
    BY <2>1, <2>2, <2>4, LoadedStays DEF command
  <2>6. CommandOK'
    BY <2>1, <2>3 DEF DInv, CommandOK, Phases, Members, command
  <2>7. Traced'
    BY <2>3, <2>4 DEF Traced, Idle, Blank
  <2>8. Paged'
    BY <2>3, <2>4 DEF Paged, Idle, Blind
  <2> QED
    BY <2>3, <2>4, <2>5, <2>6, <2>7, <2>8 DEF DInv, Idle
<1> QED
  BY <1>1, <1>2 DEF Sweep

LEMMA StepInv == DInv /\ [disNext]_disVars => DInv'
<1> SUFFICES ASSUME DInv, [disNext]_disVars PROVE DInv'
  OBVIOUS
<1>1. CASE ArgCpu \/ ArgLinear \/ ArgPath \/ ArgHelp \/ ArgWrong \/ LoadFails
  BY <1>1, ArgsStep
<1>2. CASE LoadDemo \/ LoadRom \/ LoadHex
  BY <1>2, LoadDemoStep, LoadFileStep
<1>3. CASE NoAnalysis \/ Seed
  BY <1>3, NoAnalysisStep, SeedStep
<1>4. CASE CallRun \/ Trace \/ RunReturns
  BY <1>4, TracingStep, RunReturnsStep
<1>5. CASE PrintLines \/ Sweep
  BY <1>5, PrintStep, SweepStep
<1>6. CASE Exit \/ UNCHANGED disVars
  BY <1>6, StillStep DEF Exit
<1> QED
  BY <1>1, <1>2, <1>3, <1>4, <1>5, <1>6 DEF disNext, disStep

-----------------------------------------------------------------------------
(* The theorems.                                                           *)

\* The invariant the others are read off.
THEOREM ListingInvariance == disSpec => []DInv
BY InitInv, StepInv, PTL DEF disSpec

\* Every variable of main and of the analysis keeps to its range, whatever the
\* command, the file and the allocator.
THEOREM ListingTypeCorrect == disSpec => []dis_TypeOK
<1>1. DInv => dis_TypeOK
  BY DEF DInv, CommandOK, Sane, IInv, Paged, dis_TypeOK, listing_TypeOK
<1> QED
  BY <1>1, ListingInvariance, PTL

\* Every line that stands for bytes begins where the one before it ended, the
\* first at the entry point, and none beyond the range.
THEOREM LinesInOrder == disSpec => []InOrder
<1>1. DInv => InOrder
  <2> SUFFICES ASSUME DInv PROVE InOrder
    OBVIOUS
  <2>1. CASE lines = <<>>
    BY <2>1 DEF InOrder, Spans
  <2>2. CASE phase \in {"printing", "sweeping", "done"}
    BY <2>2 DEF DInv, Paged, Swept, Ordered
  <2> QED
    BY <2>1, <2>2 DEF DInv, CommandOK, Phases, Paged, Idle
<1> QED
  BY <1>1, ListingInvariance, PTL

\* A listing that has ended has come to the end of its range, or to the top of
\* memory if its range wraps; a flat one without a CPU has not begun.
THEOREM ListingShowsTheEnd == disSpec => []ShownToTheEnd
<1>1. DInv => ShownToTheEnd
  <2> SUFFICES ASSUME DInv, phase = "done" PROVE ShownToTheEnd
    BY DEF ShownToTheEnd
  <2>1. TypeOK /\ lines \in Seq(Line) /\ IF Blind THEN lines = <<>> ELSE Whole
    BY DEF DInv, Sane, IInv, Paged
  <2> QED
    BY <2>1, WholeShows
<1> QED
  BY <1>1, ListingInvariance, PTL

\* A failing realloc loses nothing but the targets it could not store.
THEOREM ListingLosesOnlyDropped == disSpec => []OnlyDroppedMissing
<1>1. DInv => OnlyDroppedMissing
  BY MissingWereDropped DEF DInv, Sane
<1> QED
  BY <1>1, ListingInvariance, PTL

\* An analysed listing that has ended.
LEMMA AnalysedFacts ==
  ASSUME DInv, Analysed
  PROVE  /\ IInv /\ TypeOK /\ TargetsExact /\ CallersExact /\ Marked
         /\ cpu = NoCpu => instr = {}
         /\ entries = {lo} /\ pc = NoPc /\ Members(work) = {}
         /\ \A s \in instr : s < addr
<1>1. IInv /\ TypeOK /\ TargetsExact /\ CallersExact
  BY DEF DInv, Sane, IInv
<1>2. phase = "done" /\ entries # {} /\ work = <<>> /\ ~running
  BY DEF Analysed, Settled
<1>3. entries = {lo} /\ addr > hi /\ Marked /\ addr \in Nat
  BY <1>2 DEF DInv, Paged, Blank
<1>4. cpu = NoCpu => instr = {}
  BY <1>1, Undecoded
<1>5. pc = NoPc /\ Members(work) = {}
  BY <1>1, <1>2 DEF TypeOK, Members
<1>6. \A s \in instr : s < addr
  BY <1>1, <1>3, RangeFacts
<1> QED
  BY <1>1, <1>3, <1>4, <1>5, <1>6

\* Every instruction the analysis has marked is printed or noted, and nothing
\* that it has not marked is.
THEOREM ListingShowsEveryStart == disSpec => []EveryStartShown
<1>1. DInv => EveryStartShown
  <2> SUFFICES ASSUME DInv, Analysed PROVE instr = {l.first : l \in Printed({"code", "note"})}
    BY DEF EveryStartShown
  <2>1. {l.first : l \in Printed({"code", "note"})} = {s \in instr : s < addr}
    BY AnalysedFacts DEF Marked
  <2>2. {s \in instr : s < addr} = instr
    BY AnalysedFacts
  <2> QED
    BY <2>1, <2>2
<1> QED
  BY <1>1, ListingInvariance, PTL

\* A target in the range that was not lost has a header or a note.
THEOREM ListingShowsTargets == disSpec => []TargetsShown
<1>1. DInv => TargetsShown
  <2> SUFFICES ASSUME DInv, Analysed, NEW s \in instr,
                      HasTarget(s), inRange(TargetAt(s)), TargetAt(s) \in queued
               PROVE  \E l \in Printed({"entry", "sub", "loc", "note"}) : l.first = TargetAt(s)
    BY DEF TargetsShown
  <2> DEFINE t == TargetAt(s)
  <2>1. s \in Addr /\ t \in Addr /\ t \in lo..hi
    BY AnalysedFacts, NodeFacts DEF TypeOK
  <2>2. LenAt(t) # 0
    BY AnalysedFacts, LenPositive
  <2>3. t \in Node /\ NoPc \notin Node
    BY <2>1, <2>2, AnalysedFacts, NodeFacts, BoundsAssumption DEF Node
  <2>4. t \in instr
    BY <2>3, AnalysedFacts DEF IInv, Pending
  <2>5. t \in func \cup label
    <3>1. t \in TargetsOf({"Call"}) \/ t \in TargetsOf({"Jump", "Branch"})
      BY DEF TargetsOf, HasTarget, TargetFlows
    <3> QED
      BY <2>1, <3>1, AnalysedFacts DEF TargetsExact
  <2> HIDE DEF t
  <2>6. \E l \in Printed({"entry", "sub", "loc", "note"}) : l.first = t
    BY <2>4, <2>5, AnalysedFacts DEF Marked
  <2> QED
    BY <2>6 DEF t
<1> QED
  BY <1>1, ListingInvariance, PTL

\* The caller count printed for a function is that of the traced JSRs to it,
\* and only the entry point may have none.
THEOREM ListingCountsCallers == disSpec => []CallerCounts
<1>1. DInv => CallerCounts
  <2> SUFFICES ASSUME DInv, Analysed, NEW l \in Printed({"sub"})
               PROVE  LET n == Cardinality(Sites(l.first, {"Call"}))
                      IN  n > 0 /\ l.callers = IF n > CallerMax THEN CallerMax ELSE n
    BY DEF CallerCounts
  <2>1. l.first \in func /\ l.first # lo /\ l.callers = callers[l.first]
    BY AnalysedFacts DEF Marked
  <2>2. l.first \in lo..hi /\ l.first \in TargetsOf({"Call"})
    BY <2>1, AnalysedFacts DEF TargetsExact, TypeOK
  <2>3. Sites(l.first, {"Call"}) # {} /\ Sites(l.first, {"Call"}) \in SUBSET instr
    BY <2>2 DEF TargetsOf, Sites
  <2>4. IsFiniteSet(Sites(l.first, {"Call"}))
    BY <2>3, AnalysedFacts, TracedFinite
  <2>5. Cardinality(Sites(l.first, {"Call"})) \in Nat /\ Cardinality(Sites(l.first, {"Call"})) # 0
    BY <2>3, <2>4, FS_CardinalityType, FS_EmptySet
  <2>6. Cardinality(Sites(l.first, {"Call"})) > 0
    BY <2>5
  <2>7. callers[l.first] = IF Cardinality(Sites(l.first, {"Call"})) > CallerMax
                           THEN CallerMax ELSE Cardinality(Sites(l.first, {"Call"}))
    BY <2>2, AnalysedFacts DEF CallersExact
  <2> QED
    BY <2>1, <2>6, <2>7
<1> QED
  BY <1>1, ListingInvariance, PTL

\* Every byte a file has loaded at or above its entry point is listed, in
\* whatever order its records come, unless one of them goes past the top; none
\* is when the listing is flat and DisInit got no memory.
THEOREM ListingShowsTheFile == disSpec => []LoadedListed
<1>1. DInv => LoadedListed
  <2> DEFINE loaded == IF File.format = "rom" THEN Reader!Code(Records) ELSE Reader!CoveredBy(Records)
  <2> SUFFICES ASSUME DInv, phase = "done", inputPath # NoPath,
                      ~Blind,
                      \A i \in DOMAIN Records : Records[i].addr + Len(Records[i].bytes) <= AddrSpace,
                      NEW a \in loaded, lo <= a
               PROVE  a \in Shown
    <3>1. DInv /\ phase = "done" /\ Blind => Printed({"code", "data"}) = {}
      BY DEF DInv, Paged, Printed, Members
    <3> QED
      BY <3>1 DEF LoadedListed, Shown
  <2>1. CommandOK /\ Loaded /\ TypeOK /\ Whole
    BY DEF DInv, Sane, IInv, Paged, Idle
  <2>2. inputPath \in DOMAIN files /\ Fits(Records)
    BY <2>1, FileFacts DEF Loaded
  <2>3. File.format \in {"rom", "hex"}
    BY <2>1, <2>2, CommandsAssumption DEF CommandOK, File
  <2>4. a \in Nat /\ a <= hi
    <3>1. CASE File.format = "rom"
      BY <2>1, <2>2, <3>1, RomRange DEF Loaded
    <3>2. CASE File.format = "hex"
      <4>1. PICK i \in DOMAIN Records : a \in Reader!Covered(Records[i])
        BY <3>2 DEF Reader!CoveredBy
      <4> QED
        BY <2>1, <2>2, <3>2, <4>1, HexRange DEF Loaded
    <3> QED
      BY <2>3, <3>1, <3>2
  <2>5. lo \in Nat /\ hi \in Nat /\ lo <= hi /\ AddrSpace \in Nat /\ AddrSpace > 255
    BY <2>1, <2>4, RangeFacts
  <2>6. SweepLength # 0
    <3>1. SweepLength = 0 => hi = lo - 1 \/ (lo = 0 /\ hi = AddrSpace - 1)
      BY <2>1, SweepLengthFacts
    <3>2. lo > 0 \/ hi < AddrSpace - 2
      BY <2>1 DEF Loaded, Unwrapped
    <3> QED
      BY <2>5, <3>1, <3>2
  <2> QED
    BY <2>1, <2>4, <2>5, <2>6 DEF Whole, Bottom
<1> QED
  BY <1>1, ListingInvariance, PTL

-----------------------------------------------------------------------------
(* The command.                                                            *)

Named == {i + 1 : i \in {j \in DOMAIN argv : argv[j] = "--cpu"}}
Paths == {i \in DOMAIN argv \ Named : argv[i] \notin Options}
Path  == IF Paths = {} THEN NoPath ELSE argv[Reader!Greatest(Paths)]
Asked == IF Named = {} THEN "CPU_65C02" ELSE cpuNames[argv[Reader!Greatest(Named)]]

Understood ==
  /\ Members(argv) \cap Options \subseteq {"--cpu", "--linear"}
  /\ \A i \in Named : i \in DOMAIN argv /\ argv[i] \in DOMAIN cpuNames

\* The words before argi have been understood, and the last of a kind counts.
WordsRead ==
  /\ \A j \in DOMAIN argv : j < argi =>
       /\ argv[j] \in Options => argv[j] \in {"--cpu", "--linear"}
       /\ argv[j] = "--cpu" => j + 1 < argi /\ argv[j + 1] \in DOMAIN cpuNames
       /\ argv[j] = "--linear" => linear = TRUE
  /\ \/ model = "CPU_65C02" /\ \A i \in Named : ~(i < argi)
     \/ \E g \in Named : /\ g < argi /\ model = cpuNames[argv[g]]
                         /\ \A i \in Named : i < argi => i <= g
  /\ \/ inputPath = NoPath /\ \A i \in Paths : ~(i < argi)
     \/ \E g \in Paths : /\ g < argi /\ inputPath = argv[g]
                         /\ \A i \in Paths : i < argi => i <= g

Analytic == {"data", "entry", "sub", "loc"}

\* DisInit was called with m, and its malloc may have failed.
Using(m) == cpu = m \/ (AllocMayFail /\ cpu = NoCpu)

CInv ==
  /\ phase \notin {"failed", "helped"} => WordsRead
  /\ phase \notin Idle => argi = Len(argv) + 1 /\ Using(model)
  /\ phase \notin Idle /\ linear = TRUE =>
       phase \notin {"seeded", "tracing", "printing"} /\ Printed(Analytic) = {}
  /\ phase = "failed" => ~Understood \/ Path # NoPath

LEMMA WordFacts ==
  ASSUME CommandOK
  PROVE  /\ argv \in Seq(STRING) /\ Len(argv) \in Nat /\ DOMAIN argv = 1..Len(argv)
         /\ argi \in Nat /\ 1 <= argi /\ argi <= Len(argv) + 1
         /\ \A i \in Named : i \in Nat /\ i - 1 \in DOMAIN argv /\ argv[i - 1] = "--cpu"
         /\ \A j \in DOMAIN argv : argv[j] = "--cpu" => j + 1 \in Named
         /\ Paths \subseteq DOMAIN argv
<1>1. argv \in Seq(STRING)
  BY CommandsAssumption DEF CommandOK
<1>2. Len(argv) \in Nat /\ DOMAIN argv = 1..Len(argv)
  BY <1>1
<1>3. argi \in Nat /\ 1 <= argi /\ argi <= Len(argv) + 1
  BY <1>2 DEF CommandOK
<1>4. \A i \in Named : i \in Nat /\ i - 1 \in DOMAIN argv /\ argv[i - 1] = "--cpu"
  <2> SUFFICES ASSUME NEW i \in Named
               PROVE  i \in Nat /\ i - 1 \in DOMAIN argv /\ argv[i - 1] = "--cpu"
    OBVIOUS
  <2>1. PICK j \in DOMAIN argv : i = j + 1 /\ argv[j] = "--cpu"
    BY DEF Named
  <2>2. j \in Nat
    BY <1>2, <2>1
  <2>3. i \in Nat /\ i - 1 = j
    BY <2>1, <2>2
  <2> QED
    BY <2>1, <2>3
<1> QED
  BY <1>1, <1>2, <1>3, <1>4 DEF Named, Paths

\* The word read next is not the name of a model, and so the one after it.
LEMMA NextIsNoName ==
  ASSUME CommandOK, WordsRead
  PROVE  argi \notin Named
<1> SUFFICES ASSUME argi \in Named PROVE FALSE
  OBVIOUS
<1>1. argi - 1 \in DOMAIN argv /\ argv[argi - 1] = "--cpu" /\ argi \in Nat
  BY WordFacts
<1>2. argi - 1 < argi /\ argi - 1 + 1 = argi
  BY <1>1
<1> QED
  BY <1>1, <1>2 DEF WordsRead

LEMMA ReadStep ==
  ASSUME CommandOK, WordsRead, ArgCpu \/ ArgLinear \/ ArgPath
  PROVE  WordsRead'
<1>1. /\ Len(argv) \in Nat /\ DOMAIN argv = 1..Len(argv) /\ argi \in Nat /\ argi \in DOMAIN argv
      /\ \A i \in Named : i \in Nat
      /\ \A j \in DOMAIN argv : argv[j] = "--cpu" => j + 1 \in Named
      /\ Paths \subseteq DOMAIN argv
  BY WordFacts DEF ArgCpu, ArgLinear, ArgPath, NextArg
<1>2. argi \notin Named
  BY NextIsNoName
<1>3. argv' = argv /\ Named' = Named /\ Paths' = Paths
  BY DEF ArgCpu, ArgLinear, ArgPath, Named, Paths
<1>4. {"--cpu", "--linear", "--help"} \subseteq Options /\ Options \cap DOMAIN cpuNames = {}
  BY OptionsAssumption
<1>5. \A j \in DOMAIN argv : j \in Nat
  BY <1>1
<1>6. CASE ArgCpu
  <2>1. /\ argv[argi] = "--cpu" /\ argi + 1 \in DOMAIN argv /\ argv[argi + 1] \in DOMAIN cpuNames
        /\ model' = cpuNames[argv[argi + 1]] /\ argi' = argi + 2
        /\ linear' = linear /\ inputPath' = inputPath
    BY <1>1, <1>6 DEF ArgCpu, CpuNamed, Arg
  <2>2. argv[argi + 1] \notin Options /\ argi + 1 \in Named
    BY <1>1, <1>4, <2>1
  <2>3. \A n \in Nat : n < argi' <=> n < argi \/ n = argi \/ n = argi + 1
    BY <1>1, <2>1
  <2>4. \A j \in DOMAIN argv : j < argi' =>
          /\ argv[j] \in Options => argv[j] \in {"--cpu", "--linear"}
          /\ argv[j] = "--cpu" => j + 1 < argi' /\ argv[j + 1] \in DOMAIN cpuNames
          /\ argv[j] = "--linear" => linear = TRUE
    <3> SUFFICES ASSUME NEW j \in DOMAIN argv, j < argi'
                 PROVE  /\ argv[j] \in Options => argv[j] \in {"--cpu", "--linear"}
                        /\ argv[j] = "--cpu" => j + 1 < argi' /\ argv[j + 1] \in DOMAIN cpuNames
                        /\ argv[j] = "--linear" => linear = TRUE
      OBVIOUS
    <3>1. CASE j < argi
      BY <1>1, <2>1, <3>1 DEF WordsRead
    <3>2. CASE j = argi
      BY <1>1, <2>1, <3>2
    <3>3. CASE j = argi + 1
      BY <1>4, <2>2, <3>3
    <3> QED
      BY <1>5, <2>3, <3>1, <3>2, <3>3
  <2>5. argi + 1 < argi' /\ \A i \in Named : i < argi' => i <= argi + 1
    BY <1>1, <2>1
  <2>6. argi \notin Paths /\ argi + 1 \notin Paths
    BY <1>4, <2>1, <2>2 DEF Paths
  <2>7. \A i \in Paths : i < argi' <=> i < argi
    BY <1>1, <1>5, <2>3, <2>6
  <2> QED
    BY <1>3, <2>1, <2>2, <2>4, <2>5, <2>7 DEF WordsRead
<1>7. ASSUME argi' = argi + 1, model' = model
      PROVE  /\ \A n \in Nat : n < argi' <=> n < argi \/ n = argi
             /\ \A i \in Named : i < argi' <=> i < argi
  <2>1. \A n \in Nat : n < argi' <=> n < argi \/ n = argi
    BY <1>1, <1>7
  <2> QED
    BY <1>1, <1>2, <2>1
<1>8. CASE ArgLinear
  <2>1. /\ argv[argi] = "--linear" /\ model' = model /\ argi' = argi + 1
        /\ linear' = TRUE /\ inputPath' = inputPath
    BY <1>8 DEF ArgLinear, Arg
  <2>2. argi \notin Paths
    BY <1>4, <2>1 DEF Paths
  <2>3. \A i \in Paths : i < argi' <=> i < argi
    BY <1>1, <1>5, <1>7, <2>1, <2>2
  <2>4. \A j \in DOMAIN argv : j < argi' =>
          /\ argv[j] \in Options => argv[j] \in {"--cpu", "--linear"}
          /\ argv[j] = "--cpu" => j + 1 < argi' /\ argv[j + 1] \in DOMAIN cpuNames
    <3>1. \A j \in DOMAIN argv : j < argi => j + 1 < argi' \/ ~(j + 1 < argi)
      BY <1>1, <2>1
    <3> QED
      BY <1>5, <1>7, <2>1, <3>1 DEF WordsRead
  <2> QED
    BY <1>3, <1>7, <2>1, <2>3, <2>4 DEF WordsRead
<1>9. CASE ArgPath
  <2>1. /\ argv[argi] \notin Options /\ model' = model /\ argi' = argi + 1
        /\ linear' = linear /\ inputPath' = argv[argi]
    BY <1>9 DEF ArgPath, Arg
  <2>2. argi \in Paths
    BY <1>1, <1>2, <2>1 DEF Paths
  <2>3. argi < argi' /\ \A i \in Paths : i < argi' => i <= argi
    BY <1>1, <1>5, <2>1
  <2>4. \A j \in DOMAIN argv : j < argi' =>
          /\ argv[j] \in Options => argv[j] \in {"--cpu", "--linear"}
          /\ argv[j] = "--cpu" => j + 1 < argi' /\ argv[j + 1] \in DOMAIN cpuNames
          /\ argv[j] = "--linear" => linear = TRUE
    <3>1. \A j \in DOMAIN argv : j < argi => j + 1 < argi' \/ ~(j + 1 < argi)
      BY <1>1, <2>1
    <3> QED
      BY <1>4, <1>5, <1>7, <2>1, <3>1 DEF WordsRead
  <2> QED
    BY <1>3, <1>7, <2>1, <2>2, <2>3, <2>4 DEF WordsRead
<1> QED
  BY <1>6, <1>8, <1>9

\* Every word has been read: the last that counts is the greatest of all.
LEMMA AllRead ==
  ASSUME CommandOK, WordsRead, argi > Len(argv)
  PROVE  /\ Understood
         /\ inputPath = Path
         /\ model = IF Named = {} THEN "CPU_65C02" ELSE cpuNames[argv[Reader!Greatest(Named)]]
         /\ "--linear" \in Members(argv) => linear = TRUE
<1>1. /\ Len(argv) \in Nat /\ DOMAIN argv = 1..Len(argv) /\ argi \in Nat /\ argi = Len(argv) + 1
      /\ \A i \in Named : i \in Nat /\ i - 1 \in DOMAIN argv /\ argv[i - 1] = "--cpu"
      /\ Paths \subseteq DOMAIN argv
  BY WordFacts
<1>2. \A j \in DOMAIN argv : j \in Nat /\ j < argi
  BY <1>1
<1>3. \A i \in Named : i \in Nat /\ i < argi /\ 1 <= i /\ argv[i] \in DOMAIN cpuNames
  <2> SUFFICES ASSUME NEW i \in Named
               PROVE  i \in Nat /\ i < argi /\ 1 <= i /\ argv[i] \in DOMAIN cpuNames
    OBVIOUS
  <2>1. i \in Nat /\ i - 1 + 1 = i /\ i - 1 \in DOMAIN argv /\ argv[i - 1] = "--cpu"
    BY <1>1
  <2>2. i < argi /\ argv[i] \in DOMAIN cpuNames
    BY <1>2, <2>1 DEF WordsRead
  <2> QED
    BY <1>1, <2>1, <2>2
<1>4. \A i \in Named : i \in DOMAIN argv
  BY <1>1, <1>3
<1>5. Understood
  BY <1>2, <1>3, <1>4 DEF Understood, WordsRead, Members
<1>6. ASSUME NEW S \in SUBSET (0..Len(argv)), NEW g \in S, \A i \in S : i <= g
      PROVE  Reader!Greatest(S) = g
  <2>1. Reader!Greatest(S) \in S /\ \A m \in S : m <= Reader!Greatest(S)
    BY <1>1, GreatestExists
  <2>2. \A n \in S : n \in Nat
    BY <1>1, <1>6
  <2>3. Reader!Greatest(S) \in Nat /\ g \in Nat /\ g <= Reader!Greatest(S) /\ Reader!Greatest(S) <= g
    BY <1>6, <2>1, <2>2
  <2> QED
    BY <2>3
<1>7. Named \in SUBSET (0..Len(argv)) /\ Paths \in SUBSET (0..Len(argv))
  BY <1>1, <1>4
<1>8. inputPath = Path
  <2>1. CASE inputPath = NoPath /\ \A i \in Paths : ~(i < argi)
    <3>1. Paths = {}
      BY <1>1, <1>2, <2>1
    <3> QED
      BY <2>1, <3>1 DEF Path
  <2>2. CASE \E g \in Paths : inputPath = argv[g] /\ \A i \in Paths : i < argi => i <= g
    <3>1. PICK g \in Paths : inputPath = argv[g] /\ \A i \in Paths : i < argi => i <= g
      BY <2>2
    <3>2. Reader!Greatest(Paths) = g
      BY <1>1, <1>2, <1>6, <1>7, <3>1
    <3> QED
      BY <3>1, <3>2 DEF Path
  <2> QED
    BY <2>1, <2>2 DEF WordsRead
<1>9. model = IF Named = {} THEN "CPU_65C02" ELSE cpuNames[argv[Reader!Greatest(Named)]]
  <2>1. CASE model = "CPU_65C02" /\ \A i \in Named : ~(i < argi)
    BY <1>3, <2>1
  <2>2. CASE \E g \in Named : model = cpuNames[argv[g]] /\ \A i \in Named : i < argi => i <= g
    <3>1. PICK g \in Named : model = cpuNames[argv[g]] /\ \A i \in Named : i < argi => i <= g
      BY <2>2
    <3>2. Reader!Greatest(Named) = g
      BY <1>3, <1>6, <1>7, <3>1
    <3> QED
      BY <3>1, <3>2
  <2> QED
    BY <2>1, <2>2 DEF WordsRead
<1>10. "--linear" \in Members(argv) => linear = TRUE
  BY <1>2 DEF Members, WordsRead
<1> QED
  BY <1>5, <1>8, <1>9, <1>10

LEMMA CommandInit == disInit => CInv
<1> SUFFICES ASSUME disInit PROVE CInv
  OBVIOUS
<1>1. DInv
  BY InitInv
<1>2. phase = "arguments" /\ argi = 1 /\ model = "CPU_65C02" /\ inputPath = NoPath
  BY DEF disInit
<1>3. /\ Len(argv) \in Nat /\ DOMAIN argv = 1..Len(argv) /\ Paths \subseteq DOMAIN argv
      /\ \A i \in Named : i \in Nat /\ i - 1 \in DOMAIN argv
  BY <1>1, WordFacts DEF DInv
<1>4. \A j \in DOMAIN argv : ~(j < argi)
  BY <1>2, <1>3
<1>5. \A i \in Named : ~(i < argi)
  <2>1. \A i \in Nat : i < 1 => ~(1 <= i - 1)
    OBVIOUS
  <2> QED
    BY <1>2, <1>3, <2>1
<1>6. WordsRead
  BY <1>2, <1>3, <1>4, <1>5 DEF WordsRead
<1> QED
  BY <1>2, <1>6 DEF CInv, Idle

\* The words, once read, stay read.
LEMMA ReadStays ==
  ASSUME UNCHANGED command
  PROVE  /\ (WordsRead' <=> WordsRead) /\ (Understood' <=> Understood) /\ Path' = Path
         /\ argi' = argi /\ argv' = argv /\ model' = model /\ linear' = linear
<1>1. argi' = argi /\ argv' = argv /\ model' = model /\ linear' = linear /\ inputPath' = inputPath
  BY DEF command
<1>2. Named' = Named /\ Paths' = Paths
  BY <1>1 DEF Named, Paths
<1>3. WordsRead' <=> WordsRead
  BY <1>1, <1>2 DEF WordsRead
<1>4. (Understood' <=> Understood) /\ Path' = Path
  BY <1>1, <1>2 DEF Understood, Path, Members
<1> QED
  BY <1>1, <1>3, <1>4

LEMMA CommandStepInv == DInv /\ CInv /\ [disNext]_disVars => CInv'
<1> SUFFICES ASSUME DInv, CInv, [disNext]_disVars PROVE CInv'
  OBVIOUS
<1>1. CASE ArgCpu \/ ArgLinear \/ ArgPath
  <2>1. phase = "arguments" /\ phase' = "arguments"
    BY <1>1 DEF ArgCpu, ArgLinear, ArgPath, NextArg
  <2>2. WordsRead'
    BY <1>1, <2>1, ReadStep DEF DInv, CInv
  <2> QED
    BY <2>1, <2>2 DEF CInv, Idle
<1>2. CASE ArgHelp
  BY <1>2 DEF ArgHelp, CInv, Idle
<1>3. CASE ArgWrong
  <2>1. /\ phase' = "failed" /\ UNCHANGED command /\ argi <= Len(argv)
        /\ argv[argi] \in Options \ {"--linear", "--help"}
        /\ argv[argi] = "--cpu" => ~CpuNamed
    BY <1>3 DEF ArgWrong, NextArg, Arg
  <2>2. /\ Len(argv) \in Nat /\ DOMAIN argv = 1..Len(argv) /\ argi \in Nat /\ argi \in DOMAIN argv
        /\ \A j \in DOMAIN argv : argv[j] = "--cpu" => j + 1 \in Named
    BY <2>1, WordFacts DEF DInv
  <2>3. ~Understood
    <3>1. CASE argv[argi] = "--cpu"
      <4>1. argi + 1 \in Named
        BY <2>2, <3>1
      <4>2. argi + 1 \in DOMAIN argv => argi < Len(argv)
        BY <2>2
      <4>3. ~(argi + 1 \in DOMAIN argv /\ argv[argi + 1] \in DOMAIN cpuNames)
        BY <2>1, <3>1, <4>2 DEF CpuNamed
      <4> QED
        BY <4>1, <4>3 DEF Understood
    <3>2. CASE argv[argi] # "--cpu"
      BY <2>1, <2>2, <3>2 DEF Understood, Members
    <3> QED
      BY <3>1, <3>2
  <2> QED
    BY <2>1, <2>3, ReadStays DEF CInv, Idle
<1>4. CASE LoadFails
  <2>1. /\ phase = "arguments" /\ argi > Len(argv) /\ inputPath # NoPath
        /\ phase' = "failed" /\ UNCHANGED command
    BY <1>4 DEF LoadFails, ArgsDone
  <2>2. inputPath = Path
    BY <2>1, AllRead DEF DInv, CInv
  <2> QED
    BY <2>1, <2>2, ReadStays DEF CInv, Idle
<1>5. CASE LoadDemo \/ LoadRom \/ LoadHex
  <2>1. /\ phase = "arguments" /\ argi > Len(argv) /\ phase' = "loaded" /\ Using(model)'
        /\ UNCHANGED command /\ lines' = lines
    BY <1>5 DEF LoadDemo, LoadRom, LoadHex, Readable, ArgsDone, Loads, Using, command
  <2>2. argi = Len(argv) + 1
    BY <2>1, WordFacts DEF DInv
  <2>3. Printed(Analytic)' = {}
    <3>1. lines = <<>>
      BY <2>1 DEF DInv, Paged, Idle
    <3> QED
      BY <2>1, <3>1 DEF Printed, Members
  <2> QED
    BY <2>1, <2>2, <2>3, ReadStays DEF CInv, Idle
<1>6. ASSUME phase \notin Idle, UNCHANGED command, cpu' = cpu, phase' \notin Idle,
             linear = TRUE => /\ phase' \notin {"seeded", "tracing", "printing"}
                              /\ Printed(Analytic)' = {}
      PROVE  CInv'
  <2>1. phase \notin {"failed", "helped"} /\ phase' \notin {"failed", "helped"}
    BY <1>6 DEF Idle
  <2> QED
    BY <1>6, <2>1, ReadStays DEF CInv, Using
<1>7. lines' = lines => Printed(Analytic)' = Printed(Analytic)
  BY DEF Printed, Members
<1>8. CASE NoAnalysis
  BY <1>6, <1>7, <1>8 DEF NoAnalysis, CInv, Idle, vars, listing
<1>9. CASE Seed
  BY <1>6, <1>9 DEF Seed, Flat, AnalyzeAddEntry, Idle, input
<1>10. CASE CallRun \/ RunReturns \/ Trace \/ PrintLines
  <2>1. /\ phase \in {"seeded", "tracing", "printing"} /\ UNCHANGED command
        /\ phase' \in {"tracing", "printing", "done"}
    BY <1>10 DEF CallRun, RunReturns, Trace, PrintLines, PrintData, PrintInstruction, PrintReturns
  <2>2. cpu' = cpu
    <3>1. CASE CallRun \/ RunReturns
      BY <3>1 DEF CallRun, RunReturns, AnalyzeRun, Return, input
    <3>2. CASE Trace
      BY <3>2 DEF Trace, Pop, EndTrail, TraceCall, TraceJump, TraceOther, input
    <3>3. CASE PrintLines
      BY <3>3 DEF PrintLines, PrintData, PrintInstruction, PrintReturns, vars
    <3> QED
      BY <1>10, <3>1, <3>2, <3>3
  <2> QED
    BY <1>6, <2>1, <2>2 DEF CInv, Idle
<1>11. CASE Sweep
  <2>1. CASE Emit
    <3>1. /\ phase = "sweeping" /\ phase' \in {"sweeping", "done"} /\ cpu' = cpu
          /\ lines' = Append(lines, CodeLine(addr)) /\ UNCHANGED command
      BY <1>11, <2>1 DEF Emit, Sweep, vars
    <3>2. TypeOK /\ cpu # NoCpu /\ lines \in Seq(Line) /\ addr \in Nat
      BY <3>1 DEF DInv, Sane, IInv, Paged, Loaded, Idle
    <3>3. Members(lines') = Members(lines) \cup {CodeLine(addr)}
      BY <2>1, <3>2, EmitLists DEF Lists
    <3>4. CodeLine(addr).kind = "code"
      BY DEF CodeLine
    <3>5. Printed(Analytic)' = Printed(Analytic)
      BY <3>3, <3>4 DEF Printed, Analytic, Members
    <3> QED
      BY <1>6, <3>1, <3>5 DEF CInv, Idle
  <2>2. CASE StartSweep /\ phase \in {"loaded", "outOfMemory"}
    BY <1>6, <1>7, <1>11, <2>2 DEF StartSweep, Sweep, CInv, Idle, vars, listing
  <2> QED
    BY <1>11, <2>1, <2>2 DEF Sweep
<1>12. CASE Exit \/ UNCHANGED disVars
  <2>1. UNCHANGED command /\ phase' = phase /\ cpu' = cpu /\ lines' = lines
    BY <1>12 DEF Exit, disVars, vars, listing
  <2> QED
    BY <1>7, <2>1, ReadStays DEF CInv, Using
<1> QED
  BY <1>1, <1>2, <1>3, <1>4, <1>5, <1>8, <1>9, <1>10, <1>11, <1>12 DEF disNext, disStep

\* A listing that has ended was made with the model and of the file that the
\* last words name, or without a decoded line if the allocator failed, flat if
\* --linear is among them, and a command of words that are understood fails only
\* for its file.
THEOREM CommandIsHonoured == disSpec => []CommandHonoured
<1>1. DInv /\ CInv => CommandHonoured
  <2> SUFFICES ASSUME DInv, CInv PROVE CommandHonoured
    OBVIOUS
  <2>1. CommandHonoured <=>
          /\ phase = "done" =>
               /\ Understood
               /\ inputPath = Path
               /\ \/ cpu = Asked
                  \/ AllocMayFail /\ cpu = NoCpu /\ Printed({"code"}) = {}
               /\ "--linear" \in Members(argv) => Printed(Analytic) = {}
          /\ phase = "failed" /\ Understood => Path # NoPath
    BY DEF CommandHonoured, Understood, Path, Paths, Named, Asked, Analytic
  <2>2. CASE phase = "done"
    <3>1. WordsRead /\ argi = Len(argv) + 1 /\ Using(model) /\ (linear = TRUE => Printed(Analytic) = {})
      BY <2>2 DEF CInv, Idle
    <3>2. argi > Len(argv)
      BY <3>1, WordFacts DEF DInv
    <3>3. cpu = NoCpu => Printed({"code"}) = {}
      <4>1. CASE lines = <<>>
        BY <4>1 DEF Printed, Members
      <4>2. CASE Marked
        <5>1. cpu = NoCpu => Printed({"code", "note"}) = {}
          BY <4>2, Undecoded DEF DInv, Sane, IInv, Marked
        <5> QED
          BY <5>1 DEF Printed
      <4> QED
        BY <2>2, <4>1, <4>2 DEF DInv, Paged, Blind, Blank
    <3>4. model = Asked
      BY <3>1, <3>2, AllRead DEF DInv, Asked
    <3> QED
      BY <2>1, <2>2, <3>1, <3>2, <3>3, <3>4, AllRead DEF DInv, Using
  <2>3. CASE phase # "done"
    BY <2>1, <2>3 DEF CInv
  <2> QED
    BY <2>2, <2>3
<1>2. disInit => CInv
  BY CommandInit
<1>3. DInv /\ CInv /\ [disNext]_disVars => CInv'
  BY CommandStepInv
<1> QED
  BY <1>1, <1>2, <1>3, ListingInvariance, PTL DEF disSpec
=============================================================================
