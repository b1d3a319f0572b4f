--------------------------- MODULE AnalyzeProofs ---------------------------
(***************************************************************************)
(* Theorems about Analyze, for every opcode table, every memory image and  *)
(* range, every sequence of entry points, every capacity and whatever the  *)
(* allocator answers.  First that Analyze reaches nothing but what it      *)
(* should.  Then its steps: none of them takes anything back, each leaves  *)
(* the marks of targets exact, and, while the allocator delivers, each is  *)
(* a step of Reachability or none at all.  Last what Analyze counts and    *)
(* what it may lose: the counts are those of the traced instructions,      *)
(* however often an address is queued, and a failing realloc loses nothing *)
(* but the target it could not store.                                      *)
(***************************************************************************)
EXTENDS Analyze, FiniteSetTheorems, TLAPS

-----------------------------------------------------------------------------
(* The decoder.                                                            *)

LEMMA Space == AddrSpace \in Nat /\ AddrSpace > 255
BY SMT DEF AddrSpace

LEMMA WrapType == \A n \in Int : Wrap16(n) \in Addr
BY Space, SMT DEF Wrap16, Addr

LEMMA ReadType ==
  ASSUME NEW m, IsImage(m), NEW a
  PROVE  Read(m, a) \in Byte
BY DEF IsImage, Read, Byte

\* Whatever the tables say, an instruction takes at most three bytes, and
\* none only before DisInit.
LEMMA LenType ==
  ASSUME NEW c, NEW op
  PROVE  /\ DisInstLen(c, op) \in 0..3
         /\ DisInstLen(c, op) = 0 <=> c = NoCpu
BY DEF DisInstLen

LEMMA TargetType ==
  ASSUME NEW c, NEW m, IsImage(m), NEW a \in Addr
  PROVE  Target(c, m, a) \in Addr
<1>1. \A b : Read(m, b) \in Byte
  BY ReadType
<1>2. AbsTarget(m, a) \in Addr
  <2>1. \A x, y \in Int : x + 256 * y \in Int
    OBVIOUS
  <2>2. \A b : Read(m, b) \in Int
    BY <1>1 DEF Byte
  <2> QED
    BY <2>1, <2>2, WrapType DEF AbsTarget, Read16
<1>3. ASSUME NEW len \in {2, 3} PROVE RelTarget(m, a, len) \in Addr
  <2>1. Read(m, Wrap16(a + len - 1)) \in Byte
    BY <1>1
  <2>2. \A b \in Byte : Int8(b) \in Int
    BY DEF Int8, Byte
  <2>3. a + len + Int8(Read(m, Wrap16(a + len - 1))) \in Int
    BY <2>1, <2>2, <1>3 DEF Addr
  <2> QED
    BY <2>3, WrapType DEF RelTarget
<1> QED
  BY <1>2, <1>3 DEF Target

LEMMA FlowType ==
  ASSUME NEW c, NEW m, NEW a
  PROVE  DisFlowOf(c, m, a) \in Flow
BY DEF DisFlowOf, FlowOfOp, Flow

-----------------------------------------------------------------------------
(* Sequences as worklists.                                                 *)

LEMMA MembersAppend ==
  ASSUME NEW S, NEW s \in Seq(S), NEW e \in S
  PROVE  /\ Append(s, e) \in Seq(S)
         /\ Len(Append(s, e)) = Len(s) + 1
         /\ Members(Append(s, e)) = Members(s) \cup {e}
<1>1. /\ Append(s, e) \in Seq(S)
      /\ Len(Append(s, e)) = Len(s) + 1
      /\ \A i \in 1..Len(s) : Append(s, e)[i] = s[i]
      /\ Append(s, e)[Len(s) + 1] = e
  OBVIOUS
<1>2. Len(s) \in Nat /\ DOMAIN s = 1..Len(s) /\ DOMAIN Append(s, e) = 1..(Len(s) + 1)
  OBVIOUS
<1> QED
  BY <1>1, <1>2 DEF Members

LEMMA MembersPop ==
  ASSUME NEW S, NEW s \in Seq(S), s # <<>>
  PROVE  /\ SubSeq(s, 1, Len(s) - 1) \in Seq(S)
         /\ Len(SubSeq(s, 1, Len(s) - 1)) = Len(s) - 1
         /\ s[Len(s)] \in S
         /\ Members(s) = Members(SubSeq(s, 1, Len(s) - 1)) \cup {s[Len(s)]}
<1>1. Len(s) \in Nat /\ Len(s) > 0 /\ DOMAIN s = 1..Len(s)
  OBVIOUS
<1> DEFINE r == SubSeq(s, 1, Len(s) - 1)
<1>2. /\ r \in Seq(S)
      /\ Len(r) = Len(s) - 1
      /\ \A i \in 1..(Len(s) - 1) : r[i] = s[i]
  BY <1>1
<1>3. DOMAIN r = 1..(Len(s) - 1)
  BY <1>1, <1>2
<1>4. s[Len(s)] \in S
  BY <1>1
<1>5. 1..Len(s) = 1..(Len(s) - 1) \cup {Len(s)}
  BY <1>1
<1>6. Members(r) = {s[i] : i \in 1..(Len(s) - 1)}
  BY <1>2, <1>3 DEF Members
<1>7. Members(s) = Members(r) \cup {s[Len(s)]}
  BY <1>1, <1>5, <1>6 DEF Members
<1> QED
  BY <1>2, <1>4, <1>7

-----------------------------------------------------------------------------
(* The graph of an analysis never changes, and a trail follows its edges.  *)

LEMMA StaticGraph ==
  ASSUME UNCHANGED input
  PROVE  /\ cpu' = cpu /\ mem' = mem /\ lo' = lo /\ hi' = hi
         /\ Node' = Node
         /\ Graph' = Graph
         /\ \A a : /\ LenAt(a)' = LenAt(a) /\ FlowAt(a)' = FlowAt(a)
                   /\ TargetAt(a)' = TargetAt(a) /\ inRange(a)' = inRange(a)
                   /\ HasTarget(a)' = HasTarget(a) /\ FallsThrough(a)' = FallsThrough(a)
<1>1. cpu' = cpu /\ mem' = mem /\ lo' = lo /\ hi' = hi
  BY DEF input
<1>2. \A a : /\ LenAt(a)' = LenAt(a) /\ FlowAt(a)' = FlowAt(a)
             /\ TargetAt(a)' = TargetAt(a) /\ inRange(a)' = inRange(a)
  BY <1>1 DEF LenAt, FlowAt, TargetAt, inRange
<1>3. \A a : /\ HasTarget(a)' = HasTarget(a) /\ FallsThrough(a)' = FallsThrough(a)
             /\ Succ(a)' = Succ(a)
  BY <1>2 DEF HasTarget, FallsThrough, Succ
<1>4. Node' = Node
  BY <1>1, <1>2 DEF Node
<1>5. Graph' = Graph
  BY <1>3, <1>4 DEF Graph
<1> QED
  BY <1>1, <1>2, <1>3, <1>4, <1>5

\* What the types of the state say of one address.
LEMMA NodeFacts ==
  ASSUME TypeOK
  PROVE  /\ lo..hi \subseteq Addr
         /\ \A a : inRange(a) /\ a \in Addr <=> a \in lo..hi
         /\ Node \subseteq lo..hi
         /\ \A a : LenAt(a) \in 0..3
         /\ \A a \in Addr : TargetAt(a) \in Addr
         /\ \A a : FlowAt(a) \in Flow
<1>1. lo \in Addr /\ hi \in Addr /\ IsImage(mem)
  BY DEF TypeOK
<1>2. lo..hi \subseteq Addr /\ \A a : inRange(a) /\ a \in Addr <=> a \in lo..hi
  BY <1>1, Space DEF Addr, inRange
<1>3. \A a : LenAt(a) \in 0..3
  BY LenType DEF LenAt, InstLen
<1>4. \A a \in Addr : TargetAt(a) \in Addr
  BY <1>1, TargetType DEF TargetAt
<1>5. \A a : FlowAt(a) \in Flow
  BY FlowType DEF FlowAt
<1> QED
  BY <1>2, <1>3, <1>4, <1>5 DEF Node

\* NextPc goes on exactly where the instruction falls through.
LEMMA NextPcFacts ==
  ASSUME TypeOK, pc \in Addr, LenAt(pc) # 0
  PROVE  IF FallsThrough(pc) THEN NextPc = pc + LenAt(pc) /\ NextPc \in Addr
                             ELSE NextPc = NoPc
<1> DEFINE next == Wrap16(pc + LenAt(pc))
<1>1. LenAt(pc) \in 1..3
  BY NodeFacts
<1>2. pc \in 0..(AddrSpace - 1) /\ AddrSpace \in Nat /\ AddrSpace > 255
  BY Space DEF Addr
<1>3. CASE pc + LenAt(pc) < AddrSpace
  <2>1. next = pc + LenAt(pc)
    BY <1>1, <1>2, <1>3 DEF Wrap16
  <2>2. next \in Addr /\ ~(next < pc)
    BY <1>1, <1>2, <1>3, <2>1 DEF Addr
  <2>3. FallsThrough(pc) <=> FlowAt(pc) \notin {"Jump", "Return", "Indirect"}
    BY <2>1, <2>2, NodeFacts DEF FallsThrough, FallThroughFlows, Flow
  <2> QED
    BY <2>1, <2>2, <2>3 DEF NextPc
<1>4. CASE ~(pc + LenAt(pc) < AddrSpace)
  <2>1. pc + LenAt(pc) \notin Addr
    BY <1>1, <1>2, <1>4 DEF Addr
  <2>2. next = pc + LenAt(pc) - AddrSpace
    BY <1>1, <1>2, <1>4 DEF Wrap16
  <2>3. next < pc
    BY <1>1, <1>2, <2>2
  <2> QED
    BY <2>1, <2>3 DEF NextPc, FallsThrough
<1> QED
  BY <1>1, <1>2, <1>3, <1>4

-----------------------------------------------------------------------------
(* The inductive invariant.                                                *)

\* What is queued and decodes is traced, waiting, or about to be traced; so
\* is what a traced instruction falls through to.
Pending ==
  /\ queued \cap Node \subseteq instr \cup Members(work) \cup {pc}
  /\ \A s \in instr : FallsThrough(s) /\ s + LenAt(s) \in Node
                       => s + LenAt(s) \in instr \cup {pc}

\* While no target is dropped, entry points and targets have been queued.
Accounted ==
  ~AllocMayFail =>
    /\ entries \subseteq queued
    /\ \A s \in instr : HasTarget(s) /\ inRange(TargetAt(s)) => TargetAt(s) \in queued

\* A set that holds the entry points and is closed under control flow holds
\* everything traced or still to be traced.
Contained ==
  \A S \in ClosedSets : instr \cup ((queued \cup {pc}) \cap Node) \subseteq S

IInv == TypeOK /\ WorklistSafe /\ Pending /\ Accounted /\ Contained

\* push() seen from outside: at most its argument is queued, and it is put on
\* the worklist exactly when it is.
LEMMA PushFacts ==
  ASSUME TypeOK, WorklistSafe, UNCHANGED input, NEW a \in Addr, push(a)
  PROVE  /\ work' \in Seq(Addr) /\ workCap' \in Nat
         /\ outOfRange' \in Nat /\ outOfRange <= outOfRange'
         /\ queued \subseteq queued'
         /\ queued' \subseteq queued \cup {a} /\ queued' \subseteq lo..hi
         /\ Members(work') = Members(work) \cup (queued' \ queued)
         /\ inRange(a) /\ ~AllocMayFail => a \in queued'
         /\ WorklistSafe'
<1>1. /\ work \in Seq(Addr) /\ queued \subseteq lo..hi
      /\ workCap \in Nat /\ outOfRange \in Nat /\ Len(work) \in Nat
      /\ Len(work) <= workCap
  BY DEF TypeOK, WorklistSafe
<1>2. CASE UNCHANGED <<work, queued, workCap>> /\ outOfRange' \in {outOfRange, outOfRange + 1}
  <2>1. WorklistSafe'
    BY <1>2 DEF WorklistSafe, Members
  <2>2. inRange(a) /\ ~AllocMayFail => a \in queued
    BY <1>2, <1>1 DEF push, Enqueue
  <2> QED
    BY <1>1, <1>2, <2>1, <2>2
<1>3. CASE /\ a \in lo..hi /\ a \notin queued /\ Enqueue(a)
           /\ outOfRange' = outOfRange
           /\ workCap' \in Nat /\ Len(work) + 1 <= workCap'
  <2>1. /\ work' \in Seq(Addr) /\ Len(work') = Len(work) + 1
        /\ Members(work') = Members(work) \cup {a}
    <3>1. work' = Append(work, a)
      BY <1>3 DEF Enqueue
    <3> QED
      BY <1>1, <3>1, MembersAppend
  <2>2. queued' = queued \cup {a}
    BY <1>3 DEF Enqueue
  <2>3. \A i, j \in DOMAIN work' : work'[i] = work'[j] => i = j
    <3>1. \A i \in DOMAIN work : work[i] # a
      BY <1>3 DEF WorklistSafe, Members
    <3>2. \A i \in 1..(Len(work) + 1) :
            work'[i] = IF i = Len(work) + 1 THEN a ELSE work[i]
      BY <1>1, <1>3 DEF Enqueue
    <3>3. DOMAIN work' = 1..(Len(work) + 1) /\ DOMAIN work = 1..Len(work)
      BY <1>1, <2>1
    <3> QED
      BY <1>1, <3>1, <3>2, <3>3 DEF WorklistSafe
  <2>4. WorklistSafe'
    BY <1>3, <2>1, <2>2, <2>3 DEF WorklistSafe
  <2> QED
    BY <1>1, <1>3, <2>1, <2>2, <2>4
<1>4. a \in lo..hi <=> inRange(a)
  BY NodeFacts
<1>5. InitialCap \in Nat /\ InitialCap > 0
  BY BoundsAssumption
<1>6. CASE Len(work) = workCap /\ workCap' = IF workCap = 0 THEN InitialCap ELSE 2 * workCap
  BY <1>1, <1>2, <1>3, <1>4, <1>5, <1>6 DEF push
<1> QED
  BY <1>1, <1>2, <1>3, <1>4, <1>6 DEF push

\* Edges and closed sets, unfolded.
LEMMA SuccFacts ==
  ASSUME NEW a
  PROVE  /\ HasTarget(a) => TargetAt(a) \in Succ(a)
         /\ FallsThrough(a) => a + LenAt(a) \in Succ(a)
         /\ \A t \in Succ(a) : \/ HasTarget(a) /\ t = TargetAt(a)
                               \/ FallsThrough(a) /\ t = a + LenAt(a)
BY DEF Succ, HasTarget, FallsThrough

LEMMA ClosedFacts ==
  \A S : S \in ClosedSets <=> /\ S \subseteq Node
                              /\ entries \cap Node \subseteq S
                              /\ \A s \in S : Succ(s) \cap Node \subseteq S
<1>1. DOMAIN Graph = Node /\ \A s \in Node : Graph[s] = Succ(s) \cap Node
  BY DEF Graph
<1> QED
  BY <1>1 DEF ClosedSets

\* Tracing one instruction, whatever its flow: what the three parts of the
\* invariant about the worklist need to know of the step.
LEMMA TraceFacts ==
  ASSUME IInv, Traceable, UNCHANGED input, UNCHANGED entries,
         instr' = instr \cup {pc},
         pc' = NextPc,
         queued \subseteq queued',
         \A t \in queued' \ queued : HasTarget(pc) /\ t = TargetAt(pc),
         Members(work') = Members(work) \cup (queued' \ queued),
         HasTarget(pc) /\ inRange(TargetAt(pc)) /\ ~AllocMayFail
           => TargetAt(pc) \in queued'
  PROVE  Pending' /\ Accounted' /\ Contained'
<1> USE DEF IInv
<1>1. pc \in Node /\ pc \in Addr /\ LenAt(pc) # 0
  BY NodeFacts DEF Traceable, Node, TypeOK
<1>2. pc' \notin Addr => pc' = NoPc
  BY <1>1, NextPcFacts
<1>3. pc' \in Node => FallsThrough(pc) /\ pc' = pc + LenAt(pc)
  BY <1>1, NextPcFacts, NodeFacts, BoundsAssumption
<1>4. FallsThrough(pc) => pc' = pc + LenAt(pc)
  BY <1>1, NextPcFacts
<1>5. Pending'
  <2>1. queued' \cap Node \subseteq instr' \cup Members(work')
    BY DEF Pending
  <2>2. \A s \in instr' : FallsThrough(s) /\ s + LenAt(s) \in Node
                          => s + LenAt(s) \in instr' \cup {pc'}
    BY <1>4 DEF Pending
  <2> QED
    BY <2>1, <2>2, StaticGraph DEF Pending
<1>6. Accounted'
  BY StaticGraph DEF Accounted
<1>7. Contained'
  <2>1. \A S : S \in ClosedSets' <=> S \in ClosedSets
    BY StaticGraph DEF ClosedSets
  <2>2. ASSUME NEW S, S \in ClosedSets
        PROVE  instr' \cup ((queued' \cup {pc'}) \cap Node) \subseteq S
    <3>1. instr \cup (queued \cap Node) \subseteq S /\ pc \in S
      BY <1>1, <2>2 DEF Contained
    <3>2. Succ(pc) \cap Node \subseteq S
      BY <2>2, <3>1, ClosedFacts
    <3>3. (queued' \ queued) \cap Node \subseteq S
      <4>1. ASSUME NEW t \in (queued' \ queued) \cap Node PROVE t \in S
        <5>1. HasTarget(pc) /\ t = TargetAt(pc)
          OBVIOUS
        <5>2. t \in Succ(pc)
          BY <5>1, SuccFacts
        <5> QED
          BY <3>2, <5>2
      <4> QED
        BY <4>1
    <3>4. {pc'} \cap Node \subseteq S
      BY <1>3, <3>2, SuccFacts
    <3> QED
      BY <3>1, <3>3, <3>4
  <2> QED
    BY <2>1, <2>2, StaticGraph DEF Contained
<1> QED
  BY <1>5, <1>6, <1>7

LEMMA AddEntryStep ==
  ASSUME IInv, NEW a \in Addr, AnalyzeAddEntry(a)
  PROVE  IInv'
<1> USE DEF IInv
<1>1. a \in Addr /\ a \in lo..hi /\ UNCHANGED input /\ push(a)
  BY NodeFacts DEF AnalyzeAddEntry
<1>2. /\ queued \subseteq queued' /\ queued' \subseteq queued \cup {a}
      /\ Members(work') = Members(work) \cup (queued' \ queued)
      /\ ~AllocMayFail => a \in queued'
      /\ WorklistSafe'
  BY <1>1, PushFacts DEF AnalyzeAddEntry
<1>3. TypeOK'
  BY <1>1, PushFacts, StaticGraph DEF AnalyzeAddEntry, TypeOK
<1>4. Pending'
  BY <1>1, <1>2, StaticGraph DEF AnalyzeAddEntry, Pending
<1>5. Accounted'
  BY <1>1, <1>2, StaticGraph DEF AnalyzeAddEntry, Accounted
<1>6. Contained'
  <2>1. ASSUME NEW S, S \in ClosedSets'
        PROVE  S \in ClosedSets /\ (a \in Node => a \in S)
    <3>1. Graph' = Graph /\ entries' = entries \cup {a} /\ DOMAIN Graph = Node
      BY <1>1, StaticGraph DEF AnalyzeAddEntry, Graph
    <3> QED
      BY <2>1, <3>1 DEF ClosedSets
  <2>2. instr' = instr /\ pc' = pc /\ Node' = Node
    BY <1>1, StaticGraph DEF AnalyzeAddEntry
  <2> QED
    BY <1>2, <2>1, <2>2 DEF Contained
<1> QED
  BY <1>2, <1>3, <1>4, <1>5, <1>6

LEMMA RunStep ==
  ASSUME IInv, AnalyzeRun \/ Return
  PROVE  IInv'
<1> USE DEF IInv
<1>1. /\ UNCHANGED <<entries, instr, func, label, queued, callers, work, workCap,
                      outOfRange, pc>>
      /\ UNCHANGED input /\ running' \in BOOLEAN /\ (~running' => pc = NoPc)
  BY DEF AnalyzeRun, Return
<1>2. TypeOK'
  BY <1>1, StaticGraph DEF TypeOK
<1>3. WorklistSafe' /\ Pending' /\ Accounted'
  BY <1>1, StaticGraph DEF WorklistSafe, Pending, Accounted, Members
<1>4. Contained'
  BY <1>1, StaticGraph DEF Contained, ClosedSets
<1> QED
  BY <1>2, <1>3, <1>4

LEMMA PopStep ==
  ASSUME IInv, Pop
  PROVE  IInv'
<1> USE DEF IInv
<1>1. /\ UNCHANGED <<entries, instr, func, label, queued, callers, workCap,
                      outOfRange, running>>
      /\ UNCHANGED input /\ running /\ pc = NoPc
      /\ pc' = work[Len(work)] /\ work' = SubSeq(work, 1, Len(work) - 1)
      /\ work \in Seq(Addr) /\ work # <<>>
  BY DEF Pop, TypeOK
<1>2. /\ work' \in Seq(Addr) /\ Len(work') = Len(work) - 1 /\ pc' \in Addr
      /\ Members(work) = Members(work') \cup {pc'}
  BY <1>1, MembersPop
<1>3. TypeOK'
  BY <1>1, <1>2, StaticGraph DEF TypeOK
<1>4. WorklistSafe'
  <2>1. Len(work) \in Nat /\ DOMAIN work = 1..Len(work) /\ workCap \in Nat
    BY <1>1 DEF TypeOK
  <2>2. \A i \in DOMAIN work' : i \in DOMAIN work /\ work'[i] = work[i]
    BY <1>1, <1>2, <2>1
  <2> QED
    BY <1>1, <1>2, <2>1, <2>2 DEF WorklistSafe
<1>5. NoPc \notin Node
  BY NodeFacts, BoundsAssumption
<1>6. Pending'
  BY <1>1, <1>2, <1>5, StaticGraph DEF Pending
<1>7. Accounted'
  BY <1>1, StaticGraph DEF Accounted
<1>8. Contained'
  <2>1. pc' \in queued
    BY <1>2 DEF WorklistSafe
  <2>2. ClosedSets' = ClosedSets
    BY <1>1, StaticGraph DEF ClosedSets
  <2> QED
    BY <1>1, <2>1, <2>2, StaticGraph DEF Contained
<1> QED
  BY <1>3, <1>4, <1>6, <1>7, <1>8

\* A trail that ends leaves nothing behind: pc is outside the range, or does
\* not decode, or has been traced.
LEMMA EndTrailStep ==
  ASSUME IInv, EndTrail
  PROVE  IInv'
<1> USE DEF IInv
<1>1. /\ UNCHANGED <<entries, instr, func, label, queued, callers, work, workCap,
                      outOfRange, running>>
      /\ UNCHANGED input /\ running /\ pc' = NoPc /\ ~Traceable /\ pc # NoPc
  BY DEF EndTrail
<1>2. pc \in Node => pc \in instr
  BY <1>1, NodeFacts DEF Traceable, Node
<1>3. TypeOK' /\ WorklistSafe' /\ Accounted'
  BY <1>1, StaticGraph DEF TypeOK, WorklistSafe, Accounted, Members
<1>4. Pending'
  BY <1>1, <1>2, StaticGraph DEF Pending, Members
<1>5. NoPc \notin Node
  BY NodeFacts, BoundsAssumption
<1>6. Contained'
  BY <1>1, <1>5, StaticGraph DEF Contained, ClosedSets
<1> QED
  BY <1>3, <1>4, <1>6

LEMMA TraceCallStep ==
  ASSUME IInv, TraceCall
  PROVE  IInv'
<1> USE DEF IInv
<1> DEFINE target == TargetAt(pc)
<1>1. /\ Traceable /\ UNCHANGED input /\ UNCHANGED <<entries, label, running>>
      /\ instr' = instr \cup {pc} /\ pc' = NextPc
      /\ MarkCall(target) /\ push(target) /\ HasTarget(pc)
  BY DEF TraceCall, HasTarget, TargetFlows
<1>2. pc \in Node /\ pc \in Addr /\ target \in Addr /\ LenAt(pc) # 0 /\ running
  BY <1>1, NodeFacts DEF Traceable, Node, TypeOK
<1>3. Pending' /\ Accounted' /\ Contained'
  BY <1>1, <1>2, PushFacts, TraceFacts
<1>4. WorklistSafe'
  BY <1>1, <1>2, PushFacts
<1>5. func' \subseteq lo..hi /\ callers' \in [lo..hi -> 0..CallerMax]
  <2>1. inRange(target) => target \in lo..hi
    BY <1>2, NodeFacts
  <2>2. func \subseteq lo..hi /\ callers \in [lo..hi -> 0..CallerMax] /\ CallerMax \in Nat
    BY BoundsAssumption DEF TypeOK
  <2>3. MarkCall(target)
    BY <1>1
  <2> HIDE DEF target
  <2>4. CASE inRange(target)
    <3>1. /\ func' = func \cup {target}
          /\ callers' = IF callers[target] < CallerMax
                        THEN [callers EXCEPT ![target] = @ + 1] ELSE callers
      BY <2>3, <2>4 DEF MarkCall
    <3>2. callers[target] \in 0..CallerMax
      BY <2>1, <2>2, <2>4
    <3>3. callers[target] < CallerMax => callers[target] + 1 \in 0..CallerMax
      BY <2>2, <3>2
    <3> QED
      BY <2>1, <2>2, <2>4, <3>1, <3>3
  <2>5. CASE ~inRange(target)
    BY <2>2, <2>3, <2>5 DEF MarkCall
  <2> QED
    BY <2>4, <2>5
<1>6. pc' = NoPc \/ pc' \in Addr
  BY <1>1, <1>2, NextPcFacts
<1>7. TypeOK'
  BY <1>1, <1>2, <1>5, <1>6, PushFacts, StaticGraph DEF TypeOK
<1> QED
  BY <1>3, <1>4, <1>7

LEMMA TraceJumpStep ==
  ASSUME IInv, TraceJump
  PROVE  IInv'
<1> USE DEF IInv
<1> DEFINE target == TargetAt(pc)
<1>1. /\ Traceable /\ UNCHANGED input /\ UNCHANGED <<entries, func, callers, running>>
      /\ instr' = instr \cup {pc} /\ pc' = NextPc
      /\ MarkLabel(target) /\ push(target) /\ HasTarget(pc)
  BY DEF TraceJump, HasTarget, TargetFlows
<1>2. pc \in Node /\ pc \in Addr /\ target \in Addr /\ LenAt(pc) # 0 /\ running
  BY <1>1, NodeFacts DEF Traceable, Node, TypeOK
<1>3. Pending' /\ Accounted' /\ Contained'
  BY <1>1, <1>2, PushFacts, TraceFacts
<1>4. WorklistSafe'
  BY <1>1, <1>2, PushFacts
<1>5. label' \subseteq lo..hi
  BY <1>1, <1>2, NodeFacts DEF MarkLabel, TypeOK
<1>6. pc' = NoPc \/ pc' \in Addr
  BY <1>1, <1>2, NextPcFacts
<1>7. TypeOK'
  BY <1>1, <1>2, <1>5, <1>6, PushFacts, StaticGraph DEF TypeOK
<1> QED
  BY <1>3, <1>4, <1>7

LEMMA TraceOtherStep ==
  ASSUME IInv, TraceOther
  PROVE  IInv'
<1> USE DEF IInv
<1>1. /\ Traceable /\ UNCHANGED input
      /\ UNCHANGED <<entries, func, label, queued, callers, work, workCap,
                      outOfRange, running>>
      /\ instr' = instr \cup {pc} /\ pc' = NextPc
      /\ ~HasTarget(pc)
  BY DEF TraceOther, HasTarget, TargetFlows
<1>2. pc \in Node /\ pc \in Addr /\ LenAt(pc) # 0 /\ running
  BY <1>1, NodeFacts DEF Traceable, Node, TypeOK
<1>3. Members(work') = Members(work) \cup (queued' \ queued)
  BY <1>1 DEF Members
<1>4. Pending' /\ Accounted' /\ Contained'
  BY <1>1, <1>3, TraceFacts
<1>5. WorklistSafe'
  BY <1>1 DEF WorklistSafe, Members
<1>6. pc' = NoPc \/ pc' \in Addr
  BY <1>1, <1>2, NextPcFacts
<1>7. TypeOK'
  BY <1>1, <1>2, <1>6, StaticGraph DEF TypeOK
<1> QED
  BY <1>4, <1>5, <1>7

LEMMA InitInvariant == Init => IInv
<1> SUFFICES ASSUME Init PROVE IInv
  OBVIOUS
<1>1. PICK i \in Inputs : cpu = i.cpu /\ mem = i.mem /\ lo = i.lo /\ hi = i.hi
  BY DEF Init
<1>2. TypeOK
  <2>1. (cpu = NoCpu \/ cpu \in Model) /\ IsImage(mem) /\ lo \in Addr /\ hi \in Addr
    BY <1>1, InputsAssumption
  <2>2. CallerMax \in Nat /\ 0 \in 0..CallerMax
    BY BoundsAssumption
  <2>3. callers \in [lo..hi -> 0..CallerMax]
    BY <2>2 DEF Init
  <2>4. entries \subseteq EntryChoices /\ instr \subseteq Node
    BY DEF Init
  <2>5. work \in Seq(Addr) /\ workCap \in Nat /\ outOfRange \in Nat
    BY DEF Init
  <2>6. running \in BOOLEAN /\ (pc = NoPc \/ pc \in Addr)
    BY DEF Init
  <2> QED
    BY <2>1, <2>3, <2>4, <2>5, <2>6 DEF Init, TypeOK
<1>3. WorklistSafe /\ Pending /\ Accounted
  BY DEF Init, WorklistSafe, Pending, Accounted, Members
<1>4. Contained
  BY <1>2, NodeFacts, BoundsAssumption DEF Init, Contained
<1> QED
  BY <1>2, <1>3, <1>4 DEF IInv

LEMMA StepInvariant == IInv /\ [Next]_vars => IInv'
<1> SUFFICES ASSUME IInv, [Next]_vars PROVE IInv'
  OBVIOUS
<1>1. CASE \E a \in EntryChoices : AnalyzeAddEntry(a)
  BY <1>1, AddEntryStep, BoundsAssumption
<1>2. CASE AnalyzeRun \/ Return
  BY <1>2, RunStep
<1>3. CASE Pop
  BY <1>3, PopStep
<1>4. CASE EndTrail
  BY <1>4, EndTrailStep
<1>5. CASE TraceCall \/ TraceJump \/ TraceOther
  BY <1>5, TraceCallStep, TraceJumpStep, TraceOtherStep
<1>6. CASE UNCHANGED vars
  <2>1. /\ UNCHANGED input
        /\ UNCHANGED <<entries, instr, func, label, queued, callers, work, workCap,
                        outOfRange, running, pc>>
    BY <1>6 DEF vars, input
  <2> QED
    BY <2>1, StaticGraph
    DEF IInv, TypeOK, WorklistSafe, Pending, Accounted, Contained, ClosedSets, Members
<1> QED
  BY <1>1, <1>2, <1>3, <1>4, <1>5, <1>6 DEF Next, Step

-----------------------------------------------------------------------------
(* The theorems.                                                           *)

\* The invariant the others are read off.
THEOREM Invariance == Spec => []IInv
<1>1. Init => IInv
  BY InitInvariant
<1>2. IInv /\ [Next]_vars => IInv'
  BY StepInvariant
<1> QED
  BY <1>1, <1>2, PTL DEF Spec

\* Every field of struct DisAnalysis keeps to its range: flags and counts are
\* only ever set inside [lo, hi], and a caller count never passes its maximum.
THEOREM TypeCorrect == Spec => []TypeOK
<1>1. IInv => TypeOK
  BY DEF IInv
<1> QED
  BY <1>1, Invariance, PTL

\* No address waits twice and no write passes the end of the worklist, for
\* every initial capacity and any failure of realloc.
THEOREM WorklistIsSafe == Spec => []WorklistSafe
<1>1. IInv => WorklistSafe
  BY DEF IInv
<1> QED
  BY <1>1, Invariance, PTL

\* AnalyzeRun marks nothing that control flow does not reach, for every
\* program, table and range, also when realloc fails.
THEOREM Soundness == Spec => []Sound
<1>1. IInv => Sound
  <2> SUFFICES ASSUME IInv PROVE instr \subseteq Reach
    BY DEF Sound
  <2>1. instr \subseteq Node /\ \A S \in ClosedSets : instr \subseteq S
    BY DEF IInv, TypeOK, Contained
  <2> QED
    BY <2>1 DEF Reach
<1> QED
  BY <1>1, Invariance, PTL

\* Unless realloc fails, AnalyzeRun returns only when it has marked every
\* address control flow reaches.
THEOREM Completeness == Spec => []Complete
<1>1. IInv => Complete
  <2> SUFFICES ASSUME IInv, ~AllocMayFail, Settled PROVE Reach \subseteq instr
    BY DEF Complete
  <2>1. pc = NoPc /\ Members(work) = {} /\ instr \subseteq Node
    BY DEF IInv, TypeOK, Settled, Members
  <2>2. NoPc \notin Node
    BY NodeFacts, BoundsAssumption DEF IInv
  <2>3. queued \cap Node \subseteq instr
    BY <2>1, <2>2 DEF IInv, Pending
  <2>4. entries \cap Node \subseteq instr
    BY <2>3 DEF IInv, Accounted
  <2>5. ASSUME NEW s \in instr, NEW t \in Succ(s) \cap Node PROVE t \in instr
    <3>1. CASE HasTarget(s) /\ t = TargetAt(s)
      <4>1. inRange(t)
        BY NodeFacts DEF IInv
      <4> QED
        BY <3>1, <4>1, <2>3 DEF IInv, Accounted
    <3>2. CASE FallsThrough(s) /\ t = s + LenAt(s)
      BY <3>2, <2>1, <2>2 DEF IInv, Pending
    <3> QED
      BY <3>1, <3>2, SuccFacts
  <2>6. instr \in ClosedSets
    BY <2>1, <2>4, <2>5, ClosedFacts
  <2> QED
    BY <2>6 DEF Reach
<1> QED
  BY <1>1, Invariance, PTL

-----------------------------------------------------------------------------
(* What one iteration of the inner loop of AnalyzeRun does.                *)

LEMMA TraceView ==
  ASSUME IInv, TraceCall \/ TraceJump \/ TraceOther
  PROVE  /\ UNCHANGED input /\ UNCHANGED entries
         /\ running /\ running' = running
         /\ pc \in Node \ instr
         /\ instr' = instr \cup {pc} /\ pc' = NextPc
         /\ func \subseteq func' /\ label \subseteq label'
         /\ outOfRange <= outOfRange'
         /\ queued \subseteq queued'
         /\ \A t \in queued' \ queued : HasTarget(pc) /\ t = TargetAt(pc)
         /\ Members(work') = Members(work) \cup (queued' \ queued)
<1> USE DEF IInv
<1>1. Traceable /\ UNCHANGED input
  BY DEF TraceCall, TraceJump, TraceOther
<1>2. pc \in Node \ instr /\ pc \in Addr /\ running /\ TargetAt(pc) \in Addr
  BY <1>1, NodeFacts DEF Traceable, Node, TypeOK
<1>3. CASE TraceCall \/ TraceJump
  <2>1. push(TargetAt(pc)) /\ HasTarget(pc)
    BY <1>3 DEF TraceCall, TraceJump, HasTarget, TargetFlows
  <2>2. func \subseteq func' /\ label \subseteq label'
    BY <1>3 DEF TraceCall, TraceJump, MarkCall, MarkLabel
  <2>3. /\ outOfRange <= outOfRange' /\ queued \subseteq queued'
        /\ queued' \subseteq queued \cup {TargetAt(pc)}
        /\ Members(work') = Members(work) \cup (queued' \ queued)
    BY <1>1, <1>2, <2>1, PushFacts
  <2> QED
    BY <1>1, <1>2, <1>3, <2>1, <2>2, <2>3 DEF TraceCall, TraceJump
<1>4. CASE TraceOther
  <2>1. UNCHANGED <<func, label, queued, work, outOfRange>> /\ outOfRange \in Nat
    BY <1>4 DEF TraceOther, TypeOK
  <2> QED
    BY <1>1, <1>2, <1>4, <2>1 DEF TraceOther, Members
<1> QED
  BY <1>3, <1>4

-----------------------------------------------------------------------------
(* Nothing is taken back.                                                  *)

NothingLost ==
  /\ instr \subseteq instr' /\ func \subseteq func'
  /\ label \subseteq label' /\ queued \subseteq queued'
  /\ outOfRange <= outOfRange'
  /\ \A a \in lo..hi : callers[a] <= callers'[a]
  /\ (queued \ Members(work)) \cap Members(work') = {}

\* A count of callers grows by one or stays.
LEMMA CallersGrow ==
  ASSUME IInv, TraceCall
  PROVE  \A a \in lo..hi : callers[a] <= callers'[a]
<1> DEFINE target == TargetAt(pc)
<1>1. callers \in [lo..hi -> 0..CallerMax] /\ CallerMax \in Nat
  BY BoundsAssumption DEF IInv, TypeOK
<1>2. \/ callers' = [callers EXCEPT ![target] = @ + 1]
      \/ callers' = callers
  BY DEF TraceCall, MarkCall
<1>3. \A a \in lo..hi : callers[a] \in Nat
  BY <1>1
<1> HIDE DEF target
<1>4. CASE callers' = callers
  BY <1>3, <1>4
<1>5. CASE callers' = [callers EXCEPT ![target] = @ + 1]
  <2>1. \A a \in lo..hi : callers'[a] = callers[a] \/ callers'[a] = callers[a] + 1
    BY <1>1, <1>5
  <2> QED
    BY <1>3, <2>1
<1> QED
  BY <1>2, <1>4, <1>5

LEMMA StepLosesNothing == IInv /\ [Next]_vars => NothingLost
<1> SUFFICES ASSUME IInv, [Next]_vars PROVE NothingLost
  OBVIOUS
<1> USE DEF IInv
<1>1. /\ outOfRange \in Nat /\ Members(work) \subseteq queued
      /\ \A a \in lo..hi : callers[a] \in Nat
  BY BoundsAssumption DEF TypeOK, WorklistSafe
<1>2. CASE \E a \in EntryChoices : AnalyzeAddEntry(a)
  <2>1. PICK a \in EntryChoices : AnalyzeAddEntry(a)
    BY <1>2
  <2>2. a \in Addr /\ UNCHANGED input /\ push(a)
    BY <2>1, BoundsAssumption DEF AnalyzeAddEntry
  <2>3. /\ outOfRange <= outOfRange' /\ queued \subseteq queued'
        /\ Members(work') = Members(work) \cup (queued' \ queued)
    BY <2>2, PushFacts
  <2> QED
    BY <1>1, <2>1, <2>3 DEF AnalyzeAddEntry, NothingLost
<1>3. CASE AnalyzeRun \/ Return \/ EndTrail \/ UNCHANGED vars
  <2>1. UNCHANGED <<instr, func, label, queued, callers, work, outOfRange>>
    BY <1>3 DEF AnalyzeRun, Return, EndTrail, vars
  <2> QED
    BY <1>1, <2>1 DEF NothingLost, Members
<1>4. CASE Pop
  <2>1. /\ UNCHANGED <<instr, func, label, queued, callers, outOfRange>>
        /\ work \in Seq(Addr) /\ work # <<>> /\ work' = SubSeq(work, 1, Len(work) - 1)
    BY <1>4 DEF Pop, TypeOK
  <2>2. Members(work') \subseteq Members(work)
    BY <2>1, MembersPop
  <2> QED
    BY <1>1, <2>1, <2>2 DEF NothingLost
<1>5. CASE TraceCall
  BY <1>1, <1>5, TraceView, CallersGrow DEF NothingLost
<1>6. CASE TraceJump \/ TraceOther
  <2>1. callers' = callers
    BY <1>6 DEF TraceJump, TraceOther
  <2> QED
    BY <1>1, <1>6, <2>1, TraceView DEF NothingLost
<1> QED
  BY <1>2, <1>3, <1>4, <1>5, <1>6 DEF Next, Step

\* F_QUEUED outlives the stay on the worklist, so that no address is traced
\* twice; no mark is ever taken back and no count goes down, also when
\* realloc fails.
THEOREM Monotonicity == Spec => NeverTakenBack
<1>1. IInv /\ [Next]_vars => [NothingLost]_vars
  BY StepLosesNothing
<1>2. [NothingLost]_vars =>
        [ /\ instr \subseteq instr' /\ func \subseteq func'
          /\ label \subseteq label' /\ queued \subseteq queued'
          /\ outOfRange <= outOfRange'
          /\ \A a \in lo..hi : callers[a] <= callers'[a]
          /\ (queued \ Members(work)) \cap Members(work') = {} ]_vars
  BY DEF NothingLost
<1> QED
  BY <1>1, <1>2, Invariance, PTL DEF Spec, NeverTakenBack

-----------------------------------------------------------------------------
(* The marks of targets.                                                   *)

LEMMA TargetsOfStep ==
  ASSUME IInv, TraceCall \/ TraceJump \/ TraceOther, NEW flows
  PROVE  TargetsOf(flows)' = TargetsOf(flows)
                             \cup (IF FlowAt(pc) \in flows THEN {TargetAt(pc)} ELSE {})
<1>1. UNCHANGED input /\ instr' = instr \cup {pc}
  BY TraceView
<1>2. \A a : FlowAt(a)' = FlowAt(a) /\ TargetAt(a)' = TargetAt(a)
  BY <1>1, StaticGraph
<1>3. TargetsOf(flows)' = {TargetAt(s) : s \in {t \in instr' : FlowAt(t) \in flows}}
  BY <1>2 DEF TargetsOf
<1> QED
  BY <1>1, <1>3 DEF TargetsOf

LEMMA TargetsInit == Init => TargetsExact
BY DEF Init, TargetsExact, TargetsOf

LEMMA TargetsStep == IInv /\ TargetsExact /\ [Next]_vars => TargetsExact'
<1> SUFFICES ASSUME IInv, TargetsExact, [Next]_vars PROVE TargetsExact'
  OBVIOUS
<1> USE DEF IInv
<1>1. CASE \/ \E a \in EntryChoices : AnalyzeAddEntry(a)
           \/ AnalyzeRun \/ Return \/ EndTrail \/ Pop \/ UNCHANGED vars
  <2>1. UNCHANGED input /\ instr' = instr /\ label' = label
    BY <1>1 DEF AnalyzeAddEntry, AnalyzeRun, Return, EndTrail, Pop, vars, input
  <2>2. \A flows : TargetsOf(flows)' = TargetsOf(flows)
    BY <2>1, StaticGraph DEF TargetsOf
  <2>3. lo' = lo /\ hi' = hi
    BY <2>1, StaticGraph
  <2>4. func' = func \cup (entries' \ entries) /\ entries \subseteq entries'
    BY <1>1 DEF AnalyzeAddEntry, AnalyzeRun, Return, EndTrail, Pop, vars, TargetsExact
  <2> QED
    BY <2>1, <2>2, <2>3, <2>4 DEF TargetsExact
<1>2. CASE TraceCall \/ TraceJump \/ TraceOther
  <2>1. UNCHANGED input /\ entries' = entries /\ pc \in Addr /\ TargetAt(pc) \in Addr
    BY <1>2, TraceView, NodeFacts DEF Node
  <2>2. lo' = lo /\ hi' = hi /\ (inRange(TargetAt(pc)) <=> TargetAt(pc) \in lo..hi)
    BY <2>1, StaticGraph, NodeFacts
  <2>3. /\ TargetsOf({"Call"})' = TargetsOf({"Call"})
             \cup (IF FlowAt(pc) = "Call" THEN {TargetAt(pc)} ELSE {})
        /\ TargetsOf({"Jump", "Branch"})' = TargetsOf({"Jump", "Branch"})
             \cup (IF FlowAt(pc) \in {"Jump", "Branch"} THEN {TargetAt(pc)} ELSE {})
    BY <1>2, TargetsOfStep
  <2>4. /\ func' = func \cup (IF FlowAt(pc) = "Call" /\ inRange(TargetAt(pc))
                              THEN {TargetAt(pc)} ELSE {})
        /\ label' = label \cup (IF FlowAt(pc) \in {"Jump", "Branch"} /\ inRange(TargetAt(pc))
                                THEN {TargetAt(pc)} ELSE {})
    BY <1>2 DEF TraceCall, TraceJump, TraceOther, MarkCall, MarkLabel
  <2> QED
    BY <2>1, <2>2, <2>3, <2>4 DEF TargetsExact
<1> QED
  BY <1>1, <1>2 DEF Next, Step

\* AnalyzeIsFunction holds of the entry points and the targets of traced JSRs,
\* AnalyzeIsLabel of the targets of traced branches and jumps, in the range,
\* and of nothing else, whatever is queued, dropped or traced first.
THEOREM Targets == Spec => []TargetsExact
<1>1. Init => TargetsExact
  BY TargetsInit
<1>2. IInv /\ TargetsExact /\ [Next]_vars => TargetsExact'
  BY TargetsStep
<1> QED
  BY <1>1, <1>2, Invariance, PTL DEF Spec

-----------------------------------------------------------------------------
(* Reachability is implemented.                                            *)

\* The frontier of the abstract graph, in terms of the program's own edges.
Found == {a \in Node : a \in entries \/ \E s \in instr : a \in Succ(s)}

LEMMA FrontierIsFound == TypeOK => Promise!Frontier = Found
<1>1. DOMAIN Graph = Node /\ \A s \in Node : Graph[s] = Succ(s) \cap Node
  BY DEF Graph
<1> QED
  BY <1>1 DEF Promise!Frontier, Found, TypeOK

\* Every address that is queued or being traced, and decodes, was asked for
\* or control reaches it from a marked instruction in one step.
Justified == (queued \cup {pc}) \cap Node \subseteq Found

LEMMA FoundGrows ==
  ASSUME UNCHANGED input, entries \subseteq entries', instr \subseteq instr'
  PROVE  Found \subseteq Found' /\ Node' = Node /\ \A a : Succ(a)' = Succ(a)
<1>1. Node' = Node /\ \A a : Succ(a)' = Succ(a)
  BY StaticGraph DEF Succ
<1> QED
  BY <1>1 DEF Found

LEMMA JustifiedInit == Init => Justified
<1> SUFFICES ASSUME Init PROVE Justified
  OBVIOUS
<1>1. NoPc \notin Node
  BY InitInvariant, NodeFacts, BoundsAssumption DEF IInv
<1> QED
  BY <1>1 DEF Init, Justified

LEMMA JustifiedStep == IInv /\ Justified /\ [Next]_vars => Justified'
<1> SUFFICES ASSUME IInv, Justified, [Next]_vars PROVE Justified'
  OBVIOUS
<1> USE DEF IInv
<1>1. NoPc \notin Node
  BY NodeFacts, BoundsAssumption
<1>2. CASE \E a \in EntryChoices : AnalyzeAddEntry(a)
  <2>1. PICK a \in EntryChoices : AnalyzeAddEntry(a)
    BY <1>2
  <2>2. a \in Addr /\ UNCHANGED input /\ push(a)
    BY <2>1, BoundsAssumption DEF AnalyzeAddEntry
  <2>3. queued' \subseteq queued \cup {a}
    BY <2>2, PushFacts
  <2>4. instr' = instr /\ pc' = pc /\ entries' = entries \cup {a}
    BY <2>1 DEF AnalyzeAddEntry
  <2>5. Found \subseteq Found' /\ Node' = Node
    BY <2>2, <2>4, FoundGrows
  <2>6. a \in Node' => a \in Found'
    BY <2>4 DEF Found
  <2> QED
    BY <2>3, <2>4, <2>5, <2>6 DEF Justified
<1>3. CASE AnalyzeRun \/ Return \/ EndTrail \/ Pop \/ UNCHANGED vars
  <2>1. UNCHANGED input /\ UNCHANGED <<entries, instr, queued>>
    BY <1>3 DEF AnalyzeRun, Return, EndTrail, Pop, vars, input
  <2>2. pc' \in queued \cup {pc, NoPc}
    <3>1. CASE Pop
      <4>1. work \in Seq(Addr) /\ work # <<>> /\ pc' = work[Len(work)]
        BY <3>1 DEF Pop, TypeOK
      <4>2. pc' \in Members(work)
        BY <4>1, MembersPop
      <4> QED
        BY <4>2 DEF WorklistSafe
    <3> QED
      BY <1>3, <3>1 DEF AnalyzeRun, Return, EndTrail, vars
  <2>3. Found \subseteq Found' /\ Node' = Node
    BY <2>1, FoundGrows
  <2> QED
    BY <1>1, <2>1, <2>2, <2>3 DEF Justified
<1>4. CASE TraceCall \/ TraceJump \/ TraceOther
  <2>1. /\ UNCHANGED input /\ entries' = entries
        /\ pc \in Node /\ instr' = instr \cup {pc} /\ pc' = NextPc
        /\ \A t \in queued' \ queued : HasTarget(pc) /\ t = TargetAt(pc)
    BY <1>4, TraceView
  <2>2. Found \subseteq Found' /\ Node' = Node /\ \A a : Succ(a)' = Succ(a)
    BY <2>1, FoundGrows
  <2>3. Succ(pc) \cap Node \subseteq Found'
    <3> SUFFICES ASSUME NEW t \in Succ(pc) \cap Node PROVE t \in Found'
      OBVIOUS
    <3>1. Found' = {a \in Node' : a \in entries' \/ \E s \in instr' : a \in Succ(s)'}
      BY DEF Found
    <3> QED
      BY <2>1, <2>2, <3>1
  <2>4. \A t \in queued' \ queued : t \in Succ(pc)
    BY <2>1, SuccFacts
  <2>5. pc' \in Node => pc' \in Succ(pc)
    <3>1. pc \in Addr /\ LenAt(pc) # 0
      BY <2>1, NodeFacts DEF Node
    <3>2. pc' \in Node => FallsThrough(pc) /\ pc' = pc + LenAt(pc)
      BY <1>1, <2>1, <3>1, NextPcFacts
    <3> QED
      BY <3>2, SuccFacts
  <2> QED
    BY <2>2, <2>3, <2>4, <2>5 DEF Justified
<1> QED
  BY <1>2, <1>3, <1>4 DEF Next, Step

\* AnalyzeRun returns only when the frontier is empty.
LEMMA ReturnFindsAll ==
  ASSUME IInv, ~AllocMayFail, Return
  PROVE  Found \subseteq instr
<1> USE DEF IInv
<1>1. pc = NoPc /\ Members(work) = {} /\ NoPc \notin Node
  BY NodeFacts, BoundsAssumption DEF Return, Members
<1>2. queued \cap Node \subseteq instr
  BY <1>1 DEF Pending
<1>3. ASSUME NEW a \in Found PROVE a \in instr
  <2>1. CASE a \in entries
    BY <1>2, <1>3, <2>1 DEF Found, Accounted
  <2>2. CASE \E s \in instr : a \in Succ(s)
    <3>1. PICK s \in instr : a \in Succ(s)
      BY <2>2
    <3>2. a \in Node /\ inRange(a)
      BY <1>3, NodeFacts DEF Found
    <3>3. CASE HasTarget(s) /\ a = TargetAt(s)
      BY <1>2, <3>2, <3>3 DEF Accounted
    <3>4. CASE FallsThrough(s) /\ a = s + LenAt(s)
      BY <1>1, <3>2, <3>4 DEF Pending
    <3> QED
      BY <3>1, <3>3, <3>4, SuccFacts
  <2> QED
    BY <1>3, <2>1, <2>2 DEF Found
<1> QED
  BY <1>3

LEMMA RefinesInit == Init => Promise!Init
BY DEF Init, Promise!Init

LEMMA RefinesStep ==
  ASSUME ~AllocMayFail
  PROVE  IInv /\ Justified /\ [Next]_vars => [Promise!Next]_(Promise!vars)
<1> SUFFICES ASSUME IInv, Justified, [Next]_vars PROVE [Promise!Next]_(Promise!vars)
  OBVIOUS
<1> USE DEF IInv
<1>1. Promise!Frontier = Found /\ DOMAIN Graph = Node
  BY FrontierIsFound DEF Graph
<1>2. UNCHANGED input
  BY DEF Next, Step, AnalyzeAddEntry, AnalyzeRun, Return, Pop, EndTrail,
         TraceCall, TraceJump, TraceOther, vars, input
<1>3. Graph' = Graph /\ Node' = Node
  BY <1>2, StaticGraph
<1>4. CASE \E a \in EntryChoices : AnalyzeAddEntry(a)
  <2>1. PICK a \in EntryChoices : AnalyzeAddEntry(a)
    BY <1>4
  <2>2. /\ ~running /\ running' = running /\ instr' = instr
        /\ entries' = entries \cup {a}
    BY <2>1 DEF AnalyzeAddEntry
  <2>3. CASE a \in Node
    <3>1. (entries \cap Node)' = (entries \cap Node) \cup {a}
      BY <1>3, <2>2, <2>3
    <3>2. Promise!Seed
      BY <1>1, <1>3, <2>2, <2>3, <3>1 DEF Promise!Seed, Promise!Node
    <3> QED
      BY <3>2 DEF Promise!Next
  <2>4. CASE a \notin Node
    <3>1. (entries \cap Node)' = entries \cap Node
      BY <1>3, <2>2, <2>4
    <3> QED
      BY <1>3, <2>2, <3>1 DEF Promise!vars
  <2> QED
    BY <2>3, <2>4
<1>5. CASE AnalyzeRun
  <2>1. Promise!Start
    BY <1>3, <1>5 DEF AnalyzeRun, Promise!Start
  <2> QED
    BY <2>1 DEF Promise!Next
<1>6. CASE Return
  <2>1. Promise!Return
    BY <1>1, <1>3, <1>6, ReturnFindsAll DEF Return, Promise!Return
  <2> QED
    BY <2>1 DEF Promise!Next
<1>7. CASE Pop \/ EndTrail \/ UNCHANGED vars
  <2>1. UNCHANGED <<entries, instr, running>>
    BY <1>7 DEF Pop, EndTrail, vars
  <2> QED
    BY <1>3, <2>1 DEF Promise!vars
<1>8. CASE TraceCall \/ TraceJump \/ TraceOther
  <2>1. /\ running /\ running' = running /\ entries' = entries
        /\ pc \in Node \ instr /\ instr' = instr \cup {pc}
    BY <1>8, TraceView
  <2>2. pc \in Promise!Frontier \ instr
    BY <1>1, <2>1 DEF Justified
  <2>3. Promise!Mark
    BY <1>3, <2>1, <2>2 DEF Promise!Mark
  <2> QED
    BY <2>3 DEF Promise!Next
<1> QED
  BY <1>4, <1>5, <1>6, <1>7, <1>8 DEF Next, Step

\* What analyze.h promises is kept, for every program, table and capacity,
\* when realloc does not fail: each iteration of AnalyzeRun marks one more
\* address of the frontier or changes nothing that shows, and AnalyzeRun
\* returns only when control reaches nothing unmarked.
THEOREM Refinement ==
  ASSUME ~AllocMayFail
  PROVE  Spec => ImplementsReachability
<1>1. Init => Promise!Init
  BY RefinesInit
<1>2. IInv /\ Justified /\ [Next]_vars => [Promise!Next]_(Promise!vars)
  BY RefinesStep
<1>3. Init => Justified
  BY JustifiedInit
<1>4. IInv /\ Justified /\ [Next]_vars => Justified'
  BY JustifiedStep
<1> QED
  BY <1>1, <1>2, <1>3, <1>4, Invariance, PTL
  DEF Spec, ImplementsReachability, Promise!Spec
-----------------------------------------------------------------------------
(* What is missing when AnalyzeRun has returned.                           *)

LEMMA MissingWereDropped == IInv => OnlyDroppedMissing
<1> SUFFICES ASSUME IInv, Settled, NEW a \in Node \ instr
             PROVE  /\ a \notin queued
                    /\ \A s \in instr : ~(FallsThrough(s) /\ a = s + LenAt(s))
  BY DEF OnlyDroppedMissing
<1>1. pc = NoPc /\ Members(work) = {} /\ NoPc \notin Node
  BY NodeFacts, BoundsAssumption DEF IInv, TypeOK, Settled, Members
<1>2. a \notin queued
  BY <1>1 DEF IInv, Pending
<1>3. \A s \in instr : ~(FallsThrough(s) /\ a = s + LenAt(s))
  BY <1>1 DEF IInv, Pending
<1> QED
  BY <1>2, <1>3

\* When AnalyzeRun has returned, also after realloc has failed, an address that
\* is not marked was never queued and is no fall-through of a marked one.
THEOREM OnlyDropped == Spec => []OnlyDroppedMissing
BY MissingWereDropped, Invariance, PTL

-----------------------------------------------------------------------------
(* Sets of traced instructions.                                            *)

LEMMA TracedFinite ==
  ASSUME TypeOK, NEW S \in SUBSET instr
  PROVE  IsFiniteSet(S) /\ Cardinality(S) \in Nat
<1>1. lo \in Int /\ hi \in Int
  BY Space DEF TypeOK, Addr
<1>2. IsFiniteSet(lo..hi)
  BY <1>1, FS_Interval
<1>3. S \in SUBSET (lo..hi)
  BY NodeFacts DEF TypeOK
<1>4. IsFiniteSet(S)
  BY <1>2, <1>3, FS_Subset
<1> QED
  BY <1>4, FS_CardinalityType

\* Tracing an instruction that was not traced before adds one to the sets it
\* belongs to, and leaves the others.
LEMMA CountOneMore ==
  ASSUME TypeOK, NEW S \in SUBSET instr, pc \notin instr
  PROVE  Cardinality(S \cup {pc}) = Cardinality(S) + 1
<1>1. IsFiniteSet(S) /\ pc \notin S
  BY TracedFinite
<1> QED
  BY <1>1, FS_AddElement

-----------------------------------------------------------------------------
(* Targets outside the range.                                              *)

Outside == {s \in instr : HasTarget(s) /\ ~inRange(TargetAt(s))}

LEMMA OutsideInit == Init => OutOfRangeExact
<1> SUFFICES ASSUME Init PROVE OutOfRangeExact
  OBVIOUS
<1>1. {s \in instr : HasTarget(s) /\ ~inRange(TargetAt(s))} = {}
  BY DEF Init
<1>2. outOfRange = 0
  BY DEF Init
<1> QED
  BY <1>1, <1>2, FS_EmptySet DEF OutOfRangeExact

LEMMA OutsideStep == IInv /\ OutOfRangeExact /\ [Next]_vars => OutOfRangeExact'
<1> SUFFICES ASSUME IInv, OutOfRangeExact, [Next]_vars PROVE OutOfRangeExact'
  OBVIOUS
<1> USE DEF IInv
<1>1. OutOfRangeExact <=> outOfRange = Cardinality(Outside)
  BY DEF OutOfRangeExact, Outside
<1>2. OutOfRangeExact' <=> outOfRange' = Cardinality(Outside')
  BY DEF OutOfRangeExact, Outside
<1>3. CASE \/ \E a \in EntryChoices : AnalyzeAddEntry(a)
           \/ AnalyzeRun \/ Return \/ EndTrail \/ Pop \/ UNCHANGED vars
  <2>1. UNCHANGED input /\ instr' = instr /\ outOfRange' = outOfRange
    BY <1>3 DEF AnalyzeAddEntry, push, AnalyzeRun, Return, EndTrail, Pop, vars, input
  <2>2. Outside' = Outside
    BY <2>1, StaticGraph DEF Outside
  <2> QED
    BY <1>1, <1>2, <2>1, <2>2
<1>4. CASE TraceCall \/ TraceJump \/ TraceOther
  <2>1. UNCHANGED input /\ pc \notin instr /\ instr' = instr \cup {pc}
    BY <1>4, TraceView
  <2>2. Outside' = IF HasTarget(pc) /\ ~inRange(TargetAt(pc)) THEN Outside \cup {pc} ELSE Outside
    BY <2>1, StaticGraph DEF Outside
  <2>3. outOfRange' = IF HasTarget(pc) /\ ~inRange(TargetAt(pc)) THEN outOfRange + 1 ELSE outOfRange
    <3>1. CASE TraceCall \/ TraceJump
      BY <3>1 DEF TraceCall, TraceJump, push, HasTarget, TargetFlows
    <3>2. CASE TraceOther
      BY <3>2 DEF TraceOther, HasTarget, TargetFlows
    <3> QED
      BY <1>4, <3>1, <3>2
  <2>4. Cardinality(Outside \cup {pc}) = Cardinality(Outside) + 1
    BY <2>1, CountOneMore DEF Outside
  <2> QED
    BY <1>1, <1>2, <2>2, <2>3, <2>4
<1> QED
  BY <1>3, <1>4 DEF Next, Step

\* AnalyzeOutOfRange is the number of traced instructions whose target lies
\* outside the range, each counted once, whatever is queued, dropped or traced
\* first.
THEOREM OutOfRangeCount == Spec => []OutOfRangeExact
<1>1. Init => OutOfRangeExact
  BY OutsideInit
<1>2. IInv /\ OutOfRangeExact /\ [Next]_vars => OutOfRangeExact'
  BY OutsideStep
<1> QED
  BY <1>1, <1>2, Invariance, PTL DEF Spec

-----------------------------------------------------------------------------
(* Callers.                                                                *)

Calls(a) == {s \in instr : FlowAt(s) = "Call" /\ TargetAt(s) = a}

Held(n) == IF n > CallerMax THEN CallerMax ELSE n

CountsCalls == \A a \in lo..hi : callers[a] = Held(Cardinality(Calls(a)))

LEMMA CallersAsCalls == /\ CallersExact <=> CountsCalls
                        /\ CallersExact' <=> CountsCalls'
<1>1. \A a : Sites(a, {"Call"}) = Calls(a)
  BY DEF Sites, Calls
<1>2. \A a : Sites(a, {"Call"})' = Calls(a)'
  BY DEF Sites, Calls
<1> QED
  BY <1>1, <1>2 DEF CallersExact, CountsCalls, Held

LEMMA CallersInit == Init => CallersExact
<1> SUFFICES ASSUME Init PROVE CountsCalls
  BY CallersAsCalls
<1>1. \A a : Calls(a) = {}
  BY DEF Init, Calls
<1>2. \A a \in lo..hi : callers[a] = 0
  BY DEF Init
<1>3. Held(0) = 0
  BY BoundsAssumption DEF Held
<1> QED
  BY <1>1, <1>2, <1>3, FS_EmptySet DEF CountsCalls

\* One more caller of one address, held at the maximum.
LEMMA OneMoreCaller ==
  ASSUME IInv, CountsCalls, TraceCall, NEW a \in lo..hi
  PROVE  callers'[a] = Held(Cardinality(Calls(a)'))
<1> USE DEF IInv
<1> DEFINE target == TargetAt(pc)
<1>1. /\ UNCHANGED input /\ pc \in Addr /\ pc \notin instr /\ instr' = instr \cup {pc}
      /\ FlowAt(pc) = "Call" /\ MarkCall(target)
  BY TraceView, NodeFacts DEF TraceCall, Node
<1>2. Calls(a)' = IF target = a THEN Calls(a) \cup {pc} ELSE Calls(a)
  BY <1>1, StaticGraph DEF Calls
<1>3. Cardinality(Calls(a) \cup {pc}) = Cardinality(Calls(a)) + 1
  BY <1>1, CountOneMore DEF Calls
<1>4. Cardinality(Calls(a)) \in Nat
  BY TracedFinite DEF Calls
<1>5. inRange(target) <=> target \in lo..hi
  BY <1>1, NodeFacts
<1>6. callers \in [lo..hi -> 0..CallerMax] /\ CallerMax \in Nat
  BY BoundsAssumption DEF TypeOK
<1>7. callers[a] = Held(Cardinality(Calls(a)))
  BY DEF CountsCalls
<1> HIDE DEF target
<1>8. CASE target = a
  <2>1. callers' = IF callers[a] < CallerMax THEN [callers EXCEPT ![a] = @ + 1] ELSE callers
    BY <1>1, <1>5, <1>8 DEF MarkCall
  <2>2. callers'[a] = IF callers[a] < CallerMax THEN callers[a] + 1 ELSE callers[a]
    BY <1>6, <2>1
  <2> QED
    BY <1>2, <1>3, <1>4, <1>6, <1>7, <1>8, <2>2 DEF Held
<1>9. CASE target # a
  <2>1. callers'[a] = callers[a]
    BY <1>1, <1>6, <1>9 DEF MarkCall
  <2> QED
    BY <1>2, <1>7, <1>9, <2>1
<1> QED
  BY <1>8, <1>9

LEMMA CallersStep == IInv /\ CallersExact /\ [Next]_vars => CallersExact'
<1> SUFFICES ASSUME IInv, CountsCalls, [Next]_vars PROVE CountsCalls'
  BY CallersAsCalls
<1> USE DEF IInv
<1>1. CASE TraceCall
  <2>1. lo' = lo /\ hi' = hi
    BY <1>1, TraceView, StaticGraph
  <2> QED
    BY <1>1, <2>1, OneMoreCaller DEF CountsCalls, Held
<1>2. CASE TraceJump \/ TraceOther
  <2>1. UNCHANGED input /\ instr' = instr \cup {pc} /\ callers' = callers
    BY <1>2, TraceView DEF TraceJump, TraceOther
  <2>2. FlowAt(pc) # "Call"
    BY <1>2 DEF TraceJump, TraceOther
  <2>3. \A a : Calls(a)' = Calls(a)
    BY <2>1, <2>2, StaticGraph DEF Calls
  <2> QED
    BY <2>1, <2>3, StaticGraph DEF CountsCalls, Held
<1>3. CASE \/ \E a \in EntryChoices : AnalyzeAddEntry(a)
           \/ AnalyzeRun \/ Return \/ EndTrail \/ Pop \/ UNCHANGED vars
  <2>1. UNCHANGED input /\ instr' = instr /\ callers' = callers
    BY <1>3 DEF AnalyzeAddEntry, AnalyzeRun, Return, EndTrail, Pop, vars, input
  <2>2. \A a : Calls(a)' = Calls(a)
    BY <2>1, StaticGraph DEF Calls
  <2> QED
    BY <2>1, <2>2, StaticGraph DEF CountsCalls, Held
<1> QED
  BY <1>1, <1>2, <1>3 DEF Next, Step

\* AnalyzeCallers is the number of traced JSRs that name an address, held at
\* the maximum, for every maximum and every order in which they are traced.
THEOREM CallerCount == Spec => []CallersExact
<1>1. Init => CallersExact
  BY CallersInit
<1>2. IInv /\ CallersExact /\ [Next]_vars => CallersExact'
  BY CallersStep
<1> QED
  BY <1>1, <1>2, Invariance, PTL DEF Spec
=============================================================================
