------------------------------ MODULE Analyze ------------------------------
(***************************************************************************)
(* The recursive-descent analysis of analyze.c: the struct DisAnalysis,    *)
(* AnalyzeAddEntry, and the worklist loop of AnalyzeRun, one action per    *)
(* iteration of its inner loop.                                            *)
(*                                                                         *)
(* The flags array is four sets of addresses, one per flag bit.  pc is the *)
(* local variable of the inner loop, NoPc between two trails.              *)
(***************************************************************************)
EXTENDS Disassemble, FiniteSets

CONSTANTS
  Inputs,         \* the analyses AnalyzeNew is asked for: [cpu, mem, lo, hi]
  EntryChoices,   \* the addresses AnalyzeAddEntry is called with
  InitialCap,     \* first capacity of the worklist: 256
  CallerMax,      \* where a caller count saturates: 0xffff
  AllocMayFail,   \* whether malloc, calloc and realloc may return NULL
  NoPc            \* no address is being traced

ASSUME InputsAssumption ==
  \A i \in Inputs : /\ i.cpu \in Model \cup {NoCpu}
                    /\ IsImage(i.mem)
                    /\ i.lo \in Addr /\ i.hi \in Addr

ASSUME BoundsAssumption ==
  /\ EntryChoices \subseteq Addr
  /\ InitialCap \in Nat \ {0}
  /\ CallerMax \in Nat \ {0}
  /\ AllocMayFail \in BOOLEAN
  /\ NoPc \notin Addr

VARIABLES
  cpu, mem, lo, hi,   \* what the analysis is over; never change
  entries,            \* history: the entry points accepted
  instr,              \* F_INSTRUCTION
  func,               \* F_FUNCTION
  label,              \* F_LABEL
  queued,             \* F_QUEUED
  callers,            \* callers[], over [lo, hi]
  work,               \* work[0 .. workLen-1]
  workCap,            \* allocated length of work
  outOfRange,
  running,            \* AnalyzeRun has been called and has not returned
  pc

input == <<cpu, mem, lo, hi>>
vars  == <<cpu, mem, lo, hi, entries, instr, func, label, queued, callers,
           work, workCap, outOfRange, running, pc>>

Members(seq) == {seq[i] : i \in DOMAIN seq}

inRange(a) == lo <= a /\ a <= hi

LenAt(a)    == InstLen(cpu, mem, a)
FlowAt(a)   == DisFlowOf(cpu, mem, a)
TargetAt(a) == Target(cpu, mem, a)

(***************************************************************************)
(* push(): count a target outside the range; otherwise queue it unless it  *)
(* has been queued before.  A full worklist is doubled, and a failing      *)
(* realloc drops the target.                                               *)
(***************************************************************************)
Enqueue(a) == work' = Append(work, a) /\ queued' = queued \cup {a}

\* Mutants of push: no F_QUEUED test; the test asks whether the address is
\* waiting now; F_QUEUED is set before the worklist is known to have room.
pushUnmarked(a) ==
  IF inRange(a)
  THEN Enqueue(a) /\ workCap' = Len(work) + 1 /\ UNCHANGED outOfRange
  ELSE outOfRange' = outOfRange + 1 /\ UNCHANGED <<work, queued, workCap>>
pushNotWaiting(a) ==
  IF inRange(a) /\ a \notin Members(work)
  THEN Enqueue(a) /\ workCap' = Len(work) + 1 /\ UNCHANGED outOfRange
  ELSE UNCHANGED <<work, queued, workCap, outOfRange>>
pushMarksFirst(a) ==
  /\ queued' = IF inRange(a) THEN queued \cup {a} ELSE queued
  /\ outOfRange' = IF inRange(a) THEN outOfRange ELSE outOfRange + 1
  /\ IF inRange(a) /\ a \notin queued
     THEN \/ work' = Append(work, a) /\ workCap' = Len(work) + 1
          \/ AllocMayFail /\ UNCHANGED <<work, workCap>>
     ELSE UNCHANGED <<work, workCap>>

push(a) ==
  \/ /\ ~inRange(a)
     /\ outOfRange' = outOfRange + 1
     /\ UNCHANGED <<work, queued, workCap>>
  \/ /\ inRange(a) /\ a \in queued
     /\ UNCHANGED <<work, queued, workCap, outOfRange>>
  \/ /\ inRange(a) /\ a \notin queued /\ Len(work) # workCap
     /\ Enqueue(a)
     /\ UNCHANGED <<workCap, outOfRange>>
  \/ /\ inRange(a) /\ a \notin queued /\ Len(work) = workCap
     /\ Enqueue(a)
     /\ workCap' = IF workCap = 0 THEN InitialCap ELSE 2 * workCap
     /\ UNCHANGED outOfRange
  \/ /\ inRange(a) /\ a \notin queued /\ Len(work) = workCap
     /\ AllocMayFail
     /\ UNCHANGED <<work, queued, workCap, outOfRange>>

(***************************************************************************)
(* AnalyzeNew: everything zeroed.  It answers lo > hi with NULL, and every *)
(* function does with a NULL analysis what it does here with an empty      *)
(* range: nothing.                                                         *)
(***************************************************************************)
Init ==
  /\ \E i \in Inputs : cpu = i.cpu /\ mem = i.mem /\ lo = i.lo /\ hi = i.hi
  /\ entries = {} /\ instr = {} /\ func = {} /\ label = {} /\ queued = {}
  /\ callers = [a \in lo..hi |-> 0]
  /\ work = <<>> /\ workCap = 0
  /\ outOfRange = 0
  /\ running = FALSE
  /\ pc = NoPc

AnalyzeAddEntry(a) ==
  /\ ~running
  /\ inRange(a)
  /\ func' = func \cup {a}
  /\ entries' = entries \cup {a}
  /\ push(a)
  /\ UNCHANGED <<input, instr, label, callers, running, pc>>

\* AnalyzeRun is called ...
AnalyzeRun ==
  /\ ~running
  /\ running' = TRUE
  /\ UNCHANGED <<input, entries, instr, func, label, queued, callers, work,
                 workCap, outOfRange, pc>>

\* Mutant of Pop: the address stays on the worklist.
PopKeeps ==
  /\ running /\ pc = NoPc /\ work # <<>>
  /\ pc' = work[Len(work)]
  /\ UNCHANGED <<input, entries, instr, func, label, queued, callers, work,
                 workCap, outOfRange, running>>

\* ... takes the newest address off the worklist ...
Pop ==
  /\ running /\ pc = NoPc /\ work # <<>>
  /\ pc' = work[Len(work)]
  /\ work' = SubSeq(work, 1, Len(work) - 1)
  /\ UNCHANGED <<input, entries, instr, func, label, queued, callers, workCap,
                 outOfRange, running>>

\* ... and returns when there is none.
Return ==
  /\ running /\ pc = NoPc /\ work = <<>>
  /\ running' = FALSE
  /\ UNCHANGED <<input, entries, instr, func, label, queued, callers, work,
                 workCap, outOfRange, pc>>

(***************************************************************************)
(* The inner loop.  A trail ends at an address outside the range, at one   *)
(* already traced, or where nothing can be decoded.                        *)
(***************************************************************************)
\* Mutant: the trail runs on through instructions that are already marked.
TraceableAgain == running /\ pc # NoPc /\ inRange(pc) /\ LenAt(pc) # 0
\* Mutant: the trail is not held to the range.
TraceableAnywhere == running /\ pc # NoPc /\ pc \notin instr /\ LenAt(pc) # 0

Traceable ==
  /\ running /\ pc # NoPc
  /\ inRange(pc)
  /\ pc \notin instr
  /\ LenAt(pc) # 0

EndTrail ==
  /\ running /\ pc # NoPc
  /\ ~Traceable
  /\ pc' = NoPc
  /\ UNCHANGED <<input, entries, instr, func, label, queued, callers, work,
                 workCap, outOfRange, running>>

\* Mutants of NextPc: every instruction falls through; a branch does not.
NextPcAlways == IF pc + LenAt(pc) \in Addr THEN pc + LenAt(pc) ELSE NoPc
NextPcNotTaken == IF FlowAt(pc) \in {"Normal", "Call"} THEN NextPcAlways ELSE NoPc

\* Where the trail goes on, unless nothing falls through or the address
\* wraps past $ffff.
NextPc ==
  LET next == Wrap16(pc + LenAt(pc))
  IN  IF FlowAt(pc) \in {"Jump", "Return", "Indirect"} \/ next < pc THEN NoPc ELSE next

\* Mutant of MarkCall: the count is not held at its maximum.
MarkCallUnsaturated(target) ==
  IF inRange(target)
  THEN func' = func \cup {target} /\ callers' = [callers EXCEPT ![target] = @ + 1]
  ELSE UNCHANGED <<func, callers>>

MarkCall(target) ==
  IF inRange(target)
  THEN /\ func' = func \cup {target}
       /\ callers' = IF callers[target] < CallerMax
                     THEN [callers EXCEPT ![target] = @ + 1] ELSE callers
  ELSE UNCHANGED <<func, callers>>

\* Mutant of MarkLabel: only a target not seen before is a label.
MarkLabelIfNew(target) ==
  label' = IF inRange(target) /\ target \notin queued THEN label \cup {target} ELSE label

MarkLabel(target) ==
  label' = IF inRange(target) THEN label \cup {target} ELSE label

TraceCall ==
  /\ Traceable
  /\ FlowAt(pc) = "Call"
  /\ instr' = instr \cup {pc}
  /\ MarkCall(TargetAt(pc))
  /\ push(TargetAt(pc))
  /\ pc' = NextPc
  /\ UNCHANGED <<input, entries, label, running>>

TraceJump ==
  /\ Traceable
  /\ FlowAt(pc) \in {"Jump", "Branch"}
  /\ instr' = instr \cup {pc}
  /\ MarkLabel(TargetAt(pc))
  /\ push(TargetAt(pc))
  /\ pc' = NextPc
  /\ UNCHANGED <<input, entries, func, callers, running>>

TraceOther ==
  /\ Traceable
  /\ FlowAt(pc) \in {"Normal", "Return", "Indirect"}
  /\ instr' = instr \cup {pc}
  /\ pc' = NextPc
  /\ UNCHANGED <<input, entries, func, label, queued, callers, work, workCap,
                 outOfRange, running>>

Step == Pop \/ EndTrail \/ TraceCall \/ TraceJump \/ TraceOther \/ Return

Next == (\E a \in EntryChoices : AnalyzeAddEntry(a)) \/ AnalyzeRun \/ Step

\* The analysis is sequential code: once called, AnalyzeRun keeps running.
Spec == Init /\ [][Next]_vars /\ WF_vars(Step)

-----------------------------------------------------------------------------
(***************************************************************************)
(* Control flow as a graph: the nodes are the addresses of the range that  *)
(* decode, the edges the targets and fall-throughs of their instructions.  *)
(***************************************************************************)
Node == {a \in lo..hi : LenAt(a) # 0}

TargetFlows      == {"Call", "Jump", "Branch"}
FallThroughFlows == {"Call", "Branch", "Normal"}

HasTarget(a)    == FlowAt(a) \in TargetFlows
FallsThrough(a) == FlowAt(a) \in FallThroughFlows /\ a + LenAt(a) \in Addr

Succ(a) ==
  LET flow == FlowAt(a)
      next == a + LenAt(a)
  IN  (IF flow \in TargetFlows THEN {TargetAt(a)} ELSE {})
      \cup (IF flow \in FallThroughFlows /\ next \in Addr THEN {next} ELSE {})

Graph == [a \in Node |-> Succ(a) \cap Node]

\* The sets of nodes that hold every accepted entry point and every node an
\* edge leads to from a member; the nodes reached are the ones in all of them.
ClosedSets ==
  LET graph == Graph
      seeds == entries \cap DOMAIN graph
  IN  {S \in SUBSET DOMAIN graph : seeds \subseteq S /\ \A s \in S : graph[s] \subseteq S}

Reach == LET closed == ClosedSets IN {a \in Node : \A S \in closed : a \in S}

\* The traced instructions that name a as their target, by kind of flow.
Sites(a, flows) == {s \in instr : FlowAt(s) \in flows /\ TargetAt(s) = a}

TargetsOf(flows) == {TargetAt(s) : s \in {t \in instr : FlowAt(t) \in flows}}

Settled == ~running /\ work = <<>>

-----------------------------------------------------------------------------
TypeOK ==
  /\ (cpu = NoCpu \/ cpu \in Model) /\ IsImage(mem)
  /\ lo \in Addr /\ hi \in Addr
  /\ entries \subseteq lo..hi /\ instr \subseteq Node /\ func \subseteq lo..hi
  /\ label \subseteq lo..hi /\ queued \subseteq lo..hi
  /\ callers \in [lo..hi -> 0..CallerMax]
  /\ work \in Seq(Addr) /\ workCap \in Nat
  /\ outOfRange \in Nat
  /\ running \in BOOLEAN
  /\ (pc = NoPc \/ pc \in Addr) /\ (~running => pc = NoPc)

\* analyze.h: "the traversal follows control flow".  Nothing is marked as an
\* instruction that control does not reach from an accepted entry point,
\* whatever the allocator does.
Sound == instr \subseteq Reach

\* While realloc delivers, a traversal that has returned has marked every
\* address control reaches, in whatever order entry points were added and
\* also when the analysis is run again after new ones.
Complete == ~AllocMayFail /\ Settled => Reach \subseteq instr

\* push() drops a target when realloc fails, and nothing else is lost: an
\* address that is reached from a marked one, or was asked for, and is not
\* marked was never queued, and it is not a fall-through.
OnlyDroppedMissing ==
  Settled =>
    \A a \in Node \ instr :
      /\ a \notin queued
      /\ \A s \in instr : ~(FallsThrough(s) /\ a = s + LenAt(s))

\* AnalyzeIsFunction is true of entry points and of JSR targets, and
\* AnalyzeIsLabel of branch and JMP targets, of the traced instructions and
\* of nothing else: also for a target that was dropped or already queued.
TargetsExact ==
  /\ func = entries \cup (TargetsOf({"Call"}) \cap lo..hi)
  /\ label = TargetsOf({"Jump", "Branch"}) \cap lo..hi

\* AnalyzeCallers: "How many distinct JSR sites target addr", held at the
\* maximum a uint16_t can count.
CallersExact ==
  \A a \in lo..hi :
    LET n == Cardinality(Sites(a, {"Call"}))
    IN  callers[a] = IF n > CallerMax THEN CallerMax ELSE n

\* AnalyzeOutOfRange: one for every traced instruction whose target lies
\* outside [lo, hi], each counted once however often its address is queued.
OutOfRangeExact ==
  outOfRange = Cardinality({s \in instr : HasTarget(s) /\ ~inRange(TargetAt(s))})

\* push(): "each address enters the worklist at most once", and no write goes
\* past the allocated end of work.
WorklistSafe ==
  /\ \A i, j \in DOMAIN work : work[i] = work[j] => i = j
  /\ Members(work) \subseteq queued
  /\ Len(work) <= workCap

\* What has left the worklist never enters it again, no mark is ever taken
\* back, and no count goes down.
NeverTakenBack ==
  [][ /\ instr \subseteq instr' /\ func \subseteq func'
      /\ label \subseteq label' /\ queued \subseteq queued'
      /\ outOfRange <= outOfRange'
      /\ \A a \in lo..hi : callers[a] <= callers'[a]
      /\ (queued \ Members(work)) \cap Members(work') = {} ]_vars

\* AnalyzeRun: "Terminates on any input."
Terminates == running ~> ~running

\* The analysis implements the promise of analyze.h.
Promise == INSTANCE Reachability WITH
             succ <- Graph,
             seeds <- entries \cap Node,
             marked <- instr
ImplementsReachability == Promise!Spec
=============================================================================
