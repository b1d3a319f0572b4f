-------------------------------- MODULE Dis --------------------------------
(***************************************************************************)
(* main of dis.c, from the command line to the end of the listing: the     *)
(* arguments, one action for each turn of their loop, the choice of the    *)
(* reader and what it makes of the file, the calls on the analysis, and    *)
(* the listing.                                                            *)
(*                                                                         *)
(* What a reader makes of a file is what Loading and RomLoading promise,   *)
(* here at the program's own addresses; a file is the list of records its  *)
(* reader finds in it.                                                     *)
(***************************************************************************)
EXTENDS Listing

CONSTANTS
  Commands,    \* what dis is called with: [argv, files]
  Options,     \* the words that start with a dash
  NoPath

VARIABLES
  argv, files,   \* the words, and the files there are
  argi,
  model, inputPath, linear

command == <<argv, files, argi, model, inputPath, linear>>
disVars == <<vars, listing, phase, command>>

Phases == {"arguments", "loaded", "seeded", "tracing", "printing",
           "sweeping", "outOfMemory", "done", "failed", "helped"}

Reader == INSTANCE RomLoading WITH Space <- AddrSpace, Base <- 256

cpuNames == [n \in {"6502", "6502u", "65c02", "w65c02", "r65c02"} |->
               CASE n = "6502"   -> "CPU_6502"
                 [] n = "6502u"  -> "CPU_6502U"
                 [] n = "65c02"  -> "CPU_65C02"
                 [] n = "w65c02" -> "CPU_W65C02"
                 [] n = "r65c02" -> "CPU_R65C02"]

\* BRK, NOP, LDA #$42, LDA $10, LDA $1234, JMP $2000.
demo_image ==
  <<\h00, \hea, \ha9, \h42, \ha5, \h10, \had, \h34, \h12, \h4c, \h00, \h20>>

\* The byte at $ffff, which no file reaches, reads as BRK.
ASSUME TablesAssumption ==
  /\ {cpuNames[n] : n \in DOMAIN cpuNames} \subseteq Model
  /\ \A m \in Model : Mnemonic(m, 0) = "brk"

\* A model has no name that is an option.
ASSUME OptionsAssumption ==
  {"--cpu", "--linear", "--help"} \subseteq Options /\ Options \cap DOMAIN cpuNames = {}

\* A reader refuses a file that is not sound; a chunk lies within memory, and a
\* HEX record has no more bytes than a byte can count.
FileRecord == [addr : Addr, bytes : Seq(Byte)]

ASSUME CommandsAssumption ==
  \A c \in Commands :
    /\ c.argv \in Seq(STRING)
    /\ \A p \in DOMAIN c.files :
         /\ p \notin Options
         /\ c.files[p].format \in {"rom", "hex"} /\ c.files[p].sound \in BOOLEAN
         /\ c.files[p].records \in Seq(FileRecord)
         /\ \A i \in DOMAIN c.files[p].records :
              LET r == c.files[p].records[i]
              IN  IF c.files[p].format = "rom"
                  THEN Len(r.bytes) > 0 /\ r.addr + Len(r.bytes) <= AddrSpace
                  ELSE Len(r.bytes) < 256

\* Before the first DisInit, with nothing loaded.
disInit ==
  /\ \E c \in Commands : argv = c.argv /\ files = c.files
  /\ argi = 1 /\ model = "CPU_65C02" /\ inputPath = NoPath /\ linear = FALSE
  /\ phase = "arguments"
  /\ cpu = NoCpu /\ mem = [a \in {} |-> 0] /\ lo = 1 /\ hi = 0
  /\ entries = {} /\ instr = {} /\ func = {} /\ label = {} /\ queued = {}
  /\ callers = [a \in {} |-> 0]
  /\ work = <<>> /\ workCap = 0 /\ outOfRange = 0
  /\ running = FALSE /\ pc = NoPc
  /\ addr = 0 /\ consumed = 0 /\ lines = <<>>

(***************************************************************************)
(* The arguments.                                                          *)
(***************************************************************************)
Arg == argv[argi]
NextArg == phase = "arguments" /\ argi <= Len(argv)

CpuNamed == argi < Len(argv) /\ argv[argi + 1] \in DOMAIN cpuNames

\* Mutant: the name of the model is looked at again as an argument.
ArgCpuStays ==
  /\ NextArg /\ Arg = "--cpu" /\ CpuNamed
  /\ model' = cpuNames[argv[argi + 1]]
  /\ argi' = argi + 1
  /\ UNCHANGED <<vars, listing, phase, argv, files, inputPath, linear>>

ArgCpu ==
  /\ NextArg /\ Arg = "--cpu" /\ CpuNamed
  /\ model' = cpuNames[argv[argi + 1]]
  /\ argi' = argi + 2
  /\ UNCHANGED <<vars, listing, phase, argv, files, inputPath, linear>>

ArgLinear ==
  /\ NextArg /\ Arg = "--linear"
  /\ linear' = TRUE
  /\ argi' = argi + 1
  /\ UNCHANGED <<vars, listing, phase, argv, files, model, inputPath>>

ArgPath ==
  /\ NextArg /\ Arg \notin Options
  /\ inputPath' = Arg
  /\ argi' = argi + 1
  /\ UNCHANGED <<vars, listing, phase, argv, files, model, linear>>

ArgHelp ==
  /\ NextArg /\ Arg = "--help"
  /\ phase' = "helped"
  /\ UNCHANGED <<vars, listing, command>>

\* --cpu without the name of a model, and an option nobody knows.
ArgWrong ==
  /\ NextArg /\ Arg \in Options \ {"--linear", "--help"}
  /\ Arg = "--cpu" => ~CpuNamed
  /\ phase' = "failed"
  /\ UNCHANGED <<vars, listing, command>>

(***************************************************************************)
(* Loading: base and end, and the memory under them, then DisInit.         *)
(***************************************************************************)
ArgsDone == phase = "arguments" /\ argi > Len(argv)

File    == files[inputPath]
Records == File.records

Readable(format) ==
  ArgsDone /\ inputPath \in DOMAIN files /\ File.format = format /\ File.sound

\* Whatever has been loaded, DisInit(model) comes next, and there is no CPU if
\* its malloc fails: main does not ask.  The counts AnalyzeNew zeroes are given
\* their range.
Loads(image, base, end) ==
  /\ mem' = image /\ lo' = base /\ hi' = end
  /\ cpu' = model \/ (AllocMayFail /\ cpu' = NoCpu)
  /\ callers' = [a \in base..end |-> 0]
  /\ addr' = base
  /\ phase' = "loaded"
  /\ UNCHANGED <<entries, instr, func, label, queued, work, workCap, outOfRange,
                 running, pc, consumed, lines, command>>

LoadDemo ==
  /\ ArgsDone /\ inputPath = NoPath
  /\ Loads([a \in \h0200..\h020b |-> demo_image[a - \h01ff]], \h0200, \h020b)

LoadRom ==
  /\ Readable("rom")
  /\ Reader!Code(Records) # {}
  /\ Loads(Reader!Image(Records), Reader!EntryPoint(Records), Reader!CodeHigh(Records))

\* readHexFile answers 0, an error for main, also for a run address of 0.
HexLoads == Reader!CoveredBy(Records) # {} /\ Reader!HexBase(Records) # 0

\* Mutant: the range ends with the last record.
LoadHexLastEnd ==
  /\ Readable("hex") /\ HexLoads
  /\ LET last == Records[Len(Records)]
     IN  Loads(Reader!Image(Records), Reader!HexBase(Records), Wrap16(last.addr + Len(last.bytes) - 1))

LoadHex ==
  /\ Readable("hex") /\ HexLoads
  /\ Loads(Reader!Image(Records), Reader!HexBase(Records), Reader!HexEnd(Records))

\* No such file, one its reader refuses, or one with nothing in it.
LoadFails ==
  /\ ArgsDone /\ inputPath # NoPath
  /\ ~(Readable("rom") /\ Reader!Code(Records) # {})
  /\ ~(Readable("hex") /\ HexLoads)
  /\ phase' = "failed"
  /\ UNCHANGED <<vars, listing, command>>

(***************************************************************************)
(* The calls on the analysis: one entry point, one traversal.              *)
(***************************************************************************)
Flat == linear \/ inputPath = NoPath

\* AnalyzeNew returned NULL: calloc failed, or lo > hi.
NoAnalysis ==
  /\ phase = "loaded" /\ ~Flat
  /\ lo > hi \/ AllocMayFail
  /\ phase' = "outOfMemory"
  /\ UNCHANGED <<vars, listing, command>>

Seed ==
  /\ phase = "loaded" /\ ~Flat /\ lo <= hi
  /\ AnalyzeAddEntry(lo)
  /\ phase' = "seeded"
  /\ UNCHANGED <<listing, command>>

CallRun ==
  /\ phase = "seeded"
  /\ AnalyzeRun
  /\ phase' = "tracing"
  /\ UNCHANGED <<listing, command>>

Trace ==
  /\ phase = "tracing"
  /\ Pop \/ EndTrail \/ TraceCall \/ TraceJump \/ TraceOther
  /\ UNCHANGED <<listing, phase, command>>

RunReturns ==
  /\ phase = "tracing"
  /\ Return
  /\ phase' = "printing"
  /\ UNCHANGED <<listing, command>>

PrintLines == (PrintData \/ PrintInstruction \/ PrintReturns) /\ UNCHANGED command

Sweep ==
  /\ \/ phase = "outOfMemory" /\ StartSweep
     \/ phase = "loaded" /\ Flat /\ StartSweep
     \/ Emit
  /\ UNCHANGED command

Exit == phase \in {"done", "failed", "helped"} /\ UNCHANGED disVars

disStep ==
  \/ ArgCpu \/ ArgLinear \/ ArgPath \/ ArgHelp \/ ArgWrong
  \/ LoadDemo \/ LoadRom \/ LoadHex \/ LoadFails
  \/ NoAnalysis \/ Seed \/ CallRun \/ Trace \/ RunReturns
  \/ PrintLines \/ Sweep

disNext == disStep \/ Exit

\* main is sequential code.
disSpec == disInit /\ [][disNext]_disVars /\ WF_disVars(disStep)

-----------------------------------------------------------------------------
dis_TypeOK ==
  /\ listing_TypeOK
  /\ phase \in Phases
  /\ argi \in 1..(Len(argv) + 1)
  /\ model \in Model /\ linear \in BOOLEAN
  /\ inputPath = NoPath \/ inputPath \in Members(argv)

\* The usage: a listing is made with the model the last --cpu names, of the
\* last word that is neither an option nor such a name, and flat if --linear is
\* anywhere; then every word of the command was understood.  Only an allocator
\* that fails keeps the model from being used, and then no line is decoded with
\* another.  A command of words it understands fails for no other reason than
\* its file.
CommandHonoured ==
  LET named == {i + 1 : i \in {j \in DOMAIN argv : argv[j] = "--cpu"}}
      paths == {i \in DOMAIN argv \ named : argv[i] \notin Options}
      path  == IF paths = {} THEN NoPath ELSE argv[Reader!Greatest(paths)]
      asked == IF named = {} THEN "CPU_65C02" ELSE cpuNames[argv[Reader!Greatest(named)]]
      understood == /\ Members(argv) \cap Options \subseteq {"--cpu", "--linear"}
                    /\ \A i \in named : i \in DOMAIN argv /\ argv[i] \in DOMAIN cpuNames
  IN  /\ phase = "done" =>
           /\ understood
           /\ inputPath = path
           /\ cpu = asked \/ (AllocMayFail /\ cpu = NoCpu /\ Printed({"code"}) = {})
           /\ "--linear" \in Members(argv) => Printed({"data", "entry", "sub", "loc"}) = {}
      /\ phase = "failed" /\ understood => path # NoPath

\* From the file to the page: of a file none of whose records goes past the
\* top, every byte at or above the entry point is in a line of the listing,
\* whichever order its records come in (for a ROM, every byte of code).  A flat
\* listing for which DisInit got no memory has none of them, although dis ends
\* as if it had.
LoadedListed ==
  phase = "done" /\ inputPath # NoPath =>
    LET loaded == IF File.format = "rom" THEN Reader!Code(Records) ELSE Reader!CoveredBy(Records)
        shown  == UNION {l.first..l.last : l \in Printed({"code", "data"})}
    IN  IF Blind THEN shown = {}
        ELSE (\A i \in DOMAIN Records : Records[i].addr + Len(Records[i].bytes) <= AddrSpace)
             => {a \in loaded : lo <= a} \subseteq shown

\* main ends: the traversal, the walk and the sweep all terminate.
Finishes == <>(phase \in {"done", "failed", "helped"})

-----------------------------------------------------------------------------
\* What the sources say, and the program does not do.

\* main's note: "control-flow targets outside the loaded range were not
\* followed".  It counts no target that lies between the lowest and the highest
\* byte of code the ROM has loaded.
NotFollowedIsOutside ==
  Analysed /\ File.format = "rom" =>
    LET outside == {s \in instr : /\ HasTarget(s)
                                  /\ TargetAt(s) \notin Reader!CodeLow(Records)..Reader!CodeHigh(Records)}
    IN  outOfRange <= Cardinality(outside)
=============================================================================
