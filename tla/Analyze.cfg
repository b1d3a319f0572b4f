CONSTANTS
  Model <- MCModel
  NoCpu = NoCpu
  DecodeTable <- MCOpcodeTable
  Inputs <- SmallInputs
  EntryChoices <- SmallEntries
  InitialCap = 1
  CallerMax = 1
  AllocMayFail = FALSE
  NoPc = NoPc
SPECIFICATION Spec
INVARIANTS
  TypeOK
  Sound
  Complete
  TargetsExact
  CallersExact
  OutOfRangeExact
  WorklistSafe
PROPERTIES
  NeverTakenBack
  Terminates
  ImplementsReachability
