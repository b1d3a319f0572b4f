CONSTANTS
  Model <- MCModel
  NoCpu = NoCpu
  DecodeTable <- MCOpcodeTable
  Inputs = {}
  EntryChoices = {}
  InitialCap = 1
  CallerMax = 2
  AllocMayFail = TRUE
  NoPc = NoPc
  Commands <- MCCommands
  Options <- MCOptions
  NoPath = NoPath
SPECIFICATION disSpec
INVARIANTS
  dis_TypeOK
  OnlyDroppedMissing
  InOrder
  ShownToTheEnd
  EveryStartShown
  TargetsShown
  CallerCounts
  CommandHonoured
  LoadedListed
PROPERTIES
  Finishes
