CONSTANTS
  Model <- MCModel
  NoCpu = NoCpu
  DecodeTable <- MCOpcodeTable
  Inputs = {}
  EntryChoices = {}
  InitialCap = 2
  CallerMax = 2
  AllocMayFail = FALSE
  NoPc = NoPc
  Commands <- OverlappingOnly
  Options <- MCOptions
  NoPath = NoPath
SPECIFICATION disSpec
INVARIANTS
  DataIsUnreached
