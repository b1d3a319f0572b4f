CONSTANTS
  Model <- MCModel
  NoCpu = NoCpu
  DecodeTable <- MCDecodeTable
  Table <- MCTable
  NMOS <- MCNMOS
  Inputs <- Programs
  StackPointers = {0}
  DataBytes = {252}
SPECIFICATION Spec
INVARIANTS
  cpu_TypeOK
  InReach
PROPERTIES
  StepsAsDecoded
  ReturnsHome
  PinsServed
CHECK_DEADLOCK FALSE
