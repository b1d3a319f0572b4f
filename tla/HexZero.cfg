CONSTANTS
  Space = 8
  Byte = {0, 1, 2}
  MAX_REGIONS = 1
  Lengths = {}
  Points = {}
  Entries = {}
  Lines <- FewLines
  MaxLines = 2
  MaxCount = 4
  Unset = Unset
SPECIFICATION hexSpec
INVARIANTS
  FirstRecordRuns
