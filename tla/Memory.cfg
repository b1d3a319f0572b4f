CONSTANTS
  Space = 8
  Byte = {0, 1}
  MAX_REGIONS = 2
  Lengths = {0, 3}
  Points = {1, 6}
  Entries <- SmallEntries
  Unset = Unset
SPECIFICATION memSpec
INVARIANTS
  memTypeOK
  ReadsInBounds
PROPERTIES
  ImplementsFlat
