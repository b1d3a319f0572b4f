CONSTANTS
  Space = 16
  Base = 4
  Byte = {0, 1, 2, 3}
  MAX_REGIONS = 1
  Lengths = {}
  Points = {}
  Entries = {}
  Items <- FewItems
  MaxItems = 3
  Sections = {0, 3}
  Unset = Unset
SPECIFICATION rpSpec
INVARIANTS
  EntryIsLoaded
