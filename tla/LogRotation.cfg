SPECIFICATION RotationSpec
CONSTANTS
  FileCaps = {1, 2, 4}
  MaxLinesPerFile = 2
  Writes = 14
  MaxCrashes = 2
INVARIANTS RotationTypeOK NewestKept
