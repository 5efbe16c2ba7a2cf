SPECIFICATION Spec
CONSTANTS
  v1 = v1
  v2 = v2
  s1 = s1
  s2 = s2
  None = None
  Junk = Junk
  RecordSize = 40
  NumFrames = 3
  Values <- MCValues
  Conditions = {}
  Scans = {}
  Fresh <- MCFresh
  Tolerated = {}
  MaxPages = 2
  MaxFreeSpace = 160
  MaxPins = 1
INVARIANTS
  RecordsKept
  RecordsOnDiskKept
  InPage
  DirectoryTrue
SYMMETRY MCValueSymmetry
CHECK_DEADLOCK FALSE
