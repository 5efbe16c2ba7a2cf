SPECIFICATION Spec
CONSTANTS
  v1 = v1
  v2 = v2
  s1 = s1
  s2 = s2
  None = None
  Junk = Junk
  RecordSize = 64
  NumFrames = 3
  Values <- MCValues
  Conditions <- MCConditions
  Scans <- MCScans
  Fresh <- MCFresh
  Tolerated = {}
  MaxPages = 2
  MaxFreeSpace = 160
  MaxPins = 2
INVARIANTS
  TypeOK
  RecordsOnDiskKept
  OnlyScansPin
  ScanDelivers
SYMMETRY MCScanSymmetry
CHECK_DEADLOCK FALSE
