SPECIFICATION Spec
CONSTANTS
  v1 = v1
  v2 = v2
  s1 = s1
  s2 = s2
  None = None
  Junk = Junk
  RecordSize = 40
  NumFrames = 3
  Values <- MCValues
  Conditions = {}
  Scans = {}
  Fresh <- MCFresh
  Tolerated = {"reuse"}
  MaxPages = 2
  MaxFreeSpace = 160
  MaxPins = 1
INVARIANT ReuseKeepsRecords
CHECK_DEADLOCK FALSE
