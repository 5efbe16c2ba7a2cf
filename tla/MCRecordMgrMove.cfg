SPECIFICATION Spec
CONSTANTS
  v1 = v1
  v2 = v2
  s1 = s1
  s2 = s2
  None = None
  Junk = Junk
  RecordSize = 50
  NumFrames = 3
  Values <- MCValues
  Conditions = {}
  Scans = {}
  Fresh <- MCFresh
  Tolerated = {"move"}
  MaxPages = 2
  MaxFreeSpace = 160
  MaxPins = 1
INVARIANT MoveInPage
CHECK_DEADLOCK FALSE
