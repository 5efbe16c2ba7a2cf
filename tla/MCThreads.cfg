SPECIFICATION Spec
CONSTANTS
  t1 = t1
  t2 = t2
  t3 = t3
  b0 = b0
  b1 = b1
  b2 = b2
  NoThread = NoThread
  Threads <- MCThreeThreads
  NumFrames = 2
  Pages <- MCPages
  Data <- MCOneContent
  ZeroBlock = b0
  InitialFile <- MCSameFile
  CallsOf <- MCWorkersAndSaver
  MaxCalls = 5
INVARIANTS
  TypeOK
  NoTornWriteBack
PROPERTIES
  CallsReturn
CHECK_DEADLOCK FALSE
