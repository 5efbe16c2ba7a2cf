SPECIFICATION Spec
CONSTANTS
  t1 = t1
  t2 = t2
  t3 = t3
  b0 = b0
  b1 = b1
  b2 = b2
  NoThread = NoThread
  Threads <- MCTwoThreads
  NumFrames = 2
  Pages <- MCPages
  Data <- MCData
  ZeroBlock = b0
  InitialFile <- MCInitialFile
  CallsOf <- MCWorkerAndFlusher
  MaxCalls = 7
INVARIANT BlocksKeepTheirPages
CHECK_DEADLOCK FALSE
