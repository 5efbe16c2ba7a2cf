SPECIFICATION Spec
CONSTANTS
  c1 = c1
  c2 = c2
  zero = zero
  a = a
  Undef = Undef
  Strategies = {"RS_FIFO", "RS_CLOCK"}
  Clients <- MCTwoClients
  NumFrames = 2
  MaxLru = 4
  Pages <- MCPages
  StratParams = {1}
  Data <- MCData
  ZeroBlock = zero
  Fresh = {zero, a}
  InitialFile <- MCInitialFile
INVARIANTS
  TypeOK
  NoDuplicatePage
  WriteBackInReach
  PinCount
  HandleValid
  PoolCurrent
  DiskCurrent
PROPERTIES
  ShutdownSaves
  FlushOkSaves
  ImplementsPageStore
VIEW FIFOView
SYMMETRY ClientSymmetry
