SPECIFICATION OrderSpec
CONSTANTS
  c1 = c1
  zero = zero
  Undef = Undef
  Strategies = {"RS_FIFO", "RS_LRU", "RS_LRU_K", "RS_CLOCK"}
  Clients <- MCOneClient
  NumFrames = 3
  MaxLru = 4
  Pages <- MCPages
  StratParams = {1, 2}
  Data <- MCData
  ZeroBlock = zero
  Fresh <- MCData
  InitialFile <- MCInitialFile
PROPERTIES
  FIFOOrder
  LRUOrder
  LRU_KOrder
VIEW OrderView
