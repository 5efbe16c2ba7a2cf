SPECIFICATION Spec
CONSTANTS
  c1 = c1
  c2 = c2
  zero = zero
  a = a
  Undef = Undef
  Strategies = {"RS_LRU"}
  Clients <- MCTwoClients
  NumFrames = 2
  MaxLru = 4
  Pages <- MCPages
  StratParams = {1}
  Data <- MCData
  ZeroBlock = zero
  Fresh = {zero}
  InitialFile <- MCInitialFile
INVARIANT PinnedStays
