SPECIFICATION Spec
CONSTANTS
  h1 = h1
  h2 = h2
  zero = zero
  a = a
  Handles <- MCHandles
  Inodes <- MCInodes
  Data <- MCData
  ZeroBlock = zero
  Written = {a}
  MaxBlocks = 3
INVARIANTS
  TypeOK
  CountBacked
  NoGap
  CacheBacked
PROPERTIES
  SequentialReadDelivers
  EnsureCapacityDelivers
  OwnWriteReadBack
VIEW StorageView
SYMMETRY Symmetry
CONSTRAINT ThreeBlocks
