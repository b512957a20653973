SPECIFICATION Spec
CONSTANTS
  Blocks = 6
  InodeBlocks = 2
  PerBlock = 1
  Pointers = 3
  BlockSize = 2
  SizeMod = 16
  HeapBlocks = 14
  Requests <- MCRequests
INVARIANT AllocatesWhatIsNeeded
