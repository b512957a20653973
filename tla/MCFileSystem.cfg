SPECIFICATION FairSpec
CONSTANTS
  Blocks = 6
  InodeBlocks = 2
  PerBlock = 2
  Pointers = 3
  BlockSize = 2
  SizeMod = 16
  HeapBlocks = 8
  Requests <- MCRequests
INVARIANTS
  TypeOK
  NoSharing
  BitmapSafe
  PointersDense
  SizeCovered
  DataInOwnBlock
PROPERTIES
  NullBitmapUnused
  FilesKeepTheirBlocks
  ImplementsBlockOwnership
  CallsEnd
