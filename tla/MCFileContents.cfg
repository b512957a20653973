SPECIFICATION Spec
CONSTANTS
  Byte = {0, 1, 2, 3, 4, 5, 6}
  NUL = 0
  E = 1
  O = 2
  F = 3
  InputLen = 8
  BlockSize = 5
  Pointers = 2
  SizeMod = 32
  Inputs <- MCInputs
  Leftover <- MCLeftover
  Requests = {2, 6}
INVARIANTS
  TypeOK
  
  
