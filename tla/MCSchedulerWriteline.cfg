SPECIFICATION Spec
CONSTANTS
  StackMax = 15
  ResetSP = 15
  T1Top = 7
  Delay = 2
  LineLen = 3
  StrayLen = 1
  PortA = 192
  TextLo <- MCTextLo
  TextHi <- MCTextHi
  Ram <- MCOneByte
PROPERTY WritelinePreservesRegisters
