SPECIFICATION FairSpec
CONSTANTS
  StackMax = 15
  ResetSP = 15
  T1Top = 7
  Delay = 1
  LineLen = 2
  StrayLen = 1
  PortA = 192
  TextLo <- MCTextLo
  TextHi <- MCTextHi
  Ram <- MCOneByte
INVARIANTS
  TypeOK
  ControlStaysInProgram
  OneWriter
  OwnPage
PROPERTIES
  Isolation
  ImplementsSerialLines
  BothPrint
