SPECIFICATION Spec
CONSTANTS
  Hardware <- MCHardware
  Width = 3
  Enter = 5
  Newline = 2
  Bar = 4
  Keys = {1, 4, 5}
  Texts <- MCTexts
  Motd <- MCMotd
  Prompt <- MCPrompt
  TxCap = 2
  RxCap = 2
  Leds = 0
INVARIANTS
  TypeOK
  HostGetsWhatWasWritten
  KeysAreReadOnce
  SlaveGetsWhatWasTyped
  NoContention
PROPERTY
  WritesEnd
