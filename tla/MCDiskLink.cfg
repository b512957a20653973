SPECIFICATION FairSpec
CONSTANTS
  Radix = 5
  Magic <- MCMagic
  BlockLen = 3
  R = 0
  W = 1
  Enter = 0
  Newline = 1
  Keys = {0, 3, 4}
  Line <- MCLine
  Prompt <- MCPrompt
  Motd <- MCMotd
  Sectors = {0, 4}
  Data <- MCData
  UpCap = 2
  DownCap = 2
  Ahead = 0
  Resets = 0
  Unplugs = 0
  Fails = FALSE
INVARIANT TypeOK
PROPERTIES
  HostDoesWhatWasAsked
  ReadsReturnTheLastWrite
  ReadsEnd
