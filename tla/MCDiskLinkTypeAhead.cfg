SPECIFICATION FairSpec
CONSTANTS
  Radix = 3
  Magic <- MCShortMagic
  BlockLen = 1
  R = 0
  W = 1
  Enter = 0
  Newline = 1
  Keys = {0}
  Line <- MCShortLine
  Prompt <- MCPrompt
  Motd <- MCMotd
  Sectors = {2}
  Data <- MCPlainData
  UpCap = 1
  DownCap = 1
  Ahead = 2
  Resets = 1
  Unplugs = 1
  Fails = TRUE
PROPERTIES
  HostDoesWhatWasAsked
  ReadsEndUnlessCutOff
CHECK_DEADLOCK FALSE
