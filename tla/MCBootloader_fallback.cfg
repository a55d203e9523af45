\* An image built for a part with more flash, against main.cpp:84 and README:100.
CONSTANTS
  FlashBase = 12
  BootSize = 12
  FlashSize = 36
  HwPage = 12
  XferSize = 12
  AddrSpace = 60
  Words <- MCWords
  Erased = ff
  Torn = torn
  LowBlank = {ff}
  HighBlank = {ff}
  BootWord = boot
  OldWord = boot
  FoundWords = {ff}
  Sends <- MCSends
  MaxBlock = 3
  SetAddrs <- ImageAddr
  BareCommands = FALSE
  SafeWrite = FALSE
  EnableUpload = FALSE
  Images = {a, long}
  a = a
  b = b
  plain = plain
  long = long
  SizeField <- MCSizeField
  NoHash = {}
  NoHashSize = 6
  AbsurdSize = 32
  TornSizes = {0, 8, 20, 32}
  MaxCuts = 0
SPECIFICATION BootSpec
INVARIANT FallsBackToDfu
