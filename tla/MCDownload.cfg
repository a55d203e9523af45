\* An update, with losses of power anywhere.
CONSTANTS
  FlashBase = 12
  BootSize = 12
  FlashSize = 36
  HwPage = 12
  XferSize = 12
  AddrSpace = 60
  Words <- MCWords
  Erased = ff
  Torn = torn
  LowBlank = {ff}
  HighBlank = {ff}
  BootWord = boot
  OldWord = boot
  FoundWords = {ff}
  Sends <- MCSends
  MaxBlock = 3
  SetAddrs <- ImageAddr
  BareCommands = FALSE
  SafeWrite = FALSE
  EnableUpload = FALSE
  Images = {a, b}
  New = b
  Old = a
  Empty = Empty
  Plan <- MCPlan
  SizeField <- MCSizeField
  NoHash = {}
  NoHashSize = 6
  AbsurdSize = 32
  TornSizes = {0, 8, 20, 32}
  MaxCuts = 2
SPECIFICATION DownloadSpec
INVARIANTS HostTypeOK FinishedMeansInstalled HeaderOwn
PROPERTY ImplementsSlot UpdateEnds
CHECK_DEADLOCK FALSE
