\* Blocks of a hashed image and of one without a hash, with losses of power.
CONSTANTS
  FlashBase = 12
  BootSize = 12
  FlashSize = 36
  HwPage = 12
  XferSize = 12
  AddrSpace = 60
  Words <- MCWords
  Erased = ff
  Torn = torn
  LowBlank = {ff}
  HighBlank = {ff}
  BootWord = boot
  OldWord = boot
  FoundWords = {ff}
  Sends <- MCSends
  MaxBlock = 3
  SetAddrs <- ImageAddr
  BareCommands = FALSE
  SafeWrite = FALSE
  EnableUpload = FALSE
  Images = {a, plain}
  a = a
  b = b
  plain = plain
  long = long
  SizeField <- MCSizeField
  NoHash = {plain}
  NoHashSize = 6
  AbsurdSize = 32
  TornSizes = {0, 6, 8, 20, 32}
  MaxCuts = 1
SPECIFICATION BootSpec
INVARIANTS DeviceTypeOK BootloaderIntact StartsOnlyVerified MarkerServedOnce
