\* Any requests, any address, 1 KB pages, the shipped options.
CONSTANTS
  FlashBase = 4
  BootSize = 4
  FlashSize = 12
  HwPage = 4
  XferSize = 4
  AddrSpace = 20
  Words = {"ff", "x", "y", "old", "boot"}
  Erased = "ff"
  Torn = "torn"
  LowBlank = {"ff", "y"}
  HighBlank = {"ff", "old"}
  Sends <- AllSends
  MaxBlock = 3
  BlockLens = {1, 3, 4}
  SetAddrs <- AnyAddr
  BareCommands = TRUE
  SafeWrite = FALSE
  EnableUpload = FALSE
  BootWord = "boot"
  OldWord = "old"
  FoundWords = {"ff", "old"}
SPECIFICATION FairSpec
INVARIANTS TypeOK BootloaderIntact IdleMeansApplied FaultOnlyBadTarget
CHECK_DEADLOCK FALSE
