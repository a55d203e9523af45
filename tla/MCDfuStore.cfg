\* A flash page is two transfers: parts with 2 KB pages.
CONSTANTS
  FlashBase = 8
  BootSize = 8
  FlashSize = 24
  HwPage = 8
  XferSize = 4
  AddrSpace = 36
  Words = {"ff", "x", "y", "old", "boot"}
  Erased = "ff"
  Torn = "torn"
  LowBlank = {"ff"}
  HighBlank = {"ff"}
  Sends <- AllSends
  MaxBlock = 3
  BlockLens = {1, 4}
  SetAddrs <- AlignedAddr
  BareCommands = FALSE
  SafeWrite = FALSE
  EnableUpload = FALSE
  BootWord = "boot"
  OldWord = "old"
  FoundWords = {"old"}
  NoJob = NoJob
  Unknown = Unknown
SPECIFICATION FairSpec
PROPERTY ImplementsStore StoreJobsEnd
CHECK_DEADLOCK FALSE
