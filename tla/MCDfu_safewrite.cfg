\* The build with ENABLE_SAFEWRITE and ENABLE_DFU_UPLOAD.
CONSTANTS
  FlashBase = 4
  BootSize = 4
  FlashSize = 12
  HwPage = 4
  XferSize = 4
  AddrSpace = 20
  Words = {"ff", "x", "y", "old", "boot"}
  Erased = "ff"
  Torn = "torn"
  LowBlank = {"ff", "y"}
  HighBlank = {"ff", "old"}
  Sends <- AllSends
  MaxBlock = 3
  BlockLens = {1, 4}
  SetAddrs <- AlignedAddr
  BareCommands = TRUE
  SafeWrite = TRUE
  EnableUpload = TRUE
  BootWord = "boot"
  OldWord = "old"
  FoundWords = {"ff", "old"}
SPECIFICATION FairSpec
INVARIANT NoPartialUpdate
PROPERTY OperationEnds
CHECK_DEADLOCK FALSE
