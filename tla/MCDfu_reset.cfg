\* When the reset happens against the comment (dfu.cpp:85).
CONSTANTS
  FlashBase = 4
  BootSize = 4
  FlashSize = 12
  HwPage = 4
  XferSize = 4
  AddrSpace = 20
  Words = {"ff", "x", "y", "old", "boot"}
  Erased = "ff"
  Torn = "torn"
  LowBlank = {"ff", "y"}
  HighBlank = {"ff", "old"}
  Sends <- AllSends
  MaxBlock = 3
  BlockLens = {1, 3, 4}
  SetAddrs <- AnyAddr
  BareCommands = TRUE
  SafeWrite = FALSE
  EnableUpload = FALSE
  BootWord = "boot"
  OldWord = "old"
  FoundWords = {"ff", "old"}
SPECIFICATION Spec
PROPERTY ResetAfterStatusRead
CHECK_DEADLOCK FALSE
