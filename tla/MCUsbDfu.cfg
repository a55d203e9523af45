\* The DFU handler behind the USB layer, transfers given up, polls late.
CONSTANTS
  MaxPacket = 2
  BufSize = 3
  Requests <- DfuRequests
  BusResets = FALSE
  FlashBase = 0
  BootSize = 4
  FlashSize = 8
  HwPage = 4
  XferSize = 4
  AddrSpace = 12
  Words <- Pairs
  Erased <- FF
  Torn <- TornPair
  LowBlank <- Blank
  HighBlank <- Blank
  Sends <- DfuSends
  MaxBlock = 3
  SetAddrs <- OneAddr
  BareCommands = FALSE
  SafeWrite = FALSE
  EnableUpload = FALSE
  BootWord <- BootPair
  OldWord <- OldPair
  FoundWords <- Found
SPECIFICATION UsbDfuSpec
INVARIANTS AckedIsFlashed HandlerReady
CHECK_DEADLOCK FALSE
PROPERTY ImplementsDfu
