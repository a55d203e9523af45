\* Every shape of transfer, given up anywhere, polls as late as they may be.
CONSTANTS
  MaxPacket = 2
  BufSize = 5
  Requests <- AllRequests
  BusResets = TRUE
SPECIFICATION UsbSpec
INVARIANTS UsbTypeOK DeliveredWhole ReceivedWhole StalledOnFailure AddressInTime NeverDeaf NeverStuck
PROPERTY CompletionAfterStatus
CHECK_DEADLOCK FALSE
