\* Late polls against usb.cpp:295.
CONSTANTS
  MaxPacket = 2
  BufSize = 5
  Requests <- AllRequests
  BusResets = FALSE
SPECIFICATION UsbSpec
INVARIANT AddressAtStatus
