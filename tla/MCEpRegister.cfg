SPECIFICATION FairEp
INVARIANTS EpTypeOK SetupKept DeliveredOwn NeverStuck StallsRefused StaysOpen
PROPERTY TransferEnds
CHECK_DEADLOCK FALSE
