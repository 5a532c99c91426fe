SPECIFICATION FirmwareSpec
CONSTANTS
  Sectors = {1, 512}
  Values = {v1, v2}
  RESET_TRIES = 2
  INIT_TRIES = 2
  INITV2_TRIES = 2
  SDHC_TRIES = 2
  BUSY_POLLS = 3
  MaxBusy = 5
  MaxSleep = 2
  MaxLeft = 3
  MaxFaults = 2
  LOGW = 3
  SHORTLOGW = 2
  MAXMEMBIT = 25
  LibraryCalls <- MCLibraryCalls
INVARIANTS
  AddressedRight
  LibraryRight
PROPERTIES
  ImplementsSectorStore
  DriverReturns
CHECK_DEADLOCK FALSE
