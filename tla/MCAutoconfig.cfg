SPECIFICATION Spec
CONSTANTS
  Offset <- MCOffset
  Address <- MCAddress
  Data = {8192, 16384, 57344, 36864, 40960, 23041, 23042}
  OFFER_SPLIT = TRUE
  ACK_CLKS = 2
  ROM_BYTES = 8192
  SD_ACK = 2
  IoPage = {233, 234}
  STRAY_KEYS = FALSE
INVARIANTS
  OneSlave
  MemoryPlaced
  NoAliases
  TurbomemReads
PROPERTIES
  ClaimSteady
  ChainPasses
