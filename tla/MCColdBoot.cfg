SPECIFICATION OwnershipSpec
CONSTANTS
  COLD_RESET = TRUE
  COLD_RETRY = TRUE
  RTRY_WAIT = 3
  RTRY_PULSE = 2
  RTRY_MAX = 2
  RTRY_WIDTH = 5
  PWRUP = 3
  RST_HOLD_7M = 2
  KBD_MIN = 3
  PASSIVE_EN = TRUE
  PASSIVE_BIT = 2
  BURST = 4
INVARIANTS
  ColdStartTogether
  OneOwner
PROPERTIES
  RunningNotReset
  CoreComesUp
