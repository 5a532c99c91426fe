SPECIFICATION Spec
CONSTANTS
  PERIOD = 12
  PH_HALF = 6
  PH_ACK = 4
  E_PERIOD = 3
  E_RISE = 2
  E_VMA_AT = 1
  SMP_N = 4
  VMA_HOLD = TRUE
  RETIME = FALSE
  DATA_LAG = 4
  REL = 2
  MaxResets = 1
  Ram = {17}
  Cia = {9}
  Silent = {}
  Board = {}
  Levels = {1, 2}
  Data = {d1, d2}
  NoData = NoData
INVARIANTS
  BridgeAnswers
