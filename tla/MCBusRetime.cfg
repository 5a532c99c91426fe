SPECIFICATION FairSpec
CONSTANTS
  PERIOD = 12
  PH_HALF = 6
  PH_ACK = 4
  E_PERIOD = 2
  E_RISE = 1
  E_VMA_AT = 0
  SMP_N = 4
  VMA_HOLD = TRUE
  RETIME = TRUE
  DATA_LAG = 4
  REL = 2
  MaxResets = 0
  Ram = {17}
  Cia = {9}
  Silent = {10}
  Board = {18}
  Levels = {}
  Data = {d1}
  NoData = NoData
INVARIANTS
  WritesLand
  ReadsReturn
  BerrIsOwn
PROPERTIES
  CycleEnds
  PinsKeepProtocol
