SPECIFICATION SysSpec
CONSTANTS
  Bank = {0}
  Row = {0, 1}
  Col = {0}
  Row0 = 0
  Lanes = {"u"}
  Byte = {0, 1}
  NoRow = NoRow
  NoData = NoData
  CAS_LAT = 2
  T_RCD = 1
  T_RP = 1
  T_RAS = 3
  T_RFC = 1
  T_MRD = 0
  T_REFI = 12
  REF_DEFER = 3
  INIT_CYCLES = 6
  RAS_SAT = 3
  DEFER_SAT = 3
  C_RCD = 0
  C_RP = 0
  C_RAS = 0
  C_RC = 0
  C_RFC = 0
  AgeCap = 0
  RefCap = 0
  RMW_CYCLES = FALSE
  MaxResets = 1
INVARIANTS
  WritesLand
  RefreshNotLost
  ReadsReturnLastWrite
PROPERTIES
  CycleEnds
