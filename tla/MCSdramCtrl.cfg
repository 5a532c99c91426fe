SPECIFICATION Spec
CONSTANTS
  Bank = {0, 1}
  Row = {0, 1}
  Col = {0}
  Row0 = 0
  Lanes = {"u"}
  Byte = {0, 1}
  NoRow = NoRow
  NoData = NoData
  CAS_LAT = 2
  T_RCD = 1
  T_RP = 1
  T_RAS = 5
  T_RFC = 1
  T_MRD = 0
  T_REFI = 7
  REF_DEFER = 1
  INIT_CYCLES = 6
  RAS_SAT = 5
  DEFER_SAT = 1
  C_RCD = 3
  C_RP = 2
  C_RAS = 6
  C_RC = 8
  C_RFC = 3
  AgeCap = 8
  RefCap = 3
INVARIANTS
  DeviceTiming
  BankRules
  RowsKnown
PROPERTIES
  ImplementsMemPort
