SPECIFICATION AlignerSpec
CONSTANTS
  PERIOD = 12
  PHASE_OFS = 2
  SLIP_TOL = 3
  MaxNoise = 4
  MaxSlips = 1
PROPERTIES
  GridSettles
  LockIgnoresNoise
