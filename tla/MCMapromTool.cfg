SPECIFICATION FairSpec
CONSTANTS
  NPROBES = 7
  Folds <- MCFolds
  Shells = {s1, s2}
  Diag = Diag
  LEN = 2
  HALF = 2
  Roms <- MCRoms
  Noise <- MCNoise
  Images = {1}
  Arms <- MCArms
  MaxFaults = 1
  MaxResets = 1
INVARIANTS
  RomServed
  MemoryAdded
PROPERTIES
  ToolsEnd
CHECK_DEADLOCK FALSE
