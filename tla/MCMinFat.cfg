SPECIFICATION FairSpec
CONSTANTS
  FAT32 = TRUE
  EPS = 2
  DPS = 2
  PART = 1
  RESERVED = 1
  fat_number = 2
  fat_size = 3
  cluster_size = 2
  ROOT_SECTORS = 0
  ROOT_CLUSTER = 2
  CLUSTERS = 4
  EOC = 100
  Junk <- MCJunk
  JunkDir <- MCJunkDir
  Names = {"a", "b"}
  Volumes <- MCVolumes
  MaxSectors = 3
  MaxFaults = 1
  MaxCrashes = 1
INVARIANTS
  FatSound
  FilesKept
  CacheTrue
  RomTrue
PROPERTIES
  CallsEnd
CHECK_DEADLOCK FALSE
