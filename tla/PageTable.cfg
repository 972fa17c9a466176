SPECIFICATION DumpSpec
CONSTANTS
  NR_PAGES = 16
  PTRS = 4
  LOW_MEMORY = 8
  DeviceRegions <- Devices
INVARIANT MappedSoFar
INVARIANT OnlyTablesWalked
INVARIANT TablesOwned
INVARIANT DumpShowsMapping
PROPERTY PagingEnds
PROPERTY DumpEnds
CHECK_DEADLOCK FALSE
