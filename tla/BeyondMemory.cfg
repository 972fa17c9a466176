SPECIFICATION Spec
CONSTANTS
  NR_PAGES = 32
  PTRS = 4
  LOW_MEMORY = 8
  DeviceRegions <- Devices
INVARIANT AllocatedPagesMapped
CHECK_DEADLOCK FALSE
