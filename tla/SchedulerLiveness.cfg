\* Three processes; MCScheduler covers five.
CONSTANTS
  MaxPID = 2
  KernelSlice = 1
  ELFSlice = 2
  MaxSegments = 1
  Kernel = Kernel
  NULL = NULL
SPECIFICATION FairSpec
PROPERTIES
  NoStarvation
  KernelWorkCompletes
