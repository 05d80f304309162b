\* Five processes, kernel and ELF ones in any mix: enough for a ring whose
\* middle is removed and refilled.
CONSTANTS
  MaxPID = 4
  KernelSlice = 1
  ELFSlice = 2
  MaxSegments = 1
  Kernel = Kernel
  NULL = NULL
SPECIFICATION Spec
INVARIANTS
  TypeOK
  RingIntact
  KernelExclusive
  AddressSpaceMatches
PROPERTIES
  LeakOnlyByExit
  FrozenForever
  ImplementsRoundRobin
