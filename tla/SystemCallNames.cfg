\* All numbers up to two beyond the bound.
CONSTANTS
  NULL = NULL
  Junk = Junk
  MaxNumber = 40
  MaxCalls = 4
SPECIFICATION SyscallGateSpec
\* A call through something that is no function ends it.
CHECK_DEADLOCK FALSE
INVARIANT NameRunsItsFunction
