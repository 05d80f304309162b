\* Three processes, a terminal, two descriptors behind the reserved ones;
\* three heap blocks, used again; surfaces of six by three pixels.
CONSTANTS
  NULL = NULL
  Files = {root, file}
  MaxPID = 3
  MaxFds = 5
  MaxPty = 1
  MaxChunk = 1
  MaxBuffer = 1
  Addr = {a1, a2, a3}
  MaxObjects = 5
  DW = 6
  DH = 3
  WW = 6
  WH = 3
SPECIFICATION MCSpec
\* A crash, a program that waits for input, a call that follows a wild
\* pointer, and a call that has returned, end a behaviour.
CHECK_DEADLOCK FALSE
INVARIANTS
  
  ExitCrashesWithTerminal
  StaleOnlyByDestruction
  ArrivesOrRunsAway
