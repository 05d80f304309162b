\* Timer, keyboard, clock, mouse and a disk; three seconds at the frequency of the
\* HAL; eight ticks in start-up; four packets.
CONSTANTS
  Lines = {0, 1, 8, 12, 14}
  Exceptions = {14, 105}
  Frequency = 1200
  Clock = 1193182
  MaxUptime = 3
  Garbage = {0, 1, 3, 9}
  MaxTicks = 8
  NULL = NULL
  MaxPackets = 4
SPECIFICATION MCSpec
\* A fatal exception halts the machine.
CHECK_DEADLOCK FALSE
INVARIANTS
  MasterNeverBlocks
  AtMostAFifthFast
  NoSwitchBeforeStart
  TornAtOneSeam
PROPERTIES
  TimerIsServed
  NeverRecovers
