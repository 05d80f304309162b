\* A bitmap of two words of three bits, the region marked at boot ends in the
\* first one; two tables of ten entries, room for two programs in the first.
CONSTANTS
  Words = 2
  WordBits = 3
  ReservedBlocks = 1
  CounterMod = 4
  MaxHeld = 2
  T = 10
  D = 2
  LastFrame = 13
  StackPages = 1
  RegionPages = {1, 7}
  SegmentBytes = {1, 40}
  MaxFrame = 12
  RunSizes = {0, 1, 2, 9}
  FirstOffset = 3
  Amounts = {1, 2}
  MaxCalls = 3
  FlagBits = {0, 1, 2}
  FrameBits = {12, 13, 14}
  TopBit = 31
SPECIFICATION MCSpec
\* A panic, or no pages left, stops the machine.
CHECK_DEADLOCK FALSE
INVARIANTS
  SearchFindsLowest
  OnlyBlockZeroIsHandedOut
  GrantsAreDisjoint
  
  OverlapOnlyAtFirstOffset
  ReadsTheLastMapping
PROPERTY NothingIsMarkedUsed
