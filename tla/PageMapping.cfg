\* Two tables of ten entries; room for two programs in the first one.
CONSTANTS
  T = 10
  D = 2
  LastFrame = 13
  StackPages = 1
  RegionPages = {1, 7}
  SegmentBytes = {1, 40}
  MaxFrame = 12
SPECIFICATION PagingSpec
\* A panic, or no pages left, stops the machine.
CHECK_DEADLOCK FALSE
INVARIANT GrantedPagesHaveTheirFrames
