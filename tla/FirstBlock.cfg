\* Two words of three bits; the region marked at boot ends in the first word.
CONSTANTS
  Words = 2
  WordBits = 3
  ReservedBlocks = 1
  CounterMod = 4
  MaxHeld = 2
SPECIFICATION Spec
INVARIANT FirstBlockReserved
