-------------------------- MODULE PhysicalAllocator --------------------------
(***************************************************************************)
(* The physical page allocator (Kernel/src/arch/x86/pyhsicalallocator.cpp) *)
(* from InitializePhysicalAllocator on, and its callers as far as they are *)
(* honest: a block is only freed by somebody it was given to.              *)
(*                                                                         *)
(* The bitmap is kept as the code keeps it, in words of WordBits bits, a   *)
(* word being the set of its bits that are 1.  Blocks stand for their      *)
(* addresses (block * PHYSALLOC_BLOCK_SIZE).  maxPhysicalBlocks is written *)
(* once and never read, and is left out.                                   *)
(***************************************************************************)
EXTENDS Integers, FiniteSetsExt

CONSTANTS
  Words,           \* PHYSALLOC_BITMAP_SIZE_DWORDS (32768 in the code)
  WordBits,        \* bits of a word (32 in the code)
  ReservedBlocks,  \* blocks of the region marked at boot (6144 in the code)
  CounterMod,      \* usedPhysicalBlocks is kept modulo this (2^32)
  MaxHeld          \* bound: blocks in the hands of callers at a time

ASSUME AllocatorAssumption ==
  /\ Words \in Nat \ {0}
  /\ WordBits \in Nat \ {0}
  /\ ReservedBlocks \in Nat
  /\ ReservedBlocks < Words * WordBits
  /\ CounterMod \in Nat \ {0}
  /\ MaxHeld \in Nat

Block == 0 .. (Words * WordBits - 1)
Word == 0 .. (Words - 1)
Bit == 0 .. (WordBits - 1)

VARIABLES
  physicalMemoryBitmap,
  usedPhysicalBlocks,
  ready,               \* InitializePhysicalAllocator has returned
  held                 \* held[b]: how many callers hold block b

vars == <<physicalMemoryBitmap, usedPhysicalBlocks, ready, held>>

-----------------------------------------------------------------------------
(* Bits.                                                                   *)

InUse(block) == (block % WordBits) \in physicalMemoryBitmap[block \div WordBits]

bit_set(block) ==
  [physicalMemoryBitmap EXCEPT ![block \div WordBits] = @ \cup {block % WordBits}]

bit_clear(block) ==
  [physicalMemoryBitmap EXCEPT ![block \div WordBits] = @ \ {block % WordBits}]

\* bit_clear on each block from lo to hi.
ClearRegion(lo, hi) ==
  [w \in Word |-> physicalMemoryBitmap[w] \
                    {b \in Bit : w * WordBits + b \in lo .. hi}]

\* Bug: the search looks at the last word with a free bit.
SearchFromTheTop ==
  LET open == {w \in Word : physicalMemoryBitmap[w] # Bit}
  IN  IF open = {} THEN 0
      ELSE Max(open) * WordBits + Min(Bit \ physicalMemoryBitmap[Max(open)])

\* The first word that is not all ones, the first zero bit of it; else 0.
GetFirstFreeMemoryBlock ==
  LET open == {w \in Word : physicalMemoryBitmap[w] # Bit}
  IN  IF open = {} THEN 0
      ELSE Min(open) * WordBits + Min(Bit \ physicalMemoryBitmap[Min(open)])

-----------------------------------------------------------------------------
(* InitializePhysicalAllocator.                                            *)

\* memset: every bit is set.
Init ==
  /\ physicalMemoryBitmap = [w \in Word |-> Bit]
  /\ usedPhysicalBlocks = 0
  /\ ready = FALSE
  /\ held = [b \in Block |-> 0]

\* One entry of type 1 of the memory map.  MarkMemoryRegionFree has no body
\* in the repository: from its use here it clears the blocks of the region,
\* and what it does to the counter is not known.
MarkMemoryRegionFree ==
  /\ ~ready
  /\ \E lo, hi \in Block : physicalMemoryBitmap' = ClearRegion(lo, hi)
  /\ usedPhysicalBlocks' \in 0 .. (CounterMod - 1)
  /\ UNCHANGED <<ready, held>>

\* Bug: the loop starts at the second block of the region.
RegionStartsAtOne == 1

FirstBlockOfRegion == 0

\* MarkMemoryRegionUsed(0, ReservedBlocks blocks): the loop runs once more
\* than there are blocks, and calls bit_clear on each.
MarkMemoryRegionUsed ==
  /\ ~ready
  /\ physicalMemoryBitmap' = ClearRegion(FirstBlockOfRegion, ReservedBlocks)
  /\ usedPhysicalBlocks' = (usedPhysicalBlocks + ReservedBlocks + 1) % CounterMod
  /\ ready' = TRUE
  /\ UNCHANGED held

-----------------------------------------------------------------------------
(* Allocation and release.                                                 *)

\* Bug: the answer of the search is not tested.
AnyBlockWillDo(index) == FALSE

NoneFree(index) == index = 0

\* Unsigned: 0 is followed by the largest value.
CountDown == (usedPhysicalBlocks - 1) % CounterMod

\* Index 0 is both the first block and the answer "none is free".
AllocatePhysicalMemoryBlock ==
  LET index == GetFirstFreeMemoryBlock IN
  /\ ready
  /\ held[index] < MaxHeld
  /\ held' = [held EXCEPT ![index] = @ + 1]
  /\ IF NoneFree(index)
       THEN UNCHANGED <<physicalMemoryBitmap, usedPhysicalBlocks>>
       ELSE /\ physicalMemoryBitmap' = bit_set(index)
            /\ usedPhysicalBlocks' = (usedPhysicalBlocks + 1) % CounterMod
  /\ UNCHANGED ready

\* Neither the bit nor the counter is looked at before.
FreePhysicalMemoryBlock(block) ==
  /\ ready
  /\ held[block] > 0
  /\ held' = [held EXCEPT ![block] = @ - 1]
  /\ physicalMemoryBitmap' = bit_clear(block)
  /\ usedPhysicalBlocks' = CountDown
  /\ UNCHANGED ready

Next ==
  \/ MarkMemoryRegionFree
  \/ MarkMemoryRegionUsed
  \/ AllocatePhysicalMemoryBlock
  \/ \E block \in Block : FreePhysicalMemoryBlock(block)

Spec == Init /\ [][Next]_vars
-----------------------------------------------------------------------------
(* Properties.                                                             *)

\* Every variable keeps its type; the counter wraps and stays in its width.
TypeOK ==
  /\ physicalMemoryBitmap \in [Word -> SUBSET Bit]
  /\ usedPhysicalBlocks \in 0 .. (CounterMod - 1)
  /\ ready \in BOOLEAN
  /\ held \in [Block -> Nat]

\* The two-level search finds the lowest free block, or 0 when no block is
\* free (GetFirstFreeMemoryBlock's skipping of full words).
SearchFindsLowest ==
  LET free == {b \in Block : ~InUse(b)}
  IN  GetFirstFreeMemoryBlock = IF free = {} THEN 0 ELSE Min(free)

\* What InitializePhysicalAllocator amounts to: block 0 is left free for
\* good, so every call of AllocatePhysicalMemoryBlock answers 0, and block 0
\* is the only block any caller ever holds.
OnlyBlockZeroIsHandedOut == \A b \in Block \ {0} : held[b] = 0

\* After boot nothing is ever marked in use, and the counter can only go
\* down: no allocation succeeds, while each release is counted.
NothingIsMarkedUsed ==
  [][ready => /\ \A w \in Word : physicalMemoryBitmap'[w] \subseteq physicalMemoryBitmap[w]
              /\ usedPhysicalBlocks' \in {usedPhysicalBlocks, CountDown}]_vars

\* What the comment of GetFirstFreeMemoryBlock says: block 0 is never free, so
\* that 0 can mean "no block".
FirstBlockReserved == ready => InUse(0)
=============================================================================
