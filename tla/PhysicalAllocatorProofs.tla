----------------------- MODULE PhysicalAllocatorProofs -----------------------
(***************************************************************************)
(* What InitializePhysicalAllocator leads to, for every bitmap size and    *)
(* every region marked at boot.                                            *)
(***************************************************************************)
EXTENDS PhysicalAllocator, NaturalInduction

\* Block 0 is free from the end of InitializePhysicalAllocator on, because
\* MarkMemoryRegionUsed clears its bit and only bit_set(index), index # 0,
\* could set it.
BlockZeroFree == ready => 0 \notin physicalMemoryBitmap[0]

\* The inductive invariant.
IInv ==
  /\ TypeOK
  /\ BlockZeroFree
  /\ OnlyBlockZeroIsHandedOut

\* The unsigned counter stays in its width.
LEMMA CounterInRange ==
  ASSUME NEW n \in Int
  PROVE  n % CounterMod \in 0 .. (CounterMod - 1)
BY AllocatorAssumption

\* The sets of words, bits and blocks are not empty.
LEMMA FirstOfEach == 0 \in Word /\ 0 \in Bit /\ 0 \in Block
<1>1. Words * WordBits \in Nat /\ Words * WordBits > 0
  BY AllocatorAssumption
<1> QED
  BY <1>1, AllocatorAssumption DEF Word, Bit, Block

\* The least of a set of naturals that holds 0.
LEMMA LeastIsZero ==
  ASSUME NEW S, S \subseteq Nat, 0 \in S
  PROVE  Min(S) = 0
<1>1. \E x \in S : \A y \in S : x =< y
  <2>1. \A y \in S : 0 =< y
    OBVIOUS
  <2> QED
    BY <2>1
<1>2. Min(S) \in S /\ \A y \in S : Min(S) =< y
  BY <1>1, Zenon DEF Min
<1>3. Min(S) \in Nat /\ Min(S) =< 0
  BY <1>2, Zenon
<1> QED
  BY <1>3

\* While block 0 is free the search answers 0.
LEMMA SearchAnswersZero ==
  ASSUME TypeOK, 0 \notin physicalMemoryBitmap[0]
  PROVE  GetFirstFreeMemoryBlock = 0
<1> DEFINE open == {w \in Word : physicalMemoryBitmap[w] # Bit}
           zeros == Bit \ physicalMemoryBitmap[0]
<1>1. 0 \in open /\ 0 \in zeros
  BY FirstOfEach
<1>2. open \subseteq Nat /\ zeros \subseteq Nat
  BY DEF Word, Bit
<1> HIDE DEF open, zeros
<1>3. Min(open) = 0
  BY <1>1, <1>2, LeastIsZero
<1>4. Min(zeros) = 0
  BY <1>1, <1>2, LeastIsZero
<1>5. GetFirstFreeMemoryBlock = Min(open) * WordBits + Min(Bit \ physicalMemoryBitmap[Min(open)])
  BY <1>1 DEF GetFirstFreeMemoryBlock, open
<1> QED
  BY <1>3, <1>4, <1>5, AllocatorAssumption DEF zeros

\* Clearing bits keeps the bitmap a bitmap and sets no bit.
LEMMA ClearOnlyClears ==
  ASSUME TypeOK
  PROVE  /\ \A lo, hi \in Block :
              /\ ClearRegion(lo, hi) \in [Word -> SUBSET Bit]
              /\ \A w \in Word : ClearRegion(lo, hi)[w] \subseteq physicalMemoryBitmap[w]
         /\ \A block \in Block :
              /\ bit_clear(block) \in [Word -> SUBSET Bit]
              /\ \A w \in Word : bit_clear(block)[w] \subseteq physicalMemoryBitmap[w]
<1>1. physicalMemoryBitmap \in [Word -> SUBSET Bit]
  BY DEF TypeOK
<1> QED
  BY <1>1 DEF ClearRegion, bit_clear

-----------------------------------------------------------------------------
(* The search: what GetFirstFreeMemoryBlock finds in any bitmap at all.     *)

\* Min of a nonempty set of naturals is its least member, and the only one.
LEMMA MinIsLeast ==
  ASSUME NEW S, S \subseteq Nat, S # {}
  PROVE  /\ Min(S) \in S
         /\ \A y \in S : Min(S) =< y
         /\ \A m \in S : (\A y \in S : m =< y) => m = Min(S)
<1>1. \E x \in S : \A y \in S : x =< y
  BY LeastNumber
<1>2. Min(S) \in S /\ \A y \in S : Min(S) =< y
  BY <1>1, Zenon DEF Min
<1>3. ASSUME NEW m \in S, \A y \in S : m =< y PROVE m = Min(S)
  <2>1. Min(S) \in Nat /\ m \in Nat /\ Min(S) =< m /\ m =< Min(S)
    BY <1>2, <1>3, Zenon
  <2> QED
    BY <2>1
<1> QED
  BY <1>2, <1>3

\* A block is a word and a bit of it, its address their number in order.
LEMMA BlockIsWordAndBit ==
  /\ \A b \in Block : /\ b \div WordBits \in Word
                      /\ b % WordBits \in Bit
                      /\ b = (b \div WordBits) * WordBits + (b % WordBits)
  /\ \A w \in Word, i \in Bit : /\ w * WordBits + i \in Block
                                /\ (w * WordBits + i) \div WordBits = w
                                /\ (w * WordBits + i) % WordBits = i
<1> USE AllocatorAssumption DEF Block, Word, Bit
<1>1. ASSUME NEW b \in Block
      PROVE  /\ b \div WordBits \in Word
             /\ b % WordBits \in Bit
             /\ b = (b \div WordBits) * WordBits + (b % WordBits)
  <2>1. /\ b \div WordBits \in Int
        /\ b % WordBits \in 0 .. (WordBits - 1)
        /\ b = (b \div WordBits) * WordBits + (b % WordBits)
    <3> DEFINE q == b \div WordBits
               r == b % WordBits
    <3>1. q \in Int /\ r \in 0 .. (WordBits - 1)
      OBVIOUS
    <3>2. r = b - WordBits * q
      OBVIOUS
    <3> HIDE DEF q, r
    <3>3. b = q * WordBits + r
      BY <3>1, <3>2
    <3> QED
      BY <3>1, <3>3, Zenon DEF q, r
  <2>2. b \div WordBits >= 0
    OBVIOUS
  <2>3. b \div WordBits < Words
    <3> SUFFICES ASSUME b \div WordBits >= Words PROVE FALSE
      BY <2>1
    <3> DEFINE q == b \div WordBits
    <3>1. q \in Nat /\ q >= Words
      BY <2>1, <2>2
    <3> HIDE DEF q
    <3>2. q * WordBits >= Words * WordBits
      <4>1. (q - Words) \in Nat /\ (q - Words) * WordBits >= 0
        BY <3>1
      <4> QED
        BY <3>1, <4>1
    <3> QED
      BY <2>1, <3>2 DEF q
  <2> QED
    BY <2>1, <2>2, <2>3
<1>2. ASSUME NEW w \in Word, NEW i \in Bit
      PROVE  /\ w * WordBits + i \in Block
             /\ (w * WordBits + i) \div WordBits = w
             /\ (w * WordBits + i) % WordBits = i
  <2>1. w * WordBits \in Nat /\ (Words - 1 - w) * WordBits \in Nat
    OBVIOUS
  <2>2. Words * WordBits = w * WordBits + (Words - 1 - w) * WordBits + WordBits
    OBVIOUS
  <2>3. w * WordBits + i \in Block
    BY <2>1, <2>2
  <2>4. (w * WordBits + i) \div WordBits = w /\ (w * WordBits + i) % WordBits = i
    OBVIOUS
  <2> QED
    BY <2>3, <2>4
<1> QED
  BY <1>1, <1>2

\* Skipping full words and then used bits finds the lowest free block, in
\* every bitmap: the two-level search is as good as looking at each block.
LEMMA SearchIsExact ==
  ASSUME TypeOK
  PROVE  SearchFindsLowest
<1> DEFINE free == {b \in Block : ~InUse(b)}
           open == {w \in Word : physicalMemoryBitmap[w] # Bit}
           w0 == Min(open)
           zeros == Bit \ physicalMemoryBitmap[w0]
           i0 == Min(zeros)
<1>1. physicalMemoryBitmap \in [Word -> SUBSET Bit]
  BY DEF TypeOK
<1>2. \A b \in free : /\ b \div WordBits \in open
                      /\ b % WordBits \in Bit \ physicalMemoryBitmap[b \div WordBits]
  BY <1>1, BlockIsWordAndBit DEF InUse
<1>3. \A w \in open : \A i \in Bit \ physicalMemoryBitmap[w] : w * WordBits + i \in free
  BY <1>1, BlockIsWordAndBit DEF InUse
<1>4. GetFirstFreeMemoryBlock = IF open = {} THEN 0 ELSE w0 * WordBits + i0
  BY DEF GetFirstFreeMemoryBlock
<1>5. CASE open = {}
  <2>1. free = {}
    BY <1>2, <1>5
  <2> QED
    BY <1>4, <1>5, <2>1 DEF SearchFindsLowest
<1>6. CASE open # {}
  <2>1. open \subseteq Nat /\ zeros \subseteq Nat /\ free \subseteq Nat
    BY DEF Word, Bit, Block
  <2>2. w0 \in open /\ \A w \in open : w0 =< w
    <3> HIDE DEF open
    <3> QED
      BY <1>6, <2>1, MinIsLeast
  <2>3. zeros # {}
    BY <1>1, <2>2
  <2>4. i0 \in zeros /\ \A i \in zeros : i0 =< i
    <3> HIDE DEF zeros
    <3> QED
      BY <2>1, <2>3, MinIsLeast
  <2>5. w0 * WordBits + i0 \in free
    BY <1>3, <2>2, <2>4
  <2>6. ASSUME NEW b \in free PROVE w0 * WordBits + i0 =< b
    <3> DEFINE w == b \div WordBits
               i == b % WordBits
    <3>1. w \in open /\ i \in Bit \ physicalMemoryBitmap[w]
      BY <1>2
    <3>2. b = w * WordBits + i
      <4>1. b \in Block
        OBVIOUS
      <4> HIDE DEF free, open, w0, zeros, i0
      <4> QED
        BY <4>1, BlockIsWordAndBit, Zenon DEF w, i
    <3>3. w \in Nat /\ i \in 0 .. (WordBits - 1) /\ w0 \in Nat /\ i0 \in 0 .. (WordBits - 1) /\ w0 =< w
      BY <2>1, <2>2, <2>4, <3>1 DEF Word, Bit
    <3>4. w = w0 => i0 =< i
      BY <2>4, <3>1
    <3> HIDE DEF w, i, w0, i0
    <3>5. CASE w = w0
      BY <3>2, <3>3, <3>4, <3>5, AllocatorAssumption
    <3>6. CASE w # w0
      <4>1. w - w0 - 1 \in Nat /\ WordBits \in Nat
        BY <3>3, <3>6, AllocatorAssumption
      <4>2. (w - w0 - 1) * WordBits >= 0
        BY <4>1
      <4>3. w * WordBits = w0 * WordBits + WordBits + (w - w0 - 1) * WordBits
        BY <3>3, <4>1
      <4> QED
        BY <3>2, <3>3, <4>1, <4>2, <4>3
    <3> QED
      BY <3>5, <3>6
  <2>7. w0 * WordBits + i0 = Min(free)
    <3> HIDE DEF free, w0, i0
    <3> QED
      BY <2>1, <2>5, <2>6, MinIsLeast
  <2> QED
    BY <1>4, <1>6, <2>5, <2>7 DEF SearchFindsLowest
<1> QED
  BY <1>5, <1>6

-----------------------------------------------------------------------------
\* Once ready, an allocation hands out block 0 and changes nothing else.
LEMMA AllocationFails ==
  ASSUME IInv, AllocatePhysicalMemoryBlock
  PROVE  /\ ready
         /\ UNCHANGED <<physicalMemoryBitmap, usedPhysicalBlocks, ready>>
         /\ held' = [held EXCEPT ![0] = @ + 1]
<1>1. GetFirstFreeMemoryBlock = 0
  BY SearchAnswersZero DEF IInv, BlockZeroFree, AllocatePhysicalMemoryBlock
<1> QED
  BY <1>1 DEF AllocatePhysicalMemoryBlock, NoneFree

\* memset leaves every bit set and nobody holds a block.
LEMMA InitIInv == Init => IInv
<1> SUFFICES ASSUME Init PROVE IInv
  OBVIOUS
<1>1. 0 \in 0 .. (CounterMod - 1)
  BY AllocatorAssumption
<1>2. TypeOK
  BY <1>1 DEF Init, TypeOK
<1>3. BlockZeroFree /\ OnlyBlockZeroIsHandedOut
  BY DEF Init, BlockZeroFree, OnlyBlockZeroIsHandedOut
<1> QED
  BY <1>2, <1>3 DEF IInv

\* Every operation keeps the invariant.
LEMMA NextIInv == IInv /\ [Next]_vars => IInv'
<1> SUFFICES ASSUME IInv, [Next]_vars PROVE IInv'
  OBVIOUS
<1> USE FirstOfEach
<1>1. CASE MarkMemoryRegionFree
  <2>1. PICK lo, hi \in Block : physicalMemoryBitmap' = ClearRegion(lo, hi)
    BY <1>1 DEF MarkMemoryRegionFree
  <2>2. physicalMemoryBitmap' \in [Word -> SUBSET Bit]
    BY <2>1, ClearOnlyClears DEF IInv
  <2> QED
    BY <1>1, <2>2 DEF MarkMemoryRegionFree, IInv, TypeOK, BlockZeroFree,
                      OnlyBlockZeroIsHandedOut
<1>2. CASE MarkMemoryRegionUsed
  <2>1. physicalMemoryBitmap' = ClearRegion(0, ReservedBlocks) /\ ReservedBlocks \in Block
    BY <1>2, AllocatorAssumption DEF MarkMemoryRegionUsed, FirstBlockOfRegion, Block
  <2>2. physicalMemoryBitmap' \in [Word -> SUBSET Bit]
    BY <2>1, ClearOnlyClears DEF IInv
  <2>3. 0 * WordBits + 0 \in 0 .. ReservedBlocks
    BY AllocatorAssumption
  <2>4. 0 \notin physicalMemoryBitmap'[0]
    BY <2>1, <2>3 DEF ClearRegion
  <2>5. usedPhysicalBlocks' \in 0 .. (CounterMod - 1)
    <3>1. usedPhysicalBlocks + ReservedBlocks + 1 \in Int
      BY AllocatorAssumption DEF IInv, TypeOK
    <3> QED
      BY <1>2, <3>1, CounterInRange DEF MarkMemoryRegionUsed
  <2> QED
    BY <1>2, <2>2, <2>4, <2>5 DEF MarkMemoryRegionUsed, IInv, TypeOK, BlockZeroFree,
                                  OnlyBlockZeroIsHandedOut
<1>3. CASE AllocatePhysicalMemoryBlock
  <2>1. /\ UNCHANGED <<physicalMemoryBitmap, usedPhysicalBlocks, ready>>
        /\ held' = [held EXCEPT ![0] = @ + 1]
    BY <1>3, AllocationFails
  <2> QED
    BY <2>1 DEF IInv, TypeOK, BlockZeroFree, OnlyBlockZeroIsHandedOut
<1>4. CASE \E block \in Block : FreePhysicalMemoryBlock(block)
  <2>1. PICK block \in Block : FreePhysicalMemoryBlock(block)
    BY <1>4
  <2>2. /\ physicalMemoryBitmap' \in [Word -> SUBSET Bit]
        /\ physicalMemoryBitmap'[0] \subseteq physicalMemoryBitmap[0]
    BY <2>1, ClearOnlyClears DEF IInv, FreePhysicalMemoryBlock
  <2>3. usedPhysicalBlocks' \in 0 .. (CounterMod - 1)
    <3>1. usedPhysicalBlocks - 1 \in Int
      BY AllocatorAssumption DEF IInv, TypeOK
    <3> QED
      BY <2>1, <3>1, CounterInRange DEF FreePhysicalMemoryBlock, CountDown
  <2>4. held' \in [Block -> Nat] /\ OnlyBlockZeroIsHandedOut'
    BY <2>1 DEF IInv, TypeOK, FreePhysicalMemoryBlock, OnlyBlockZeroIsHandedOut
  <2> QED
    BY <2>1, <2>2, <2>3, <2>4 DEF FreePhysicalMemoryBlock, IInv, TypeOK, BlockZeroFree
<1>5. CASE UNCHANGED vars
  BY <1>5 DEF vars, IInv, TypeOK, BlockZeroFree, OnlyBlockZeroIsHandedOut
<1> QED
  BY <1>1, <1>2, <1>3, <1>4, <1>5 DEF Next

\* The inductive invariant holds in every reachable state.
THEOREM Invariance == Spec => []IInv
<1>1. Init => IInv
  BY InitIInv
<1>2. IInv /\ [Next]_vars => IInv'
  BY NextIInv
<1> QED
  BY <1>1, <1>2, PTL DEF Spec

\* Whatever the memory map says, the allocator only ever hands out block 0:
\* all page directories, page tables, stacks and segments share it.
THEOREM OnlyBlockZero == Spec => []OnlyBlockZeroIsHandedOut
<1>1. IInv => OnlyBlockZeroIsHandedOut
  BY DEF IInv
<1> QED
  BY <1>1, Invariance, PTL

\* The search is exact in every state, whatever the memory map and however
\* many words and bits: what goes wrong is never the search, but that its
\* right answer 0 is read as "none is free".
THEOREM LowestFreeBlock == Spec => []SearchFindsLowest
<1>1. IInv => SearchFindsLowest
  BY SearchIsExact DEF IInv
<1> QED
  BY <1>1, Invariance, PTL

\* After boot no step marks a block in use or counts one up.
THEOREM NothingMarked == Spec => NothingIsMarkedUsed
<1> DEFINE Step ==
      ready => /\ \A w \in Word : physicalMemoryBitmap'[w] \subseteq physicalMemoryBitmap[w]
               /\ usedPhysicalBlocks' \in {usedPhysicalBlocks, CountDown}
<1>1. IInv /\ [Next]_vars => [Step]_vars
  <2> SUFFICES ASSUME IInv, Next, ready PROVE Step
    OBVIOUS
  <2>1. CASE AllocatePhysicalMemoryBlock
    BY <2>1, AllocationFails
  <2>2. CASE \E block \in Block : FreePhysicalMemoryBlock(block)
    BY <2>2, ClearOnlyClears DEF IInv, FreePhysicalMemoryBlock
  <2> QED
    BY <2>1, <2>2 DEF Next, MarkMemoryRegionFree, MarkMemoryRegionUsed
<1> QED
  BY <1>1, Invariance, PTL DEF Spec, NothingIsMarkedUsed

=============================================================================
