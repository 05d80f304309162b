------------------------------ MODULE PageEntry ------------------------------
(***************************************************************************)
(* One entry of a page table through its life: the flag and frame helpers  *)
(* of paging.h as MapVirtualPages and VirtualToPhysicalAddress use them.   *)
(* A word is the set of its bits that are one.                             *)
(***************************************************************************)
EXTENDS Naturals

CONSTANTS
  FlagBits,    \* the low bits of an entry, 0 .. 11 on the machine
  FrameBits,   \* the bits of PAGE_FRAME, 12 .. 30: the mask is 0x7FFFF000
  TopBit       \* bit 31

PAGE_PRESENT == 0
PAGE_WRITEABLE == 1

ASSUME EntryAssumption ==
  /\ {PAGE_PRESENT, PAGE_WRITEABLE} \subseteq FlagBits
  /\ FlagBits \cap FrameBits = {}
  /\ TopBit \notin FlagBits \cup FrameBits

EntryWord == SUBSET (FlagBits \cup FrameBits \cup {TopBit})

VARIABLES
  entry,    \* the word in the page table
  last,     \* history: the physical address mapped last
  seen      \* history: all bits of the addresses mapped so far

pageEntryVars == <<entry, last, seen>>

PageEntryInit ==
  /\ entry = {}
  /\ last = {}
  /\ seen = {}
-----------------------------------------------------------------------------
SetFlags(p, flags) == p \cup flags

\* Bug: the old frame is not cleared.
OrsTheFrame(p, addr) == p \cup addr

\* SetPageFrame clears the bits of PAGE_FRAME and ors the address in.
SetPageFrame(p, addr) == (p \ FrameBits) \cup addr

GetPageFrame(p) == p \cap FrameBits

\* MapVirtualPages for one page: any physical address, aligned or not.
MapPage(addr) ==
  /\ entry' = SetPageFrame(SetFlags(entry, {PAGE_PRESENT, PAGE_WRITEABLE}), addr)
  /\ last' = addr
  /\ seen' = seen \cup addr

PageEntryNext == \E addr \in EntryWord : MapPage(addr)

PageEntrySpec == PageEntryInit /\ [][PageEntryNext]_pageEntryVars
-----------------------------------------------------------------------------
(* Properties.                                                             *)

\* Bits the frame mask does not cover are never cleared: once a page has been
\* mapped to memory above 2 GB it stays above 2 GB, and the offset bits of an
\* unaligned address (the multiboot memory map) stay on as flags.
BitsOutsideTheMaskStick ==
  entry \ FrameBits =
    (seen \ FrameBits) \cup (IF PAGE_PRESENT \in entry THEN {PAGE_PRESENT, PAGE_WRITEABLE} ELSE {})

\* The frame within the mask is that of the last mapping, with nothing left
\* of those before.
FrameIsTheLast == entry \cap FrameBits = last \cap FrameBits

\* However often a page has been mapped, VirtualToPhysicalAddress finds the
\* frame of the last mapping, and it is the one the processor uses, as long as
\* no address above 2 GB was ever mapped there (what EndProcess gives back and
\* CreateAddressSpace enters in a directory).
ReadsTheLastMapping ==
  TopBit \notin seen =>
    /\ GetPageFrame(entry) = last \cap FrameBits
    /\ GetPageFrame(entry) = entry \cap (FrameBits \cup {TopBit})
=============================================================================
