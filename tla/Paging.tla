------------------------------- MODULE Paging -------------------------------
(***************************************************************************)
(* The kernel's page tables: the virtual pages given out by                *)
(* KernelAllocateVirtualPages, the mappings made by MapVirtualPages, and   *)
(* the callers of the two: the start-up code of the HAL, CreateProcess,    *)
(* CreateAddressSpace, LoadELF and EndProcess.                             *)
(*                                                                         *)
(* Every caller runs as one step: the loader holds the scheduler's lock,   *)
(* and start-up is alone.  Frames come from the physical allocator as it   *)
(* promises (each one new); PhysicalAllocator shows what it does instead.  *)
(***************************************************************************)
EXTENDS PageTables, FiniteSets

CONSTANTS
  LastFrame,    \* the frame InitializeVirtualMemory maps last
  StackPages,   \* pages of a thread's stack
  RegionPages,  \* sizes of the regions the HAL maps
  SegmentBytes, \* sizes of program segments in bytes (p_memsz)
  MaxFrame      \* bound: frames handed out

ASSUME PagingAssumption ==
  /\ StackPages \in Nat \ {0}
  /\ RegionPages \subseteq Nat \ {0}
  /\ SegmentBytes \subseteq Nat \ {0}
  /\ MaxFrame \in Nat
  /\ LastFrame \in Nat /\ LastFrame > MaxFrame

\* Where in its page an address is, in words: on the machine, where D = T,
\* any word of the page.
PageWord == 0 .. (D - 1)

VARIABLES
  present,     \* pages whose entry in kernelPageTables has PAGE_PRESENT
  frame,       \* the frame in each entry
  programs,    \* the segments of the loaded programs
  nextFrame,   \* frames handed out so far are 1 .. nextFrame - 1
  grants,      \* history: regions given out, as sets of pages
  released,    \* history: frames given back
  outcome      \* "running", "panic" (PageFaultHandler) or "hung" (no pages)

pagingVars == <<present, frame, programs, nextFrame, grants, released, outcome>>

\* InitializeVirtualMemory clears the tables.  Its loop over 4096 frames
\* never advances the virtual address: page 0 ends up on the last frame.
PagingInit ==
  /\ present = {get_page(Address(0))}
  /\ frame = [p \in Page |-> IF p = 0 THEN LastFrame ELSE 0]
  /\ programs = {}
  /\ nextFrame = 1
  /\ grants = {}
  /\ released = {}
  /\ outcome = "running"
-----------------------------------------------------------------------------
\* Bug: the search does not ask for a page more than it marks.
MarksOneLess(used, n) ==
  LET s == FirstRun(used, n + 1)
      offset == IF s = 0 THEN 0 ELSE s - 1
  IN [address |-> offset + 1, marked |-> offset .. (offset + n - 1), found |-> s < D * T]

\* KernelAllocateVirtualPages: amount + 1 free pages are looked for.  offset
\* is the page in use before them; it is marked again, the page after it is
\* returned, and the last page of the run stays free.
KernelAllocateVirtualPages(used, n) ==
  LET s == FirstRun(used, n + 1)
      offset == IF s = 0 THEN 0 ELSE s - 1
  IN [address |-> offset + 1, marked |-> offset .. (offset + n), found |-> s < D * T]

\* The entry get_page finds for a word of a page.  It is the entry the
\* processor uses only if the word happens to be the page's table.
Entry(page, word) == get_page(Address(page) + 4 * word)

\* MapVirtualPages, all of its loop, for n pages from a word of a page on:
\* the entries written, and what is written into them.
Written(page, word, n) == {Entry(page + i, word) : i \in 0 .. (n - 1)}

MapVirtualPages(old, page, word, n, fs) ==
  [p \in Page |->
     LET hits == {i \in 0 .. (n - 1) : Entry(page + i, word) = p}
     IN IF hits = {} THEN old[p]
        ELSE fs[CHOOSE i \in hits : \A k \in hits : k <= i]]

\* The next n frames of the physical allocator.
Fresh(n, after) == [i \in 0 .. (n - 1) |-> nextFrame + after + i]

\* There are no pages left: an error message and an endless loop.
Hang == outcome' = "hung" /\ UNCHANGED <<present, frame, programs, nextFrame, grants, released>>

\* InitCore and InitVideo: virtual pages for the memory map, the modules and
\* the frame buffer, mapped to the physical pages where these are, before
\* there are processes.
MapRegion(n) ==
  LET g == KernelAllocateVirtualPages(present, n) IN
  /\ nextFrame = 1
  /\ Cardinality(grants) < 3
  /\ IF ~g.found THEN Hang
     ELSE /\ present' = present \cup g.marked \cup Written(g.address, 0, n)
          /\ frame' = MapVirtualPages(frame, g.address, 0, n, [i \in 0 .. (n - 1) |-> LastFrame])
          /\ grants' = grants \cup {g.address .. (g.address + n - 1)}
          /\ UNCHANGED <<programs, nextFrame, released, outcome>>

\* CreateProcess: the stack of a kernel process.
CreateProcess ==
  LET g == KernelAllocateVirtualPages(present, StackPages) IN
  /\ nextFrame + StackPages <= MaxFrame
  /\ IF ~g.found THEN Hang
     ELSE /\ present' = present \cup g.marked \cup Written(g.address, 0, StackPages)
          /\ frame' = MapVirtualPages(frame, g.address, 0, StackPages, Fresh(StackPages, 0))
          /\ nextFrame' = nextFrame + StackPages
          /\ grants' = grants \cup {g.address .. (g.address + StackPages - 1)}
          /\ UNCHANGED <<programs, released, outcome>>

\* CreateAddressSpace sizes the tables by the index of the kernel's first
\* directory entry, and so asks for no page at all.
PagesForTables == (4 * T * PAGE_DIRECTORY_INDEX(Address((3 * D * T) \div 4)) + 1) \div PAGE_SIZE

\* What LoadELF gets and marks in turn, from the pages in use when it starts:
\* a page for the directory and some for the tables (CreateAddressSpace), the
\* first page of the segment, all of the segment, the stack.
DirectoryAt(u) == KernelAllocateVirtualPages(u, 1)
AfterDirectory(u) == u \cup DirectoryAt(u).marked \cup Written(DirectoryAt(u).address, 0, 1)
TablesAt(u) == KernelAllocateVirtualPages(AfterDirectory(u), PagesForTables)
AfterPages(u, page, word, n) ==
  AfterDirectory(u) \cup TablesAt(u).marked \cup Written(page, word, n)
StackAt(u, page, word, n) == KernelAllocateVirtualPages(AfterPages(u, page, word, n), StackPages)

\* The pages memset and memcpy of LoadELF go through.
Touched(page, word, memsz) ==
  page .. ((Address(page) + 4 * word + memsz - 1) \div PAGE_SIZE)

\* LoadELF of a program with one segment of memsz bytes.  Each of its pages is
\* mapped in the kernel's tables and then entered in the new tables; these are
\* not mapped, and if the first page of the segment does not happen to bring
\* in the page they are written through, PageFaultHandler halts the machine.
\* So it does if the segment is not where the kernel's entries say, when its
\* memory is cleared and copied.
LoadELF(page, word, memsz) ==
  LET n       == memsz \div PAGE_SIZE + 2
      dir     == DirectoryAt(present)
      tables  == TablesAt(present)
      stack   == StackAt(present, page, word, n)
      entered == (tables.address + word) % (D * T) \in AfterPages(present, page, word, 1)
      copied  == Touched(page, word, memsz) \subseteq AfterPages(present, page, word, n)
      mapped  == IF entered THEN n ELSE 1
      frame1  == MapVirtualPages(frame, dir.address, 0, 1, Fresh(1, 0))
      segment == [page |-> page, word |-> word, n |-> n, at |-> nextFrame]
  IN
  /\ page + n <= D * T
  /\ nextFrame + 1 + n + StackPages <= MaxFrame
  /\ \/ /\ ~(dir.found /\ tables.found) \/ (entered /\ copied /\ ~stack.found)
        /\ Hang
     \/ /\ dir.found /\ tables.found /\ ~(entered /\ copied)
        /\ present' = AfterPages(present, page, word, mapped)
        /\ frame' = MapVirtualPages(frame1, page, word, mapped, Fresh(mapped, 1))
        /\ nextFrame' = nextFrame + 1 + mapped
        /\ grants' = grants \cup {{dir.address}}
        /\ outcome' = "panic"
        /\ UNCHANGED <<programs, released>>
     \/ /\ dir.found /\ tables.found /\ entered /\ copied /\ stack.found
        /\ present' = AfterPages(present, page, word, n) \cup stack.marked
                        \cup Written(stack.address, 0, StackPages)
        /\ frame' = MapVirtualPages(MapVirtualPages(frame1, page, word, n, Fresh(n, 1)),
                                    stack.address, 0, StackPages, Fresh(StackPages, n + 1))
        /\ nextFrame' = nextFrame + 1 + n + StackPages
        /\ programs' = programs \cup {segment}
        /\ grants' = grants \cup
             {{dir.address}, stack.address .. (stack.address + StackPages - 1)}
        /\ UNCHANGED <<released, outcome>>

\* Bug: the loop of EndProcess stops a page too early.
ForgetsTheLastPage(seg) == {frame[Entry(seg.page + i, seg.word)] : i \in 0 .. (seg.n - 2)}

\* VirtualToPhysicalAddress of every page of a segment, as EndProcess asks.
FramesOf(seg) == {frame[Entry(seg.page + i, seg.word)] : i \in 0 .. (seg.n - 1)}

\* EndProcess gives back whatever the segment's pages are mapped to now; no
\* entry is cleared.
EndProcess(seg) ==
  /\ seg \in programs
  /\ programs' = programs \ {seg}
  /\ released' = released \cup FramesOf(seg)
  /\ UNCHANGED <<present, frame, nextFrame, grants, outcome>>

\* After a panic or without free pages the machine stands still.
PagingNext ==
  /\ outcome = "running"
  /\ \/ \E n \in RegionPages : MapRegion(n)
     \/ CreateProcess
     \/ \E page \in Page, word \in PageWord, memsz \in SegmentBytes : LoadELF(page, word, memsz)
     \/ \E seg \in programs : EndProcess(seg)

PagingSpec == PagingInit /\ [][PagingNext]_pagingVars
-----------------------------------------------------------------------------
(* Properties.                                                             *)

\* No page is given out twice, and every page given out stays marked, whatever
\* regions, stacks, directories and segments came before: the marks of
\* KernelAllocateVirtualPages cover exactly what it returns.
GrantsAreDisjoint ==
  /\ \A g, h \in grants : g # h => g \cap h = {}
  /\ \A g \in grants : g \subseteq present

\* The frames LoadELF got for a segment.
FramesGot(s) == {s.at + 1 + i : i \in 0 .. (s.n - 1)}

\* EndProcess looks the frames of a segment up in the kernel's tables, which
\* all programs share and which LoadELF, stacks and directories have written
\* since.  As long as nothing has been given out past the first table, it
\* finds exactly the frames LoadELF got, no more and no fewer.
ExitReleasesItsOwn ==
  outcome = "running" /\ (\A g \in grants : \A p \in g : p < T) =>
    \A s \in programs : FramesOf(s) = FramesGot(s)

\* What the comment of MapVirtualPages says, "map amount pages from phys to
\* virt": after a stack has been mapped, each of its pages has a frame of its
\* own.
GrantedPagesHaveTheirFrames ==
  \A g \in grants : \A p \in g : frame[p] # 0
=============================================================================
