----------------------------- MODULE MemoryProofs -----------------------------
(***************************************************************************)
(* Virtual memory: what the index macros and the searches for free pages   *)
(* lead to in the kernel's tables (Paging), in the tables of a process     *)
(* (Memalloc) and in a single entry (PageEntry), for tables and            *)
(* directories of any size.                                                *)
(***************************************************************************)
EXTENDS Paging, Memalloc, PageEntry, NaturalInduction

-----------------------------------------------------------------------------
(* The index macros and the search for free pages.                         *)

\* There are pages.
LEMMA PageCount == D * T \in Nat /\ D * T > 0 /\ D * T >= T /\ T \in Nat /\ T > 0
<1>1. D \in Nat /\ T \in Nat /\ D > 0 /\ T > 0
  BY TableAssumption
<1>2. (D - 1) * T >= 0 /\ D * T = (D - 1) * T + T
  BY <1>1
<1> QED
  BY <1>1, <1>2

\* PAGE_DIRECTORY_INDEX of the start of a page is 0: the shift by 2 leaves a
\* multiple of T, and so of D.
LEMMA DirectoryIndexIsZero ==
  ASSUME NEW page \in Nat
  PROVE  PAGE_DIRECTORY_INDEX(Address(page)) = 0
<1>1. T \in Nat /\ D \in Nat \ {0} /\ T % D = 0
  BY TableAssumption
<1> DEFINE k == T \div D
<1>2. k \in Nat /\ T = D * k
  <2>1. k \in Int /\ k >= 0
    BY <1>1
  <2>2. T % D = T - D * k
    BY <1>1
  <2> HIDE DEF k
  <2> QED
    BY <1>1, <2>1, <2>2
<1> HIDE DEF k
<1>3. Address(page) = 4 * (page * T)
  BY <1>1 DEF Address, PAGE_SIZE
<1>4. page * T \in Nat /\ (4 * (page * T)) \div 4 = page * T
  BY <1>1
<1>5. page * k \in Nat /\ page * T = D * (page * k)
  BY <1>1, <1>2
<1>6. (D * (page * k)) % D = 0
  <2> DEFINE q == page * k
  <2>1. q \in Nat
    BY <1>5
  <2> HIDE DEF q
  <2>2. (D * q) % D = 0
    BY <1>1, <2>1
  <2> QED
    BY <2>2 DEF q
<1> QED
  BY <1>3, <1>4, <1>5, <1>6 DEF PAGE_DIRECTORY_INDEX

\* So get_page finds the entry of a page in the first table, whichever
\* table the page belongs to.
LEMMA GetPageStaysInFirstTable ==
  ASSUME NEW page \in Nat
  PROVE  /\ get_page(Address(page)) = page % T
         /\ page % T \in Page
         /\ page % T \in 0 .. (T - 1)
<1>1. T \in Nat /\ T > 0
  BY PageCount
<1>2. Address(page) \div PAGE_SIZE = page
  <2> DEFINE z == 4 * T
  <2>1. z \in Nat /\ z > 0
    BY <1>1
  <2> HIDE DEF z
  <2>2. (page * z) \div z = page
    BY <2>1
  <2> QED
    BY <2>2 DEF z, Address, PAGE_SIZE
<1>3. page % T \in 0 .. (T - 1)
  BY <1>1
<1>4. get_page(Address(page)) = 0 * T + (page % T)
  BY <1>2, DirectoryIndexIsZero DEF get_page, PAGE_TABLE_INDEX
<1> QED
  BY <1>1, <1>3, <1>4, PageCount DEF Page

\* The entry get_page finds for a word of a page: the word names the table.
LEMMA EntryIndex ==
  ASSUME NEW page \in Nat, NEW word \in PageWord
  PROVE  /\ Entry(page, word) = word * T + (page % T)
         /\ Entry(page, word) \in Page
         /\ word \in Nat /\ word * T \in Nat /\ page % T \in 0 .. (T - 1)
<1>1. T \in Nat /\ T > 0 /\ D \in Nat \ {0} /\ T % D = 0
  BY TableAssumption
<1>2. word \in Nat /\ word < D
  BY <1>1 DEF PageWord
<1> DEFINE k == T \div D
<1>3. k \in Nat /\ T = D * k
  <2>1. k \in Int /\ k >= 0
    BY <1>1
  <2>2. T % D = T - D * k
    BY <1>1
  <2> HIDE DEF k
  <2> QED
    BY <1>1, <2>1, <2>2
<1> HIDE DEF k
<1>4. D =< T
  <2>1. k >= 1
    <3>1. k # 0
      BY <1>1, <1>3
    <3> QED
      BY <1>3, <3>1
  <2>2. D * (k - 1) >= 0 /\ D * k = D * (k - 1) + D
    BY <1>1, <1>3, <2>1
  <2> QED
    BY <1>1, <1>3, <2>2
<1>5. PAGE_DIRECTORY_INDEX(Address(page) + 4 * word) = word
  <2> DEFINE q == page * k
  <2>1. q \in Nat /\ page * T = D * q /\ page * T \in Nat
    BY <1>1, <1>3
  <2>2. Address(page) + 4 * word = 4 * (page * T + word)
    BY <1>1, <1>2 DEF Address, PAGE_SIZE
  <2>3. (4 * (page * T + word)) \div 4 = page * T + word
    <3> DEFINE e == page * T + word
    <3>1. e \in Nat
      BY <1>2, <2>1
    <3> HIDE DEF e
    <3>2. (4 * e) \div 4 = e
      BY <3>1
    <3> QED
      BY <3>2 DEF e
  <2> HIDE DEF q
  <2>4. (D * q + word) % D = word
    BY <1>1, <1>2, <2>1
  <2> QED
    BY <2>1, <2>2, <2>3, <2>4 DEF PAGE_DIRECTORY_INDEX
<1>6. (Address(page) + 4 * word) \div PAGE_SIZE = page
  <2> DEFINE z == 4 * T
             w == 4 * word
  <2>1. z \in Nat /\ z > 0 /\ w \in 0 .. (z - 1)
    BY <1>1, <1>2, <1>4
  <2> HIDE DEF z, w
  <2>2. (page * z + w) \div z = page
    BY <2>1
  <2> QED
    BY <2>2 DEF z, w, Address, PAGE_SIZE
<1>7. page % T \in 0 .. (T - 1)
  BY <1>1
<1>8. Entry(page, word) = word * T + (page % T)
  BY <1>5, <1>6 DEF Entry, get_page, PAGE_TABLE_INDEX
<1>9. word * T \in Nat /\ word * T + T =< D * T
  <2>1. (D - word - 1) * T >= 0 /\ word * T \in Nat
    BY <1>1, <1>2
  <2>2. (D - word - 1) * T = D * T - word * T - T
    BY <1>1, <1>2
  <2> QED
    BY <1>1, <2>1, <2>2, PageCount
<1>10. word * T + (page % T) \in 0 .. (D * T - 1)
  <2> DEFINE a == word * T
             r == page % T
             z == D * T
  <2>1. a \in Nat /\ a + T =< z /\ r \in 0 .. (T - 1) /\ z \in Nat
    BY <1>7, <1>9, PageCount
  <2> HIDE DEF a, r, z
  <2>2. a + r \in 0 .. (z - 1)
    BY <1>1, <2>1
  <2> QED
    BY <2>2 DEF a, r, z
<1> QED
  BY <1>2, <1>7, <1>8, <1>9, <1>10 DEF Page

\* The entries MapVirtualPages writes for a page that starts a run.
LEMMA WrittenEntries ==
  ASSUME NEW page \in Nat, NEW word \in PageWord, NEW n \in Nat
  PROVE  Written(page, word, n) \subseteq Page
<1>1. \A i \in 0 .. (n - 1) : page + i \in Nat
  OBVIOUS
<1>2. \A i \in 0 .. (n - 1) : Entry(page + i, word) \in Page
  BY <1>1, EntryIndex
<1> QED
  BY <1>2, Zenon DEF Written

\* At the start of a page they are all in the first table.
LEMMA WrittenInFirstTable ==
  ASSUME NEW first \in Nat, NEW n \in Nat
  PROVE  /\ Written(first, 0, n) = {(first + i) % T : i \in 0 .. (n - 1)}
         /\ Written(first, 0, n) \subseteq Page
         /\ \A i \in 0 .. (n - 1) : Entry(first + i, 0) = (first + i) % T
<1>0. 0 \in PageWord
  BY TableAssumption DEF PageWord
<1>1. \A i \in 0 .. (n - 1) : first + i \in Nat
  OBVIOUS
<1>2. \A i \in 0 .. (n - 1) : Entry(first + i, 0) = (first + i) % T
  <2> TAKE i \in 0 .. (n - 1)
  <2> DEFINE r == (first + i) % T
  <2>1. Entry(first + i, 0) = 0 * T + r /\ r \in 0 .. (T - 1)
    BY <1>0, <1>1, EntryIndex
  <2> HIDE DEF r
  <2>2. 0 * T + r = r
    BY <2>1, PageCount
  <2> QED
    BY <2>1, <2>2 DEF r
<1> QED
  BY <1>0, <1>2, WrittenEntries, Zenon DEF Written

\* A run that is found is free and ends within the tables, and no run
\* starts before it.
LEMMA FirstRunIsFree ==
  ASSUME NEW u, NEW n \in Nat, FirstRun(u, n) < D * T
  PROVE  /\ FirstRun(u, n) \in Page
         /\ FirstRun(u, n) + n =< D * T
         /\ (FirstRun(u, n) .. (FirstRun(u, n) + n - 1)) \cap u = {}
         /\ \A r \in Page : r + n =< D * T /\ (r .. (r + n - 1)) \cap u = {} => FirstRun(u, n) =< r
<1> DEFINE starts == {s \in Page : s + n =< D * T /\ (s .. (s + n - 1)) \cap u = {}}
           first == CHOOSE s \in starts : \A r \in starts : s =< r
<1>1. FirstRun(u, n) = IF starts = {} THEN D * T ELSE first
  BY DEF FirstRun
<1>2. starts # {}
  BY <1>1, PageCount
<1>3. starts \subseteq Nat
  BY DEF Page
<1>4. \E s \in starts : \A r \in starts : s =< r
  <2> HIDE DEF starts
  <2> QED
    BY <1>2, <1>3, LeastNumber
<1>5. first \in starts /\ \A r \in starts : first =< r
  <2> HIDE DEF starts
  <2> QED
    BY <1>4, Zenon
<1>6. FirstRun(u, n) = first
  BY <1>1, <1>2
<1> QED
  <2> HIDE DEF first
  <2> QED
    BY <1>5, <1>6

-----------------------------------------------------------------------------
(* Paging: the kernel's virtual pages.                                     *)

\* With page 0 in use, KernelAllocateVirtualPages returns a free page with n
\* free pages after it, and marks the pages it gives and the one before.
LEMMA AllocationIsFree ==
  ASSUME NEW u, 0 \in u, NEW n \in Nat, NEW g, g = KernelAllocateVirtualPages(u, n), g.found
  PROVE  /\ g.address \in Nat \ {0}
         /\ g.address + n < D * T
         /\ (g.address .. (g.address + n)) \cap u = {}
         /\ g.marked = (g.address - 1) .. (g.address + n - 1)
<1> DEFINE s == FirstRun(u, n + 1)
<1>1. s < D * T
  <2>1. KernelAllocateVirtualPages(u, n).found
    BY Zenon
  <2> QED
    BY <2>1 DEF KernelAllocateVirtualPages
<1>2. n + 1 \in Nat
  OBVIOUS
<1>3. s \in Page /\ s + (n + 1) =< D * T /\ (s .. (s + (n + 1) - 1)) \cap u = {}
  <2> HIDE DEF s
  <2> QED
    BY <1>1, <1>2, FirstRunIsFree DEF s
<1>4. s \in Nat
  BY <1>3, PageCount DEF Page
<1>5. s # 0
  <2> HIDE DEF s
  <2> QED
    BY <1>3, <1>4
<1>6. g.address = s /\ g.marked = (s - 1) .. (s - 1 + n)
  BY <1>4, <1>5 DEF KernelAllocateVirtualPages
<1> HIDE DEF s
<1> QED
  BY <1>3, <1>4, <1>5, <1>6, PageCount

\* Without pages for the tables, CreateAddressSpace gets a page that is not
\* marked: only the page before it is.
LEMMA NoPagesForTables == PagesForTables = 0
<1> DEFINE w == (3 * D * T) \div 4
<1>1. w \in Nat
  <2> DEFINE z == D * T
  <2>1. z \in Nat /\ 3 * D * T = 3 * z
    BY TableAssumption
  <2> HIDE DEF z
  <2>2. (3 * z) \div 4 \in Nat
    BY <2>1
  <2> QED
    BY <2>1, <2>2
<1> HIDE DEF w
<1>2. PAGE_DIRECTORY_INDEX(Address(w)) = 0
  BY <1>1, DirectoryIndexIsZero
<1>3. PagesForTables = (4 * T * 0 + 1) \div (4 * T)
  BY <1>2 DEF PagesForTables, w, PAGE_SIZE
<1>4. (4 * T * 0 + 1) = 1 /\ 1 \div (4 * T) = 0
  <2> DEFINE z == 4 * T
  <2>1. z \in Nat /\ z > 1 /\ z * 0 + 1 = 1
    BY PageCount
  <2> HIDE DEF z
  <2>2. 1 \div z = 0
    BY <2>1
  <2> QED
    BY <2>1, <2>2 DEF z
<1> QED
  BY <1>3, <1>4

\* Every page given out is one of the kernel's, and marked.
GrantsMarked == \A g \in grants : g \subseteq present

\* No two grants share a page.
GrantsApart == \A g, h \in grants : g # h => g \cap h = {}

\* The inductive invariant of GrantsAreDisjoint.
PagingInv ==
  /\ present \subseteq Page /\ 0 \in present
  /\ nextFrame \in Nat
  /\ GrantsMarked
  /\ GrantsApart

\* InitializeVirtualMemory marks page 0 and has given out nothing.
LEMMA PagingInitInv == PagingInit => PagingInv
<1> SUFFICES ASSUME PagingInit PROVE PagingInv
  OBVIOUS
<1>1. present = {0 % T} /\ 0 % T = 0 /\ 0 % T \in Page
  <2>1. 0 \in Nat /\ 0 % T = 0
    BY PageCount
  <2> QED
    BY <2>1, GetPageStaysInFirstTable DEF PagingInit
<1> QED
  BY <1>1 DEF PagingInit, PagingInv, GrantsMarked, GrantsApart

\* What a grant of n pages does to the pages in use: it adds a set of pages
\* that was free and covers it.
LEMMA OneGrant ==
  ASSUME NEW u \in SUBSET Page, 0 \in u, NEW n \in Nat,
         NEW g, g = KernelAllocateVirtualPages(u, n), g.found
  PROVE  /\ g.address \in Nat \ {0}
         /\ (g.address .. (g.address + n - 1)) \cap u = {}
         /\ u \cup g.marked \cup Written(g.address, 0, n) \subseteq Page
         /\ g.address .. (g.address + n - 1) \subseteq u \cup g.marked \cup Written(g.address, 0, n)
<1>1. /\ g.address \in Nat \ {0}
      /\ g.address + n < D * T
      /\ (g.address .. (g.address + n)) \cap u = {}
      /\ g.marked = (g.address - 1) .. (g.address + n - 1)
  BY AllocationIsFree
<1>2. Written(g.address, 0, n) \subseteq Page
  BY <1>1, WrittenInFirstTable
<1>3. g.marked \subseteq Page /\ g.address .. (g.address + n - 1) \subseteq g.marked
  BY <1>1, PageCount DEF Page
<1>4. (g.address .. (g.address + n - 1)) \cap u = {}
  BY <1>1
<1> QED
  BY <1>1, <1>2, <1>3, <1>4

\* A step that gives out one free and now marked set of pages keeps the
\* invariant.
LEMMA OneMoreGrant ==
  ASSUME PagingInv, NEW a, a \cap present = {},
         present \subseteq present', present' \subseteq Page, a \subseteq present',
         grants' = grants \cup {a}, nextFrame' \in Nat
  PROVE  PagingInv'
<1>1. GrantsMarked' /\ GrantsApart'
  BY DEF PagingInv, GrantsMarked, GrantsApart
<1> QED
  BY <1>1 DEF PagingInv

\* The directory's page was free, and whatever the segment is, only pages of
\* the kernel are marked.
LEMMA LoadPlaces ==
  ASSUME NEW u \in SUBSET Page, 0 \in u, DirectoryAt(u).found, TablesAt(u).found
  PROVE  /\ {DirectoryAt(u).address} \cap u = {}
         /\ DirectoryAt(u).address \in Nat
         /\ DirectoryAt(u).address \in AfterDirectory(u)
         /\ AfterDirectory(u) \in SUBSET Page
         /\ \A page \in Nat, word \in PageWord, n \in Nat :
              AfterPages(u, page, word, n) \in SUBSET Page
<1> DEFINE dir == DirectoryAt(u)
           u1 == AfterDirectory(u)
           tables == TablesAt(u)
<1>0. /\ dir = KernelAllocateVirtualPages(u, 1)
      /\ u1 = u \cup dir.marked \cup Written(dir.address, 0, 1)
      /\ tables = KernelAllocateVirtualPages(u1, PagesForTables)
      /\ dir.found /\ tables.found
  BY DEF DirectoryAt, AfterDirectory, TablesAt
<1> HIDE DEF dir, u1, tables
<1>1. /\ dir.address \in Nat \ {0}
      /\ dir.address .. (dir.address + 1 - 1) = {dir.address}
  <2>1. dir.address \in Nat \ {0}
    BY <1>0, OneGrant
  <2> QED
    BY <2>1
<1>2. /\ {dir.address} \cap u = {}
      /\ u1 \in SUBSET Page
      /\ dir.address \in u1
  BY <1>0, <1>1, OneGrant
<1>3. 0 \in u1 /\ tables = KernelAllocateVirtualPages(u1, 0) /\ 0 \in Nat /\ tables.found
  BY <1>0, NoPagesForTables
<1>4. tables.marked \subseteq Page
  BY <1>2, <1>3, OneGrant
<1>5. ASSUME NEW page \in Nat, NEW word \in PageWord, NEW n \in Nat
      PROVE  AfterPages(u, page, word, n) \in SUBSET Page
  <2>1. AfterPages(u, page, word, n) = u1 \cup tables.marked \cup Written(page, word, n)
    BY DEF AfterPages, u1, tables
  <2>2. Written(page, word, n) \subseteq Page
    BY WrittenEntries
  <2> QED
    BY <1>2, <1>4, <2>1, <2>2
<1> QED
  BY <1>1, <1>2, <1>5 DEF dir, u1, tables

\* A segment has two pages more than fit into its size.
LEMMA SegmentSize ==
  ASSUME NEW memsz \in SegmentBytes
  PROVE  memsz \div PAGE_SIZE + 2 \in Nat \ {0, 1}
<1> DEFINE z == 4 * T
<1>1. z \in Nat /\ z > 0 /\ memsz \in Nat
  BY PageCount, PagingAssumption
<1> HIDE DEF z
<1>2. memsz \div z \in Nat
  BY <1>1
<1> QED
  BY <1>2 DEF z, PAGE_SIZE

\* Every caller keeps the invariant.
LEMMA PagingStepInv == PagingInv /\ [PagingNext]_pagingVars => PagingInv'
<1> SUFFICES ASSUME PagingInv, [PagingNext]_pagingVars PROVE PagingInv'
  OBVIOUS
<1>1. present \in SUBSET Page /\ 0 \in present /\ nextFrame \in Nat
  BY DEF PagingInv
<1>2. ASSUME Hang PROVE PagingInv'
  BY <1>2 DEF Hang, PagingInv, GrantsMarked, GrantsApart
<1>3. ASSUME NEW n \in RegionPages, MapRegion(n) PROVE PagingInv'
  <2> DEFINE g == KernelAllocateVirtualPages(present, n)
  <2>1. n \in Nat
    BY PagingAssumption
  <2>2. CASE ~g.found
    BY <1>2, <1>3, <2>2 DEF MapRegion
  <2>3. CASE g.found
    <3>1. /\ present' = present \cup g.marked \cup Written(g.address, 0, n)
          /\ grants' = grants \cup {g.address .. (g.address + n - 1)}
          /\ nextFrame' = nextFrame
      BY <1>3, <2>3 DEF MapRegion
    <3> HIDE DEF g
    <3>2. /\ (g.address .. (g.address + n - 1)) \cap present = {}
          /\ present' \subseteq Page
          /\ g.address .. (g.address + n - 1) \subseteq present'
      BY <1>1, <2>1, <2>3, <3>1, OneGrant DEF g
    <3> QED
      BY <1>1, <3>1, <3>2, OneMoreGrant
  <2> QED
    BY <2>2, <2>3
<1>4. ASSUME CreateProcess PROVE PagingInv'
  <2> DEFINE n == StackPages
             g == KernelAllocateVirtualPages(present, n)
  <2>1. n \in Nat
    BY PagingAssumption
  <2>2. CASE ~g.found
    BY <1>2, <1>4, <2>2 DEF CreateProcess
  <2>3. CASE g.found
    <3>1. /\ present' = present \cup g.marked \cup Written(g.address, 0, n)
          /\ grants' = grants \cup {g.address .. (g.address + n - 1)}
          /\ nextFrame' = nextFrame + n
      BY <1>4, <2>3 DEF CreateProcess
    <3>2. nextFrame' \in Nat
      BY <1>1, <2>1, <3>1
    <3> HIDE DEF n, g
    <3>3. /\ (g.address .. (g.address + n - 1)) \cap present = {}
          /\ present' \subseteq Page
          /\ g.address .. (g.address + n - 1) \subseteq present'
      BY <1>1, <2>1, <2>3, <3>1, OneGrant DEF g
    <3> QED
      BY <1>1, <3>1, <3>2, <3>3, OneMoreGrant
  <2> QED
    BY <2>2, <2>3
<1>5. ASSUME NEW page \in Page, NEW word \in PageWord, NEW memsz \in SegmentBytes,
             LoadELF(page, word, memsz)
      PROVE  PagingInv'
  <2> DEFINE n      == memsz \div PAGE_SIZE + 2
             dir    == DirectoryAt(present)
             tables == TablesAt(present)
             stack  == StackAt(present, page, word, n)
             held   == AfterPages(present, page, word, n)
             pages  == stack.address .. (stack.address + StackPages - 1)
  <2>1. n \in Nat /\ page \in Nat /\ StackPages \in Nat
    BY PagingAssumption, PageCount, SegmentSize DEF Page
  <2>2. \/ Hang
        \/ /\ dir.found /\ tables.found
           /\ \E m \in {1, n} :
                /\ present' = AfterPages(present, page, word, m)
                /\ nextFrame' = nextFrame + 1 + m
           /\ grants' = grants \cup {{dir.address}}
        \/ /\ dir.found /\ tables.found /\ stack.found
           /\ present' = held \cup stack.marked \cup Written(stack.address, 0, StackPages)
           /\ grants' = grants \cup {{dir.address}, pages}
           /\ nextFrame' = nextFrame + 1 + n + StackPages
    BY <1>5 DEF LoadELF
  <2> HIDE DEF n
  <2>3. \A m \in Nat : nextFrame + 1 + m \in Nat /\ nextFrame + 1 + n + StackPages \in Nat
    BY <1>1, <2>1
  <2>4. ASSUME dir.found, tables.found
        PROVE  /\ {dir.address} \cap present = {}
               /\ \A m \in Nat : /\ AfterPages(present, page, word, m) \in SUBSET Page
                                 /\ dir.address \in AfterPages(present, page, word, m)
                                 /\ present \subseteq AfterPages(present, page, word, m)
    <3>1. /\ {dir.address} \cap present = {}
          /\ dir.address \in AfterDirectory(present)
          /\ \A m \in Nat : AfterPages(present, page, word, m) \in SUBSET Page
      BY <1>1, <2>1, <2>4, LoadPlaces
    <3> QED
      BY <3>1 DEF AfterPages, AfterDirectory
  <2>5. CASE Hang
    BY <1>2, <2>5
  <2>6. ASSUME dir.found, tables.found, NEW m \in Nat,
               present' = AfterPages(present, page, word, m),
               nextFrame' = nextFrame + 1 + m,
               grants' = grants \cup {{dir.address}}
        PROVE  PagingInv'
    <3> HIDE DEF dir, tables
    <3>1. /\ present \subseteq present' /\ present' \subseteq Page
          /\ {dir.address} \subseteq present' /\ {dir.address} \cap present = {}
      BY <2>4, <2>6
    <3>2. nextFrame' \in Nat
      BY <2>3, <2>6
    <3> QED
      BY <2>6, <3>1, <3>2, OneMoreGrant
  <2>7. CASE /\ dir.found /\ tables.found /\ stack.found
             /\ present' = held \cup stack.marked \cup Written(stack.address, 0, StackPages)
             /\ grants' = grants \cup {{dir.address}, pages}
             /\ nextFrame' = nextFrame + 1 + n + StackPages
    <3>1. held \in SUBSET Page /\ 0 \in held /\ dir.address \in held /\ present \subseteq held
      <4> HIDE DEF dir, tables
      <4> QED
        BY <1>1, <2>1, <2>4, <2>7
    <3> HIDE DEF dir, tables, held, stack
    <3>2. /\ pages \cap held = {}
          /\ present' \subseteq Page
          /\ pages \subseteq present'
      BY <2>1, <2>7, <3>1, OneGrant DEF stack, StackAt, held
    <3> HIDE DEF pages
    <3>3. held \subseteq present'
      BY <2>7
    <3>4. GrantsMarked'
      BY <2>7, <3>1, <3>2, <3>3 DEF PagingInv, GrantsMarked
    <3>5. GrantsApart'
      <4>1. \A h \in grants : h \cap {dir.address} = {} /\ h \cap pages = {}
        BY <2>4, <2>7, <3>1, <3>2 DEF PagingInv, GrantsMarked
      <4>2. {dir.address} \cap pages = {}
        BY <3>1, <3>2
      <4>3. grants' = grants \cup {{dir.address}, pages}
        BY <2>7
      <4>4. GrantsApart
        BY DEF PagingInv
      <4> QED
        BY ONLY <4>1, <4>2, <4>3, <4>4 DEF GrantsApart
    <3> QED
      BY <1>1, <2>3, <2>7, <3>1, <3>2, <3>3, <3>4, <3>5 DEF PagingInv
  <2> QED
    BY <2>1, <2>2, <2>5, <2>6, <2>7
<1>6. ASSUME NEW seg \in programs, EndProcess(seg) PROVE PagingInv'
  BY <1>6 DEF EndProcess, PagingInv, GrantsMarked, GrantsApart
<1>7. CASE UNCHANGED pagingVars
  BY <1>7 DEF pagingVars, PagingInv, GrantsMarked, GrantsApart
<1> QED
  BY <1>3, <1>4, <1>5, <1>6, <1>7 DEF PagingNext

\* The invariant holds in every reachable state.
LEMMA PagingInvariance == PagingSpec => []PagingInv
BY PagingInitInv, PagingStepInv, PTL DEF PagingSpec

\* No virtual page of the kernel is ever given out twice, for tables of any
\* size: the marks of KernelAllocateVirtualPages cover exactly what it
\* returns, although it starts to mark a page too early and searches for a
\* page too many.
THEOREM GrantsDisjoint == PagingSpec => []GrantsAreDisjoint
<1>1. PagingInv => GrantsAreDisjoint
  BY DEF PagingInv, GrantsMarked, GrantsApart, GrantsAreDisjoint
<1> QED
  BY <1>1, PagingInvariance, PTL

-----------------------------------------------------------------------------
(* Paging: what EndProcess gives back.                                     *)

\* Adding to a page number without leaving the table adds to its index.
LEMMA IndexAdds ==
  ASSUME NEW first \in Nat, NEW i \in Nat, (first % T) + i < T
  PROVE  (first + i) % T = (first % T) + i
<1> DEFINE q == first \div T
           r == first % T
<1>1. T \in Nat /\ T > 0
  BY PageCount
<1>2. q \in Nat /\ r \in 0 .. (T - 1) /\ r = first - T * q
  BY <1>1
<1> HIDE DEF q, r
<1>3. first + i = q * T + (r + i) /\ r + i \in 0 .. (T - 1)
  BY <1>1, <1>2 DEF r
<1>4. (q * T + (r + i)) % T = r + i
  <2> DEFINE e == r + i
  <2>1. e \in 0 .. (T - 1)
    BY <1>3
  <2> HIDE DEF e
  <2>2. (q * T + e) % T = e
    BY <1>1, <1>2, <2>1
  <2> QED
    BY <2>2 DEF e
<1> QED
  BY <1>3, <1>4 DEF r

\* Within the first table MapVirtualPages writes the entries asked for.
LEMMA WrittenWithoutWrap ==
  ASSUME NEW first \in Nat, NEW n \in Nat, (first % T) + n =< T
  PROVE  Written(first, 0, n) = (first % T) .. ((first % T) + n - 1)
<1> DEFINE r == first % T
<1>1. T \in Nat /\ r \in Nat /\ r + n =< T
  BY PageCount
<1>2. \A i \in 0 .. (n - 1) : (first + i) % T = r + i
  <2> TAKE i \in 0 .. (n - 1)
  <2>1. i \in Nat /\ (first % T) + i < T
    BY <1>1
  <2> QED
    BY <2>1, IndexAdds
<1>3. Written(first, 0, n) = {(first + i) % T : i \in 0 .. (n - 1)}
  BY WrittenInFirstTable
<1> HIDE DEF r
<1>4. Written(first, 0, n) = {r + i : i \in 0 .. (n - 1)}
  BY <1>2, <1>3
<1>5. \A p \in r .. (r + n - 1) : p - r \in 0 .. (n - 1) /\ p = r + (p - r)
  BY <1>1
<1>6. {r + i : i \in 0 .. (n - 1)} = r .. (r + n - 1)
  BY <1>1, <1>5
<1> QED
  BY <1>4, <1>6 DEF r

\* MapVirtualPages leaves the entries alone that it does not write ...
LEMMA MappingKeeps ==
  ASSUME NEW old, NEW page, NEW word, NEW n, NEW fs, NEW p \in Page, p \notin Written(page, word, n)
  PROVE  MapVirtualPages(old, page, word, n, fs)[p] = old[p]
<1> DEFINE hits == {i \in 0 .. (n - 1) : Entry(page + i, word) = p}
<1>1. hits = {}
  BY DEF Written
<1>2. MapVirtualPages(old, page, word, n, fs)[p] =
        IF hits = {} THEN old[p] ELSE fs[CHOOSE i \in hits : \A k \in hits : k =< i]
  BY DEF MapVirtualPages
<1> QED
  BY <1>1, <1>2

\* ... and, within the first table, enters the frames in their order.
LEMMA MappingEnters ==
  ASSUME NEW old, NEW first \in Nat, NEW n \in Nat, NEW fs, (first % T) + n =< T,
         NEW i \in 0 .. (n - 1)
  PROVE  MapVirtualPages(old, first, 0, n, fs)[(first % T) + i] = fs[i]
<1> DEFINE r == first % T
           p == r + i
           hits == {j \in 0 .. (n - 1) : Entry(first + j, 0) = p}
<1>1. T \in Nat /\ r \in Nat /\ r + n =< T /\ D * T >= T /\ D * T \in Nat
  BY PageCount
<1>2. \A j \in 0 .. (n - 1) : Entry(first + j, 0) = r + j
  <2> TAKE j \in 0 .. (n - 1)
  <2>1. j \in Nat /\ (first % T) + j < T
    BY <1>1
  <2>2. Entry(first + j, 0) = (first + j) % T
    BY WrittenInFirstTable
  <2> QED
    BY <2>1, <2>2, IndexAdds
<1>3. p \in Page
  BY <1>1 DEF Page
<1> HIDE DEF r
<1>4. hits = {i}
  <2>1. \A j \in 0 .. (n - 1) : r + j = r + i <=> j = i
    BY <1>1
  <2>2. \A j \in 0 .. (n - 1) : Entry(first + j, 0) = p <=> j = i
    BY <1>2, <2>1
  <2> HIDE DEF p
  <2> QED
    BY <2>2, Zenon
<1>5. MapVirtualPages(old, first, 0, n, fs)[p] =
        IF hits = {} THEN old[p] ELSE fs[CHOOSE j \in hits : \A k \in hits : k =< j]
  BY <1>3 DEF MapVirtualPages
<1>6. (CHOOSE j \in hits : \A k \in hits : k =< j) = i
  BY <1>4
<1> QED
  BY <1>4, <1>5, <1>6 DEF r

\* While the pages in use are the first ones, an allocation takes the next.
LEMMA NextPagesAllocated ==
  ASSUME NEW k \in Nat, NEW n \in Nat, KernelAllocateVirtualPages(0 .. k, n).found
  PROVE  /\ KernelAllocateVirtualPages(0 .. k, n).address = k + 1
         /\ KernelAllocateVirtualPages(0 .. k, n).marked = k .. (k + n)
         /\ k + 1 + n < D * T
<1> DEFINE s == FirstRun(0 .. k, n + 1)
<1>1. s < D * T
  BY DEF KernelAllocateVirtualPages
<1>2. n + 1 \in Nat /\ D * T \in Nat
  BY PageCount
<1>3. /\ s \in Page /\ s + (n + 1) =< D * T
      /\ (s .. (s + (n + 1) - 1)) \cap (0 .. k) = {}
      /\ \A r \in Page : r + (n + 1) =< D * T /\ (r .. (r + (n + 1) - 1)) \cap (0 .. k) = {} => s =< r
  <2> HIDE DEF s
  <2> QED
    BY <1>1, <1>2, FirstRunIsFree DEF s
<1>4. s \in Nat
  BY <1>3, PageCount DEF Page
<1>5. s = k + 1
  <2> HIDE DEF s
  <2>1. s > k
    BY <1>3, <1>4
  <2>2. k + 1 \in Page /\ (k + 1) + (n + 1) =< D * T
    BY <1>2, <1>3, <1>4, <2>1 DEF Page
  <2>3. ((k + 1) .. ((k + 1) + (n + 1) - 1)) \cap (0 .. k) = {}
    OBVIOUS
  <2> QED
    BY <1>3, <1>4, <2>1, <2>2, <2>3
<1>6. /\ KernelAllocateVirtualPages(0 .. k, n).address = s
      /\ KernelAllocateVirtualPages(0 .. k, n).marked = (s - 1) .. (s - 1 + n)
  BY <1>4, <1>5 DEF KernelAllocateVirtualPages
<1> HIDE DEF s
<1> QED
  BY <1>2, <1>3, <1>4, <1>5, <1>6

\* Such an allocation within the first table leaves a longer such prefix,
\* and writes no entry of a page that was in use.
LEMMA PrefixGrows ==
  ASSUME NEW k \in 0 .. (T - 1), NEW n \in Nat \ {0}, NEW g,
         g = KernelAllocateVirtualPages(0 .. k, n), g.found,
         \A p \in g.address .. (g.address + n - 1) : p < T
  PROVE  /\ k + n < T
         /\ (0 .. k) \cup g.marked \cup Written(g.address, 0, n) = 0 .. (k + n)
         /\ Written(g.address, 0, n) \cap (0 .. k) = {}
<1>1. g.address = k + 1 /\ g.marked = k .. (k + n) /\ k \in Nat /\ T \in Nat
  <2>1. k \in Nat /\ n \in Nat /\ T \in Nat
    BY PageCount
  <2>2. KernelAllocateVirtualPages(0 .. k, n).found
    BY Zenon
  <2> QED
    BY <2>1, <2>2, NextPagesAllocated
<1>2. k + n < T
  <2>1. k + n \in g.address .. (g.address + n - 1)
    BY <1>1
  <2> QED
    BY <2>1
<1>3. Written(g.address, 0, n) = (k + 1) .. (k + n)
  <2>1. k + 1 \in Nat /\ k + 1 < T /\ (k + 1) % T = k + 1
    BY <1>1, <1>2
  <2>2. ((k + 1) % T) + n =< T
    BY <1>1, <1>2, <2>1
  <2>3. Written(k + 1, 0, n) = (k + 1) .. ((k + 1) + n - 1)
    BY <2>1, <2>2, WrittenWithoutWrap
  <2> QED
    BY <1>1, <2>3
<1> QED
  BY <1>1, <1>2, <1>3

\* Nothing has been given out past the first table.
GrantsLow == \A g \in grants : \A p \in g : p < T

\* As long as that is so, the pages in use are the first ones of the table,
\* every segment was entered there and does not wrap around its end, and its
\* entries are in use and still hold its own frames.
LowMemoryInOrder ==
  /\ \E k \in 0 .. (T - 1) : present = 0 .. k
  /\ \A s \in programs : /\ s.word = 0 /\ (s.page % T) + s.n =< T
                         /\ (s.page % T) .. ((s.page % T) + s.n - 1) \subseteq present
                         /\ FramesOf(s) = FramesGot(s)

\* The inductive invariant of ExitReleasesItsOwn.
ExitInv ==
  /\ PagingInv
  /\ \A s \in programs : s.page \in Nat /\ s.n \in Nat
  /\ outcome = "running" /\ GrantsLow => LowMemoryInOrder

\* At the start page 0 is the only one in use.
LEMMA ExitInitInv == PagingInit => ExitInv
<1> SUFFICES ASSUME PagingInit PROVE ExitInv
  OBVIOUS
<1>1. present = {0} /\ T \in Nat /\ T > 0
  <2>1. 0 \in Nat /\ 0 % T = 0
    BY PageCount
  <2> QED
    BY <2>1, PageCount, GetPageStaysInFirstTable DEF PagingInit
<1>2. present = 0 .. 0 /\ 0 \in 0 .. (T - 1)
  BY <1>1
<1> QED
  BY <1>2, PagingInitInv DEF PagingInit, ExitInv, LowMemoryInOrder

\* A program's frames stay what they are while no entry in use is written.
LEMMA FramesStay ==
  ASSUME NEW s, s.page \in Nat, s.n \in Nat, s.word = 0, (s.page % T) + s.n =< T,
         (s.page % T) .. ((s.page % T) + s.n - 1) \subseteq present,
         \A p \in present : frame'[p] = frame[p]
  PROVE  FramesOf(s)' = FramesOf(s)
<1>1. Written(s.page, s.word, s.n) \subseteq present
  BY WrittenWithoutWrap
<1>2. \A i \in 0 .. (s.n - 1) : Entry(s.page + i, s.word) \in present
  BY <1>1 DEF Written
<1>3. \A i \in 0 .. (s.n - 1) : frame'[Entry(s.page + i, s.word)] = frame[Entry(s.page + i, s.word)]
  BY <1>2
<1> QED
  BY <1>3, Zenon DEF FramesOf

\* A grant of n pages keeps the order.
LEMMA GrantKeepsOrder ==
  ASSUME ExitInv, outcome = "running", NEW n \in Nat \ {0}, NEW fs, NEW g,
         g = KernelAllocateVirtualPages(present, n), g.found,
         present' = present \cup g.marked \cup Written(g.address, 0, n),
         frame' = MapVirtualPages(frame, g.address, 0, n, fs),
         grants' = grants \cup {g.address .. (g.address + n - 1)},
         UNCHANGED programs
  PROVE  GrantsLow' => LowMemoryInOrder'
<1> SUFFICES ASSUME GrantsLow' PROVE LowMemoryInOrder'
  OBVIOUS
<1>1. GrantsLow /\ \A p \in g.address .. (g.address + n - 1) : p < T
  BY DEF GrantsLow
<1>2. LowMemoryInOrder
  BY <1>1 DEF ExitInv
<1>3. PICK k \in 0 .. (T - 1) : present = 0 .. k
  BY <1>2 DEF LowMemoryInOrder
<1>4. k + n < T /\ present' = 0 .. (k + n) /\ Written(g.address, 0, n) \cap present = {}
  BY <1>1, <1>3, PrefixGrows
<1>5. \A p \in present : p \in Page /\ frame'[p] = frame[p]
  BY <1>4, MappingKeeps DEF ExitInv, PagingInv
<1>6. k + n \in 0 .. (T - 1) /\ present \subseteq present'
  BY <1>4, PageCount
<1>7. ASSUME NEW s \in programs'
      PROVE  /\ s.word = 0 /\ (s.page % T) + s.n =< T
             /\ (s.page % T) .. ((s.page % T) + s.n - 1) \subseteq present'
             /\ FramesOf(s)' = FramesGot(s)
  <2>1. /\ s.page \in Nat /\ s.n \in Nat /\ s.word = 0 /\ (s.page % T) + s.n =< T
        /\ (s.page % T) .. ((s.page % T) + s.n - 1) \subseteq present
        /\ FramesOf(s) = FramesGot(s)
    BY <1>2 DEF ExitInv, LowMemoryInOrder
  <2>2. FramesOf(s)' = FramesOf(s)
    BY <1>5, <2>1, FramesStay
  <2> QED
    BY <1>6, <2>1, <2>2
<1> QED
  BY <1>4, <1>6, <1>7 DEF LowMemoryInOrder, FramesGot

\* A program that is loaded while the order holds does not wrap around the
\* end of the table: if it did, every page of the first table would be in
\* use and its stack would be given out past it.
LEMMA LoadDoesNotWrap ==
  ASSUME NEW k \in Nat, NEW v \in Nat, NEW n \in Nat, k + 2 < T, v % T = k + 2,
         NEW u3, u3 = (0 .. (k + 2)) \cup Written(v, 0, n),
         NEW stack, stack = KernelAllocateVirtualPages(u3, StackPages), stack.found,
         \A p \in stack.address .. (stack.address + StackPages - 1) : p < T
  PROVE  (v % T) + n =< T
<1> SUFFICES ASSUME ~((v % T) + n =< T) PROVE FALSE
  OBVIOUS
<1>1. T \in Nat /\ StackPages \in Nat \ {0} /\ k + 2 + n > T
  BY PageCount, PagingAssumption
<1>2. \A p \in 0 .. (T - 1) : p \in u3
  <2> TAKE p \in 0 .. (T - 1)
  <2>1. CASE p =< k + 2
    BY <2>1
  <2>2. CASE p > k + 2
    <3> DEFINE i == p - (k + 2)
    <3>1. i \in 0 .. (n - 1) /\ i \in Nat /\ (v % T) + i < T /\ (v % T) + i = p
      BY <1>1, <2>2
    <3> HIDE DEF i
    <3>2. (v + i) % T = p
      BY <3>1, IndexAdds
    <3>3. p \in Written(v, 0, n)
      <4>1. Written(v, 0, n) = {(v + j) % T : j \in 0 .. (n - 1)}
        BY WrittenInFirstTable
      <4> QED
        BY <3>1, <3>2, <4>1, Zenon
    <3> QED
      BY <3>3
  <2> QED
    BY <1>1, <2>1, <2>2
<1>3. stack.address \in Nat /\ stack.address \notin u3
  <2>1. 0 \in u3 /\ StackPages \in Nat
    BY <1>1, <1>2
  <2>2. /\ stack.address \in Nat \ {0}
        /\ (stack.address .. (stack.address + StackPages)) \cap u3 = {}
    BY <2>1, AllocationIsFree
  <2>3. stack.address \in stack.address .. (stack.address + StackPages)
    BY <1>1, <2>2
  <2> QED
    BY <2>2, <2>3
<1>4. stack.address < T
  <2>1. stack.address \in stack.address .. (stack.address + StackPages - 1)
    BY <1>1, <1>3
  <2> QED
    BY <2>1
<1> QED
  BY <1>1, <1>2, <1>3, <1>4

\* While the order holds, the page the new tables are written through is the
\* segment's own first page only if the segment starts its page: any other
\* load that is entered leaves no room for its stack in the first table.
LEMMA EnteredAtPageStart ==
  ASSUME NEW k \in Nat, NEW page \in Nat, NEW word \in PageWord, k + 1 < T, k + 2 < D * T,
         (k + 2 + word) % (D * T) \in (0 .. (k + 1)) \cup Written(page, word, 1),
         NEW u3, (0 .. (k + 1)) \cup Written(page, word, 1) \subseteq u3,
         NEW a \in Nat, NEW m \in Nat \ {0}, (a .. (a + m)) \cap u3 = {}, a < T
  PROVE  word = 0 /\ page % T = k + 2
<1> DEFINE r == page % T
           w == word * T
           z == D * T
<1>1. T \in Nat /\ D \in Nat \ {0} /\ z \in Nat /\ word \in Nat /\ word < D
      /\ w \in Nat /\ r \in 0 .. (T - 1)
  BY TableAssumption, PageCount, EntryIndex DEF PageWord
<1>2. Written(page, word, 1) = {w + r}
  <2>1. 0 .. (1 - 1) = {0} /\ page + 0 = page
    OBVIOUS
  <2>2. Written(page, word, 1) = {Entry(page + i, word) : i \in {0}}
    BY <2>1 DEF Written
  <2>3. Entry(page, word) = w + r
    BY EntryIndex
  <2> QED
    BY <2>1, <2>2, <2>3
<1>3. \A p \in 0 .. (k + 1) : p \in u3
  OBVIOUS
<1>4. a >= k + 2
  <2>1. a \in a .. (a + m)
    OBVIOUS
  <2>2. a \notin u3
    BY <2>1
  <2> QED
    BY <1>3, <2>2
<1>5. k + 2 + word < z
  <2>1. CASE word = 0
    BY <2>1
  <2>2. CASE word # 0
    <3>1. D >= 2 /\ D =< T
      <4>1. D >= 2
        BY <1>1, <2>2
      <4>2. T % D = 0 /\ T > 0
        BY TableAssumption, PageCount
      <4>3. T < D => T % D = T
        BY <1>1
      <4> QED
        BY <1>1, <4>1, <4>2, <4>3
    <3>2. (D - 2) * T >= 0 /\ z = (D - 2) * T + T + T
      BY <1>1, <3>1
    <3>3. z >= T + T
      <4> DEFINE y == (D - 2) * T
      <4>1. y \in Int /\ y >= 0 /\ z = y + T + T
        BY <1>1, <3>2
      <4> HIDE DEF y, z
      <4> QED
        BY <1>1, <4>1
    <3> HIDE DEF z
    <3> QED
      BY <1>1, <1>4, <3>1, <3>3
  <2> QED
    BY <2>1, <2>2
<1>6. (k + 2 + word) % z = k + 2 + word
  <2> DEFINE e == k + 2 + word
  <2>1. e \in 0 .. (z - 1)
    BY <1>1, <1>5
  <2> HIDE DEF e, z
  <2>2. e % z = e
    BY <1>1, <2>1
  <2> QED
    BY <2>2 DEF e
<1>7. k + 2 + word = w + r
  <2>1. k + 2 + word \notin 0 .. (k + 1)
    BY <1>1
  <2> QED
    BY <1>2, <1>6, <2>1
<1>8. word = 0
  <2> SUFFICES ASSUME word # 0 PROVE FALSE
    OBVIOUS
  <2>1. T >= 2 /\ word - 1 \in Nat
    BY <1>1, <1>4
  <2>2. (word - 1) * (T - 2) \in Nat /\ (word - 1) * (T - 2) = w - T - word - word + 2
    <3> DEFINE b == word - 1
               c == T - 2
    <3>1. b \in Nat /\ c \in Nat /\ word = b + 1 /\ T = c + 2
      BY <1>1, <2>1
    <3>2. b * c \in Nat /\ (b + 1) * (c + 2) = b * c + b + b + c + 2
      <4> HIDE DEF b, c
      <4> QED
        BY <3>1
    <3> QED
      BY <1>1, <3>1, <3>2
  <2>3. w >= T + word + word - 2
    <3> DEFINE y == (word - 1) * (T - 2)
    <3>1. y \in Nat /\ y = w - T - word - word + 2
      BY <2>2
    <3> HIDE DEF y, w
    <3> QED
      BY <1>1, <3>1
  <2> HIDE DEF w, r, z
  <2>4. k + 2 =< T - 1
    BY <1>1, <1>4
  <2>5. word = 1
    BY <1>1, <1>7, <2>1, <2>3, <2>4
  <2>6. w = T
    <3>1. 1 * T = T
      BY <1>1
    <3> QED
      BY <2>5, <3>1 DEF w
  <2>7. r = 0 /\ k + 2 = T - 1 /\ a = T - 1
    BY <1>1, <1>4, <1>7, <2>4, <2>5, <2>6
  <2>8. T \in u3
    BY <1>1, <1>2, <2>6, <2>7
  <2>9. T \in a .. (a + m)
    BY <1>1, <2>7
  <2> QED
    BY <2>8, <2>9
<1> QED
  <2>1. 0 * T = 0
    BY <1>1
  <2> QED
    BY <1>1, <1>7, <1>8, <2>1

\* Loading keeps the order, and enters the segment's own frames.
LEMMA LoadKeepsOrder ==
  ASSUME ExitInv, outcome = "running", NEW v \in Nat, NEW word \in PageWord, NEW n \in Nat \ {0},
         DirectoryAt(present).found, TablesAt(present).found, StackAt(present, v, word, n).found,
         (TablesAt(present).address + word) % (D * T) \in AfterPages(present, v, word, 1),
         present' = AfterPages(present, v, word, n) \cup StackAt(present, v, word, n).marked
                      \cup Written(StackAt(present, v, word, n).address, 0, StackPages),
         NEW fs1, NEW fs3,
         frame' = MapVirtualPages(
                    MapVirtualPages(MapVirtualPages(frame, DirectoryAt(present).address, 0, 1, fs1),
                                    v, word, n, Fresh(n, 1)),
                    StackAt(present, v, word, n).address, 0, StackPages, fs3),
         grants' = grants \cup
           {{DirectoryAt(present).address},
            StackAt(present, v, word, n).address
              .. (StackAt(present, v, word, n).address + StackPages - 1)},
         programs' = programs \cup
           {[page |-> v, word |-> word, n |-> n, at |-> nextFrame]}
  PROVE  GrantsLow' => LowMemoryInOrder'
<1> SUFFICES ASSUME GrantsLow' PROVE LowMemoryInOrder'
  OBVIOUS
<1> DEFINE dir == DirectoryAt(present)
           used1 == AfterDirectory(present)
           tables == TablesAt(present)
           used3 == AfterPages(present, v, word, n)
           stack == StackAt(present, v, word, n)
           frame1 == MapVirtualPages(frame, dir.address, 0, 1, fs1)
           frame3 == MapVirtualPages(frame1, v, word, n, Fresh(n, 1))
           new == [page |-> v, word |-> word, n |-> n, at |-> nextFrame]
<1>1. /\ dir = KernelAllocateVirtualPages(present, 1) /\ dir.found
      /\ used1 = present \cup dir.marked \cup Written(dir.address, 0, 1)
      /\ tables = KernelAllocateVirtualPages(used1, 0) /\ tables.found
      /\ used3 = used1 \cup tables.marked \cup Written(v, word, n)
      /\ stack = KernelAllocateVirtualPages(used3, StackPages) /\ stack.found
  BY NoPagesForTables DEF DirectoryAt, AfterDirectory, TablesAt, AfterPages, StackAt
<1>2. /\ present \in SUBSET Page /\ 0 \in present /\ nextFrame \in Nat
      /\ StackPages \in Nat \ {0} /\ T \in Nat /\ D * T \in Nat /\ D * T >= T
  BY PagingAssumption, PageCount DEF ExitInv, PagingInv
<1>3. (tables.address + word) % (D * T) \in used1 \cup tables.marked \cup Written(v, word, 1)
  BY DEF AfterPages
<1>4. PICK program : program = new
  OBVIOUS
<1>5. /\ present' = used3 \cup stack.marked \cup Written(stack.address, 0, StackPages)
      /\ frame' = MapVirtualPages(frame3, stack.address, 0, StackPages, fs3)
      /\ grants' = grants \cup
           {{dir.address}, stack.address .. (stack.address + StackPages - 1)}
      /\ programs' = programs \cup {program}
  BY <1>4, Zenon
<1>5a. program.page = v /\ program.word = word /\ program.n = n /\ program.at = nextFrame
  BY <1>4
<1> HIDE DEF dir, used1, tables, used3, stack, frame1, frame3, new
<1>6. GrantsLow
  BY <1>5 DEF GrantsLow
<1>7. LowMemoryInOrder
  BY <1>6 DEF ExitInv
<1>8. PICK k \in 0 .. (T - 1) : present = 0 .. k
  BY <1>7 DEF LowMemoryInOrder
<1>9. k + 1 < T /\ used1 = 0 .. (k + 1) /\ Written(dir.address, 0, 1) \cap present = {}
  <2>1. dir.address < T /\ dir.address \in Nat
    <3>1. dir.address \in Nat
      BY ONLY <1>1, <1>2, OneGrant
    <3> QED
      BY <1>5, <3>1 DEF GrantsLow
  <2>2. \A p \in dir.address .. (dir.address + 1 - 1) : p < T
    BY <1>2, <2>1
  <2> QED
    BY ONLY <1>1, <1>2, <1>8, <2>2, PrefixGrows
<1>10. tables.address = k + 2 /\ tables.marked = (k + 1) .. (k + 1) /\ k + 2 < D * T
  <2>1. k + 1 \in Nat /\ KernelAllocateVirtualPages(0 .. (k + 1), 0).found /\ 0 \in Nat
    <3>1. KernelAllocateVirtualPages(0 .. (k + 1), 0).found
      BY <1>1, <1>9, Zenon
    <3> QED
      BY ONLY <1>2, <1>8, <3>1
  <2>2. /\ KernelAllocateVirtualPages(0 .. (k + 1), 0).address = (k + 1) + 1
        /\ KernelAllocateVirtualPages(0 .. (k + 1), 0).marked = (k + 1) .. ((k + 1) + 0)
        /\ (k + 1) + 1 + 0 < D * T
    BY ONLY <2>1, NextPagesAllocated
  <2>3. (k + 1) + 1 = k + 2 /\ (k + 1) + 0 = k + 1 /\ (k + 1) + 1 + 0 = k + 2
    BY ONLY <1>2, <1>8
  <2> QED
    BY ONLY <1>1, <1>9, <2>2, <2>3
<1>11. used1 \cup tables.marked = 0 .. (k + 1) /\ k \in Nat
  BY ONLY <1>2, <1>8, <1>9, <1>10
<1>12. \A p \in stack.address .. (stack.address + StackPages - 1) : p < T
  BY <1>5 DEF GrantsLow
<1>13. Written(v, word, 1) \subseteq Written(v, word, n)
  BY n \in Nat \ {0} DEF Written
<1>14. word = 0 /\ v % T = k + 2
  <2>1. 0 \in used3 /\ StackPages \in Nat
    BY <1>1, <1>2, <1>11
  <2>2. /\ stack.address \in Nat \ {0}
        /\ (stack.address .. (stack.address + StackPages)) \cap used3 = {}
    <3>1. stack = KernelAllocateVirtualPages(used3, StackPages) /\ stack.found
      BY <1>1
    <3> QED
      BY ONLY <2>1, <3>1, AllocationIsFree
  <2>3. stack.address < T
    <3>1. stack.address \in stack.address .. (stack.address + StackPages - 1)
      BY <1>2, <2>2
    <3> QED
      BY <1>12, <3>1
  <2>4. (0 .. (k + 1)) \cup Written(v, word, 1) \subseteq used3
    BY <1>1, <1>11, <1>13
  <2>5. (k + 2 + word) % (D * T) \in (0 .. (k + 1)) \cup Written(v, word, 1)
    BY <1>3, <1>10, <1>11
  <2> QED
    <3> DEFINE a == stack.address
    <3>1. a \in Nat /\ a < T /\ (a .. (a + StackPages)) \cap used3 = {}
      BY <2>2, <2>3
    <3>2. k \in Nat /\ k + 1 < T /\ k + 2 < D * T /\ StackPages \in Nat \ {0}
      BY <1>2, <1>9, <1>10, <1>11
    <3> HIDE DEF a
    <3> QED
      BY ONLY <2>4, <2>5, <3>1, <3>2, EnteredAtPageStart, v \in Nat, word \in PageWord
<1>15. k + 2 < T /\ v % T \in 0 .. (T - 1)
  <2>1. v % T \in 0 .. (T - 1)
    BY <1>2, GetPageStaysInFirstTable
  <2> QED
    BY ONLY <1>2, <1>14, <2>1
<1>16. (v % T) + n =< T
  <2>1. k + 2 \in Written(v, 0, n)
    <3>1. Written(v, 0, n) = {(v + i) % T : i \in 0 .. (n - 1)}
      BY WrittenInFirstTable
    <3>2. 0 \in 0 .. (n - 1) /\ v + 0 = v
      OBVIOUS
    <3> QED
      BY <1>14, <3>1, <3>2
  <2>2. used3 = (0 .. (k + 1)) \cup Written(v, 0, n)
    BY <1>1, <1>11, <1>14
  <2>3. n \in Nat /\ used3 = (0 .. (k + 2)) \cup Written(v, 0, n)
    BY ONLY <1>11, <2>1, <2>2, n \in Nat \ {0}
  <2> QED
    BY <1>1, <1>11, <1>12, <1>14, <1>15, <2>3, LoadDoesNotWrap
<1>17. Written(v, word, n) = (k + 2) .. (k + 1 + n)
  <2>1. Written(v, 0, n) = (v % T) .. ((v % T) + n - 1)
    BY <1>16, WrittenWithoutWrap
  <2>2. (v % T) + n - 1 = k + 1 + n
    BY <1>11, <1>14
  <2> QED
    BY <1>14, <2>1, <2>2
<1>18. used3 = 0 .. (k + 1 + n) /\ k + 1 + n \in 0 .. (T - 1)
  <2>1. k + 2 + n =< T
    BY <1>14, <1>16
  <2>2. used3 = (0 .. (k + 1)) \cup ((k + 2) .. (k + 1 + n))
    BY <1>1, <1>11, <1>17, Zenon
  <2> QED
    BY ONLY <1>2, <1>11, <2>1, <2>2, n \in Nat \ {0}
<1>19. /\ k + 1 + n + StackPages < T
       /\ present' = 0 .. (k + 1 + n + StackPages)
       /\ Written(stack.address, 0, StackPages) \cap used3 = {}
  BY ONLY <1>1, <1>2, <1>5, <1>12, <1>18, PrefixGrows
<1>20. \A p \in used3 : p \in Page /\ frame'[p] = frame3[p]
  <2>1. \A p \in used3 : p \in Page
    BY ONLY <1>2, <1>18 DEF Page
  <2> QED
    BY <1>5, <1>19, <2>1, MappingKeeps
<1>21. \A p \in present : p \in used3 /\ frame'[p] = frame[p]
  <2> TAKE p \in present
  <2>1. p \in used3 /\ p \in Page /\ p \notin Written(v, word, n)
    BY ONLY <1>2, <1>8, <1>11, <1>17, <1>18, n \in Nat \ {0}, p \in present
  <2>2. p \notin Written(dir.address, 0, 1)
    BY <1>9
  <2>3. frame1[p] = frame[p]
    BY <2>1, <2>2, MappingKeeps DEF frame1
  <2>4. frame3[p] = frame1[p]
    BY <2>1, MappingKeeps DEF frame3
  <2> QED
    BY <1>20, <2>1, <2>3, <2>4
<1>22. \A i \in 0 .. (n - 1) : frame'[Entry(v + i, word)] = nextFrame + 1 + i
  <2> TAKE i \in 0 .. (n - 1)
  <2>1. i \in Nat /\ (v % T) + i < T
    BY ONLY <1>2, <1>14, <1>16, <1>11, n \in Nat \ {0}, i \in 0 .. (n - 1)
  <2>2. Entry(v + i, word) = (v % T) + i
    BY <1>14, <2>1, IndexAdds, WrittenInFirstTable
  <2>3. (v % T) + i \in used3
    BY ONLY <1>11, <1>14, <1>18, n \in Nat \ {0}, i \in 0 .. (n - 1)
  <2>4. frame3[(v % T) + i] = Fresh(n, 1)[i]
    BY <1>14, <1>16, MappingEnters DEF frame3
  <2>5. Fresh(n, 1)[i] = nextFrame + 1 + i
    BY DEF Fresh
  <2> QED
    BY <1>20, <2>2, <2>3, <2>4, <2>5
<1>23. /\ program.word = 0 /\ (program.page % T) + program.n =< T
       /\ (program.page % T) .. ((program.page % T) + program.n - 1) \subseteq present'
       /\ FramesOf(program)' = FramesGot(program)
  <2>1. FramesOf(program)' = {frame'[Entry(v + i, word)] : i \in 0 .. (n - 1)}
    BY <1>5a DEF FramesOf
  <2>2. FramesOf(program)' = {nextFrame + 1 + i : i \in 0 .. (n - 1)}
    BY <1>22, <2>1, Zenon
  <2>3. (v % T) .. ((v % T) + n - 1) \subseteq present'
    BY ONLY <1>2, <1>11, <1>14, <1>19, n \in Nat \ {0}
  <2> QED
    BY <1>5a, <1>14, <1>16, <2>2, <2>3 DEF FramesGot
<1>24. ASSUME NEW s \in programs
       PROVE  /\ s.word = 0 /\ (s.page % T) + s.n =< T
              /\ (s.page % T) .. ((s.page % T) + s.n - 1) \subseteq present'
              /\ FramesOf(s)' = FramesGot(s)
  <2>1. /\ s.page \in Nat /\ s.n \in Nat /\ s.word = 0 /\ (s.page % T) + s.n =< T
        /\ (s.page % T) .. ((s.page % T) + s.n - 1) \subseteq present
        /\ FramesOf(s) = FramesGot(s)
    BY <1>7 DEF ExitInv, LowMemoryInOrder
  <2>2. FramesOf(s)' = FramesOf(s)
    BY <1>21, <2>1, FramesStay
  <2>3. present \subseteq present'
    BY <1>5, <1>21
  <2> QED
    BY <2>1, <2>2, <2>3
<1>25. \E m \in 0 .. (T - 1) : present' = 0 .. m
  <2>1. k + 1 + n + StackPages \in 0 .. (T - 1)
    BY ONLY <1>2, <1>11, <1>19, n \in Nat \ {0}
  <2> QED
    BY <1>19, <2>1
<1>26. \A s : FramesGot(s)' = FramesGot(s)
  BY DEF FramesGot
<1> QED
  BY <1>5, <1>23, <1>24, <1>25, <1>26, Zenon DEF LowMemoryInOrder

\* Every caller keeps the invariant.
LEMMA ExitStepInv == ExitInv /\ [PagingNext]_pagingVars => ExitInv'
<1> SUFFICES ASSUME ExitInv, [PagingNext]_pagingVars PROVE ExitInv'
  OBVIOUS
<1>1. PagingInv'
  BY PagingStepInv DEF ExitInv
<1>2. ASSUME Hang PROVE ExitInv'
  BY <1>1, <1>2 DEF Hang, ExitInv
<1>3. ASSUME outcome = "running", NEW n \in RegionPages, MapRegion(n) PROVE ExitInv'
  <2> DEFINE g == KernelAllocateVirtualPages(present, n)
             fs == [i \in 0 .. (n - 1) |-> LastFrame]
  <2>1. n \in Nat \ {0}
    BY PagingAssumption
  <2>2. CASE ~g.found
    BY <1>2, <1>3, <2>2 DEF MapRegion
  <2>3. CASE g.found
    <3>1. /\ present' = present \cup g.marked \cup Written(g.address, 0, n)
          /\ frame' = MapVirtualPages(frame, g.address, 0, n, fs)
          /\ grants' = grants \cup {g.address .. (g.address + n - 1)}
          /\ programs' = programs
      BY <1>3, <2>3 DEF MapRegion
    <3> HIDE DEF g, fs
    <3>2. GrantsLow' => LowMemoryInOrder'
      BY <1>3, <2>1, <2>3, <3>1, GrantKeepsOrder DEF g
    <3> QED
      BY <1>1, <3>1, <3>2 DEF ExitInv
  <2> QED
    BY <2>2, <2>3
<1>4. ASSUME outcome = "running", CreateProcess PROVE ExitInv'
  <2> DEFINE n == StackPages
             g == KernelAllocateVirtualPages(present, n)
             fs == Fresh(n, 0)
  <2>1. n \in Nat \ {0}
    BY PagingAssumption
  <2>2. CASE ~g.found
    BY <1>2, <1>4, <2>2 DEF CreateProcess
  <2>3. CASE g.found
    <3>1. /\ present' = present \cup g.marked \cup Written(g.address, 0, n)
          /\ frame' = MapVirtualPages(frame, g.address, 0, n, fs)
          /\ grants' = grants \cup {g.address .. (g.address + n - 1)}
          /\ programs' = programs
      BY <1>4, <2>3 DEF CreateProcess
    <3> HIDE DEF g, fs, n
    <3>2. GrantsLow' => LowMemoryInOrder'
      BY <1>4, <2>1, <2>3, <3>1, GrantKeepsOrder DEF g
    <3> QED
      BY <1>1, <3>1, <3>2 DEF ExitInv
  <2> QED
    BY <2>2, <2>3
<1>5. ASSUME outcome = "running", NEW v \in Page, NEW word \in PageWord, NEW memsz \in SegmentBytes,
             LoadELF(v, word, memsz)
      PROVE  ExitInv'
  <2> DEFINE n     == memsz \div PAGE_SIZE + 2
             dir   == DirectoryAt(present)
             stack == StackAt(present, v, word, n)
             new   == [page |-> v, word |-> word, n |-> n, at |-> nextFrame]
             loaded ==
               /\ dir.found /\ TablesAt(present).found
               /\ (TablesAt(present).address + word) % (D * T) \in AfterPages(present, v, word, 1)
               /\ stack.found
               /\ present' = AfterPages(present, v, word, n) \cup stack.marked
                               \cup Written(stack.address, 0, StackPages)
               /\ frame' = MapVirtualPages(
                             MapVirtualPages(MapVirtualPages(frame, dir.address, 0, 1, Fresh(1, 0)),
                                             v, word, n, Fresh(n, 1)),
                             stack.address, 0, StackPages, Fresh(StackPages, n + 1))
               /\ grants' = grants \cup
                    {{dir.address}, stack.address .. (stack.address + StackPages - 1)}
               /\ programs' = programs \cup {new}
  <2>1. n \in Nat \ {0} /\ v \in Nat
    BY SegmentSize, PageCount DEF Page
  <2>2. \/ Hang
        \/ outcome' = "panic" /\ programs' = programs
        \/ loaded
    BY <1>5, Zenon DEF LoadELF
  <2> HIDE DEF n
  <2>3. CASE outcome' = "panic" /\ programs' = programs
    BY <1>1, <2>3 DEF ExitInv
  <2>4. CASE loaded
    <3>1. GrantsLow' => LowMemoryInOrder'
      BY <1>5, <2>1, <2>4, LoadKeepsOrder
    <3>2. \A s \in programs' : s.page \in Nat /\ s.n \in Nat
      <4>1. programs' = programs \cup {new} /\ new.page \in Nat /\ new.n \in Nat
        BY <2>1, <2>4
      <4> HIDE DEF new
      <4> QED
        BY <4>1 DEF ExitInv
    <3> QED
      BY <1>1, <3>1, <3>2 DEF ExitInv
  <2> QED
    BY <1>2, <2>2, <2>3, <2>4
<1>6. ASSUME NEW seg \in programs, EndProcess(seg) PROVE ExitInv'
  <2>1. programs' \subseteq programs
    BY <1>6 DEF EndProcess
  <2> QED
    BY <1>1, <1>6, <2>1 DEF EndProcess, ExitInv, GrantsLow, LowMemoryInOrder, FramesOf, FramesGot
<1>7. CASE UNCHANGED pagingVars
  BY <1>1, <1>7 DEF pagingVars, ExitInv, GrantsLow, LowMemoryInOrder, FramesOf, FramesGot
<1> QED
  BY <1>3, <1>4, <1>5, <1>6, <1>7 DEF PagingNext

\* An exit gives back exactly the frames that were got for the segment,
\* although EndProcess looks them up through tables that have been written
\* for others since, as long as the first table has room.
THEOREM ExitReleases == PagingSpec => []ExitReleasesItsOwn
<1>1. PagingInit => ExitInv
  BY ExitInitInv
<1>2. ExitInv /\ [PagingNext]_pagingVars => ExitInv'
  BY ExitStepInv
<1>3. ExitInv => ExitReleasesItsOwn
  BY DEF ExitInv, GrantsLow, LowMemoryInOrder, ExitReleasesItsOwn
<1> QED
  BY <1>1, <1>2, <1>3, PTL DEF PagingSpec

-----------------------------------------------------------------------------
(* Memalloc: the memory of a process.                                      *)

\* Every grant is in use together with the two pages after it, as far as
\* there are such pages.
GrantsUsed ==
  \A j \in 1 .. Len(given) :
    (given[j].first .. (given[j].first + given[j].n + 1)) \cap Page \subseteq used

\* The inductive invariant of OverlapOnlyAtFirstOffset.
MemallocInv ==
  /\ before \subseteq used
  /\ given \in Seq([first : Nat, n : Nat])
  /\ GrantsUsed
  /\ OverlapOnlyAtFirstOffset

\* A new process has no grants.
LEMMA MemallocInitInv == MemallocInit => MemallocInv
BY DEF MemallocInit, MemallocInv, GrantsUsed, OverlapOnlyAtFirstOffset

\* Every system call keeps it.
LEMMA MemallocStepInv == MemallocInv /\ [MemallocNext]_memallocVars => MemallocInv'
<1> SUFFICES ASSUME MemallocInv, [MemallocNext]_memallocVars PROVE MemallocInv'
  OBVIOUS
<1>1. ASSUME NEW n \in Amounts, SysMemalloc(n) PROVE MemallocInv'
  <2> DEFINE g == AllocateVirtualPages(n)
             s == FirstRun(used, n + 2)
             new == [first |-> g.first, n |-> n]
             k == Len(given)
  <2>1. n \in Nat \ {0} /\ n + 2 \in Nat /\ FirstOffset \in Nat
    BY MemallocAssumption, PageCount
  <2>2. CASE UNCHANGED <<used, given>>
    BY <1>1, <2>2 DEF SysMemalloc, MemallocInv, GrantsUsed, OverlapOnlyAtFirstOffset, Pages
  <2>3. CASE ~UNCHANGED <<used, given>>
    <3>1. /\ used \cup (g.marked \cap Page) \subseteq used'
          /\ given' = Append(given, new)
          /\ before' = before
      BY <1>1, <2>3 DEF SysMemalloc
    <3>2. s < D * T
      BY <1>1, <2>3 DEF SysMemalloc, AllocateVirtualPages
    <3>3. s \in Page /\ s + (n + 2) =< D * T /\ (s .. (s + (n + 2) - 1)) \cap used = {}
      <4> HIDE DEF s
      <4> QED
        BY <2>1, <3>2, FirstRunIsFree DEF s
    <3>4. s \in Nat /\ D * T \in Nat
      BY <3>3, PageCount DEF Page
    <3>5. /\ g.first = IF s = 0 THEN FirstOffset ELSE s - 1
          /\ g.marked = g.first .. (g.first + n + 1)
      BY DEF AllocateVirtualPages
    <3> HIDE DEF g, s
    <3>6. g.first \in Nat /\ new \in [first : Nat, n : Nat] /\ new.first = g.first /\ new.n = n
      BY <2>1, <3>4, <3>5
    <3> HIDE DEF new
    <3>7. /\ given' \in Seq([first : Nat, n : Nat]) /\ k \in Nat /\ Len(given') = k + 1
          /\ \A j \in 1 .. k : given'[j] = given[j]
          /\ given'[k + 1] = new
      BY <3>1, <3>6 DEF MemallocInv
    <3>8. \A j \in 1 .. k : given[j].first \in Nat /\ given[j].n \in Nat
      <4> TAKE j \in 1 .. k
      <4> DEFINE Grant == [first : Nat, n : Nat]
      <4>1. given[j] \in Grant
        <5>1. given \in Seq(Grant) /\ j \in 1 .. Len(given)
          BY DEF MemallocInv
        <5> HIDE DEF Grant
        <5> QED
          BY ONLY <5>1
      <4> QED
        BY <4>1
    <3>9. \A j \in 1 .. Len(given') : j \in 1 .. k \/ j = k + 1
      BY <3>7
    <3> HIDE DEF k
    <3>10. GrantsUsed'
      <4>1. (new.first .. (new.first + new.n + 1)) \cap Page \subseteq used'
        BY <3>1, <3>5, <3>6
      <4>2. \A j \in 1 .. k : (given[j].first .. (given[j].first + given[j].n + 1)) \cap Page \subseteq used'
        BY <3>1 DEF MemallocInv, GrantsUsed, k
      <4> QED
        BY <3>7, <3>9, <4>1, <4>2 DEF GrantsUsed
    <3>11. ASSUME g.first # FirstOffset
           PROVE  /\ \A i \in 1 .. k : Pages(given[i]) \cap Pages(new) = {}
                  /\ Pages(new) \cap before \subseteq {new.first}
      <4>1. s > 0 /\ g.first = s - 1
        BY <3>4, <3>5, <3>11
      <4>2. Pages(new) = (s - 1) .. (s + n - 2)
        BY <2>1, <3>4, <3>6, <4>1 DEF Pages
      <4>3. \A p \in s .. (s + n + 1) : p \in Page /\ p \notin used
        BY <2>1, <3>3, <3>4 DEF Page
      <4>4. ASSUME NEW i \in 1 .. k, NEW p \in Pages(given[i]), p \in Pages(new)
            PROVE  FALSE
        <5> DEFINE a == given[i].first
                   m == given[i].n
        <5>1. a \in Nat /\ m \in Nat
          BY <3>8
        <5>2. (a .. (a + m + 1)) \cap Page \subseteq used
          BY DEF MemallocInv, GrantsUsed, k
        <5>3. p \in a .. (a + m - 1) /\ p \in (s - 1) .. (s + n - 2)
          BY <4>2, <4>4 DEF Pages
        <5> HIDE DEF a, m
        <5>4. CASE p = s - 1
          <6>1. s \in a .. (a + m + 1) /\ s \in s .. (s + n + 1)
            BY <2>1, <3>4, <4>1, <5>1, <5>3, <5>4
          <6> QED
            BY <4>3, <5>2, <6>1
        <5>5. CASE p # s - 1
          <6>1. p \in a .. (a + m + 1) /\ p \in s .. (s + n + 1)
            BY <2>1, <3>4, <4>1, <5>1, <5>3, <5>5
          <6> QED
            BY <4>3, <5>2, <6>1
        <5> QED
          BY <5>4, <5>5
      <4>5. ASSUME NEW p \in Pages(new), p \in before PROVE p = new.first
        <5>1. p \in used
          BY <4>5 DEF MemallocInv
        <5>2. p \in (s - 1) .. (s + n - 2) /\ p \notin s .. (s + n + 1)
          BY <4>2, <4>3, <4>5, <5>1
        <5> QED
          BY <2>1, <3>4, <3>6, <4>1, <5>2
      <4> QED
        BY <4>4, <4>5
    <3>12. OverlapOnlyAtFirstOffset'
      <4> SUFFICES ASSUME NEW j \in 1 .. Len(given'), given'[j].first # FirstOffset
                   PROVE  /\ \A i \in 1 .. (j - 1) : Pages(given'[i]) \cap Pages(given'[j]) = {}
                          /\ Pages(given'[j]) \cap before' \subseteq {given'[j].first}
        BY DEF OverlapOnlyAtFirstOffset, Pages
      <4>1. CASE j \in 1 .. k
        <5>1. /\ \A i \in 1 .. (j - 1) : i \in 1 .. k
              /\ given'[j] = given[j]
          BY <3>7, <4>1
        <5>2. /\ \A i \in 1 .. (j - 1) : Pages(given[i]) \cap Pages(given[j]) = {}
              /\ Pages(given[j]) \cap before \subseteq {given[j].first}
          BY <4>1, <5>1 DEF MemallocInv, OverlapOnlyAtFirstOffset, k
        <5> QED
          BY <3>1, <3>7, <5>1, <5>2
      <4>2. CASE j = k + 1
        <5>1. (j - 1) = k /\ given'[j] = new
          BY <3>7, <4>2
        <5> QED
          BY <3>1, <3>6, <3>7, <3>11, <5>1
      <4> QED
        BY <3>9, <4>1, <4>2
    <3> QED
      BY <3>1, <3>7, <3>10, <3>12 DEF MemallocInv
  <2> QED
    BY <2>2, <2>3
<1>2. CASE UNCHANGED memallocVars
  BY <1>2 DEF memallocVars, MemallocInv, GrantsUsed, OverlapOnlyAtFirstOffset, Pages
<1> QED
  BY <1>1, <1>2 DEF MemallocNext

\* Only a grant at FirstOffset can take memory that is in use: every other
\* grant overlaps no earlier one, and of the pages in use at the start at
\* most its own first.
THEOREM OverlapsAtFirstOffset == MemallocSpec => []OverlapOnlyAtFirstOffset
<1>1. MemallocInv => OverlapOnlyAtFirstOffset
  BY DEF MemallocInv
<1> QED
  BY <1>1, MemallocInitInv, MemallocStepInv, PTL DEF MemallocSpec

-----------------------------------------------------------------------------
(* PageEntry: one entry of a table.                                        *)

\* The three sets of bits are kept apart; the flags come only with a mapping.
PageEntryInv ==
  /\ {entry, last, seen} \subseteq EntryWord
  /\ last \subseteq seen
  /\ PAGE_PRESENT \notin entry => entry = {} /\ seen = {} /\ last = {}
  /\ BitsOutsideTheMaskStick
  /\ FrameIsTheLast

\* An empty entry has seen nothing.
LEMMA PageEntryInitInv == PageEntryInit => PageEntryInv
BY DEF PageEntryInit, PageEntryInv, EntryWord, BitsOutsideTheMaskStick, FrameIsTheLast, PAGE_PRESENT

\* Every mapping keeps it.
LEMMA PageEntryStepInv == PageEntryInv /\ [PageEntryNext]_pageEntryVars => PageEntryInv'
<1> SUFFICES ASSUME PageEntryInv, [PageEntryNext]_pageEntryVars PROVE PageEntryInv'
  OBVIOUS
<1>1. ASSUME NEW addr \in EntryWord, MapPage(addr) PROVE PageEntryInv'
  <2> DEFINE flags == {PAGE_PRESENT, PAGE_WRITEABLE}
  <2>1. /\ entry' = ((entry \cup flags) \ FrameBits) \cup addr
        /\ last' = addr
        /\ seen' = seen \cup addr
    BY <1>1 DEF MapPage, SetPageFrame, SetFlags
  <2>2. flags \cap FrameBits = {} /\ flags \subseteq FlagBits
    BY EntryAssumption
  <2>3. PAGE_PRESENT \in entry'
    BY <2>1, <2>2
  <2>4. entry' \ FrameBits = (seen' \ FrameBits) \cup flags
    <3>1. entry' \ FrameBits = (entry \ FrameBits) \cup flags \cup (addr \ FrameBits)
      BY <2>1, <2>2
    <3>2. (entry \ FrameBits) \cup flags = (seen \ FrameBits) \cup flags
      <4>1. CASE PAGE_PRESENT \in entry
        BY <4>1 DEF PageEntryInv, BitsOutsideTheMaskStick
      <4>2. CASE PAGE_PRESENT \notin entry
        BY <4>2 DEF PageEntryInv
      <4> QED BY <4>1, <4>2
    <3> QED BY <2>1, <3>1, <3>2
  <2>5. BitsOutsideTheMaskStick'
    BY <2>3, <2>4 DEF BitsOutsideTheMaskStick
  <2>6. FrameIsTheLast'
    BY <2>1, <2>2 DEF FrameIsTheLast
  <2>7. ({entry, last, seen} \subseteq EntryWord)' /\ (last \subseteq seen)'
    BY <2>1, <2>2 DEF PageEntryInv, EntryWord
  <2> QED BY <2>3, <2>5, <2>6, <2>7 DEF PageEntryInv
<1>2. CASE UNCHANGED pageEntryVars
  BY <1>2 DEF pageEntryVars, PageEntryInv, BitsOutsideTheMaskStick, FrameIsTheLast
<1> QED BY <1>1, <1>2 DEF PageEntryNext

\* The invariant holds in every reachable state.
LEMMA PageEntryInvariance == PageEntrySpec => []PageEntryInv
BY PageEntryInitInv, PageEntryStepInv, PTL DEF PageEntrySpec

\* SetPageFrame never clears a bit outside PAGE_FRAME.
THEOREM BitsStick == PageEntrySpec => []BitsOutsideTheMaskStick
BY PageEntryInvariance, PTL DEF PageEntryInv

\* Within PAGE_FRAME an entry holds the address mapped last.
THEOREM LastFrameOnly == PageEntrySpec => []FrameIsTheLast
BY PageEntryInvariance, PTL DEF PageEntryInv

\* GetPageFrame finds the frame mapped last, which is the one the processor
\* uses, as long as no address above 2 GB has been mapped.
THEOREM ReadBack == PageEntrySpec => []ReadsTheLastMapping
<1>1. PageEntryInv => ReadsTheLastMapping
  <2> SUFFICES ASSUME PageEntryInv, TopBit \notin seen PROVE ReadsTheLastMapping
    BY DEF ReadsTheLastMapping
  <2>1. TopBit \notin entry
    BY EntryAssumption DEF PageEntryInv, BitsOutsideTheMaskStick
  <2>2. entry \cap FrameBits = entry \cap (FrameBits \cup {TopBit})
    BY <2>1
  <2> QED BY <2>2 DEF ReadsTheLastMapping, GetPageFrame, PageEntryInv, FrameIsTheLast
<1> QED BY <1>1, PageEntryInvariance, PTL
=============================================================================
