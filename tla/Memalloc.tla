------------------------------ MODULE Memalloc ------------------------------
(***************************************************************************)
(* SysMemalloc: AllocateVirtualPages looks for a run of free pages in the  *)
(* tables of the calling process and each page of the grant is mapped to a *)
(* frame.  The model is a stretch of such calls by one process, during     *)
(* which nobody else writes into its tables.                               *)
(*                                                                         *)
(* It starts from tables with any contents.  CreateAddressSpace does not   *)
(* clear them (it asks memset for 0 bytes) and they lie on kernel pages    *)
(* that were never set aside for them, and LoadELF has entered the program *)
(* through get_page, which is seldom where the program is.                 *)
(***************************************************************************)
EXTENDS PageTables, Sequences

CONSTANTS
  FirstOffset,  \* PAGE_TABLE_INDEX(0x40000), where the search means to start
  Amounts,      \* pages a process asks for
  MaxCalls      \* bound: system calls

ASSUME MemallocAssumption ==
  /\ FirstOffset \in 0 .. (T - 1)
  /\ Amounts \subseteq Nat \ {0}
  /\ MaxCalls \in Nat

VARIABLES
  used,      \* pages with PAGE_PRESENT in the tables of the process
  before,    \* history: those that had it at the start
  given,     \* history: first page and size of every grant
  hung       \* the machine stands still, with interrupts off

memallocVars == <<used, before, given, hung>>

MemallocInit ==
  /\ used \in SUBSET Page
  /\ before = used
  /\ given = <<>>
  /\ hung = FALSE
-----------------------------------------------------------------------------
\* Bug: only the pages of the grant are marked, without the two spare ones.
MarksOnlyTheGrant(n) ==
  LET s == FirstRun(used, n + 2)
      offset == IF s = 0 THEN FirstOffset ELSE s - 1
  IN [found |-> s < D * T, first |-> offset, marked |-> offset .. (offset + n - 1)]

\* AllocateVirtualPages scans every table from its first entry for n + 2 free
\* pages.  The grant starts on the page in use before the run; if there is
\* none it starts at FirstOffset, which the scan has not looked at.
AllocateVirtualPages(n) ==
  LET s == FirstRun(used, n + 2)
      offset == IF s = 0 THEN FirstOffset ELSE s - 1
  IN [found |-> s < D * T, first |-> offset, marked |-> offset .. (offset + n + 1)]

\* The flags set by the search and by MapVirtualPages; marks past the last
\* table go into whatever memory is there.  If there is no run, or on the way
\* to it a table that is not mapped, the call ends in the endless loop of
\* AllocateVirtualPages or in PageFaultHandler.
SysMemalloc(n) ==
  LET g == AllocateVirtualPages(n) IN
  /\ Len(given) < MaxCalls
  /\ \/ /\ g.found
        /\ used' = used \cup (g.marked \cap Page)
                        \cup {get_page(Address(g.first + i)) : i \in 0 .. (n - 1)}
        /\ given' = Append(given, [first |-> g.first, n |-> n])
        /\ UNCHANGED hung
     \/ hung' = TRUE /\ UNCHANGED <<used, given>>
  /\ UNCHANGED before

MemallocNext == ~hung /\ \E n \in Amounts : SysMemalloc(n)

MemallocSpec == MemallocInit /\ [][MemallocNext]_memallocVars
-----------------------------------------------------------------------------
(* Properties.                                                             *)

Pages(g) == g.first .. (g.first + g.n - 1)

\* A grant takes pages that are marked only around FirstOffset, where it
\* starts if the scan found a run at the very start of the tables: any other
\* grant overlaps no earlier one, and of the pages marked before the first
\* call at most its own first page, which gets a new frame (it is the last
\* page in use before the run that AllocateVirtualPages returns).
OverlapOnlyAtFirstOffset ==
  \A j \in 1 .. Len(given) :
    given[j].first # FirstOffset =>
      /\ \A i \in 1 .. (j - 1) : Pages(given[i]) \cap Pages(given[j]) = {}
      /\ Pages(given[j]) \cap before \subseteq {given[j].first}
=============================================================================
