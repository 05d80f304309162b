------------------------------ MODULE MCMemory ------------------------------
(***************************************************************************)
(* The memory modules side by side: in each behaviour one of them runs and *)
(* the others stay in their initial state.                                 *)
(***************************************************************************)
EXTENDS PhysicalAllocator, Paging, Memalloc, PageEntry

CONSTANT
  RunSizes   \* bound: lengths of the runs of pages in use before SysMemalloc

VARIABLE active

MCVars == <<active, vars, pagingVars, memallocVars, pageEntryVars>>

Run == {r \in {a .. (a + n - 1) : a \in Page, n \in RunSizes} : r \subseteq Page}

\* The tables of the process start with at most two runs of pages in use.
MCInit ==
  /\ active \in {"allocator", "paging", "memalloc", "entry"}
  /\ used \in IF active = "memalloc" THEN {r \cup q : r, q \in Run} ELSE {{}}
  /\ Init /\ PagingInit /\ MemallocInit /\ PageEntryInit

MCNext ==
  /\ UNCHANGED active
  /\ \/ active = "allocator" /\ Next /\ UNCHANGED <<pagingVars, memallocVars, pageEntryVars>>
     \/ active = "paging" /\ PagingNext /\ UNCHANGED <<vars, memallocVars, pageEntryVars>>
     \/ active = "memalloc" /\ MemallocNext /\ UNCHANGED <<vars, pagingVars, pageEntryVars>>
     \/ active = "entry" /\ PageEntryNext /\ UNCHANGED <<vars, pagingVars, memallocVars>>

MCSpec == MCInit /\ [][MCNext]_MCVars
=============================================================================
