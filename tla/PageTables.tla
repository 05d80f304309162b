----------------------------- MODULE PageTables -----------------------------
(***************************************************************************)
(* The constants and index macros of paging.h, at a smaller scale: a table *)
(* holds T entries of four bytes and fills exactly one page, a directory   *)
(* holds D tables; T = D = 1024 is the real machine.  A page is named by   *)
(* its number in the virtual address space.                                *)
(***************************************************************************)
EXTENDS Naturals

CONSTANTS
  T,   \* PAGES_PER_TABLE
  D    \* TABLES_PER_DIR

ASSUME TableAssumption ==
  /\ D \in Nat \ {0}
  /\ T \in Nat \ {0}
  /\ T % D = 0

PAGE_SIZE == 4 * T
Page == 0 .. (D * T - 1)
Address(page) == page * PAGE_SIZE

\* The macro shifts by 2, not by 22: what it takes for the directory index
\* is part of the offset into the page.
PAGE_DIRECTORY_INDEX(x) == (x \div 4) % D

PAGE_TABLE_INDEX(x) == (x \div PAGE_SIZE) % T

\* The entry get_page finds for an address, as the page the processor would
\* translate with it.
get_page(x) == PAGE_DIRECTORY_INDEX(x) * T + PAGE_TABLE_INDEX(x)

\* The start of the first run of n pages outside the set used, D * T if
\* there is none.
FirstRun(used, n) ==
  LET starts == {s \in Page : s + n <= D * T /\ (s .. (s + n - 1)) \cap used = {}}
  IN IF starts = {} THEN D * T
     ELSE CHOOSE s \in starts : \A r \in starts : s <= r
=============================================================================
