----------------------------- MODULE SurfaceCopy -----------------------------
(***************************************************************************)
(* SysCopyWindowSurface: a region of a window is copied to an offset in    *)
(* another surface, row by row, by memcpy_optimized and the assembly loop  *)
(* under it.  Pixels (four bytes) are numbered row by row; the loop moves  *)
(* four of them at a time.                                                 *)
(***************************************************************************)
EXTENDS Integers, FiniteSets

CONSTANTS
  DW, DH,   \* width and height of the destination, in pixels
  WW, WH    \* width and height of the window

ASSUME SurfaceAssumption == {DW, DH, WW, WH} \subseteq Nat \ {0}

VARIABLES
  offset,    \* where in the destination, given by the caller
  pos, size, \* the region of the window, given by the caller
  i,         \* the row of the loop
  copied,    \* pairs <<destination pixel, window pixel>> copied so far
  runaway    \* the assembly loop has counted down from zero

surfaceCopyVars == <<offset, pos, size, i, copied, runaway>>

\* Any offset within the destination or at its edges, any region inside the
\* window.
SurfaceCopyInit ==
  /\ offset \in [x : 0 .. DW, y : 0 .. DH]
  /\ pos \in [x : 0 .. (WW - 1), y : 0 .. (WH - 1)]
  /\ size \in {s \in [x : 0 .. WW, y : 0 .. WH] : pos.x + s.x <= WW /\ pos.y + s.y <= WH}
  /\ i = pos.y
  /\ copied = {}
  /\ runaway = FALSE
-----------------------------------------------------------------------------
\* The length of a row, cut at the right edge of the destination.
rowSize == IF DW - offset.x > size.x THEN size.x ELSE DW - offset.x

\* The loop's test.  The region's height, not its last row, bounds i.
MoreRows == i < size.y /\ i < DH - offset.y

\* memcpy_optimized with fewer than 16 bytes calls the assembly loop for no
\* block at all; LOOP decrements first, so 2^32 blocks are moved.
RunsAway(n) == n \div 4 = 0

\* Bug: the rest behind the last whole block is left out.
WholeBlocksOnly(n) == 0 .. (4 * (n \div 4) - 1)

\* Whole blocks, then the rest.
PixelsMoved(n) == 0 .. (n - 1)

CopyRow ==
  /\ ~runaway
  /\ MoreRows
  /\ i' = i + 1
  /\ IF RunsAway(rowSize)
       THEN runaway' = TRUE /\ UNCHANGED copied
       ELSE /\ copied' = copied \cup
                 {<<(i + offset.y) * DW + offset.x + k, i * WW + pos.x + k>> :
                    k \in PixelsMoved(rowSize)}
            /\ UNCHANGED runaway
  /\ UNCHANGED <<offset, pos, size>>

SurfaceCopyNext == CopyRow

SurfaceCopySpec == SurfaceCopyInit /\ [][SurfaceCopyNext]_surfaceCopyVars
-----------------------------------------------------------------------------
(* Properties.                                                             *)

\* The call runs over all memory exactly when it has a row to copy of fewer
\* than four pixels, be it the region or the room left at the right edge
\* (memcpy_sse2 with a count of zero).  Otherwise a region that starts at the
\* top of the window arrives as it should: once the loop is over, every pixel
\* of it that fits into the destination is in its place, and no other.
ArrivesOrRunsAway ==
  /\ runaway <=> i > pos.y /\ (size.x < 4 \/ DW - offset.x < 4)
  /\ ~MoreRows /\ ~runaway /\ pos.y = 0 =>
       copied = {<<(r + offset.y) * DW + c + offset.x, r * WW + c + pos.x>> :
                   r \in {q \in 0 .. (size.y - 1) : q + offset.y < DH},
                   c \in {q \in 0 .. (size.x - 1) : q + offset.x < DW}}
=============================================================================
