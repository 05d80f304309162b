---------------------------- MODULE SyscallProofs ----------------------------
(***************************************************************************)
(* System calls: windows and their handles (Windows), the copy of a        *)
(* window's surface (SurfaceCopy) and the file descriptors with the        *)
(* terminals (FileTable).                                                  *)
(***************************************************************************)
EXTENDS Windows, SurfaceCopy, FileTable, SequenceTheorems, TLAPS

-----------------------------------------------------------------------------
(* SurfaceCopy.                                                            *)

\* The pair of pixels column k of row r of the region is about.
Pixels(r, k) == <<(r + offset.y) * DW + offset.x + k, r * WW + pos.x + k>>

\* The rows copied so far, and all of each; a row of fewer than four pixels
\* is never survived.
CopyInv ==
  /\ offset \in [x : 0 .. DW, y : 0 .. DH]
  /\ pos \in [x : Nat, y : Nat] /\ size \in [x : Nat, y : Nat]
  /\ i \in Nat /\ i >= pos.y
  /\ \A r \in pos.y .. (i - 1) : r < size.y /\ r < DH - offset.y
  /\ runaway <=> i > pos.y /\ RunsAway(rowSize)
  /\ ~runaway => copied = {Pixels(r, k) : r \in pos.y .. (i - 1), k \in 0 .. (rowSize - 1)}

\* rowSize is a number of pixels, and the one the edges leave.
LEMMA RowFits ==
  ASSUME CopyInv
  PROVE  /\ rowSize \in Nat
         /\ RunsAway(rowSize) <=> size.x < 4 \/ DW - offset.x < 4
         /\ {q \in 0 .. (size.x - 1) : q + offset.x < DW} = 0 .. (rowSize - 1)
<1>1. /\ DW \in Nat /\ size.x \in Nat /\ offset.x \in 0 .. DW
  BY SurfaceAssumption DEF CopyInv
<1>2. rowSize \in Nat /\ rowSize = IF DW - offset.x > size.x THEN size.x ELSE DW - offset.x
  BY <1>1 DEF rowSize
<1>3. RunsAway(rowSize) <=> rowSize < 4
  BY <1>2 DEF RunsAway
<1>4. rowSize < 4 <=> size.x < 4 \/ DW - offset.x < 4
  BY <1>1, <1>2
<1>5. {q \in 0 .. (size.x - 1) : q + offset.x < DW} = 0 .. (rowSize - 1)
  BY <1>1, <1>2
<1> QED
  BY <1>2, <1>3, <1>4, <1>5

\* Before the first row nothing is copied.
LEMMA CopyInitInv == SurfaceCopyInit => CopyInv
<1> SUFFICES ASSUME SurfaceCopyInit PROVE CopyInv
  OBVIOUS
<1>1. /\ offset \in [x : 0 .. DW, y : 0 .. DH]
      /\ pos \in [x : Nat, y : Nat] /\ size \in [x : Nat, y : Nat]
      /\ i = pos.y /\ copied = {} /\ ~runaway
  BY SurfaceAssumption DEF SurfaceCopyInit
<1>2. i \in Nat /\ i >= pos.y /\ ~(i > pos.y) /\ pos.y .. (i - 1) = {}
  BY <1>1
<1>3. {Pixels(r, k) : r \in pos.y .. (i - 1), k \in 0 .. (rowSize - 1)} = {}
  BY <1>2
<1> QED
  BY <1>1, <1>2, <1>3 DEF CopyInv

\* A row more is copied, or the loop runs away.
LEMMA CopyStepInv == CopyInv /\ [SurfaceCopyNext]_surfaceCopyVars => CopyInv'
<1> SUFFICES ASSUME CopyInv, [SurfaceCopyNext]_surfaceCopyVars PROVE CopyInv'
  OBVIOUS
<1>1. CASE CopyRow
  <2> DEFINE rows == pos.y .. (i - 1)
             cols == 0 .. (rowSize - 1)
             row == {Pixels(i, k) : k \in cols}
  <2>1. /\ offset' = offset /\ pos' = pos /\ size' = size /\ i' = i + 1 /\ ~runaway
        /\ i < size.y /\ i < DH - offset.y /\ i \in Nat /\ pos.y \in Nat /\ i >= pos.y
    BY <1>1 DEF CopyRow, MoreRows, CopyInv
  <2>2. rowSize' = rowSize
    BY <2>1 DEF rowSize
  <2>3. pos.y .. (i' - 1) = rows \cup {i} /\ i' > pos.y /\ i' \in Nat
    BY <2>1
  <2>4. \A r \in pos'.y .. (i' - 1) : r < size'.y /\ r < DH - offset'.y
    BY <2>1, <2>3 DEF CopyInv
  <2>5. CASE RunsAway(rowSize)
    <3>1. runaway'
      BY <1>1, <2>5 DEF CopyRow
    <3> QED
      BY <2>1, <2>2, <2>3, <2>4, <2>5, <3>1 DEF CopyInv, RunsAway
  <2>6. CASE ~RunsAway(rowSize)
    <3>1. ~runaway' /\ copied' = copied \cup row
      BY <1>1, <2>6 DEF CopyRow, PixelsMoved, Pixels
    <3>2. copied = {Pixels(r, k) : r \in rows, k \in cols}
      BY <2>1 DEF CopyInv
    <3>3. {Pixels(r, k) : r \in rows \cup {i}, k \in cols} = {Pixels(r, k) : r \in rows, k \in cols} \cup row
      <4> HIDE DEF rows, cols
      <4> QED
        OBVIOUS
    <3>4. \A r, k : Pixels(r, k)' = Pixels(r, k)
      BY <2>1 DEF Pixels
    <3>5. copied' = {Pixels(r, k)' : r \in pos'.y .. (i' - 1), k \in 0 .. (rowSize' - 1)}
      BY <2>1, <2>2, <2>3, <3>1, <3>2, <3>3, <3>4
    <3> QED
      BY <2>1, <2>2, <2>3, <2>4, <2>6, <3>1, <3>5 DEF CopyInv, RunsAway
  <2> QED
    BY <2>5, <2>6
<1>2. CASE UNCHANGED surfaceCopyVars
  BY <1>2 DEF surfaceCopyVars, CopyInv, rowSize, RunsAway, Pixels
<1> QED
  BY <1>1, <1>2 DEF SurfaceCopyNext

\* For surfaces of any size, any offset and any region: the copy arrives, or
\* runs away on a row of fewer than four pixels, and on nothing else.
THEOREM CopyArrivesOrRunsAway == SurfaceCopySpec => []ArrivesOrRunsAway
<1>1. CopyInv => ArrivesOrRunsAway
  <2> SUFFICES ASSUME CopyInv PROVE ArrivesOrRunsAway
    OBVIOUS
  <2> DEFINE rows == {q \in 0 .. (size.y - 1) : q + offset.y < DH}
             cols == {q \in 0 .. (size.x - 1) : q + offset.x < DW}
             place(r, c) == <<(r + offset.y) * DW + c + offset.x, r * WW + c + pos.x>>
  <2>1. runaway <=> i > pos.y /\ (size.x < 4 \/ DW - offset.x < 4)
    BY RowFits DEF CopyInv
  <2>2. ASSUME ~MoreRows, ~runaway, pos.y = 0
        PROVE  copied = {place(r, c) : r \in rows, c \in cols}
    <3>1. /\ offset.y \in 0 .. DH /\ offset.x \in Nat /\ pos.x \in Nat /\ size.y \in Nat
          /\ {DW, DH, WW} \subseteq Nat /\ i \in Nat
      BY SurfaceAssumption DEF CopyInv
    <3>2. rows = 0 .. (i - 1)
      <4>1. \A r \in 0 .. (i - 1) : r < size.y /\ r < DH - offset.y
        BY <2>2 DEF CopyInv
      <4>2. i >= size.y \/ i >= DH - offset.y
        BY <2>2, <3>1 DEF MoreRows
      <4> QED
        BY <3>1, <4>1, <4>2
    <3>3. cols = 0 .. (rowSize - 1) /\ rowSize \in Nat
      BY RowFits
    <3>4. copied = {Pixels(r, k) : r \in 0 .. (i - 1), k \in 0 .. (rowSize - 1)}
      BY <2>2 DEF CopyInv
    <3>5. ASSUME NEW r \in 0 .. (i - 1), NEW k \in 0 .. (rowSize - 1)
          PROVE  Pixels(r, k) = place(r, k)
      <4> DEFINE a == (r + offset.y) * DW
                 b == r * WW
      <4>1. a \in Nat /\ b \in Nat /\ k \in Nat
        BY <3>1, <3>3
      <4> HIDE DEF a, b
      <4>2. a + offset.x + k = a + k + offset.x /\ b + pos.x + k = b + k + pos.x
        BY <3>1, <4>1
      <4> QED
        BY <4>2 DEF Pixels, a, b
    <3> HIDE DEF rows, cols, place
    <3> QED
      BY <3>2, <3>3, <3>4, <3>5
  <2> QED
    BY <2>1, <2>2 DEF ArrivesOrRunsAway
<1> QED
  BY <1>1, CopyInitInv, CopyStepInv, PTL DEF SurfaceCopySpec

-----------------------------------------------------------------------------
(* Windows.                                                                *)

Objects == [kind : {"other", "desktop", "window"}, id : Nat]
Registered == [handle : Addr, object : Objects]

WindowsTypes ==
  /\ content \in [Addr -> Objects]
  /\ free \subseteq Addr
  /\ handles \in Seq(Registered)
  /\ windows \in [1 .. MaxObjects -> Seq(Addr)]
  /\ serial \in Nat \ {0}

\* The serial number tells the objects in the heap apart.
SerialsDiffer ==
  /\ \A a \in Addr : content[a].id < serial
  /\ \A a \in Addr : content[a].kind # "other" => content[a].id > 0
  /\ \A a, b \in Addr : content[a].id = content[b].id /\ content[a].id > 0 => a = b

\* A handle that was not destroyed names its object, a window or a desktop.
HandlesNameTheirObject ==
  \A j \in 1 .. Len(handles) :
    /\ handles[j].object.kind # "other"
    /\ handles[j].handle \notin destroyed =>
         /\ content[handles[j].handle] = handles[j].object
         /\ handles[j].handle \notin free

\* An entry of a list that was not destroyed is a live window, not freed.
EntriesLive ==
  \A s \in 1 .. MaxObjects : \A j \in 1 .. Len(windows[s]) :
    \/ windows[s][j] \in destroyed
    \/ /\ content[windows[s][j]].kind = "window"
       /\ content[windows[s][j]].id \in live
       /\ windows[s][j] \notin free

\* The inductive invariant of StaleOnlyByDestruction.
WindowsInv == WindowsTypes /\ SerialsDiffer /\ HandlesNameTheirObject /\ EntriesLive

\* There is nothing at the start.
LEMMA WindowsInitInv == WindowsInit => WindowsInv
<1> SUFFICES ASSUME WindowsInit PROVE WindowsInv
  OBVIOUS
<1>1. WindowsTypes
  BY DEF WindowsInit, WindowsTypes, Objects, Nothing
<1>2. SerialsDiffer
  BY DEF WindowsInit, SerialsDiffer, Nothing
<1>3. HandlesNameTheirObject /\ EntriesLive
  BY DEF WindowsInit, HandlesNameTheirObject, EntriesLive
<1> QED
  BY <1>1, <1>2, <1>3 DEF WindowsInv

\* What an allocation leaves: types, serial numbers, and everything that is
\* known of the other addresses.
LEMMA AllocationKeeps ==
  ASSUME WindowsInv, NEW a \in Addr, NEW kind \in {"other", "desktop", "window"}, Allocate(a, kind)
  PROVE  /\ content' \in [Addr -> Objects] /\ free' \subseteq Addr /\ serial' \in Nat \ {0}
         /\ SerialsDiffer'
         /\ a \in free /\ a \notin free' /\ free' \subseteq free
         /\ content'[a] = [kind |-> kind, id |-> serial]
         /\ \A b \in Addr : b # a => content'[b] = content[b]
<1>1. /\ content' = [content EXCEPT ![a] = [kind |-> kind, id |-> serial]]
      /\ free' = free \ {a} /\ a \in free /\ serial' = serial + 1
  BY DEF Allocate
<1>2. content \in [Addr -> Objects] /\ free \subseteq Addr /\ serial \in Nat \ {0}
  BY DEF WindowsInv, WindowsTypes
<1>3. content' \in [Addr -> Objects] /\ serial' \in Nat \ {0}
  BY <1>1, <1>2 DEF Objects
<1>4. /\ content'[a] = [kind |-> kind, id |-> serial]
      /\ \A b \in Addr : b # a => content'[b] = content[b]
  BY <1>1, <1>2
<1>5. \A b \in Addr : content[b].id \in Nat
  BY <1>2 DEF Objects
<1>6. SerialsDiffer'
  <2>1. \A b \in Addr : content'[b].id < serial'
    BY <1>1, <1>2, <1>4, <1>5 DEF WindowsInv, SerialsDiffer
  <2>2. \A b \in Addr : content'[b].kind # "other" => content'[b].id > 0
    BY <1>2, <1>4 DEF WindowsInv, SerialsDiffer
  <2>3. \A b, c \in Addr : content'[b].id = content'[c].id /\ content'[b].id > 0 => b = c
    BY <1>2, <1>4, <1>5 DEF WindowsInv, SerialsDiffer
  <2> QED
    BY <2>1, <2>2, <2>3 DEF SerialsDiffer
<1> QED
  BY <1>1, <1>2, <1>3, <1>4, <1>6

\* A handle registered for what was just put at a fresh address.
LEMMA RegisteredHandle ==
  ASSUME WindowsInv, NEW a \in Addr, NEW kind \in {"desktop", "window"}, Allocate(a, kind),
         handles' = RegisterHandle(a, [kind |-> kind, id |-> serial]), UNCHANGED destroyed
  PROVE  handles' \in Seq(Registered) /\ HandlesNameTheirObject'
<1> DEFINE object == [kind |-> kind, id |-> serial]
           new == [handle |-> a, object |-> object]
           n == Len(handles)
<1>1. serial \in Nat /\ handles \in Seq(Registered) /\ n \in Nat
  BY DEF WindowsInv, WindowsTypes
<1>2. object \in Objects /\ object.kind # "other"
  BY <1>1 DEF Objects
<1>3. handles' = Append(handles, new)
  BY DEF RegisterHandle
<1>4. new \in Registered /\ new.handle = a /\ new.object = object
  BY <1>2 DEF Registered
<1>5. /\ a \in free /\ a \notin free' /\ free' \subseteq free
      /\ content'[a] = object
      /\ \A b \in Addr : b # a => content'[b] = content[b]
  BY AllocationKeeps
<1> HIDE DEF new, object
<1>6. /\ handles' \in Seq(Registered) /\ Len(handles') = n + 1
      /\ \A j \in 1 .. n : handles'[j] = handles[j]
      /\ handles'[n + 1] = new
      /\ \A j \in 1 .. Len(handles') : j \in 1 .. n \/ j = n + 1
  BY <1>1, <1>3, <1>4
<1>7. ASSUME NEW j \in 1 .. n
      PROVE  /\ handles[j].object.kind # "other"
             /\ handles[j].handle \notin destroyed =>
                  /\ content'[handles[j].handle] = handles[j].object
                  /\ handles[j].handle \notin free'
  <2>1. handles[j].handle \in Addr
    <3>1. handles[j] \in Registered
      BY <1>1
    <3> QED
      BY <3>1 DEF Registered
  <2> QED
    BY <1>5, <2>1 DEF WindowsInv, HandlesNameTheirObject
<1> HIDE DEF n
<1> QED
  BY <1>2, <1>4, <1>5, <1>6, <1>7 DEF HandlesNameTheirObject

\* The entries of the lists survive an allocation: what is allocated was
\* free, and so in no list unless it was destroyed.
LEMMA EntriesSurviveAllocation ==
  ASSUME WindowsInv, NEW a \in Addr, NEW kind \in {"other", "desktop", "window"},
         Allocate(a, kind), UNCHANGED destroyed,
         NEW s \in 1 .. MaxObjects, NEW j \in 1 .. Len(windows[s])
  PROVE  \/ windows[s][j] \in destroyed'
         \/ /\ content'[windows[s][j]].kind = "window"
            /\ content'[windows[s][j]].id \in live
            /\ windows[s][j] \notin free'
<1>1. windows[s][j] \in Addr
  BY DEF WindowsInv, WindowsTypes
<1>2. /\ a \in free /\ free' \subseteq free
      /\ \A b \in Addr : b # a => content'[b] = content[b]
  BY AllocationKeeps
<1> QED
  BY <1>1, <1>2 DEF WindowsInv, EntriesLive

\* Every system call and the rest of the kernel keep the invariant.
LEMMA WindowsStepInv == WindowsInv /\ [WindowsNext]_windowsVars => WindowsInv'
<1> SUFFICES ASSUME WindowsInv, [WindowsNext]_windowsVars PROVE WindowsInv'
  OBVIOUS
<1> USE DEF WindowsInv
<1>1. ASSUME NEW a \in Addr, OtherAllocates(a) PROVE WindowsInv'
  <2>1. /\ Allocate(a, "other")
        /\ handles' = handles /\ windows' = windows /\ destroyed' = destroyed /\ live' = live
    BY <1>1 DEF OtherAllocates
  <2>2. /\ content' \in [Addr -> Objects] /\ free' \subseteq Addr /\ serial' \in Nat \ {0}
        /\ SerialsDiffer' /\ a \in free /\ free' \subseteq free
        /\ \A b \in Addr : b # a => content'[b] = content[b]
    BY <2>1, AllocationKeeps
  <2>3. WindowsTypes'
    BY <2>1, <2>2 DEF WindowsTypes
  <2>4. HandlesNameTheirObject'
    <3>1. \A j \in 1 .. Len(handles) : handles[j].handle \in Addr
      <4> TAKE j \in 1 .. Len(handles)
      <4>1. handles[j] \in Registered
        BY DEF WindowsTypes
      <4> QED
        BY <4>1 DEF Registered
    <3> QED
      BY <2>1, <2>2, <3>1 DEF HandlesNameTheirObject
  <2>5. EntriesLive'
    BY <2>1, EntriesSurviveAllocation DEF EntriesLive
  <2> QED
    BY <2>2, <2>3, <2>4, <2>5
<1>2. ASSUME NEW a \in Addr, OtherFrees(a) PROVE WindowsInv'
  <2>1. /\ content[a].kind = "other" /\ free' = free \cup {a}
        /\ UNCHANGED <<content, handles, windows, serial, destroyed, live>>
    BY <1>2 DEF OtherFrees
  <2>2. WindowsTypes' /\ SerialsDiffer'
    BY <2>1 DEF WindowsTypes, SerialsDiffer
  <2>3. HandlesNameTheirObject' /\ EntriesLive'
    BY <2>1 DEF HandlesNameTheirObject, EntriesLive
  <2> QED
    BY <2>2, <2>3
<1>3. ASSUME NEW a \in Addr, SysCreateDesktop(a) PROVE WindowsInv'
  <2>1. /\ Allocate(a, "desktop")
        /\ handles' = RegisterHandle(a, [kind |-> "desktop", id |-> serial])
        /\ windows' = windows /\ destroyed' = destroyed /\ live' = live
    BY <1>3 DEF SysCreateDesktop
  <2>2. /\ content' \in [Addr -> Objects] /\ free' \subseteq Addr /\ serial' \in Nat \ {0}
        /\ SerialsDiffer'
    BY <2>1, AllocationKeeps
  <2>3. handles' \in Seq(Registered) /\ HandlesNameTheirObject'
    BY <2>1, RegisteredHandle
  <2>4. WindowsTypes'
    BY <2>1, <2>2, <2>3 DEF WindowsTypes
  <2>5. EntriesLive'
    BY <2>1, EntriesSurviveAllocation DEF EntriesLive
  <2> QED
    BY <2>2, <2>3, <2>4, <2>5
<1>4. ASSUME NEW a \in Addr, SysCreateWindow(a) PROVE WindowsInv'
  <2>1. /\ Allocate(a, "window")
        /\ handles' = RegisterHandle(a, [kind |-> "window", id |-> serial])
        /\ destroyed' = destroyed
    BY <1>4 DEF SysCreateWindow
  <2>2. /\ content' \in [Addr -> Objects] /\ free' \subseteq Addr /\ serial' \in Nat \ {0}
        /\ SerialsDiffer' /\ a \notin free' /\ content'[a] = [kind |-> "window", id |-> serial]
    BY <2>1, AllocationKeeps
  <2>3. handles' \in Seq(Registered) /\ HandlesNameTheirObject'
    BY <2>1, RegisteredHandle
  <2>4. CASE windows' = windows /\ live' = live
    <3>1. WindowsTypes'
      BY <2>2, <2>3, <2>4 DEF WindowsTypes
    <3>2. EntriesLive'
      BY <2>1, <2>4, EntriesSurviveAllocation DEF EntriesLive
    <3> QED
      BY <2>2, <2>3, <3>1, <3>2
  <2>5. CASE /\ windows' = [windows EXCEPT ![content[desktop].id] = AddBack(@, a)]
             /\ live' = live \cup {serial}
    <3> DEFINE d == content[desktop].id
    <3>1. windows \in [1 .. MaxObjects -> Seq(Addr)]
      BY DEF WindowsTypes
    <3>2. windows' = [windows EXCEPT ![d] = Append(windows[d], a)]
      BY <2>5 DEF AddBack
    <3> HIDE DEF d
    <3>3. \A s \in 1 .. MaxObjects :
            windows'[s] = IF s = d THEN Append(windows[s], a) ELSE windows[s]
      BY <3>1, <3>2
    <3>4. windows' \in [1 .. MaxObjects -> Seq(Addr)]
      <4>1. ASSUME NEW s \in 1 .. MaxObjects PROVE windows'[s] \in Seq(Addr)
        <5>1. windows[s] \in Seq(Addr) /\ Append(windows[s], a) \in Seq(Addr)
          BY <3>1
        <5> QED
          BY <3>3, <5>1
      <4> QED
        BY <3>1, <3>2, <4>1
    <3>5. WindowsTypes'
      BY <2>2, <2>3, <3>4 DEF WindowsTypes
    <3>6. ASSUME NEW s \in 1 .. MaxObjects, NEW j \in 1 .. Len(windows'[s])
          PROVE  \/ windows'[s][j] \in destroyed'
                 \/ /\ content'[windows'[s][j]].kind = "window"
                    /\ content'[windows'[s][j]].id \in live'
                    /\ windows'[s][j] \notin free'
      <4>0. /\ windows[s] \in Seq(Addr)
            /\ windows'[s] = Append(windows[s], a) \/ windows'[s] = windows[s]
        BY <3>1, <3>3
      <4>1. CASE j \in 1 .. Len(windows[s])
        <5>1. windows'[s][j] = windows[s][j]
          BY <4>0, <4>1
        <5>2. \/ windows[s][j] \in destroyed'
              \/ /\ content'[windows[s][j]].kind = "window"
                 /\ content'[windows[s][j]].id \in live
                 /\ windows[s][j] \notin free'
          BY <2>1, <4>1, EntriesSurviveAllocation
        <5> QED
          BY <2>5, <5>1, <5>2
      <4>2. CASE j \notin 1 .. Len(windows[s])
        <5>1. windows'[s][j] = a
          BY <4>0, <4>2
        <5> QED
          BY <2>2, <2>5, <5>1
      <4> QED
        BY <4>1, <4>2
    <3>7. EntriesLive'
      BY <3>6 DEF EntriesLive
    <3> QED
      BY <2>2, <2>3, <3>5, <3>7
  <2> QED
    BY <1>4, <2>4, <2>5 DEF SysCreateWindow
<1>5. ASSUME NEW a \in Addr, SysDestroyWindow(a) PROVE WindowsInv'
  <2>1. /\ destroyed' = destroyed \cup {a}
        /\ UNCHANGED <<content, handles, serial>>
    BY <1>5 DEF SysDestroyWindow
  <2>2. SerialsDiffer'
    BY <2>1 DEF SerialsDiffer
  <2>3. CASE UNCHANGED <<free, windows, live>>
    BY <2>1, <2>2, <2>3 DEF WindowsTypes, HandlesNameTheirObject, EntriesLive
  <2>4. CASE /\ windows' = [windows EXCEPT ![content[desktop].id] = WithoutWindow(@, a)]
             /\ free' = free \cup Freed(a)
             /\ live' = live \ {content[a].id}
    <3>1. windows' = windows /\ free' = free \cup {a}
      BY <2>4 DEF WithoutWindow, Freed, WindowsTypes
    <3>2. WindowsTypes'
      BY <2>1, <3>1 DEF WindowsTypes
    <3>3. HandlesNameTheirObject'
      BY <2>1, <3>1 DEF HandlesNameTheirObject
    <3>4. EntriesLive'
      <4> SUFFICES ASSUME NEW s \in 1 .. MaxObjects, NEW j \in 1 .. Len(windows[s]),
                          windows[s][j] \notin destroyed, windows[s][j] # a
                   PROVE  /\ content[windows[s][j]].kind = "window"
                          /\ content[windows[s][j]].id \in live'
                          /\ windows[s][j] \notin free'
        BY <2>1, <3>1 DEF EntriesLive
      <4> DEFINE b == windows[s][j]
      <4>1. b \in Addr
        BY DEF WindowsTypes
      <4>2. content[b].kind = "window" /\ content[b].id \in live /\ b \notin free
        BY DEF EntriesLive
      <4>3. content[b].id > 0
        BY <4>1, <4>2 DEF SerialsDiffer
      <4>4. content[b].id # content[a].id
        BY <4>1, <4>3 DEF SerialsDiffer
      <4> QED
        BY <2>4, <3>1, <4>2, <4>4
    <3> QED
      BY <2>2, <3>2, <3>3, <3>4
  <2> QED
    BY <1>5, <2>3, <2>4 DEF SysDestroyWindow
<1>6. CASE UNCHANGED <<content, free, handles, windows, serial, destroyed, live>>
  BY <1>6 DEF WindowsTypes, SerialsDiffer, HandlesNameTheirObject, EntriesLive
<1> QED
  BY <1>1, <1>2, <1>3, <1>4, <1>5, <1>6
  DEF WindowsNext, windowsVars, UseHandle, SysDesktopGetWindow

\* However the heap is used around them, handles and entries of the lists go
\* stale only by being destroyed themselves.
THEOREM StaleByDestruction == WindowsSpec => []StaleOnlyByDestruction
<1>1. WindowsInv => StaleOnlyByDestruction
  BY DEF WindowsInv, HandlesNameTheirObject, EntriesLive, StaleOnlyByDestruction
<1> QED
  BY <1>1, WindowsInitInv, WindowsStepInv, PTL DEF WindowsSpec

-----------------------------------------------------------------------------
(* FileTable.                                                              *)

Node == Files \cup TerminalFile \cup {NULL}
Slaves == {Slave(t) : t \in Terminal}
Opening == [fd : Nat, node : Files]

\* What the descriptors of a process are: standard ones, which are all from
\* one set, and behind them the files it opened, also the closed ones; the
\* numbers still open are positions there.
Described(fds, op, standard) ==
  /\ fds \in Seq(Node) /\ Len(fds) >= 3
  /\ \A j \in 1 .. 3 : fds[j] \in standard
  /\ \A j \in 4 .. Len(fds) : fds[j] \in Files
  /\ op \subseteq Opening
  /\ \A o \in op : o.fd \in 3 .. (Len(fds) - 1) /\ fds[o.fd + 1] = o.node

\* What the standard descriptors of a process may be.
Standard(p) == IF p \in heirs THEN Slaves ELSE {NULL}

\* The inductive invariant of both properties.
FileInv ==
  /\ ptys \in Nat
  /\ fileDescriptors \in [PID -> Seq(Node)]
  /\ opened \in [PID -> SUBSET Opening]
  /\ heirs \subseteq PID
  /\ nextPID \in Nat
  /\ \A p \in PID : p >= nextPID =>
       fileDescriptors[p] = <<>> /\ opened[p] = {} /\ p \notin heirs
  /\ \A p \in Alive : Described(fileDescriptors[p], opened[p], Standard(p))
  /\ crashed # NULL => crashed \in heirs

\* The kinds of nodes are different.
LEMMA NodesDiffer ==
  /\ NULL \notin Files /\ NULL \notin TerminalFile /\ Files \cap TerminalFile = {}
  /\ Slaves \subseteq TerminalFile
BY FileAssumption DEF Slaves, TerminalFile

\* The three reserved descriptors of a new process.
LEMMA NewDescribed ==
  /\ NewDescriptors \in Seq(Node) /\ NewDescriptors # <<>>
  /\ Described(NewDescriptors, {}, {NULL})
<1>1. NewDescriptors \in Seq(Node) /\ Len(NewDescriptors) = 3
  BY DEF NewDescriptors, Node
<1>2. \A j \in 1 .. 3 : NewDescriptors[j] = NULL
  BY DEF NewDescriptors
<1>3. NewDescriptors # <<>>
  BY <1>1
<1>4. \A j \in 4 .. Len(NewDescriptors) : NewDescriptors[j] \in Files
  BY <1>1
<1> QED
  BY <1>1, <1>2, <1>3, <1>4 DEF Described

\* One more file, under the next number.
LEMMA OpenDescribed ==
  ASSUME NEW fds, NEW op, NEW st, Described(fds, op, st), NEW file \in Files
  PROVE  /\ Append(fds, file) \in Seq(Node) /\ Append(fds, file) # <<>>
         /\ op \cup {[fd |-> Len(fds), node |-> file]} \subseteq Opening
         /\ Described(Append(fds, file), op \cup {[fd |-> Len(fds), node |-> file]}, st)
<1> DEFINE n == Len(fds)
           new == [fd |-> n, node |-> file]
           fds2 == Append(fds, file)
           op2 == op \cup {new}
<1>1. fds \in Seq(Node) /\ n \in Nat /\ n >= 3 /\ file \in Node
  BY DEF Described, Node
<1>2. /\ fds2 \in Seq(Node) /\ Len(fds2) = n + 1 /\ fds2[n + 1] = file
      /\ \A j \in 1 .. n : fds2[j] = fds[j]
  BY <1>1
<1>3. new \in Opening /\ new.fd = n /\ new.node = file /\ op \subseteq Opening
  BY <1>1 DEF Opening, Described
<1> HIDE DEF fds2
<1>4. \A j \in 1 .. 3 : fds2[j] \in st
  BY <1>1, <1>2 DEF Described
<1>5. ASSUME NEW j \in 4 .. Len(fds2) PROVE fds2[j] \in Files
  <2>1. CASE j \in 4 .. n
    BY <1>1, <1>2, <2>1 DEF Described
  <2>2. CASE j = n + 1
    BY <1>1, <1>2, <2>2
  <2> QED
    BY <1>1, <1>2, <2>1, <2>2
<1> HIDE DEF new
<1>6. ASSUME NEW o \in op2 PROVE o.fd \in 3 .. (Len(fds2) - 1) /\ fds2[o.fd + 1] = o.node
  <2>1. CASE o \in op
    <3>1. o.fd \in 3 .. (n - 1) /\ fds[o.fd + 1] = o.node
      BY <2>1 DEF Described
    <3> QED
      BY <1>1, <1>2, <3>1
  <2>2. CASE o = new
    BY <1>1, <1>2, <1>3, <2>2
  <2> QED
    BY <2>1, <2>2
<1>7. fds2 # <<>> /\ op2 \subseteq Opening /\ Len(fds2) >= 3
  BY <1>1, <1>2, <1>3
<1> HIDE DEF op2, n
<1>9. Described(fds2, op2, st)
  BY <1>2, <1>4, <1>5, <1>6, <1>7 DEF Described
<1> QED
  BY <1>2, <1>7, <1>9 DEF fds2, op2, new, n

\* A terminal takes the place of the standard descriptors.
LEMMA GrantDescribed ==
  ASSUME NEW fds, NEW op, NEW st, Described(fds, op, st), NEW t \in Terminal
  PROVE  /\ WithTerminal(fds, t) \in Seq(Node) /\ WithTerminal(fds, t) # <<>>
         /\ Described(WithTerminal(fds, t), op, Slaves)
<1> DEFINE n == Len(fds)
           fds2 == WithTerminal(fds, t)
<1>1. fds \in Seq(Node) /\ n \in Nat /\ n >= 3
  BY DEF Described
<1>2. Slave(t) \in Slaves /\ Slave(t) \in Node
  BY NodesDiffer DEF Slaves, Node
<1>3. \A j \in 1 .. n : fds2[j] = IF j \in 1 .. 3 THEN Slave(t) ELSE fds[j]
  BY <1>1 DEF WithTerminal
<1>4. fds2 \in Seq(Node) /\ Len(fds2) = n
  <2>1. DOMAIN fds2 = 1 .. n /\ fds2 = [j \in 1 .. n |-> fds2[j]]
    BY <1>1 DEF WithTerminal
  <2>2. \A j \in 1 .. n : fds2[j] \in Node
    BY <1>1, <1>2, <1>3
  <2> HIDE DEF fds2, n
  <2>3. fds2 \in [1 .. n -> Node]
    BY <2>1, <2>2
  <2> QED
    BY <1>1, <2>3
<1> HIDE DEF fds2
<1>5. \A j \in 1 .. 3 : fds2[j] \in Slaves
  BY <1>1, <1>2, <1>3
<1>6. \A j \in 4 .. Len(fds2) : fds2[j] \in Files
  BY <1>1, <1>3, <1>4 DEF Described
<1>7. \A o \in op : o.fd \in 3 .. (Len(fds2) - 1) /\ fds2[o.fd + 1] = o.node
  <2> TAKE o \in op
  <2>1. o.fd \in 3 .. (n - 1) /\ fds[o.fd + 1] = o.node
    BY DEF Described
  <2> QED
    BY <1>1, <1>3, <1>4, <2>1
<1>9. op \subseteq Opening /\ Len(fds2) >= 3 /\ fds2 # <<>>
  BY <1>1, <1>4 DEF Described
<1>10. Described(fds2, op, Slaves)
  BY <1>4, <1>5, <1>6, <1>7, <1>9 DEF Described
<1> QED
  BY <1>4, <1>9, <1>10 DEF fds2

\* The first process has its three descriptors, and there are no terminals.
LEMMA FileInitInv == Init => FileInv
<1> SUFFICES ASSUME Init PROVE FileInv
  OBVIOUS
<1>1. 1 \in PID /\ \A p \in PID : p >= 2 => p # 1
  BY FileAssumption DEF PID
<1>2. /\ fileDescriptors = [p \in PID |-> IF p = 1 THEN NewDescriptors ELSE <<>>]
      /\ opened = [p \in PID |-> {}]
      /\ heirs = {} /\ nextPID = 2 /\ crashed = NULL
      /\ ptys = 0
  BY DEF Init, PtyInit
<1>3. fileDescriptors \in [PID -> Seq(Node)]
  BY <1>2, NewDescribed
<1>4. \A p \in Alive : Described(fileDescriptors[p], opened[p], Standard(p))
  <2> TAKE p \in Alive
  <2>1. p = 1 /\ fileDescriptors[p] = NewDescriptors /\ opened[p] = {}
    BY <1>1, <1>2 DEF Alive
  <2>2. Standard(p) = {NULL}
    BY <1>2 DEF Standard
  <2> QED
    BY <2>1, <2>2, NewDescribed
<1> QED
  BY <1>1, <1>2, <1>3, <1>4 DEF FileInv

\* A step that changes the descriptors of one process and nobody's terminal.
LEMMA OneProcessChanges ==
  ASSUME FileInv, NEW q \in PID, NEW fds \in Seq(Node), NEW op \in SUBSET Opening,
         fileDescriptors' = [fileDescriptors EXCEPT ![q] = fds],
         opened' = [opened EXCEPT ![q] = op],
         heirs \subseteq heirs', heirs' \subseteq heirs \cup {q},
         ptys' \in Nat,
         nextPID' \in Nat, nextPID' >= nextPID, q < nextPID',
         fds # <<>> => Described(fds, op, IF q \in heirs' THEN Slaves ELSE {NULL}),
         crashed' # NULL => crashed' \in heirs'
  PROVE  FileInv'
<1>1. /\ fileDescriptors \in [PID -> Seq(Node)] /\ opened \in [PID -> SUBSET Opening]
      /\ heirs \subseteq PID /\ nextPID \in Nat
  BY DEF FileInv
<1>2. /\ fileDescriptors' \in [PID -> Seq(Node)] /\ opened' \in [PID -> SUBSET Opening]
      /\ heirs' \subseteq PID
  BY <1>1
<1>3. /\ fileDescriptors'[q] = fds /\ opened'[q] = op
      /\ \A p \in PID : p # q =>
           /\ fileDescriptors'[p] = fileDescriptors[p]
           /\ opened'[p] = opened[p]
           /\ p \in heirs' <=> p \in heirs
  BY <1>1
<1>4. ASSUME NEW p \in PID, p >= nextPID'
      PROVE  fileDescriptors'[p] = <<>> /\ opened'[p] = {} /\ p \notin heirs'
  <2>1. p # q /\ p >= nextPID
    BY <1>1, <1>4, FileAssumption DEF PID
  <2> QED
    BY <1>3, <2>1 DEF FileInv
<1>5. ASSUME NEW p \in PID, fileDescriptors'[p] # <<>>
      PROVE  Described(fileDescriptors'[p], opened'[p], Standard(p)')
  <2>1. CASE p = q
    BY <1>3, <1>5, <2>1 DEF Standard
  <2>2. CASE p # q
    <3>1. p \in Alive /\ Standard(p)' = Standard(p)
      BY <1>3, <1>5, <2>2 DEF Alive, Standard
    <3>2. Described(fileDescriptors[p], opened[p], Standard(p))
      BY <3>1, Zenon DEF FileInv
    <3> QED
      BY <1>3, <2>2, <3>1, <3>2, Zenon
  <2> QED
    BY <2>1, <2>2
<1>6. \A p \in Alive' : Described(fileDescriptors[p], opened[p], Standard(p))'
  BY <1>5 DEF Alive, Described
<1> QED
  BY <1>1, <1>2, <1>4, <1>6 DEF FileInv

\* The same when only the buffers of terminals change.
LEMMA OnlyBuffersChange ==
  ASSUME FileInv, UNCHANGED fileVars, ptys' = ptys
  PROVE  FileInv'
<1>1. Alive' = Alive /\ \A p : Standard(p)' = Standard(p)
  BY DEF fileVars, Alive, Standard
<1> QED
  BY <1>1 DEF FileInv, fileVars, Described

\* The processes with a terminal are the ones whose exit would crash.
LEMMA TerminalAtExit ==
  ASSUME FileInv, NEW p \in Alive
  PROVE  p \in heirs <=> ClosedOnExit(fileDescriptors[p]) \cap TerminalFile # {}
<1> DEFINE fds == fileDescriptors[p]
<1>1. Described(fds, opened[p], Standard(p))
  BY Zenon DEF FileInv
<1> HIDE DEF fds
<1>2. CASE p \in heirs
  <2>1. fds[1] \in Slaves /\ 1 \in 1 .. Len(fds)
    BY <1>1, <1>2 DEF Described, Standard
  <2>2. fds[1] \in ClosedOnExit(fds) /\ fds[1] \in TerminalFile
    BY <2>1, NodesDiffer DEF ClosedOnExit
  <2> QED
    BY <1>2, <2>2 DEF fds
<1>3. CASE p \notin heirs
  <2>1. \A j \in 1 .. Len(fds) : fds[j] = NULL \/ fds[j] \in Files
    <3> TAKE j \in 1 .. Len(fds)
    <3>1. j \in 1 .. 3 \/ j \in 4 .. Len(fds)
      BY <1>1 DEF Described
    <3> QED
      BY <1>1, <1>3, <3>1 DEF Described, Standard
  <2>2. ClosedOnExit(fds) \subseteq Files
    BY <2>1 DEF ClosedOnExit
  <2> QED
    BY <1>3, <2>2, NodesDiffer DEF fds
<1> QED
  BY <1>2, <1>3

\* Every system call keeps the invariant.
LEMMA FileStepInv == FileInv /\ [Next]_vars => FileInv'
<1> SUFFICES ASSUME FileInv, [Next]_vars PROVE FileInv'
  OBVIOUS
<1>1. /\ fileDescriptors \in [PID -> Seq(Node)] /\ opened \in [PID -> SUBSET Opening]
      /\ ptys \in Nat /\ nextPID \in Nat
      /\ crashed # NULL => crashed \in heirs
  BY DEF FileInv
<1>2. ASSUME NEW p \in Alive
      PROVE  /\ p \in PID /\ p < nextPID
             /\ fileDescriptors[p] \in Seq(Node) /\ fileDescriptors[p] # <<>>
             /\ opened[p] \in SUBSET Opening
             /\ Described(fileDescriptors[p], opened[p],
                          IF p \in heirs THEN Slaves ELSE {NULL})
             /\ fileDescriptors = [fileDescriptors EXCEPT ![p] = fileDescriptors[p]]
             /\ opened = [opened EXCEPT ![p] = opened[p]]
  <2>1. p \in PID /\ fileDescriptors[p] # <<>>
    BY DEF Alive
  <2>2. p < nextPID
    <3>1. p \in Nat
      BY <2>1, FileAssumption DEF PID
    <3> QED
      BY <1>1, <2>1, <3>1 DEF FileInv
  <2>3. Described(fileDescriptors[p], opened[p],
                  IF p \in heirs THEN Slaves ELSE {NULL})
    BY Zenon DEF FileInv, Standard
  <2>4. /\ fileDescriptors[p] \in Seq(Node) /\ opened[p] \in SUBSET Opening
        /\ fileDescriptors = [fileDescriptors EXCEPT ![p] = fileDescriptors[p]]
        /\ opened = [opened EXCEPT ![p] = opened[p]]
    BY <1>1, <2>1
  <2> QED
    BY <2>1, <2>2, <2>3, <2>4
<1>3. ASSUME NEW p \in Alive, NEW file \in Files, SysOpen(p, file) PROVE FileInv'
  <2> DEFINE fds == Append(fileDescriptors[p], file)
             op == opened[p] \cup {[fd |-> Len(fileDescriptors[p]), node |-> file]}
  <2>1. /\ fileDescriptors' = [fileDescriptors EXCEPT ![p] = fds]
        /\ opened' = [opened EXCEPT ![p] = op]
        /\ heirs' = heirs /\ nextPID' = nextPID /\ crashed' = crashed
        /\ ptys' = ptys
    BY <1>3 DEF SysOpen, NewNumber, ptyVars
  <2>2. /\ fds \in Seq(Node) /\ op \in SUBSET Opening
        /\ Described(fds, op, IF p \in heirs' THEN Slaves ELSE {NULL})
    BY <1>2, <2>1, OpenDescribed
  <2>4. p \in PID /\ p < nextPID
    BY <1>2, <2>1
  <2>3. /\ heirs \subseteq heirs' /\ heirs' \subseteq heirs \cup {p}
        /\ ptys' \in Nat /\ nextPID' \in Nat /\ nextPID' >= nextPID /\ p < nextPID'
        /\ crashed' # NULL => crashed' \in heirs'
    BY ONLY <1>1, <2>1, <2>4
  <2> HIDE DEF fds, op
  <2> QED
    BY <2>1, <2>2, <2>3, <2>4, OneProcessChanges
<1>4. ASSUME NEW p \in Alive, NEW fd \in 0 .. MaxFds, SysClose(p, fd) PROVE FileInv'
  <2> DEFINE fds == fileDescriptors[p]
             op == {o \in opened[p] : o.fd # fd}
  <2>1. /\ fileDescriptors' = fileDescriptors
        /\ opened' = [opened EXCEPT ![p] = op]
        /\ heirs' = heirs /\ nextPID' = nextPID /\ crashed' = crashed
        /\ ptys' = ptys
    BY <1>4 DEF SysClose, ptyVars
  <2>2. /\ fds \in Seq(Node) /\ op \in SUBSET Opening
        /\ fileDescriptors' = [fileDescriptors EXCEPT ![p] = fds]
        /\ p \in PID /\ p < nextPID
    BY <1>2, <2>1
  <2>3. Described(fds, op, IF p \in heirs' THEN Slaves ELSE {NULL})
    <3>1. Described(fds, opened[p], IF p \in heirs' THEN Slaves ELSE {NULL})
      BY <1>2, <2>1
    <3> QED
      BY <3>1 DEF Described
  <2>4. /\ heirs \subseteq heirs' /\ heirs' \subseteq heirs \cup {p}
        /\ ptys' \in Nat /\ nextPID' \in Nat /\ nextPID' >= nextPID /\ p < nextPID'
        /\ crashed' # NULL => crashed' \in heirs'
    BY ONLY <1>1, <2>1, <2>2
  <2> HIDE DEF fds, op
  <2> QED
    BY <2>1, <2>2, <2>3, <2>4, OneProcessChanges
<1>5. ASSUME NEW p \in Alive, NEW fd \in 0 .. MaxFds, NEW n \in 1 .. MaxChunk, SysRead(p, fd, n)
      PROVE  FileInv'
  <2>1. UNCHANGED fileVars /\ ptys' = ptys
    BY <1>5 DEF SysRead, Slave_Read, FS_Master_Read
  <2> QED
    BY <2>1, OnlyBuffersChange
<1>6. ASSUME NEW p \in Alive, NEW fd \in 0 .. MaxFds, NEW chunk \in Chunk, SysWrite(p, fd, chunk)
      PROVE  FileInv'
  <2>1. UNCHANGED fileVars /\ ptys' = ptys
    BY <1>6 DEF SysWrite, FS_Slave_Write, FS_Master_Write
  <2> QED
    BY <2>1, OnlyBuffersChange
<1>7. ASSUME NEW p \in Alive, SysGrantPty(p) PROVE FileInv'
  <2> DEFINE fds == WithTerminal(fileDescriptors[p], ptys)
             op == opened[p]
  <2>1. /\ fileDescriptors' = [fileDescriptors EXCEPT ![p] = fds]
        /\ opened' = opened /\ heirs' = heirs \cup {p} /\ nextPID' = nextPID /\ crashed' = crashed
        /\ ptys < MaxPty /\ ptys' = ptys + 1
    BY <1>7 DEF SysGrantPty, GrantPTY
  <2>2. ptys \in Terminal /\ ptys' \in Nat
    BY <1>1, <2>1, PtyAssumption DEF Terminal
  <2>4. fds \in Seq(Node) /\ Described(fds, op, Slaves)
    BY <1>2, <2>2, GrantDescribed
  <2>6. /\ opened' = [opened EXCEPT ![p] = op] /\ op \in SUBSET Opening
        /\ p \in PID /\ p < nextPID
    BY <1>2, <2>1
  <2>5. /\ heirs \subseteq heirs' /\ heirs' \subseteq heirs \cup {p} /\ p \in heirs'
        /\ nextPID' \in Nat /\ nextPID' >= nextPID /\ p < nextPID'
        /\ crashed' # NULL => crashed' \in heirs'
    BY ONLY <1>1, <2>1, <2>6
  <2> HIDE DEF fds, op
  <2> QED
    BY <2>1, <2>2, <2>4, <2>5, <2>6, OneProcessChanges
<1>8. ASSUME NEW p \in Alive, SysForkExec(p) PROVE FileInv'
  <2> DEFINE fds == fileDescriptors[p]
             op == opened[p]
  <2>1. /\ fileDescriptors' = [fileDescriptors EXCEPT ![nextPID] = fds]
        /\ opened' = [opened EXCEPT ![nextPID] = op]
        /\ heirs' = IF p \in heirs THEN heirs \cup {nextPID} ELSE heirs
        /\ nextPID' = nextPID + 1 /\ crashed' = crashed
        /\ ptys' = ptys /\ nextPID \in PID
    BY <1>8 DEF SysForkExec, Inherited, ptyVars
  <2>2. nextPID \notin heirs
    BY <1>1, <2>1 DEF FileInv
  <2>3. nextPID \in heirs' <=> p \in heirs
    BY <2>1, <2>2
  <2>4. /\ fds \in Seq(Node) /\ op \in SUBSET Opening
        /\ Described(fds, op, IF nextPID \in heirs' THEN Slaves ELSE {NULL})
    <3>1. Described(fds, op, IF p \in heirs THEN Slaves ELSE {NULL})
      BY <1>2
    <3>2. (IF nextPID \in heirs' THEN Slaves ELSE {NULL}) = IF p \in heirs THEN Slaves ELSE {NULL}
      BY <2>3
    <3> QED
      BY <1>2, <3>1, <3>2
  <2>5. /\ heirs \subseteq heirs' /\ heirs' \subseteq heirs \cup {nextPID}
        /\ ptys' \in Nat /\ nextPID' \in Nat /\ nextPID' >= nextPID /\ nextPID < nextPID'
        /\ crashed' # NULL => crashed' \in heirs'
    BY <1>1, <2>1
  <2> HIDE DEF fds, op
  <2> QED
    BY <2>1, <2>4, <2>5, OneProcessChanges
<1>9. ASSUME NEW p \in Alive, SysExec(p) PROVE FileInv'
  <2>1. /\ fileDescriptors' = [fileDescriptors EXCEPT ![nextPID] = NewDescriptors]
        /\ opened' = opened /\ heirs' = heirs
        /\ nextPID' = nextPID + 1 /\ crashed' = crashed
        /\ ptys' = ptys /\ nextPID \in PID
    BY <1>9 DEF SysExec, ptyVars
  <2>2. nextPID \notin heirs /\ opened[nextPID] = {}
    BY <1>1, <2>1 DEF FileInv
  <2>3. /\ opened' = [opened EXCEPT ![nextPID] = {}]
    BY <1>1, <2>1, <2>2
  <2>4. /\ NewDescriptors \in Seq(Node) /\ {} \in SUBSET Opening
        /\ Described(NewDescriptors, {}, IF nextPID \in heirs' THEN Slaves ELSE {NULL})
    BY <2>1, <2>2, NewDescribed
  <2>5. /\ heirs \subseteq heirs' /\ heirs' \subseteq heirs \cup {nextPID}
        /\ ptys' \in Nat /\ nextPID' \in Nat /\ nextPID' >= nextPID /\ nextPID < nextPID'
        /\ crashed' # NULL => crashed' \in heirs'
    BY <1>1, <2>1
  <2> QED
    BY <2>1, <2>3, <2>4, <2>5, OneProcessChanges
<1>10. ASSUME NEW p \in Alive, SysExit(p) PROVE FileInv'
  <2>1. heirs' = heirs /\ nextPID' = nextPID /\ ptys' = ptys
    BY <1>10 DEF SysExit, ptyVars
  <2>2. CASE ClosedOnExit(fileDescriptors[p]) \cap TerminalFile = {}
    <3>1. /\ fileDescriptors' = [fileDescriptors EXCEPT ![p] = <<>>]
          /\ opened' = [opened EXCEPT ![p] = {}]
          /\ crashed' = crashed
      BY <1>10, <2>2 DEF SysExit
    <3>2. <<>> \in Seq(Node) /\ {} \in SUBSET Opening
      OBVIOUS
    <3>4. p \in PID /\ p < nextPID
      BY <1>2
    <3>3. /\ heirs \subseteq heirs' /\ heirs' \subseteq heirs \cup {p}
          /\ ptys' \in Nat /\ nextPID' \in Nat /\ nextPID' >= nextPID /\ p < nextPID'
          /\ crashed' # NULL => crashed' \in heirs'
      BY ONLY <1>1, <2>1, <3>1, <3>4
    <3> QED
      BY <2>1, <3>1, <3>2, <3>3, <3>4, OneProcessChanges
  <2>3. CASE ~(ClosedOnExit(fileDescriptors[p]) \cap TerminalFile = {})
    <3>1. crashed' = p /\ UNCHANGED <<fileDescriptors, opened>>
      BY <1>10, <2>3 DEF SysExit
    <3>2. p \in heirs
      BY <2>3, TerminalAtExit
    <3>6. p \in PID /\ p < nextPID
      BY <1>2
    <3>3. /\ heirs \subseteq heirs' /\ heirs' \subseteq heirs \cup {p}
          /\ ptys' \in Nat /\ nextPID' \in Nat /\ nextPID' >= nextPID /\ p < nextPID'
          /\ crashed' # NULL => crashed' \in heirs'
      BY ONLY <1>1, <2>1, <3>1, <3>2, <3>6
    <3>4. Described(fileDescriptors[p], opened[p],
                    IF p \in heirs' THEN Slaves ELSE {NULL})
      BY <1>2, <2>1
    <3> DEFINE fds == fileDescriptors[p]
               op == opened[p]
    <3>5. /\ fileDescriptors' = [fileDescriptors EXCEPT ![p] = fds]
          /\ opened' = [opened EXCEPT ![p] = op]
          /\ fds \in Seq(Node) /\ op \in SUBSET Opening
      BY <1>2, <3>1
    <3> HIDE DEF fds, op
    <3> QED
      BY <2>1, <3>3, <3>4, <3>5, <3>6, OneProcessChanges DEF fds, op
  <2> QED
    BY <2>2, <2>3
<1>11. CASE UNCHANGED vars
  BY <1>11, OnlyBuffersChange DEF vars, ptyVars
<1> QED
  BY <1>3, <1>4, <1>5, <1>6, <1>7, <1>8, <1>9, <1>10, <1>11 DEF Next

\* So the invariant holds of every state a run of system calls reaches.
LEMMA FileInvariance == Spec => []FileInv
<1>1. Init => FileInv
  BY FileInitInv
<1>2. FileInv /\ [Next]_vars => FileInv'
  BY FileStepInv
<1> QED
  BY <1>1, <1>2, PTL DEF Spec

\* A number SysOpen returned names what was opened until the process closes
\* it, in the caller and in all its heirs, whatever is opened, granted, forked
\* or closed in between, and two open numbers of a process are never equal
\* (SysOpen, SysClose, SysGrantPty, SysForkExec).
THEOREM NumbersKept == Spec => []NumbersKeepTheirNode
<1>1. FileInv => NumbersKeepTheirNode
  <2> SUFFICES ASSUME FileInv, NEW p \in Alive, NEW o \in opened[p]
               PROVE  /\ Descriptor(p, o.fd) = o.node
                      /\ \A q \in opened[p] : o.fd = q.fd => o = q
    BY DEF NumbersKeepTheirNode
  <2>1. Described(fileDescriptors[p], opened[p], Standard(p))
    BY Zenon DEF FileInv
  <2>2. /\ Len(fileDescriptors[p]) \in Nat /\ opened[p] \subseteq Opening
        /\ \A q \in opened[p] : /\ q.fd \in 3 .. (Len(fileDescriptors[p]) - 1)
                               /\ fileDescriptors[p][q.fd + 1] = q.node
    BY <2>1 DEF Described
  <2>3. \A q \in opened[p] : q = [fd |-> q.fd, node |-> q.node]
    BY <2>2 DEF Opening
  <2>4. o.fd < Len(fileDescriptors[p])
    BY <2>2
  <2>5. Descriptor(p, o.fd) = o.node
    BY <2>2, <2>4 DEF Descriptor
  <2>6. \A q \in opened[p] : o.fd = q.fd => o = q
    BY <2>2, <2>3
  <2> QED
    BY <2>5, <2>6
<1> QED
  BY <1>1, FileInvariance, PTL

\* Exactly the processes that have a terminal, granted or inherited, crash
\* when they exit (EndProcess calls a null close pointer).
THEOREM ExitCrashes == Spec => []ExitCrashesWithTerminal
<1>1. FileInv => ExitCrashesWithTerminal
  <2> SUFFICES ASSUME FileInv PROVE ExitCrashesWithTerminal
    OBVIOUS
  <2>1. crashed # NULL => crashed \in heirs
    BY DEF FileInv
  <2>2. \A p \in Alive : p \in heirs <=> ClosedOnExit(fileDescriptors[p]) \cap TerminalFile # {}
    BY TerminalAtExit
  <2> QED
    BY <2>1, <2>2 DEF ExitCrashesWithTerminal
<1> QED
  BY <1>1, FileInvariance, PTL

=============================================================================
