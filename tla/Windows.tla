------------------------------- MODULE Windows -------------------------------
(***************************************************************************)
(* Handles, the desktop and its windows.  A handle is the address of the   *)
(* object; it is registered for ever.  Objects live in a heap that the     *)
(* rest of the kernel uses too, and an address is used again after it has  *)
(* been freed.                                                             *)
(*                                                                         *)
(* kmalloc and kfree (liballoc) are external: any free address is          *)
(* returned, a freed block keeps its content until it is used again, and   *)
(* freeing a free block does nothing.  So are SetDesktop and GetDesktop.   *)
(***************************************************************************)
EXTENDS Naturals, Sequences, FiniteSets, Null

CONSTANTS
  Addr,        \* addresses of heap blocks
  MaxObjects   \* bound: objects created

ASSUME WindowAssumption == NULL \notin Addr /\ MaxObjects \in Nat

VARIABLES
  content,    \* what was last put at each address: a kind and a serial number
  free,       \* addresses kmalloc may return
  handles,    \* Scheduler::handles: address and what it was registered for
  desktop,    \* the address in SetDesktop, or NULL
  windows,    \* the list of each desktop, by its serial number
  serial,     \* serial number of the next object
  wild,       \* a call has followed a pointer in memory that is something else
  destroyed,  \* history: addresses given to SysDestroyWindow
  live        \* history: windows created and not destroyed

windowsVars == <<content, free, handles, desktop, windows, serial, wild, destroyed, live>>

Nothing == [kind |-> "other", id |-> 0]

WindowsInit ==
  /\ content = [a \in Addr |-> Nothing]
  /\ free = Addr
  /\ handles = <<>>
  /\ desktop = NULL
  /\ windows = [s \in 1 .. MaxObjects |-> <<>>]
  /\ serial = 1
  /\ wild = FALSE
  /\ destroyed = {}
  /\ live = {}
-----------------------------------------------------------------------------
\* FindHandle(handle).handle is not null.
FindHandle(a) == \E i \in 1 .. Len(handles) : handles[i].handle = a

RegisterHandle(a, object) == Append(handles, [handle |-> a, object |-> object])

\* kmalloc, with what the caller puts into the block.
Allocate(a, kind) ==
  /\ a \in free
  /\ serial <= MaxObjects
  /\ free' = free \ {a}
  /\ content' = [content EXCEPT ![a] = [kind |-> kind, id |-> serial]]
  /\ serial' = serial + 1

\* The rest of the kernel allocates and frees.
OtherAllocates(a) ==
  /\ Allocate(a, "other")
  /\ UNCHANGED <<handles, desktop, windows, wild, destroyed, live>>

OtherFrees(a) ==
  /\ a \notin free /\ content[a].kind = "other"
  /\ free' = free \cup {a}
  /\ UNCHANGED <<content, handles, desktop, windows, serial, wild, destroyed, live>>

\* SysCreateDesktop: a second desktop takes the place of the first.
SysCreateDesktop(a) ==
  /\ Allocate(a, "desktop")
  /\ handles' = RegisterHandle(a, [kind |-> "desktop", id |-> serial])
  /\ desktop' = a
  /\ UNCHANGED <<windows, wild, destroyed, live>>

\* GetDesktop() -> windows is a list.
DesktopReadable == desktop # NULL /\ content'[desktop].kind = "desktop"

AddBack(list, a) == Append(list, a)

\* SysCreateWindow: the block and the handle come before the look at the
\* desktop, which may be missing or no longer there.
SysCreateWindow(a) ==
  /\ Allocate(a, "window")
  /\ handles' = RegisterHandle(a, [kind |-> "window", id |-> serial])
  /\ IF DesktopReadable
       THEN /\ windows' = [windows EXCEPT ![content[desktop].id] = AddBack(@, a)]
            /\ live' = live \cup {serial}
            /\ UNCHANGED wild
       ELSE wild' = TRUE /\ UNCHANGED <<windows, live>>
  /\ UNCHANGED <<desktop, destroyed>>

\* SysPaintDesktop, SysPaintWindow and SysCopyWindowSurface copy through the
\* object at any registered address, taken for what the call is about.
UseHandle(a, kind) ==
  /\ FindHandle(a)
  /\ wild' = (content[a].kind # kind)
  /\ UNCHANGED <<content, free, handles, desktop, windows, serial, destroyed, live>>

\* SysDesktopGetWindow reads the window at a position of the list.
SysDesktopGetWindow(i) ==
  /\ desktop # NULL
  /\ IF content[desktop].kind # "desktop" THEN wild' = TRUE
     ELSE LET list == windows[content[desktop].id] IN
          /\ i \in 1 .. Len(list)
          /\ wild' = (content[list[i]].kind # "window")
  /\ UNCHANGED <<content, free, handles, desktop, windows, serial, destroyed, live>>

\* remove_at takes nothing out of the list.
WithoutWindow(list, a) == list

\* Bug: every window is freed with the one that is destroyed.
FreesAllWindows(a) == {b \in Addr : content[b].kind = "window"}

\* The blocks SysDestroyWindow frees.
Freed(a) == {a}

\* SysDestroyWindow of any registered address: window or desktop, live or
\* not, and whatever is there now.
SysDestroyWindow(a) ==
  /\ FindHandle(a)
  /\ desktop # NULL
  /\ destroyed' = destroyed \cup {a}
  /\ IF content[desktop].kind # "desktop"
       THEN wild' = TRUE /\ UNCHANGED <<free, windows, live>>
       ELSE /\ windows' = [windows EXCEPT ![content[desktop].id] = WithoutWindow(@, a)]
            /\ free' = free \cup Freed(a)
            /\ live' = live \ {content[a].id}
            /\ UNCHANGED wild
  /\ UNCHANGED <<content, handles, desktop, serial>>

WindowsNext ==
  /\ ~wild
  /\ \/ \E a \in Addr : \/ OtherAllocates(a) \/ OtherFrees(a)
                        \/ SysCreateDesktop(a) \/ SysCreateWindow(a)
                        \/ SysDestroyWindow(a)
                        \/ \E kind \in {"desktop", "window"} : UseHandle(a, kind)
     \/ \E i \in 1 .. MaxObjects : SysDesktopGetWindow(i)

WindowsSpec == WindowsInit /\ [][WindowsNext]_windowsVars
-----------------------------------------------------------------------------
(* Properties.                                                             *)

\* Nothing goes stale but by being destroyed itself, whatever is created,
\* freed and destroyed around it: every other handle names the object it was
\* registered for, in memory that is not free (addresses are handles), and
\* every other entry of a list is a live window (remove_at leaves the entry,
\* and SysDesktopGetWindow reads what is there now).
StaleOnlyByDestruction ==
  /\ \A i \in 1 .. Len(handles) :
       handles[i].handle \notin destroyed =>
         /\ content[handles[i].handle] = handles[i].object
         /\ handles[i].handle \notin free
  /\ \A s \in 1 .. MaxObjects : \A i \in 1 .. Len(windows[s]) :
       LET a == windows[s][i] IN
       a \in destroyed \/ (content[a].kind = "window" /\ content[a].id \in live)
=============================================================================
