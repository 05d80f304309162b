------------------------------ MODULE FileTable ------------------------------
(***************************************************************************)
(* The file descriptors of processes and the system calls on them,         *)
(* composed with the pseudo terminals: what a number means to a process    *)
(* through opens, closes, terminals, forks and exits.                      *)
(*                                                                         *)
(* A system call is one step: it runs with interrupts off and the          *)
(* scheduler locked.  That includes Slave_Read, so while a program waits   *)
(* for input nothing else runs.  The nodes of the initial ramdisk are      *)
(* constants; SysLSeek, SysReadDir and SysRead of a file change nothing.   *)
(***************************************************************************)
EXTENDS Pty, Null

CONSTANTS
  Files,     \* what SysOpen can find: the root directory and plain files
  MaxPID,    \* bound: processes created
  MaxFds     \* bound: descriptors of a process

PID == 1 .. MaxPID
Slave(t) == [file |-> "slave", inode |-> t]
Master(t) == [file |-> "master", inode |-> t]
TerminalFile == {Slave(t) : t \in Terminal} \cup {Master(t) : t \in Terminal}

ASSUME FileAssumption ==
  /\ MaxPID \in Nat \ {0} /\ MaxFds \in Nat
  /\ NULL \notin Files \cup TerminalFile
  /\ Files \cap TerminalFile = {}

VARIABLES
  fileDescriptors,  \* per process, empty while it does not exist
  nextPID,
  crashed,          \* the process whose exit called a null pointer, or NULL
  opened,           \* history, per process: what SysOpen returned, until it is closed
  heirs             \* history: processes with a terminal, their own or inherited

fileVars == <<fileDescriptors, nextPID, crashed, opened, heirs>>
vars == <<ptyVars, fileVars>>

\* CreateProcess and LoadELF reserve three descriptors.
NewDescriptors == <<NULL, NULL, NULL>>

Alive == {p \in PID : fileDescriptors[p] # <<>>}

Init ==
  /\ PtyInit
  /\ fileDescriptors = [p \in PID |-> IF p = 1 THEN NewDescriptors ELSE <<>>]
  /\ nextPID = 2
  /\ crashed = NULL
  /\ opened = [p \in PID |-> {}]
  /\ heirs = {}
-----------------------------------------------------------------------------
\* List::get_at: the null pointer beyond the end.
Descriptor(p, fd) ==
  IF fd < Len(fileDescriptors[p]) THEN fileDescriptors[p][fd + 1] ELSE NULL

\* Bug: the length is read after the append.
CountsTheNewOne(fds) == Len(fds) + 1

\* The number of the next descriptor: get_length before add_back.
NewNumber(fds) == Len(fds)

\* SysOpen of "/" or of a file.  For any other directory nothing is appended,
\* and the number returned is whatever was in the variable; a missing file
\* returns 1.
SysOpen(p, file) ==
  /\ Len(fileDescriptors[p]) < MaxFds
  /\ fileDescriptors' = [fileDescriptors EXCEPT ![p] = Append(@, file)]
  /\ opened' = [opened EXCEPT ![p] = @ \cup {[fd |-> NewNumber(fileDescriptors[p]), node |-> file]}]
  /\ UNCHANGED <<ptyVars, nextPID, crashed, heirs>>

\* SysClose calls fs::Close on the node and leaves the list as it is.
SysClose(p, fd) ==
  /\ Descriptor(p, fd) # NULL
  /\ opened' = [opened EXCEPT ![p] = {o \in @ : o.fd # fd}]
  /\ UNCHANGED <<ptyVars, fileDescriptors, nextPID, crashed, heirs>>

\* While Slave_Read waits, with interrupts off, it keeps everybody else off
\* the processor (Stopped).
SysRead(p, fd, n) ==
  LET node == Descriptor(p, fd) IN
  /\ node \in TerminalFile
  /\ IF node.file = "slave" THEN Slave_Read(node.inode, n)
                            ELSE FS_Master_Read(node.inode, n)
  /\ UNCHANGED fileVars

SysWrite(p, fd, chunk) ==
  LET node == Descriptor(p, fd) IN
  /\ node \in TerminalFile
  /\ IF node.file = "slave" THEN FS_Slave_Write(node.inode, chunk)
                            ELSE FS_Master_Write(node.inode, chunk)
  /\ UNCHANGED fileVars

\* The three standard descriptors become the slave; the master, whose number
\* is returned, is not entered.
WithTerminal(fds, t) == [fds EXCEPT ![1] = Slave(t), ![2] = Slave(t), ![3] = Slave(t)]

SysGrantPty(p) ==
  /\ GrantPTY
  /\ fileDescriptors' = [fileDescriptors EXCEPT ![p] = WithTerminal(@, ptys)]
  /\ heirs' = heirs \cup {p}
  /\ UNCHANGED <<nextPID, crashed, opened>>

\* Bug: the child keeps the descriptors LoadELF gave it.
InheritsNothing(fds) == NewDescriptors

\* SysForkExec clears the child's list and copies the caller's into it.
Inherited(fds) == fds

SysForkExec(p) ==
  /\ nextPID \in PID
  /\ fileDescriptors' = [fileDescriptors EXCEPT ![nextPID] = Inherited(fileDescriptors[p])]
  /\ opened' = [opened EXCEPT ![nextPID] = opened[p]]
  /\ heirs' = IF p \in heirs THEN heirs \cup {nextPID} ELSE heirs
  /\ nextPID' = nextPID + 1
  /\ UNCHANGED <<ptyVars, crashed>>

\* SysExec: a new process with nothing but the reserved descriptors.
SysExec(p) ==
  /\ nextPID \in PID
  /\ fileDescriptors' = [fileDescriptors EXCEPT ![nextPID] = NewDescriptors]
  /\ nextPID' = nextPID + 1
  /\ UNCHANGED <<ptyVars, crashed, opened, heirs>>

\* The descriptors whose close function EndProcess calls.
ClosedOnExit(fds) == {fds[i] : i \in 1 .. Len(fds)} \ {NULL}

\* SysExit.  The close pointer of a terminal's file is null and EndProcess
\* calls it all the same.
SysExit(p) ==
  /\ IF ClosedOnExit(fileDescriptors[p]) \cap TerminalFile = {}
       THEN /\ fileDescriptors' = [fileDescriptors EXCEPT ![p] = <<>>]
            /\ opened' = [opened EXCEPT ![p] = {}]
            /\ UNCHANGED crashed
       ELSE /\ crashed' = p
            /\ UNCHANGED <<fileDescriptors, opened>>
  /\ UNCHANGED <<ptyVars, nextPID, heirs>>

\* After a crash, or while a program waits in Slave_Read, nobody runs.
Stopped == crashed # NULL \/ \E t \in Terminal : wanted[t] > 0

Next ==
  /\ ~Stopped
  /\ \E p \in Alive :
       \/ \E file \in Files : SysOpen(p, file)
       \/ \E fd \in 0 .. MaxFds : SysClose(p, fd)
       \/ \E fd \in 0 .. MaxFds, n \in 1 .. MaxChunk : SysRead(p, fd, n)
       \/ \E fd \in 0 .. MaxFds, chunk \in Chunk : SysWrite(p, fd, chunk)
       \/ SysGrantPty(p) \/ SysForkExec(p) \/ SysExec(p) \/ SysExit(p)

Spec == Init /\ [][Next]_vars
-----------------------------------------------------------------------------
(* Properties.                                                             *)

\* A number SysOpen returned names what was opened until the process closes
\* it, whatever is opened, closed or forked in between, by the process and by
\* those forked from it, and is no other file's number at the same time; a
\* terminal granted meanwhile takes no number but the reserved ones.
NumbersKeepTheirNode ==
  \A p \in Alive : \A o \in opened[p] :
    /\ Descriptor(p, o.fd) = o.node
    /\ \A q \in opened[p] : o.fd = q.fd => o = q

\* Exactly the processes with a terminal, their own or one that came down
\* through SysForkExec, crash when they exit (EndProcess calls close).
ExitCrashesWithTerminal ==
  /\ \A p \in Alive :
       p \in heirs <=> ClosedOnExit(fileDescriptors[p]) \cap TerminalFile # {}
  /\ crashed # NULL => crashed \in heirs
=============================================================================
