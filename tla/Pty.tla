--------------------------------- MODULE Pty ---------------------------------
(***************************************************************************)
(* Pseudo terminals (pty.cpp): each has a master buffer, which the         *)
(* terminal's owner reads, and a slave buffer, which programs read.  The   *)
(* operations are called by the system calls of FileTable.                 *)
(*                                                                         *)
(* CharacterBuffer has no body in the repository; it is taken to be a      *)
(* queue of characters that counts the newlines in it.                     *)
(***************************************************************************)
EXTENDS Integers, Sequences, FiniteSets

CONSTANTS
  MaxPty,     \* bound: terminals granted
  MaxChunk,   \* bound: characters of one write or read
  MaxBuffer   \* bound: characters kept in a buffer

ASSUME PtyAssumption == MaxPty \in Nat /\ MaxChunk \in Nat \ {0} /\ MaxBuffer \in Nat

Char == {"c", "newline"}
Chunk == UNION {[1 .. n -> Char] : n \in 1 .. MaxChunk}
Terminal == 0 .. (MaxPty - 1)

VARIABLES
  ptys,     \* how many terminals there are: the inode of the next one
  master,   \* characters for the reader of the master side
  slave,    \* characters for the reader of the slave side
  wanted    \* characters a program waits for in Slave_Read, 0 if none waits

ptyVars == <<ptys, master, slave, wanted>>

PtyInit ==
  /\ ptys = 0
  /\ master = [t \in Terminal |-> <<>>]
  /\ slave = [t \in Terminal |-> <<>>]
  /\ wanted = [t \in Terminal |-> 0]
-----------------------------------------------------------------------------
(* CharacterBuffer.                                                        *)

Lines(buffer) == Cardinality({i \in 1 .. Len(buffer) : buffer[i] = "newline"})

Write(buffer, chunk) == buffer \o chunk

Read(buffer, n) == SubSeq(buffer, n + 1, Len(buffer))

Room(buffer, chunk) == Len(buffer) + Len(chunk) <= MaxBuffer
-----------------------------------------------------------------------------
\* GrantPTY and the constructor: the terminal's inode is its index in ptys.
GrantPTY ==
  /\ ptys < MaxPty
  /\ ptys' = ptys + 1
  /\ UNCHANGED <<master, slave, wanted>>

\* FS_Master_Write passes on buffer + 1: the first character is dropped and
\* one from behind the buffer is appended.  Master_Write echoes.
FS_Master_Write(t, chunk) == \E stray \in Char :
  LET shifted == Tail(chunk) \o <<stray>> IN
  /\ Room(master[t], shifted) /\ Room(slave[t], shifted)
  /\ master' = [master EXCEPT ![t] = Write(@, shifted)]
  /\ slave' = [slave EXCEPT ![t] = Write(@, shifted)]
  /\ UNCHANGED <<ptys, wanted>>

FS_Slave_Write(t, chunk) ==
  /\ Room(master[t], chunk)
  /\ master' = [master EXCEPT ![t] = Write(@, chunk)]
  /\ UNCHANGED <<ptys, slave, wanted>>

FS_Master_Read(t, n) ==
  /\ master' = [master EXCEPT ![t] = Read(@, n)]
  /\ UNCHANGED <<ptys, slave, wanted>>

\* What ends the two loops of Slave_Read: as many characters as asked for,
\* and, the terminal being canonical, a line.
InputIsThere(t, n) == Len(slave[t]) >= n /\ Lines(slave[t]) > 0

\* Slave_Read: with its input there it returns, otherwise it waits.
Slave_Read(t, n) ==
  IF InputIsThere(t, n)
    THEN /\ slave' = [slave EXCEPT ![t] = Read(@, n)]
         /\ UNCHANGED <<ptys, master, wanted>>
    ELSE /\ wanted' = [wanted EXCEPT ![t] = n]
         /\ UNCHANGED <<ptys, master, slave>>
=============================================================================
