------------------------------ MODULE Messaging ------------------------------
(***************************************************************************)
(* Message passing between processes: Scheduler::SendMessage and           *)
(* ReceiveMessage, the two system calls on top of them, and the keyboard   *)
(* interrupt, which posts to a fixed process.  Composed with the whole     *)
(* scheduler, since a receiver may be under construction, on the ring or   *)
(* gone when a message is sent.                                            *)
(*                                                                         *)
(* The list operations of list.h run with interrupts off here: both system *)
(* calls keep them off, and the keyboard handler opens them again only as  *)
(* its last statement.                                                     *)
(***************************************************************************)
EXTENDS Scheduler, Sequences

CONSTANTS
  Data,       \* what a message carries (id, data and data2)
  CapsLock,   \* the scancode 0x3A
  MaxPosted   \* bound: messages accepted in all

ASSUME MessagingAssumption ==
  /\ CapsLock \in Data
  /\ MaxPosted \in Nat

VARIABLES
  messageQueue,   \* per process, empty while the process does not exist
  caps,           \* Keyboard: the caps lock state
  posted,         \* history: how many messages SendMessage has accepted
  owed,           \* history, per process: messages accepted for it less
                  \* calls of SysReceiveMessage that found one
  sent            \* history: who really sent what to whom; a key press is
                  \* from NULL

msgVars == <<messageQueue, caps, posted, owed, sent>>
allVars == <<vars, msgVars>>

Message == [senderPID : PID, receiverPID : PID, data : Data]

MsgInit ==
  /\ Init
  /\ messageQueue = [p \in PID |-> <<>>]
  /\ caps = FALSE
  /\ posted = 0
  /\ owed = [p \in PID |-> 0]
  /\ sent = {}
-----------------------------------------------------------------------------
\* Bug: a process counts as present as soon as it has been numbered.
AnyNumberedPid(pid) == pid < nextPID

\* The walk along the ring from processQueueStart meets the process.
FindProcessByPID(pid) ==
  /\ pid \in Queued
  /\ \A S \in SUBSET PID : ClosedUnderNext(S) => pid \in S

\* SendMessage: append to the receiver's queue, or fail if there is none.  The
\* message was really sent by from.
SendMessage(msg, from) ==
  LET to == msg.receiverPID IN
  IF FindProcessByPID(to)
    THEN /\ posted < MaxPosted
         /\ posted' = posted + 1
         /\ messageQueue' = [messageQueue EXCEPT ![to] = Append(@, msg)]
         /\ owed' = [owed EXCEPT ![to] = @ + 1]
         /\ sent' = sent \cup {[from |-> from, to |-> to, data |-> msg.data]}
    ELSE UNCHANGED <<messageQueue, posted, owed, sent>>

\* Bug: the caller says who the sender is.
SenderFromCaller(pid) == {[senderPID |-> s, receiverPID |-> pid, data |-> d] :
                            s \in PID, d \in Data}

\* What SysSendMessage can put together: the sender is the running process.
MessagesTo(pid) == {[senderPID |-> currentProcess, receiverPID |-> pid, data |-> d] :
                      d \in Data}

SysSendMessage ==
  /\ SyscalHandler
  /\ \E pid \in PID : \E msg \in MessagesTo(pid) : SendMessage(msg, currentProcess)
  /\ UNCHANGED caps

\* What List::remove_at(0) leaves of a queue that is not empty.  It has no
\* return statement and takes nothing out; the value that reaches the
\* caller's message_t is indeterminate.
RemoveAt(queue) == queue

\* SysReceiveMessage with both pointers given.  On an empty queue the null
\* message is copied out and nothing changes, as in any other system call
\* (OtherStep).  Bound: a process asks at most once per message it was sent.
SysReceiveMessage ==
  LET p == currentProcess IN
  /\ SyscalHandler
  /\ messageQueue[p] # <<>>
  /\ owed[p] > 0
  /\ messageQueue' = [messageQueue EXCEPT ![p] = RemoveAt(@)]
  /\ owed' = [owed EXCEPT ![p] = @ - 1]
  /\ UNCHANGED <<caps, posted, sent>>

\* The keyboard interrupt: caps lock toggles, any other key goes to pid 1.
KeyboardHandler ==
  /\ Interruptible
  /\ \E key \in Data :
       IF key = CapsLock
         THEN caps' = ~caps /\ UNCHANGED <<messageQueue, posted, owed, sent>>
         ELSE /\ SendMessage([senderPID |-> 0, receiverPID |-> 1, data |-> key], NULL)
              /\ UNCHANGED caps
  /\ UNCHANGED vars

\* EndProcess frees the process_t, and with it the head of its queue.
ExitDropsQueue ==
  /\ EndProcess
  /\ messageQueue' = [messageQueue EXCEPT ![currentProcess] = <<>>]
  /\ owed' = [owed EXCEPT ![currentProcess] = 0]
  /\ UNCHANGED <<caps, posted, sent>>

\* Everything else the scheduler does leaves the queues alone.
OtherStep ==
  /\ \/ CallCreateProcess \/ CallLoadELF \/ SysExec
     \/ LoaderStep \/ FailStep
     \/ SyscalHandler \/ SysMemalloc
     \/ TimerStep
  /\ UNCHANGED msgVars

MsgNext ==
  \/ SysSendMessage \/ SysReceiveMessage \/ KeyboardHandler
  \/ ExitDropsQueue \/ OtherStep

MsgSpec == MsgInit /\ [][MsgNext]_allVars
-----------------------------------------------------------------------------
(* Properties.                                                             *)

\* No message is stored for a process that is not on the ring: not for one
\* that LoadELF is still building, nor for one that has exited
\* (FindProcessByPID against CreateProcess, LoadELF and EndProcess).
NoMailForTheAbsent ==
  \A p \in PID : messageQueue[p] # <<>> => p \in Queued

\* The process a message says it is from, NULL for the keyboard's mark.
Claimed(m) == IF m.senderPID = 0 THEN NULL ELSE m.senderPID

\* A message for p that says the truth: it was sent to p, by the one it names.
Genuine(p, m) ==
  /\ m.receiverPID = p
  /\ [from |-> Claimed(m), to |-> p, data |-> m.data] \in sent

\* Every stored message was really sent to its receiver by the process it
\* names, even if that process has exited since, and pid 0 stands for nothing
\* but a key press (SysSendMessage takes the sender from GetCurrentProcess;
\* nextPID never gives a pid again).
SenderIsGenuine ==
  \A p \in PID : \A i \in 1 .. Len(messageQueue[p]) : Genuine(p, messageQueue[p][i])

\* What the comment of SysReceiveMessage says: each call takes the next
\* message off the queue, so what is left is what is still owed.
GrabsNextMessage == \A p \in PID : Len(messageQueue[p]) = owed[p]
=============================================================================
