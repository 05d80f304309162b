--------------------------- MODULE MessagingProofs ---------------------------
(***************************************************************************)
(* Message passing for every number of processes and messages.  The steps  *)
(* of Messaging are steps of the scheduler, whose inductive invariant is   *)
(* used as it stands (SchedulerProofs).                                    *)
(***************************************************************************)
EXTENDS Messaging, SchedulerProofs

\* Every step of Messaging is a step of the scheduler or leaves it alone.
LEMMA MessagingIsScheduling == MsgNext => [Next]_vars
BY DEF MsgNext, SysSendMessage, SysReceiveMessage, KeyboardHandler, ExitDropsQueue,
       OtherStep, Next

\* The scheduler's invariant holds under message passing.
THEOREM SchedulerInvariance == MsgSpec => []IInv
<1>1. MsgInit => IInv
  BY InitIInv DEF MsgInit
<1>2. IInv /\ [MsgNext]_allVars => IInv'
  <2>1. [MsgNext]_allVars => [Next]_vars
    BY MessagingIsScheduling DEF allVars
  <2> QED
    BY <2>1, NextIInv
<1> QED
  BY <1>1, <1>2, PTL DEF MsgSpec

\* Only EndProcess takes a process off the ring.
LEMMA RingOnlyLosesByExit ==
  ASSUME IInv, OtherStep
  PROVE  Queued \subseteq Queued'
<1>1. CASE QueueNewProcess
  <2>1. newProc[currentProcess] \in PID /\ next[newProc[currentProcess]] = NULL
    BY <1>1, RunningProcess DEF IInv, UnderConstruction, QueueNewProcess
  <2>2. Queued' = Queued \cup {newProc[currentProcess]}
    BY <1>1, <2>1, InsertKeepsRing DEF IInv, QueueNewProcess
  <2> QED
    BY <2>2
<1>2. CASE UNCHANGED next
  BY <1>2 DEF Queued
<1> QED
  BY <1>1, <1>2
     DEF OtherStep, LoaderStep, FailStep, PageFault, PagesRunOut, StandStill, TimerStep,
         CallCreateProcess, CallLoadELF, SaveLock, CreateProcess, LoadELF, SysExec,
         AllocateProcess, LoadSegment, FinishSegment, RestoreLock, SyscalHandler,
         SysMemalloc, SyscallReturn, TickCount, TickLocked, TickSwitch, queueVars, vars

-----------------------------------------------------------------------------
\* The inductive invariant, on top of the scheduler's.
MInv ==
  /\ messageQueue \in [PID -> Seq(Message)]
  /\ NoMailForTheAbsent
  /\ SenderIsGenuine

\* SendMessage of a message that names its sender, while the scheduler leaves
\* the ring alone.
LEMMA SendKeepsMInv ==
  ASSUME MInv, NEW m \in Message, SendMessage(m, Claimed(m)), UNCHANGED next
  PROVE  MInv'
<1> DEFINE to == m.receiverPID
<1>1. to \in PID
  BY DEF Message
<1>2. Queued' = Queued
  BY DEF Queued
<1>3. CASE FindProcessByPID(to)
  <2>1. /\ messageQueue' = [messageQueue EXCEPT ![to] = Append(@, m)] /\ to \in Queued
        /\ sent' = sent \cup {[from |-> Claimed(m), to |-> to, data |-> m.data]}
    BY <1>3 DEF SendMessage, FindProcessByPID
  <2>2. \A p \in PID : messageQueue'[p] =
          IF p = to THEN Append(messageQueue[p], m) ELSE messageQueue[p]
    BY <1>1, <2>1 DEF MInv
  <2>3. Genuine(to, m)'
    BY <2>1 DEF Genuine, Claimed
  <2>4. ASSUME NEW p \in PID, NEW i \in 1 .. Len(messageQueue'[p])
        PROVE  Genuine(p, messageQueue[p][i])'
    <3>1. PICK q \in Seq(Message) : q = messageQueue[p]
      BY DEF MInv
    <3>2. /\ Len(q) \in Nat /\ Len(Append(q, m)) = Len(q) + 1
          /\ Append(q, m)[Len(q) + 1] = m
          /\ \A k \in 1 .. Len(q) : Append(q, m)[k] = q[k]
      OBVIOUS
    <3>3. messageQueue'[p] = IF p = to THEN Append(q, m) ELSE q
      BY <2>2, <3>1
    <3>4. CASE p = to /\ i = Len(q) + 1
      <4>1. messageQueue'[p][i] = m
        BY <3>2, <3>3, <3>4
      <4> QED
        BY <2>3, <3>4, <4>1 DEF Genuine, Claimed
    <3>5. CASE ~(p = to /\ i = Len(q) + 1)
      <4>1. i \in 1 .. Len(q) /\ messageQueue'[p][i] = q[i]
        BY <2>4, <3>2, <3>3, <3>5
      <4>2. Genuine(p, q[i])
        BY <3>1, <4>1 DEF MInv, SenderIsGenuine
      <4> QED
        BY <2>1, <4>1, <4>2 DEF Genuine, Claimed
    <3> QED
      BY <3>4, <3>5
  <2>5. messageQueue' \in [PID -> Seq(Message)]
    BY <1>1, <2>1 DEF MInv
  <2>6. NoMailForTheAbsent'
    BY <1>2, <2>1, <2>2 DEF MInv, NoMailForTheAbsent
  <2> QED
    BY <2>4, <2>5, <2>6 DEF MInv, SenderIsGenuine
<1>4. CASE ~FindProcessByPID(to)
  <2>1. messageQueue' = messageQueue /\ sent' = sent
    BY <1>4 DEF SendMessage
  <2> QED
    BY <1>2, <2>1 DEF MInv, NoMailForTheAbsent, SenderIsGenuine, Genuine, Claimed
<1> QED
  BY <1>3, <1>4

\* Every step of Messaging keeps the invariant.
LEMMA NextMInv == IInv /\ MInv /\ [MsgNext]_allVars => MInv'
<1> SUFFICES ASSUME IInv, MInv, [MsgNext]_allVars PROVE MInv'
  OBVIOUS
<1>1. CASE SysSendMessage
  <2>1. PICK pid \in PID : \E m \in MessagesTo(pid) : SendMessage(m, currentProcess)
    BY <1>1 DEF SysSendMessage
  <2>2. PICK m \in MessagesTo(pid) : SendMessage(m, currentProcess)
    BY <2>1
  <2>3. currentProcess \in PID /\ currentProcess # 0 /\ UNCHANGED next
    BY <1>1, RunningProcess, SchedulerAssumption
       DEF SysSendMessage, SyscalHandler, ELFProcess, IInv, Directories, queueVars
  <2>4. m \in Message /\ m.senderPID = currentProcess
    BY <2>2, <2>3 DEF MessagesTo, Message
  <2>5. Claimed(m) = currentProcess
    BY <2>3, <2>4 DEF Claimed
  <2> QED
    BY <2>2, <2>3, <2>4, <2>5, SendKeepsMInv
<1>2. CASE SysReceiveMessage
  <2>1. messageQueue' = messageQueue /\ UNCHANGED <<next, sent>>
    BY <1>2 DEF SysReceiveMessage, RemoveAt, MInv, SyscalHandler, queueVars
  <2> QED
    BY <2>1 DEF MInv, NoMailForTheAbsent, SenderIsGenuine, Genuine, Claimed, Queued
<1>3. CASE KeyboardHandler
  <2>1. UNCHANGED next
    BY <1>3 DEF KeyboardHandler, vars
  <2>2. CASE UNCHANGED <<messageQueue, sent>>
    BY <2>1, <2>2 DEF MInv, NoMailForTheAbsent, SenderIsGenuine, Genuine, Claimed, Queued
  <2>3. CASE ~UNCHANGED <<messageQueue, sent>>
    <3>1. PICK key \in Data :
            SendMessage([senderPID |-> 0, receiverPID |-> 1, data |-> key], NULL)
      BY <1>3, <2>3 DEF KeyboardHandler
    <3> DEFINE m == [senderPID |-> 0, receiverPID |-> 1, data |-> key]
    <3>2. 1 \in PID /\ 0 \in PID
      BY <2>3, <3>1, SchedulerAssumption DEF SendMessage, FindProcessByPID, Queued, PID
    <3>3. m \in Message /\ Claimed(m) = NULL
      BY <3>2 DEF Message, Claimed
    <3> HIDE DEF m
    <3>4. SendMessage(m, NULL)
      BY <3>1 DEF m
    <3> QED
      BY <2>1, <3>3, <3>4, SendKeepsMInv
  <2> QED
    BY <2>2, <2>3
<1>4. CASE ExitDropsQueue
  <2>1. /\ currentProcess \in Queued /\ currentProcess \in PID
        /\ currentProcess # processQueueStart
    BY <1>4, RunningProcess, SchedulerAssumption
       DEF ExitDropsQueue, EndProcess, ELFProcess, IInv, Directories
  <2>2. Queued' = Queued \ {currentProcess} /\ sent' = sent
    BY <1>4, <2>1, RemoveKeepsRing DEF ExitDropsQueue, EndProcess, TaskSwitch, IInv
  <2>3. /\ messageQueue'[currentProcess] = <<>>
        /\ \A p \in PID \ {currentProcess} : messageQueue'[p] = messageQueue[p]
        /\ messageQueue' \in [PID -> Seq(Message)]
    BY <1>4, <2>1 DEF ExitDropsQueue, MInv
  <2>4. NoMailForTheAbsent'
    BY <2>2, <2>3 DEF MInv, NoMailForTheAbsent
  <2>5. ASSUME NEW p \in PID, NEW i \in 1 .. Len(messageQueue'[p])
        PROVE  Genuine(p, messageQueue[p][i])'
    <3>1. p # currentProcess
      BY <2>3
    <3>2. Genuine(p, messageQueue[p][i]) /\ messageQueue'[p] = messageQueue[p]
      BY <2>3, <3>1 DEF MInv, SenderIsGenuine
    <3> QED
      BY <2>2, <3>2 DEF Genuine, Claimed
  <2> QED
    BY <2>3, <2>4, <2>5 DEF MInv, SenderIsGenuine
<1>5. CASE OtherStep
  <2>1. messageQueue' = messageQueue /\ sent' = sent
    BY <1>5 DEF OtherStep, msgVars
  <2>2. Queued \subseteq Queued'
    BY <1>5, RingOnlyLosesByExit
  <2> QED
    BY <2>1, <2>2 DEF MInv, NoMailForTheAbsent, SenderIsGenuine, Genuine, Claimed
<1>6. CASE UNCHANGED allVars
  BY <1>6 DEF allVars, vars, msgVars, MInv, NoMailForTheAbsent, SenderIsGenuine, Genuine,
       Claimed, Queued
<1> QED
  BY <1>1, <1>2, <1>3, <1>4, <1>5, <1>6 DEF MsgNext

\* Both halves of the inductive invariant hold in every reachable state.
THEOREM MsgInvariance == MsgSpec => []MInv
<1>1. MsgInit => MInv
  BY DEF MsgInit, MInv, NoMailForTheAbsent, SenderIsGenuine
<1>2. IInv /\ MInv /\ [MsgNext]_allVars => MInv'
  BY NextMInv
<1> QED
  BY <1>1, <1>2, SchedulerInvariance, PTL DEF MsgSpec

\* No message is ever stored for a process that is being built or has exited.
THEOREM MailOnlyForThePresent == MsgSpec => []NoMailForTheAbsent
<1>1. MInv => NoMailForTheAbsent
  BY DEF MInv
<1> QED
  BY <1>1, MsgInvariance, PTL

\* No process can send in another's name, nor in the keyboard's.
THEOREM SendersAreGenuine == MsgSpec => []SenderIsGenuine
<1>1. MInv => SenderIsGenuine
  BY DEF MInv
<1> QED
  BY <1>1, MsgInvariance, PTL

-----------------------------------------------------------------------------
\* Messages and key presses do not disturb round robin: the scheduler with
\* them still implements the abstract one (SyscalHandler around SysSendMessage
\* and SysReceiveMessage, KeyboardHandler).
THEOREM MessagingRefinesRoundRobin == MsgSpec => ImplementsRoundRobin
<1>1. MsgInit => RInv /\ RR!RRInit
  BY FirstLine DEF MsgInit
<1>2. IInv /\ RInv /\ [MsgNext]_allVars => RInv' /\ [RR!RRNext]_(RR!rrVars)
  <2>1. [MsgNext]_allVars => [Next]_vars
    BY MessagingIsScheduling DEF allVars
  <2> QED
    BY <2>1, StepRefines
<1> QED
  BY <1>1, <1>2, SchedulerInvariance, PTL DEF MsgSpec, ImplementsRoundRobin, RR!RRSpec

=============================================================================
