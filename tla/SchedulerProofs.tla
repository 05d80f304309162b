--------------------------- MODULE SchedulerProofs ---------------------------
(***************************************************************************)
(* Theorems about the scheduler for every number of processes, every slice *)
(* length and every number of ELF segments.                                *)
(***************************************************************************)
EXTENDS MCScheduler, NaturalInduction, SequenceTheorems, TLAPS

\* Pids not handed out yet name nothing.
FreshPids ==
  \A p \in PID : p >= nextPID => next[p] = NULL /\ pc[p] = "none"

\* Exactly the queued processes have a control point.
LiveIffQueued == \A p \in PID : pc[p] # "none" <=> next[p] # NULL

\* The process under construction is numbered and not on the ring yet.
UnderConstruction ==
  \A p \in PID : pc[p] \in {"map", "copy"} =>
    /\ newProc[p] \in PID
    /\ newProc[p] < nextPID
    /\ next[newProc[p]] = NULL
    /\ pc[p] = "copy" => segments[p] > 0

\* The idle process stays first and keeps the kernel's directory; any other
\* process has its own directory or none.
Directories ==
  /\ processQueueStart = 0
  /\ pageDirectory[0] = Kernel
  /\ \A p \in PID : pageDirectory[p] \in {p, Kernel, NULL}

\* What the saved lock value of a process in the loader can be.
SavedLock ==
  \A p \in PID :
    /\ pc[p] \in {"create", "load"} => KernelProcess(p)
    /\ pc[p] \in {"create", "load"} /\ schedulerState[p] =>
         p = currentProcess /\ schedulerLock
    /\ pc[p] \in {"map", "copy", "unlock"} /\ ELFProcess(p) => schedulerState[p]
    /\ pc[p] = "sysret" => ELFProcess(p)

\* The inductive invariant.
IInv ==
  /\ TypeOK
  /\ FreshPids
  /\ LiveIffQueued
  /\ UnderConstruction
  /\ Directories
  /\ SavedLock
  /\ KernelExclusive
  /\ AddressSpaceMatches
  /\ RingIntact

-----------------------------------------------------------------------------
(* The ring operations.                                                    *)

\* InsertProcessIntoQueue puts one more process on the ring and leaves one ring.
LEMMA InsertKeepsRing ==
  ASSUME TypeOK, RingIntact,
         NEW p \in PID, next[p] = NULL,
         next' = InsertProcessIntoQueue(p),
         UNCHANGED <<processQueueStart, currentProcess>>
  PROVE  /\ next' \in [PID -> PID \cup {NULL}]
         /\ Queued' = Queued \cup {p}
         /\ RingIntact'
<1> DEFINE s == processQueueStart
<1>1. NULL \notin PID
  BY SchedulerAssumption DEF PID
<1>2. s \in PID /\ next[s] \in PID /\ next[s] # NULL /\ s # p
  BY <1>1 DEF TypeOK, RingIntact, Queued
<1>3. next' = [next EXCEPT ![p] = next[s], ![s] = p]
  BY <1>2 DEF InsertProcessIntoQueue
<1>4. next \in [PID -> PID \cup {NULL}]
  BY DEF TypeOK
<1>5. next' \in [PID -> PID \cup {NULL}]
  BY <1>2, <1>3, <1>4
<1>6. /\ next'[p] = next[s]
      /\ next'[s] = p
      /\ \A q \in PID \ {p, s} : next'[q] = next[q]
  BY <1>2, <1>3, <1>4
<1>7. Queued' = Queued \cup {p}
  BY <1>1, <1>2, <1>6 DEF Queued
<1>8. s \in Queued' /\ currentProcess \in Queued'
  BY <1>7 DEF RingIntact
<1>9. \A q \in Queued' : next'[q] \in Queued'
  BY <1>2, <1>6, <1>7 DEF RingIntact, Queued
<1>10. \A q, r \in Queued' : next'[q] = next'[r] => q = r
  BY <1>1, <1>2, <1>6, <1>7 DEF RingIntact, Queued
<1>11. ASSUME NEW S \in SUBSET PID, ClosedUnderNext(S)'
       PROVE  Queued' \subseteq S
  <2>1. s \in S /\ \A q \in S : next'[q] \in S \cup {NULL}
    BY <1>11 DEF ClosedUnderNext
  <2>2. p \in S /\ next[s] \in S
    BY <1>1, <1>2, <1>6, <2>1
  <2>3. \A q \in S \ {p} : next[q] \in (S \ {p}) \cup {NULL}
    BY <1>2, <1>6, <2>1, <2>2 DEF RingIntact, Queued
  <2>4. ClosedUnderNext(S \ {p})
    BY <1>2, <2>1, <2>3 DEF ClosedUnderNext
  <2>5. Queued \subseteq S \ {p}
    BY <2>4 DEF RingIntact
  <2> QED
    BY <1>7, <2>2, <2>5
<1> QED
  BY <1>5, <1>7, <1>8, <1>9, <1>10, <1>11 DEF RingIntact

\* The predecessor RemoveProcessFromQueue looks for exists and is another
\* process: the first process is never alone with a gap behind it.
LEMMA PredecessorExists ==
  ASSUME TypeOK, RingIntact,
         NEW p \in Queued, p # processQueueStart
  PROVE  /\ Predecessor(p) \in Queued
         /\ next[Predecessor(p)] = p
         /\ Predecessor(p) # p
         /\ next[p] # p
         /\ \A q \in Queued : next[q] = p => q = Predecessor(p)
<1>1. NULL \notin PID
  BY SchedulerAssumption DEF PID
<1>2. p \in PID /\ next[p] \in PID
  BY <1>1 DEF RingIntact, Queued
<1>3. ~ \A q \in PID \ {p} : next[q] # p
  <2> SUFFICES ASSUME \A q \in PID \ {p} : next[q] # p PROVE FALSE
    OBVIOUS
  <2>1. ClosedUnderNext(PID \ {p})
    BY DEF ClosedUnderNext, TypeOK
  <2>2. Queued \subseteq PID \ {p}
    BY <2>1 DEF RingIntact
  <2> QED
    BY <2>2
<1>4. PICK q \in PID : q # p /\ next[q] = p
  BY <1>3
<1>5. q \in Queued
  BY <1>1, <1>2, <1>4 DEF Queued
<1>6. next[p] # p
  BY <1>4, <1>5 DEF RingIntact
<1>7. Predecessor(p) \in PID /\ next[Predecessor(p)] = p
  BY <1>4 DEF Predecessor
<1>8. Predecessor(p) \in Queued
  BY <1>1, <1>2, <1>7 DEF Queued
<1> QED
  BY <1>6, <1>7, <1>8 DEF RingIntact

\* Unlinking a process other than the first leaves one ring, without it.
LEMMA RemoveKeepsRing ==
  ASSUME TypeOK, RingIntact,
         NEW p \in Queued, p # processQueueStart,
         next' = [RemoveProcessFromQueue(p) EXCEPT ![p] = NULL],
         currentProcess' = next[p],
         UNCHANGED processQueueStart
  PROVE  /\ next' \in [PID -> PID \cup {NULL}]
         /\ Queued' = Queued \ {p}
         /\ RingIntact'
<1> DEFINE s == processQueueStart
           q == Predecessor(p)
<1>1. NULL \notin PID
  BY SchedulerAssumption DEF PID
<1>2. /\ q \in Queued /\ next[q] = p /\ q # p /\ next[p] # p
      /\ \A r \in Queued : next[r] = p => r = q
  BY PredecessorExists
<1>3. p \in PID /\ q \in PID /\ next[p] \in PID /\ next[p] \in Queued
  BY <1>2 DEF RingIntact, Queued
<1> HIDE DEF q
<1>4. next' = [[next EXCEPT ![q] = next[p]] EXCEPT ![p] = NULL]
  BY <1>2 DEF RemoveProcessFromQueue, q
<1>5. next \in [PID -> PID \cup {NULL}]
  BY DEF TypeOK
<1>6. next' \in [PID -> PID \cup {NULL}]
  BY <1>3, <1>4, <1>5
<1>7. /\ next'[p] = NULL
      /\ next'[q] = next[p]
      /\ \A r \in PID \ {p, q} : next'[r] = next[r]
  BY <1>2, <1>3, <1>4, <1>5
<1>8. Queued' = Queued \ {p}
  BY <1>1, <1>2, <1>3, <1>7 DEF Queued
<1>9. s \in Queued' /\ currentProcess' \in Queued'
  BY <1>2, <1>3, <1>8 DEF RingIntact
<1>10. \A r \in Queued' : next'[r] \in Queued'
  BY <1>2, <1>3, <1>7, <1>8 DEF RingIntact, Queued
<1>11. \A r, t \in Queued' : next'[r] = next'[t] => r = t
  BY <1>2, <1>3, <1>7, <1>8 DEF RingIntact, Queued
<1>12. ASSUME NEW S \in SUBSET PID, ClosedUnderNext(S)'
       PROVE  Queued' \subseteq S
  <2>1. s \in S /\ \A r \in S : next'[r] \in S \cup {NULL}
    BY <1>12 DEF ClosedUnderNext
  <2>2. CASE q \in S
    <3>1. next[p] \in S
      BY <1>1, <1>3, <1>7, <2>1, <2>2
    <3>2. \A r \in S \cup {p} : next[r] \in (S \cup {p}) \cup {NULL}
      BY <1>2, <1>3, <1>7, <2>1, <3>1
    <3>3. ClosedUnderNext(S \cup {p})
      BY <2>1, <3>2 DEF ClosedUnderNext
    <3>4. Queued \subseteq S \cup {p}
      BY <1>3, <3>3 DEF RingIntact
    <3> QED
      BY <1>8, <3>4
  <2>3. CASE q \notin S
    <3>1. \A r \in S \ {p} : next[r] \in (S \ {p}) \cup {NULL}
      <4> SUFFICES ASSUME NEW r \in S \ {p}, next[r] # NULL
                   PROVE  next[r] \in S \ {p}
        OBVIOUS
      <4>1. r # q /\ r \in Queued
        BY <2>3 DEF Queued
      <4>2. next[r] # p
        BY <1>2, <4>1
      <4> QED
        BY <1>7, <2>1, <4>1, <4>2
    <3>2. ClosedUnderNext(S \ {p})
      BY <2>1, <3>1 DEF ClosedUnderNext
    <3>3. Queued \subseteq S \ {p}
      BY <3>2 DEF RingIntact
    <3> QED
      BY <1>8, <3>3
  <2> QED
    BY <2>2, <2>3
<1> QED
  BY <1>6, <1>8, <1>9, <1>10, <1>11, <1>12 DEF RingIntact

\* Moving the CPU along the ring leaves the ring alone.
LEMMA RingUntouched ==
  ASSUME RingIntact, UNCHANGED queueVars, currentProcess' \in Queued
  PROVE  RingIntact' /\ Queued' = Queued
BY DEF RingIntact, ClosedUnderNext, Queued, queueVars

-----------------------------------------------------------------------------
(* The inductive invariant holds initially and is kept by every action.    *)

\* The state Scheduler::Initialize leaves behind satisfies the invariant.
LEMMA InitIInv == Init => IInv
<1> SUFFICES ASSUME Init PROVE IInv
  OBVIOUS
<1>1. 0 \in PID /\ NULL \notin PID /\ Kernel \notin PID /\ Kernel # NULL
  BY SchedulerAssumption DEF PID
<1>2. TypeOK
  <2>1. 1 \in 1 .. (MaxPID + 1) /\ 0 \in 0 .. MaxSegments /\ KernelSlice \in Nat
    BY SchedulerAssumption
  <2>2. "user" \in ControlPoint /\ "none" \in ControlPoint
    BY DEF ControlPoint
  <2> QED
    BY <1>1, <2>1, <2>2 DEF Init, TypeOK
<1>3. FreshPids /\ LiveIffQueued /\ UnderConstruction /\ Directories
  BY <1>1 DEF Init, FreshPids, LiveIffQueued, UnderConstruction, Directories, PID
<1>4. SavedLock /\ KernelExclusive /\ AddressSpaceMatches
  BY <1>1 DEF Init, SavedLock, KernelExclusive, AddressSpaceMatches,
              KernelProcess, ELFProcess, Critical, Stuck, InterruptsOff
<1>5. Queued = {0}
  BY <1>1 DEF Init, Queued
<1>6. RingIntact
  BY <1>1, <1>5 DEF Init, RingIntact, ClosedUnderNext
<1> QED
  BY <1>2, <1>3, <1>4, <1>6 DEF IInv

\* Facts every action's step starts from.
LEMMA RunningProcess ==
  ASSUME IInv
  PROVE  /\ NULL \notin PID /\ Kernel \notin PID /\ Kernel # NULL
         /\ currentProcess \in PID
         /\ currentProcess \in Queued
         /\ next[currentProcess] \in Queued
         /\ currentProcess < nextPID
         /\ PID \subseteq Nat
<1>1. /\ NULL \notin PID /\ Kernel \notin PID /\ Kernel # NULL
      /\ PID \subseteq Nat
  BY SchedulerAssumption DEF PID
<1>2. currentProcess \in PID /\ currentProcess \in Queued
  BY DEF IInv, TypeOK, RingIntact
<1>3. next[currentProcess] \in Queued
  BY <1>2 DEF IInv, RingIntact
<1>4. ~ (currentProcess >= nextPID)
  BY <1>2 DEF IInv, FreshPids, Queued
<1>5. nextPID \in Nat
  BY DEF IInv, TypeOK
<1> QED
  BY <1>1, <1>2, <1>3, <1>4, <1>5

\* Entry of CreateProcess and LoadELF.
LEMMA SaveLockStep ==
  ASSUME IInv, NEW point \in {"create", "load"}, SaveLock(point)
  PROVE  IInv'
<1> DEFINE c == currentProcess
<1>1. c \in PID /\ c \in Queued /\ c < nextPID
  BY RunningProcess
<1>2. TypeOK'
  BY <1>1 DEF IInv, TypeOK, SaveLock, queueVars, sliceVars, PID, ControlPoint
<1>3. RingIntact'
  BY <1>1, RingUntouched DEF IInv, SaveLock
<1>4. FreshPids' /\ LiveIffQueued' /\ UnderConstruction' /\ Directories'
  BY <1>1 DEF IInv, TypeOK, SaveLock, queueVars, FreshPids, LiveIffQueued,
              UnderConstruction, Directories, Queued, PID
<1>5. SavedLock'
  BY <1>1 DEF IInv, TypeOK, SaveLock, SavedLock, KernelProcess, ELFProcess
<1>6. KernelExclusive' /\ AddressSpaceMatches'
  BY <1>1 DEF IInv, TypeOK, SaveLock, KernelExclusive, AddressSpaceMatches,
              Critical, Stuck, InterruptsOff
<1> QED
  BY <1>2, <1>3, <1>4, <1>5, <1>6 DEF IInv

\* The three paths that build a process_t: CreateProcess, LoadELF in a kernel
\* process, and LoadELF under a system call, which reads the lock held.
LEMMA AllocateStep ==
  ASSUME IInv,
         NEW dir \in {nextPID, NULL}, NEW slice \in Nat, NEW default \in Nat,
         NEW n \in 0 .. MaxSegments, NEW point \in {"map", "halted"},
         AllocateProcess(dir, slice, default, n, point),
         pc[currentProcess] \in {"user", "create", "load"},
         \/ ~ELFProcess(currentProcess) /\ UNCHANGED schedulerState
         \/ schedulerState' = [schedulerState EXCEPT ![currentProcess] = TRUE]
  PROVE  IInv'
<1> DEFINE c == currentProcess
<1>1. /\ c \in PID /\ c \in Queued /\ c < nextPID
      /\ NULL \notin PID /\ Kernel \notin PID /\ PID \subseteq Nat
  BY RunningProcess
<1>2. nextPID \in PID /\ nextPID # c /\ nextPID # 0 /\ nextPID + 1 \in 1 .. (MaxPID + 1)
  BY <1>1, SchedulerAssumption DEF IInv, TypeOK, AllocateProcess, PID
<1>3. next[nextPID] = NULL /\ pc[nextPID] = "none"
  BY <1>2 DEF IInv, FreshPids, TypeOK
<1>4. TypeOK'
  BY <1>1, <1>2 DEF IInv, TypeOK, AllocateProcess, queueVars, ControlPoint, Critical, Stuck, InterruptsOff
<1>5. RingIntact'
  BY <1>1, RingUntouched DEF IInv, AllocateProcess
<1>6. FreshPids'
  BY <1>1, <1>2 DEF IInv, TypeOK, FreshPids, AllocateProcess, queueVars
<1>7. LiveIffQueued'
  BY <1>1 DEF IInv, TypeOK, LiveIffQueued, AllocateProcess, queueVars, Queued
<1>8. UnderConstruction'
  <2>1. \A p \in PID \ {c} : pc[p] \notin {"map", "copy"}
    BY DEF IInv, KernelExclusive, Critical, Stuck, InterruptsOff
  <2> QED
    BY <1>1, <1>2, <1>3, <2>1 DEF IInv, TypeOK, UnderConstruction, AllocateProcess, queueVars
<1>9. Directories'
  BY <1>2 DEF IInv, TypeOK, Directories, AllocateProcess, queueVars
<1>10. SavedLock'
  <2>1. \A p \in PID : pc[p] \in {"create", "load"} /\ schedulerState[p] =>
          p = c /\ schedulerLock
    BY DEF IInv, SavedLock
  <2>2. \A p \in PID \ {nextPID} : pageDirectory'[p] = pageDirectory[p]
    BY <1>2 DEF IInv, TypeOK, AllocateProcess
  <2>3. \A p \in PID \ {c} : pc'[p] = pc[p] /\ schedulerState'[p] = schedulerState[p]
    BY DEF IInv, TypeOK, AllocateProcess
  <2>4. pc'[c] \in {"map", "halted"} /\ currentProcess' = c /\ schedulerLock' = TRUE
    BY <1>1 DEF IInv, TypeOK, AllocateProcess
  <2>5. \A p \in PID \ {c} : pc[p] \notin Critical
    BY DEF IInv, KernelExclusive
  <2>6. pageDirectory'[c] = c => schedulerState'[c]
    BY <1>1, <1>2, <2>2 DEF IInv, TypeOK, ELFProcess
  <2> SUFFICES ASSUME NEW p \in PID PROVE SavedLock!(p)'
    BY DEF SavedLock
  <2>7. CASE p = c
    BY <1>1, <2>4, <2>6, <2>7 DEF KernelProcess, ELFProcess
  <2>8. CASE p = nextPID
    BY <1>2, <1>3, <2>3, <2>8
  <2>9. CASE p # c /\ p # nextPID
    BY <2>1, <2>2, <2>3, <2>4, <2>5, <2>9
       DEF IInv, SavedLock, KernelProcess, ELFProcess, Critical, Stuck, InterruptsOff
  <2> QED
    BY <2>7, <2>8, <2>9
<1>11. KernelExclusive'
  BY <1>1 DEF IInv, TypeOK, KernelExclusive, AllocateProcess, Critical, Stuck, InterruptsOff
<1>12. AddressSpaceMatches'
  BY <1>1, <1>2 DEF IInv, TypeOK, AddressSpaceMatches, AllocateProcess
<1> QED
  BY <1>4, <1>5, <1>6, <1>7, <1>8, <1>9, <1>10, <1>11, <1>12 DEF IInv

\* LoadELF switches to the kernel's page directory.
LEMMA LoadSegmentStep ==
  ASSUME IInv, LoadSegment
  PROVE  IInv'
<1> DEFINE c == currentProcess
<1>1. /\ c \in PID /\ c \in Queued /\ next[c] \in Queued /\ c < nextPID
      /\ NULL \notin PID /\ Kernel \notin PID /\ Kernel # NULL /\ PID \subseteq Nat
  BY RunningProcess
<1>2. \A p \in PID \ {c} : pc[p] \notin Critical
  BY DEF IInv, KernelExclusive
<1>3. TypeOK'
  BY <1>1 DEF IInv, TypeOK, LoadSegment, queueVars, sliceVars, frameVars,
              ControlPoint, Critical, Stuck, InterruptsOff
<1>4. RingIntact'
  BY <1>1, RingUntouched DEF IInv, LoadSegment
<1>5. FreshPids' /\ LiveIffQueued'
  BY <1>1 DEF IInv, TypeOK, LoadSegment, queueVars, FreshPids, LiveIffQueued, Queued
<1>6. UnderConstruction' /\ Directories'
  BY <1>1, <1>2 DEF IInv, TypeOK, LoadSegment, queueVars, frameVars, UnderConstruction,
              Directories, Critical, Stuck, InterruptsOff
<1>7. SavedLock'
  BY <1>1, <1>2 DEF IInv, TypeOK, LoadSegment, frameVars, SavedLock, KernelProcess,
              ELFProcess, Critical, Stuck, InterruptsOff
<1>8. KernelExclusive'
  BY <1>1, <1>2 DEF IInv, TypeOK, LoadSegment, KernelExclusive, Critical, Stuck, InterruptsOff
<1>9. AddressSpaceMatches'
  BY <1>1 DEF IInv, TypeOK, LoadSegment, AddressSpaceMatches
<1> QED
  BY <1>3, <1>4, <1>5, <1>6, <1>7, <1>8, <1>9 DEF IInv

\* The loader runs into an endless loop.
LEMMA StuckStep ==
  ASSUME IInv, PageFault \/ PagesRunOut
  PROVE  IInv'
<1> DEFINE c == currentProcess
<1>1. /\ c \in PID /\ c \in Queued /\ c < nextPID
      /\ NULL \notin PID /\ Kernel \notin PID /\ Kernel # NULL /\ PID \subseteq Nat
  BY RunningProcess
<1>2. \A p \in PID \ {c} : pc[p] \notin Critical
  BY DEF IInv, KernelExclusive
<1>3. PICK point \in {"fault", "hung"} :
        /\ pc[c] = IF point = "fault" THEN "copy" ELSE "map"
        /\ pc' = [pc EXCEPT ![c] = point]
        /\ UNCHANGED <<queueVars, currentProcess, nextPID, schedulerLock, sliceVars,
                       pageDirectory, cr3, frameVars>>
  BY DEF PageFault, PagesRunOut
<1>4. TypeOK'
  BY <1>1, <1>3 DEF IInv, TypeOK, queueVars, sliceVars, frameVars, ControlPoint, Critical,
              Stuck, InterruptsOff
<1>5. RingIntact'
  BY <1>1, <1>3, RingUntouched DEF IInv
<1>6. FreshPids' /\ LiveIffQueued'
  BY <1>1, <1>3 DEF IInv, TypeOK, queueVars, FreshPids, LiveIffQueued, Queued
<1>7. UnderConstruction' /\ Directories'
  BY <1>1, <1>2, <1>3 DEF IInv, TypeOK, queueVars, frameVars, UnderConstruction,
              Directories, Critical
<1>8. SavedLock'
  BY <1>1, <1>2, <1>3 DEF IInv, TypeOK, frameVars, SavedLock, KernelProcess, ELFProcess, Critical
<1>9. KernelExclusive'
  BY <1>1, <1>2, <1>3 DEF IInv, TypeOK, KernelExclusive, Critical
<1>10. AddressSpaceMatches'
  BY <1>1, <1>3 DEF IInv, TypeOK, AddressSpaceMatches
<1> QED
  BY <1>4, <1>5, <1>6, <1>7, <1>8, <1>9, <1>10 DEF IInv

\* LoadELF switches back to the caller's page directory.
LEMMA FinishSegmentStep ==
  ASSUME IInv, FinishSegment
  PROVE  IInv'
<1> DEFINE c == currentProcess
<1>1. /\ c \in PID /\ c \in Queued /\ next[c] \in Queued /\ c < nextPID
      /\ NULL \notin PID /\ Kernel \notin PID /\ Kernel # NULL /\ PID \subseteq Nat
  BY RunningProcess
<1>2. \A p \in PID \ {c} : pc[p] \notin Critical
  BY DEF IInv, KernelExclusive
<1>3. TypeOK'
  <2>1. segments[c] \in 0 .. MaxSegments /\ segments[c] > 0
    BY <1>1 DEF IInv, TypeOK, UnderConstruction, FinishSegment
  <2>2. segments[c] - 1 \in 0 .. MaxSegments
    BY <2>1, SchedulerAssumption
  <2> QED
    BY <1>1, <2>2 DEF IInv, TypeOK, FinishSegment, SegmentsLeft,
              DirectoryAfterSegment, queueVars, sliceVars, ControlPoint, Critical, Stuck, InterruptsOff
<1>4. RingIntact'
  BY <1>1, RingUntouched DEF IInv, FinishSegment
<1>5. FreshPids' /\ LiveIffQueued'
  BY <1>1 DEF IInv, TypeOK, FinishSegment, queueVars, FreshPids, LiveIffQueued, Queued
<1>6. UnderConstruction' /\ Directories'
  BY <1>1, <1>2 DEF IInv, TypeOK, FinishSegment, queueVars, frameVars, UnderConstruction,
              Directories, Critical, Stuck, InterruptsOff, SegmentsLeft, UnderConstruction, DirectoryAfterSegment
<1>7. SavedLock'
  BY <1>1, <1>2 DEF IInv, TypeOK, FinishSegment, frameVars, SavedLock, KernelProcess,
              ELFProcess, Critical, Stuck, InterruptsOff
<1>8. KernelExclusive'
  BY <1>1, <1>2 DEF IInv, TypeOK, FinishSegment, KernelExclusive, Critical, Stuck, InterruptsOff
<1>9. AddressSpaceMatches'
  BY <1>1 DEF IInv, TypeOK, FinishSegment, AddressSpaceMatches, DirectoryAfterSegment
<1> QED
  BY <1>3, <1>4, <1>5, <1>6, <1>7, <1>8, <1>9 DEF IInv

\* CreateProcess and LoadELF put the lock back.
LEMMA RestoreLockStep ==
  ASSUME IInv, RestoreLock
  PROVE  IInv'
<1> DEFINE c == currentProcess
<1>1. /\ c \in PID /\ c \in Queued /\ next[c] \in Queued /\ c < nextPID
      /\ NULL \notin PID /\ Kernel \notin PID /\ Kernel # NULL /\ PID \subseteq Nat
  BY RunningProcess
<1>2. \A p \in PID \ {c} : pc[p] \notin Critical
  BY DEF IInv, KernelExclusive
<1>3. TypeOK'
  BY <1>1 DEF IInv, TypeOK, RestoreLock, queueVars, sliceVars, frameVars,
              ControlPoint, Critical, Stuck, InterruptsOff, LockToRestore
<1>4. RingIntact'
  BY <1>1, RingUntouched DEF IInv, RestoreLock
<1>5. FreshPids' /\ LiveIffQueued'
  BY <1>1 DEF IInv, TypeOK, RestoreLock, queueVars, FreshPids, LiveIffQueued, Queued
<1>6. UnderConstruction' /\ Directories'
  BY <1>1, <1>2 DEF IInv, TypeOK, RestoreLock, queueVars, frameVars, UnderConstruction,
              Directories, Critical, Stuck, InterruptsOff, LockToRestore
<1>7. SavedLock'
  BY <1>1, <1>2 DEF IInv, TypeOK, RestoreLock, frameVars, SavedLock, KernelProcess,
              ELFProcess, Critical, Stuck, InterruptsOff, LockToRestore
<1>8. KernelExclusive'
  <2>1. ELFProcess(c) => schedulerLock' = TRUE
    BY <1>1 DEF IInv, TypeOK, SavedLock, RestoreLock, LockToRestore
  <2> QED
    BY <1>1, <1>2, <2>1 DEF IInv, TypeOK, RestoreLock, KernelExclusive, Critical, Stuck, InterruptsOff
<1>9. AddressSpaceMatches'
  BY <1>1 DEF IInv, TypeOK, RestoreLock, AddressSpaceMatches
<1> QED
  BY <1>3, <1>4, <1>5, <1>6, <1>7, <1>8, <1>9 DEF IInv

\* A system call that keeps interrupts off.
LEMMA SyscalHandlerStep ==
  ASSUME IInv, SyscalHandler
  PROVE  IInv'
<1> DEFINE c == currentProcess
<1>1. /\ c \in PID /\ c \in Queued /\ next[c] \in Queued /\ c < nextPID
      /\ NULL \notin PID /\ Kernel \notin PID /\ Kernel # NULL /\ PID \subseteq Nat
  BY RunningProcess
<1>2. \A p \in PID \ {c} : pc[p] \notin Critical
  BY DEF IInv, KernelExclusive
<1>3. TypeOK'
  BY <1>1 DEF IInv, TypeOK, SyscalHandler, queueVars, sliceVars, frameVars,
              ControlPoint, Critical, Stuck, InterruptsOff
<1>4. RingIntact'
  BY <1>1, RingUntouched DEF IInv, SyscalHandler
<1>5. FreshPids' /\ LiveIffQueued'
  BY <1>1 DEF IInv, TypeOK, SyscalHandler, queueVars, FreshPids, LiveIffQueued, Queued
<1>6. UnderConstruction' /\ Directories'
  BY <1>1, <1>2 DEF IInv, TypeOK, SyscalHandler, queueVars, frameVars, UnderConstruction,
              Directories, Critical, Stuck, InterruptsOff
<1>7. SavedLock'
  BY <1>1, <1>2 DEF IInv, TypeOK, SyscalHandler, frameVars, SavedLock, KernelProcess,
              ELFProcess, Critical, Stuck, InterruptsOff
<1>8. KernelExclusive'
  BY <1>1, <1>2 DEF IInv, TypeOK, SyscalHandler, KernelExclusive, Critical, Stuck, InterruptsOff
<1>9. AddressSpaceMatches'
  BY <1>1 DEF IInv, TypeOK, SyscalHandler, AddressSpaceMatches
<1> QED
  BY <1>3, <1>4, <1>5, <1>6, <1>7, <1>8, <1>9 DEF IInv

\* SysMemalloc up to its sti.
LEMMA SysMemallocStep ==
  ASSUME IInv, SysMemalloc
  PROVE  IInv'
<1> DEFINE c == currentProcess
<1>1. /\ c \in PID /\ c \in Queued /\ next[c] \in Queued /\ c < nextPID
      /\ NULL \notin PID /\ Kernel \notin PID /\ Kernel # NULL /\ PID \subseteq Nat
  BY RunningProcess
<1>2. \A p \in PID \ {c} : pc[p] \notin Critical
  BY DEF IInv, KernelExclusive
<1>3. TypeOK'
  BY <1>1 DEF IInv, TypeOK, SysMemalloc, queueVars, sliceVars, frameVars,
              ControlPoint, Critical, Stuck, InterruptsOff
<1>4. RingIntact'
  BY <1>1, RingUntouched DEF IInv, SysMemalloc
<1>5. FreshPids' /\ LiveIffQueued'
  BY <1>1 DEF IInv, TypeOK, SysMemalloc, queueVars, FreshPids, LiveIffQueued, Queued
<1>6. UnderConstruction' /\ Directories'
  BY <1>1, <1>2 DEF IInv, TypeOK, SysMemalloc, queueVars, frameVars, UnderConstruction,
              Directories, Critical, Stuck, InterruptsOff
<1>7. SavedLock'
  BY <1>1, <1>2 DEF IInv, TypeOK, SysMemalloc, frameVars, SavedLock, KernelProcess,
              ELFProcess, Critical, Stuck, InterruptsOff
<1>8. KernelExclusive'
  BY <1>1, <1>2 DEF IInv, TypeOK, SysMemalloc, KernelExclusive, Critical, Stuck, InterruptsOff
<1>9. AddressSpaceMatches'
  BY <1>1 DEF IInv, TypeOK, SysMemalloc, AddressSpaceMatches
<1> QED
  BY <1>3, <1>4, <1>5, <1>6, <1>7, <1>8, <1>9 DEF IInv

\* The tail of SyscalHandler.
LEMMA SyscallReturnStep ==
  ASSUME IInv, SyscallReturn
  PROVE  IInv'
<1> DEFINE c == currentProcess
<1>1. /\ c \in PID /\ c \in Queued /\ next[c] \in Queued /\ c < nextPID
      /\ NULL \notin PID /\ Kernel \notin PID /\ Kernel # NULL /\ PID \subseteq Nat
  BY RunningProcess
<1>2. \A p \in PID \ {c} : pc[p] \notin Critical
  BY DEF IInv, KernelExclusive
<1>3. TypeOK'
  BY <1>1 DEF IInv, TypeOK, SyscallReturn, queueVars, sliceVars, frameVars,
              ControlPoint, Critical, Stuck, InterruptsOff
<1>4. RingIntact'
  BY <1>1, RingUntouched DEF IInv, SyscallReturn
<1>5. FreshPids' /\ LiveIffQueued'
  BY <1>1 DEF IInv, TypeOK, SyscallReturn, queueVars, FreshPids, LiveIffQueued, Queued
<1>6. UnderConstruction' /\ Directories'
  BY <1>1, <1>2 DEF IInv, TypeOK, SyscallReturn, queueVars, frameVars, UnderConstruction,
              Directories, Critical, Stuck, InterruptsOff
<1>7. SavedLock'
  BY <1>1, <1>2 DEF IInv, TypeOK, SyscallReturn, frameVars, SavedLock, KernelProcess,
              ELFProcess, Critical, Stuck, InterruptsOff
<1>8. KernelExclusive'
  BY <1>1, <1>2 DEF IInv, TypeOK, SyscallReturn, KernelExclusive, Critical, Stuck, InterruptsOff
<1>9. AddressSpaceMatches'
  BY <1>1 DEF IInv, TypeOK, SyscallReturn, AddressSpaceMatches
<1> QED
  BY <1>3, <1>4, <1>5, <1>6, <1>7, <1>8, <1>9 DEF IInv

\* A timer interrupt inside a time slice.
LEMMA TickCountStep ==
  ASSUME IInv, TickCount
  PROVE  IInv'
<1> DEFINE c == currentProcess
<1>1. /\ c \in PID /\ c \in Queued /\ next[c] \in Queued /\ c < nextPID
      /\ NULL \notin PID /\ Kernel \notin PID /\ Kernel # NULL /\ PID \subseteq Nat
  BY RunningProcess
<1>2. \A p \in PID \ {c} : pc[p] \notin Critical
  BY DEF IInv, KernelExclusive
<1>3. TypeOK'
  BY <1>1 DEF IInv, TypeOK, TickCount, queueVars, sliceVars, frameVars,
              ControlPoint, Critical, Stuck, InterruptsOff
<1>4. RingIntact'
  BY <1>1, RingUntouched DEF IInv, TickCount
<1>5. FreshPids' /\ LiveIffQueued'
  BY <1>1 DEF IInv, TypeOK, TickCount, queueVars, FreshPids, LiveIffQueued, Queued
<1>6. UnderConstruction' /\ Directories'
  BY <1>1, <1>2 DEF IInv, TypeOK, TickCount, queueVars, frameVars, UnderConstruction,
              Directories, Critical, Stuck, InterruptsOff
<1>7. SavedLock'
  BY <1>1, <1>2 DEF IInv, TypeOK, TickCount, frameVars, SavedLock, KernelProcess,
              ELFProcess, Critical, Stuck, InterruptsOff
<1>8. KernelExclusive'
  BY <1>1, <1>2 DEF IInv, TypeOK, TickCount, KernelExclusive, Critical, Stuck, InterruptsOff
<1>9. AddressSpaceMatches'
  BY <1>1 DEF IInv, TypeOK, TickCount, AddressSpaceMatches
<1> QED
  BY <1>3, <1>4, <1>5, <1>6, <1>7, <1>8, <1>9 DEF IInv

\* The process under construction goes on the ring.
LEMMA QueueNewProcessStep ==
  ASSUME IInv, QueueNewProcess
  PROVE  IInv'
<1> DEFINE c == currentProcess
<1>1. /\ c \in PID /\ c \in Queued /\ next[c] \in Queued /\ c < nextPID
      /\ NULL \notin PID /\ Kernel \notin PID /\ Kernel # NULL /\ PID \subseteq Nat
  BY RunningProcess
<1>2. \A p \in PID \ {c} : pc[p] \notin Critical
  BY DEF IInv, KernelExclusive
<1> DEFINE n == newProc[c]
<1>3. n \in PID /\ n < nextPID /\ next[n] = NULL /\ n # c /\ n # 0 /\ pc[n] = "none"
  BY <1>1 DEF IInv, UnderConstruction, QueueNewProcess, Queued, RingIntact,
              Directories, LiveIffQueued
<1>4. /\ next' \in [PID -> PID \cup {NULL}]
      /\ Queued' = Queued \cup {n}
      /\ RingIntact'
  BY <1>3, InsertKeepsRing DEF IInv, QueueNewProcess
<1>5. \A p \in PID : next'[p] # NULL <=> next[p] # NULL \/ p = n
  BY <1>4 DEF Queued
<1>6. /\ pc'[c] = "unlock" /\ pc'[n] = "user"
      /\ \A p \in PID \ {c, n} : pc'[p] = pc[p]
  BY <1>1, <1>3 DEF IInv, TypeOK, QueueNewProcess
<1>7. TypeOK'
  BY <1>4 DEF IInv, TypeOK, QueueNewProcess, sliceVars, frameVars, ControlPoint, Critical, Stuck, InterruptsOff
<1>8. FreshPids' /\ LiveIffQueued'
  <2>1. nextPID' = nextPID /\ nextPID \in Nat
    BY DEF IInv, TypeOK, QueueNewProcess
  <2>2. c \in Nat /\ n \in Nat /\ next[c] # NULL
    BY <1>1, <1>3 DEF Queued
  <2> QED
    BY <1>1, <1>3, <1>5, <1>6, <2>1, <2>2 DEF IInv, FreshPids, LiveIffQueued
<1>9. UnderConstruction' /\ Directories'
  <2>1. \A p \in PID : pc'[p] \notin {"map", "copy"}
    BY <1>2, <1>6 DEF Critical, Stuck, InterruptsOff
  <2> QED
    BY <2>1 DEF IInv, QueueNewProcess, UnderConstruction, Directories
<1>10. SavedLock' /\ KernelExclusive' /\ AddressSpaceMatches'
  BY <1>1, <1>2, <1>3, <1>6 DEF IInv, QueueNewProcess, frameVars, SavedLock, KernelProcess,
              ELFProcess, KernelExclusive, AddressSpaceMatches, Critical, Stuck, InterruptsOff
<1> QED
  BY <1>4, <1>7, <1>8, <1>9, <1>10 DEF IInv

\* A process exits and its successor gets the CPU.
LEMMA EndProcessStep ==
  ASSUME IInv, EndProcess
  PROVE  IInv'
<1> DEFINE c == currentProcess
<1>1. /\ c \in PID /\ c \in Queued /\ next[c] \in Queued /\ c < nextPID
      /\ NULL \notin PID /\ Kernel \notin PID /\ Kernel # NULL /\ PID \subseteq Nat
  BY RunningProcess
<1>2. \A p \in PID \ {c} : pc[p] \notin Critical
  BY DEF IInv, KernelExclusive
<1>3. c # 0 /\ processQueueStart = 0
  BY SchedulerAssumption DEF IInv, EndProcess, ELFProcess, Directories
<1>4. /\ next' \in [PID -> PID \cup {NULL}]
      /\ Queued' = Queued \ {c}
      /\ RingIntact'
  <2>1. /\ next' = [RemoveProcessFromQueue(c) EXCEPT ![c] = NULL]
        /\ currentProcess' = next[c]
        /\ UNCHANGED processQueueStart
    BY DEF EndProcess, TaskSwitch
  <2> QED
    BY <1>1, <1>3, <2>1, RemoveKeepsRing DEF IInv
<1>5. \A p \in PID : next'[p] # NULL <=> next[p] # NULL /\ p # c
  BY <1>4 DEF Queued
<1>6. /\ next[c] \in PID /\ next[c] # c
      /\ currentProcess' = next[c] /\ cr3' = pageDirectory[next[c]]
  BY <1>1, <1>3, PredecessorExists DEF IInv, EndProcess, TaskSwitch, Queued
<1>7. /\ pc'[c] = "none" /\ pageDirectory'[c] = NULL /\ schedulerState'[c] = FALSE
      /\ \A p \in PID \ {c} : /\ pc'[p] = pc[p]
                              /\ pageDirectory'[p] = pageDirectory[p]
                              /\ schedulerState'[p] = schedulerState[p]
                              /\ newProc'[p] = newProc[p]
  BY <1>1 DEF IInv, TypeOK, EndProcess
<1>8. TypeOK'
  <2>1. cr3' \in PID \cup {Kernel, NULL}
    BY <1>6 DEF IInv, TypeOK
  <2> QED
    BY <1>1, <1>4, <1>6, <2>1 DEF IInv, TypeOK, EndProcess, ControlPoint, Critical, Stuck, InterruptsOff
<1>9. FreshPids' /\ LiveIffQueued'
  BY <1>5, <1>7 DEF IInv, FreshPids, LiveIffQueued, EndProcess
<1>10. UnderConstruction' /\ Directories'
  BY <1>2, <1>3, <1>7 DEF IInv, UnderConstruction, Directories, Critical, Stuck, InterruptsOff, EndProcess
<1>11. pc[c] = "user" /\ \A p \in PID : pc'[p] \notin Critical
  BY <1>2, <1>7 DEF EndProcess, Critical, Stuck, InterruptsOff
<1>12. SavedLock'
  BY <1>7, <1>11 DEF IInv, SavedLock, KernelProcess, ELFProcess, Critical, Stuck, InterruptsOff
<1>13. KernelExclusive' /\ AddressSpaceMatches'
  BY <1>6, <1>7, <1>11 DEF KernelExclusive, AddressSpaceMatches, Critical, Stuck, InterruptsOff
<1> QED
  BY <1>4, <1>8, <1>9, <1>10, <1>12, <1>13 DEF IInv

\* The timer moves the CPU on.  The lock is free, so nobody is in a critical
\* window.
LEMMA TickSwitchStep ==
  ASSUME IInv, TickSwitch
  PROVE  IInv'
<1> DEFINE c == currentProcess
<1>1. /\ c \in PID /\ c \in Queued /\ next[c] \in Queued /\ c < nextPID
      /\ NULL \notin PID /\ Kernel \notin PID /\ Kernel # NULL /\ PID \subseteq Nat
  BY RunningProcess
<1>2. \A p \in PID \ {c} : pc[p] \notin Critical
  BY DEF IInv, KernelExclusive
<1>3. ~schedulerLock /\ \A p \in PID : pc[p] \notin Critical
  BY DEF IInv, KernelExclusive, TickSwitch, Preemptible
<1>4. next[c] \in PID /\ currentProcess' = next[c] /\ cr3' = pageDirectory[next[c]]
  BY <1>1 DEF TickSwitch, TaskSwitch, SwitchTarget, Queued
<1>5. TypeOK'
  BY <1>1, <1>4 DEF IInv, TypeOK, TickSwitch, queueVars, frameVars
<1>6. RingIntact'
  BY <1>1, <1>4, RingUntouched DEF IInv, TickSwitch
<1>7. FreshPids' /\ LiveIffQueued' /\ UnderConstruction' /\ Directories'
  BY DEF IInv, TickSwitch, queueVars, frameVars, FreshPids, LiveIffQueued,
         UnderConstruction, Directories
<1>8. SavedLock'
  BY <1>3 DEF IInv, TickSwitch, frameVars, SavedLock, KernelProcess, ELFProcess, Critical, Stuck, InterruptsOff
<1>9. KernelExclusive' /\ AddressSpaceMatches'
  BY <1>3, <1>4 DEF TickSwitch, frameVars, KernelExclusive, AddressSpaceMatches, Critical, Stuck, InterruptsOff
<1> QED
  BY <1>5, <1>6, <1>7, <1>8, <1>9 DEF IInv

\* Every action of the scheduler keeps the invariant.
LEMMA NextIInv == IInv /\ [Next]_vars => IInv'
<1> SUFFICES ASSUME IInv, [Next]_vars PROVE IInv'
  OBVIOUS
<1>1. CASE CallCreateProcess
  BY <1>1, SaveLockStep DEF CallCreateProcess
<1>2. CASE CallLoadELF
  BY <1>2, SaveLockStep DEF CallLoadELF
<1>3. CASE CreateProcess
  <2>1. ~ELFProcess(currentProcess)
    BY <1>3, RunningProcess DEF IInv, SavedLock, CreateProcess, KernelProcess, ELFProcess
  <2>2. 0 \in 0 .. MaxSegments /\ KernelSlice \in Nat
    BY SchedulerAssumption
  <2> QED
    BY <1>3, <2>1, <2>2, AllocateStep DEF CreateProcess
<1>4. CASE LoadELF
  <2>1. ~ELFProcess(currentProcess)
    BY <1>4, RunningProcess DEF IInv, SavedLock, LoadELF, KernelProcess, ELFProcess
  <2>2. PICK n \in 0 .. MaxSegments, point \in {"map", "halted"} :
          AllocateProcess(nextPID, 0, ELFSlice, n, point)
    BY <1>4 DEF LoadELF
  <2>3. 0 \in Nat /\ ELFSlice \in Nat
    BY SchedulerAssumption
  <2> QED
    BY <1>4, <2>1, <2>2, <2>3, AllocateStep DEF LoadELF
<1>5. CASE SysExec
  <2>1. PICK n \in 0 .. MaxSegments, point \in {"map", "halted"} :
          AllocateProcess(nextPID, 0, ELFSlice, n, point)
    BY <1>5 DEF SysExec
  <2>2. 0 \in Nat /\ ELFSlice \in Nat
    BY SchedulerAssumption
  <2> QED
    BY <1>5, <2>1, <2>2, AllocateStep DEF SysExec
<1>6. CASE LoadSegment
  BY <1>6, LoadSegmentStep
<1>7. CASE FinishSegment
  BY <1>7, FinishSegmentStep
<1>8. CASE QueueNewProcess
  BY <1>8, QueueNewProcessStep
<1>9. CASE RestoreLock
  BY <1>9, RestoreLockStep
<1>10. CASE SyscallReturn
  BY <1>10, SyscallReturnStep
<1>11. CASE SyscalHandler
  BY <1>11, SyscalHandlerStep
<1>12. CASE SysMemalloc
  BY <1>12, SysMemallocStep
<1>13. CASE EndProcess
  BY <1>13, EndProcessStep
<1>14. CASE TickCount
  BY <1>14, TickCountStep
<1>15. CASE TickSwitch
  BY <1>15, TickSwitchStep
<1>16. CASE UNCHANGED vars
  BY <1>16 DEF vars, IInv, TypeOK, FreshPids, LiveIffQueued, UnderConstruction,
       Directories, SavedLock, KernelExclusive, AddressSpaceMatches, RingIntact,
       ClosedUnderNext, Queued, KernelProcess, ELFProcess
<1>17. CASE PageFault \/ PagesRunOut
  BY <1>17, StuckStep
<1> QED
  BY <1>1, <1>2, <1>3, <1>4, <1>5, <1>6, <1>7, <1>8, <1>9, <1>10, <1>11, <1>12,
     <1>13, <1>14, <1>15, <1>16, <1>17
     DEF Next, LoaderStep, FailStep, StandStill, TimerStep, TickLocked

\* The inductive invariant holds in every reachable state.
THEOREM Invariance == Spec => []IInv
<1>1. Init => IInv
  BY InitIInv
<1>2. IInv /\ [Next]_vars => IInv'
  BY NextIInv
<1> QED
  BY <1>1, <1>2, PTL DEF Spec

\* Every variable keeps its type, whatever processes do.
THEOREM TypeCorrect == Spec => []TypeOK
<1>1. IInv => TypeOK
  BY DEF IInv
<1> QED
  BY <1>1, Invariance, PTL

\* The queue of processes is one ring at all times: the walks of
\* FindProcessByPID, RemoveProcessFromQueue and Tick terminate and see every
\* process and no freed one.
THEOREM RingAlwaysIntact == Spec => []RingIntact
<1>1. IInv => RingIntact
  BY DEF IInv
<1> QED
  BY <1>1, Invariance, PTL

\* schedulerLock gives mutual exclusion to process creation and to the system
\* calls that open interrupts.
THEOREM LockExcludes == Spec => []KernelExclusive
<1>1. IInv => KernelExclusive
  BY DEF IInv
<1> QED
  BY <1>1, Invariance, PTL

\* cr3 always holds the page directory of the running process, except while
\* LoadELF copies a segment.
THEOREM AddressSpaceCorrect == Spec => []AddressSpaceMatches
<1>1. IInv => AddressSpaceMatches
  BY DEF IInv
<1> QED
  BY <1>1, Invariance, PTL

-----------------------------------------------------------------------------
(* What steps may never do.                                                *)

\* Building a process_t leaves the caller's own directory alone.
LEMMA AllocateKeepsCaller ==
  ASSUME IInv, NEW dir, NEW slice, NEW default, NEW n, NEW point,
         AllocateProcess(dir, slice, default, n, point)
  PROVE  /\ currentProcess' = currentProcess
         /\ pageDirectory'[currentProcess] = pageDirectory[currentProcess]
         /\ pc'[currentProcess] = point
         /\ schedulerLock' = TRUE
<1>1. currentProcess \in PID /\ currentProcess # nextPID
  BY RunningProcess DEF IInv, TypeOK
<1> QED
  BY <1>1 DEF IInv, TypeOK, AllocateProcess

\* A kernel process that has the CPU while the lock is held from before keeps
\* both, whatever it does and however often the timer ticks.
LEMMA FrozenStep ==
  ASSUME IInv, Next, Frozen
  PROVE  Frozen' /\ currentProcess' = currentProcess
<1> DEFINE c == currentProcess
<1>1. /\ c \in PID /\ NULL \notin PID /\ Kernel \notin PID
      /\ schedulerLock /\ schedulerLock \in BOOLEAN
      /\ KernelProcess(c) /\ ~ELFProcess(c) /\ pc[c] # "sysret"
      /\ schedulerState \in [PID -> BOOLEAN]
      /\ pc \in [PID -> ControlPoint]
  BY RunningProcess DEF Frozen, KernelProcess, ELFProcess, IInv, TypeOK, SavedLock
<1>2. CASE CallCreateProcess \/ CallLoadELF
  BY <1>1, <1>2 DEF CallCreateProcess, CallLoadELF, SaveLock, Frozen, KernelProcess
<1>3. CASE CreateProcess \/ LoadELF
  <2>1. PICK dir, slice, default, n, point :
          point \in {"map", "halted"} /\ AllocateProcess(dir, slice, default, n, point)
    BY <1>3 DEF CreateProcess, LoadELF
  <2>2. /\ currentProcess' = c /\ pageDirectory'[c] = pageDirectory[c]
        /\ pc'[c] = point /\ schedulerLock' = TRUE
    BY <2>1, AllocateKeepsCaller
  <2>3. schedulerState' = schedulerState /\ pc[c] # "user"
    BY <1>3 DEF CreateProcess, LoadELF
  <2> QED
    BY <1>1, <2>2, <2>3 DEF Frozen, KernelProcess
<1>4. CASE LoadSegment \/ FinishSegment
  BY <1>1, <1>4 DEF LoadSegment, FinishSegment, Frozen, KernelProcess, frameVars
<1>5. CASE QueueNewProcess
  BY <1>1, <1>5 DEF QueueNewProcess, Frozen, KernelProcess, frameVars
<1>6. CASE RestoreLock
  BY <1>1, <1>6 DEF RestoreLock, LockToRestore, Frozen, KernelProcess, frameVars
<1>7. CASE SysExec \/ SyscalHandler \/ SysMemalloc \/ EndProcess
  BY <1>1, <1>7 DEF SysExec, SyscalHandler, SysMemalloc, EndProcess
<1>8. CASE SyscallReturn \/ TickSwitch
  BY <1>1, <1>8 DEF SyscallReturn, TickSwitch, Preemptible
<1>9. CASE TickCount
  BY <1>1, <1>9 DEF TickCount, Frozen, KernelProcess, frameVars
<1>10. CASE TickLocked
  BY <1>1, <1>10 DEF TickLocked, vars, Frozen, KernelProcess
<1>11. CASE FailStep
  BY <1>1, <1>11 DEF FailStep, PageFault, PagesRunOut, StandStill, vars, Frozen,
                    KernelProcess, frameVars
<1> QED
  BY <1>2, <1>3, <1>4, <1>5, <1>6, <1>7, <1>8, <1>9, <1>10, <1>11
     DEF Next, LoaderStep, TimerStep

\* Once an exit has handed a held lock to a kernel process, Tick never
\* switches away from it again: EndProcess can stop the whole system.
THEOREM FrozenIsForever == Spec => FrozenForever
<1>1. IInv /\ [Next]_vars =>
        [Frozen => Frozen' /\ currentProcess' = currentProcess]_vars
  BY FrozenStep
<1> QED
  BY <1>1, Invariance, PTL DEF Spec, FrozenForever

\* An action other than EndProcess leaves no lock held that it found free.
LEMMA LeakStep ==
  ASSUME IInv, Next, ~Leaked, Leaked'
  PROVE  currentProcess \notin Queued'
<1> DEFINE c == currentProcess
<1>1. /\ c \in PID /\ NULL \notin PID /\ Kernel \notin PID
      /\ schedulerLock \in BOOLEAN
      /\ schedulerState \in [PID -> BOOLEAN]
      /\ pc \in [PID -> ControlPoint]
  BY RunningProcess DEF IInv, TypeOK
<1>2. CASE CallCreateProcess \/ CallLoadELF
  BY <1>1, <1>2 DEF CallCreateProcess, CallLoadELF, SaveLock, Leaked
<1>3. CASE CreateProcess \/ LoadELF
  <2>1. PICK dir, slice, default, n, point :
          point \in {"map", "halted"} /\ AllocateProcess(dir, slice, default, n, point)
    BY <1>3 DEF CreateProcess, LoadELF
  <2>2. /\ currentProcess' = c /\ pageDirectory'[c] = pageDirectory[c]
        /\ pc'[c] = point /\ schedulerLock' = TRUE
    BY <2>1, AllocateKeepsCaller
  <2>3. schedulerState' = schedulerState /\ pc[c] \in {"create", "load"}
    BY <1>3 DEF CreateProcess, LoadELF
  <2>4. ~schedulerState[c]
    BY <1>1, <2>3 DEF IInv, SavedLock, Leaked
  <2> QED
    BY <1>1, <2>1, <2>2, <2>3, <2>4 DEF Leaked
<1>4. CASE SysExec
  <2>1. PICK dir, slice, default, n, point :
          point \in {"map", "halted"} /\ AllocateProcess(dir, slice, default, n, point)
    BY <1>4 DEF SysExec
  <2>2. /\ currentProcess' = c /\ pageDirectory'[c] = pageDirectory[c]
        /\ pc'[c] = point
    BY <2>1, AllocateKeepsCaller
  <2> QED
    BY <1>1, <1>4, <2>1, <2>2 DEF SysExec, Leaked, KernelProcess, ELFProcess
<1>5. CASE LoadSegment \/ FinishSegment
  BY <1>1, <1>5 DEF LoadSegment, FinishSegment, Leaked, KernelProcess, frameVars
<1>6. CASE QueueNewProcess
  BY <1>1, <1>6 DEF QueueNewProcess, Leaked, KernelProcess, frameVars, IInv,
                    UnderConstruction
<1>7. CASE RestoreLock
  <2>1. schedulerLock
    BY <1>1, <1>7 DEF IInv, KernelExclusive, RestoreLock, Critical, Stuck, InterruptsOff
  <2>2. pageDirectory[c] \in {c, Kernel, NULL}
    BY <1>1 DEF IInv, Directories
  <2> QED
    BY <1>1, <1>7, <2>1, <2>2 DEF RestoreLock, LockToRestore, Leaked, KernelProcess,
                    ELFProcess, frameVars
<1>8. CASE SyscalHandler \/ SyscallReturn
  BY <1>8 DEF SyscalHandler, SyscallReturn, Leaked
<1>9. CASE SysMemalloc
  BY <1>1, <1>9 DEF SysMemalloc, Leaked
<1>10. CASE EndProcess
  <2>1. c # processQueueStart /\ c \in Queued
    BY <1>10, SchedulerAssumption, RunningProcess
       DEF IInv, EndProcess, ELFProcess, Directories
  <2>2. Queued' = Queued \ {c}
    BY <1>10, <2>1, RemoveKeepsRing DEF IInv, EndProcess, TaskSwitch
  <2> QED
    BY <2>2
<1>11. CASE TickSwitch
  BY <1>11 DEF TickSwitch, Preemptible, Leaked
<1>12. CASE TickCount
  BY <1>1, <1>12 DEF TickCount, Leaked, KernelProcess, frameVars
<1>13. CASE TickLocked
  BY <1>13 DEF TickLocked, vars, Leaked, KernelProcess
<1>14. CASE FailStep
  BY <1>1, <1>14 DEF FailStep, PageFault, PagesRunOut, StandStill, vars, Leaked,
                    KernelProcess, frameVars
<1> QED
  BY <1>2, <1>3, <1>4, <1>5, <1>6, <1>7, <1>8, <1>9, <1>10, <1>11, <1>12, <1>13, <1>14
     DEF Next, LoaderStep, TimerStep

\* CreateProcess, LoadELF and every system call that returns hand the lock
\* back; SysExit is the only path that leaves it held.
THEOREM OnlyExitLeaks == Spec => LeakOnlyByExit
<1>1. IInv /\ [Next]_vars => [~Leaked /\ Leaked' => currentProcess \notin Queued']_vars
  BY LeakStep
<1> QED
  BY <1>1, Invariance, PTL DEF Spec, LeakOnlyByExit

-----------------------------------------------------------------------------
(***************************************************************************)
(* The scheduler implements RoundRobin.  That the walk along the ring is a *)
(* line (IsLine) is kept by insertion and removal like an invariant, so    *)
(* induction over the walk is needed once only, to see that a line is what *)
(* RingWalk computes.                                                      *)
(***************************************************************************)
\* w is the ring as a line: it starts at the first process, follows the
\* links, comes back, and meets every queued process once.
IsLine(w) ==
  /\ w \in Seq(PID)
  /\ Len(w) > 0
  /\ w[1] = processQueueStart
  /\ \A i \in 1 .. (Len(w) - 1) : next[w[i]] = w[i + 1]
  /\ next[w[Len(w)]] = w[1]
  /\ \A i, j \in 1 .. Len(w) : w[i] = w[j] => i = j
  /\ \A p \in Queued : \E i \in 1 .. Len(w) : p = w[i]

\* f is a walk along the ring from its start, as RingWalk takes it.
WalkStep(f) ==
  f = [n \in 1 .. Cardinality(Queued) |->
         IF n = 1 THEN processQueueStart ELSE next[f[n - 1]]]

\* RingWalk is what such a walk meets.
LEMMA RingWalkIsStep ==
  RingWalk = [n \in 1 .. Cardinality(Queued) |-> (CHOOSE f : WalkStep(f))[n]]
BY Zenon DEF RingWalk, WalkStep

\* The places of a line and what stands there.
LEMMA LineFacts ==
  ASSUME NEW w, IsLine(w)
  PROVE  LET n == Len(w) IN
         /\ n \in Nat /\ n > 0
         /\ w \in [1 .. n -> Queued]
         /\ w[1] = processQueueStart
         /\ \A i \in 1 .. (n - 1) : next[w[i]] = w[i + 1]
         /\ next[w[n]] = w[1]
         /\ \A i, j \in 1 .. n : w[i] = w[j] => i = j
         /\ \A p \in Queued : \E i \in 1 .. n : p = w[i]
<1> DEFINE n == Len(w)
<1>1. /\ n \in Nat /\ n > 0 /\ w \in [1 .. n -> PID] /\ NULL \notin PID
      /\ \A i \in 1 .. (n - 1) : next[w[i]] = w[i + 1]
      /\ next[w[n]] = w[1]
  BY SchedulerAssumption DEF IsLine, PID
<1>2. /\ w[1] = processQueueStart
      /\ \A i, j \in 1 .. n : w[i] = w[j] => i = j
      /\ \A p \in Queued : \E i \in 1 .. n : p = w[i]
  BY DEF IsLine
<1> HIDE DEF n
<1>3. \A i \in 1 .. n : w[i] \in Queued
  <2> TAKE i \in 1 .. n
  <2>1. next[w[i]] \in PID
    <3>1. CASE i = n
      BY <1>1, <3>1
    <3>2. CASE i # n
      <4>1. i \in 1 .. (n - 1) /\ i + 1 \in 1 .. n
        BY <1>1, <3>2
      <4> QED
        BY <1>1, <4>1
    <3> QED
      BY <3>1, <3>2
  <2> QED
    BY <1>1, <2>1 DEF Queued
<1>4. w \in [1 .. n -> Queued]
  BY <1>1, <1>3
<1> QED
  BY <1>1, <1>2, <1>4 DEF n

\* A line has as many places as there are queued processes.
LEMMA LineLength ==
  ASSUME NEW w, IsLine(w)
  PROVE  Cardinality(Queued) = Len(w)
<1> DEFINE n == Len(w)
<1>1. /\ n \in Nat /\ w \in [1 .. n -> Queued]
      /\ \A i, j \in 1 .. n : w[i] = w[j] => i = j
      /\ \A p \in Queued : \E i \in 1 .. n : p = w[i]
  BY LineFacts
<1> HIDE DEF n
<1>2. w \in Injection(1 .. n, Queued)
  BY <1>1 DEF Injection, IsInjective
<1>3. w \in Surjection(1 .. n, Queued)
  BY <1>1 DEF Surjection
<1>4. ExistsBijection(1 .. n, Queued)
  BY <1>2, <1>3 DEF Bijection, ExistsBijection
<1> QED
  BY <1>1, <1>4, FS_CountingElements DEF n

\* The walk from the first process meets the processes of a line in order.
LEMMA WalkFollowsLine ==
  ASSUME NEW w, IsLine(w)
  PROVE  RingWalk = w
<1> DEFINE n == Len(w)
<1>1. Cardinality(Queued) = n /\ n \in Nat /\ n > 0 /\ w \in [1 .. n -> Queued]
  BY LineLength, LineFacts
<1> HIDE DEF n
<1>2. WalkStep(w)
  <2>1. \A i \in 1 .. n : w[i] = IF i = 1 THEN processQueueStart ELSE next[w[i - 1]]
    <3> TAKE i \in 1 .. n
    <3>1. CASE i = 1
      BY <3>1 DEF IsLine
    <3>2. CASE i # 1
      <4>1. i - 1 \in 1 .. (n - 1) /\ (i - 1) + 1 = i
        BY <1>1, <3>2
      <4>2. next[w[i - 1]] = w[(i - 1) + 1]
        BY <4>1 DEF IsLine, n
      <4> QED
        BY <3>2, <4>1, <4>2
    <3> QED
      BY <3>1, <3>2
  <2>2. w = [i \in 1 .. n |-> w[i]]
    BY <1>1
  <2> QED
    BY <1>1, <2>1, <2>2 DEF WalkStep
<1>3. PICK f : f = CHOOSE g : WalkStep(g)
  OBVIOUS
<1>4. WalkStep(f)
  BY <1>2, <1>3, Zenon
<1>5. RingWalk = [i \in 1 .. n |-> f[i]]
  BY <1>1, <1>3, RingWalkIsStep
<1> DEFINE S == {i \in Nat : i < n => f[i + 1] = w[i + 1]}
<1>6. 0 \in S
  BY <1>1, <1>2, <1>4 DEF WalkStep
<1>7. ASSUME NEW i \in Nat, i \in S PROVE i + 1 \in S
  <2> SUFFICES ASSUME i + 1 < n PROVE f[i + 2] = w[i + 2]
    OBVIOUS
  <2>1. f[i + 1] = w[i + 1] /\ i + 2 \in 1 .. n /\ (i + 2) - 1 = i + 1 /\ i + 2 # 1
    BY <1>1, <1>7
  <2>2. f[i + 2] = next[f[i + 1]] /\ w[i + 2] = next[w[i + 1]]
    BY <1>1, <1>2, <1>4, <2>1 DEF WalkStep
  <2> QED
    BY <2>1, <2>2
<1> HIDE DEF S
<1>8. \A i \in Nat : i \in S
  BY <1>6, <1>7, ClosedUnderSuccessor
<1>9. \A i \in 1 .. n : f[i] = w[i]
  <2> TAKE i \in 1 .. n
  <2>1. i - 1 \in Nat /\ i - 1 < n /\ (i - 1) + 1 = i
    BY <1>1
  <2>2. i - 1 \in S
    BY <1>8, <2>1
  <2> QED
    BY <2>1, <2>2 DEF S
<1>10. w = [i \in 1 .. n |-> w[i]]
  BY <1>1
<1> QED
  BY <1>5, <1>9, <1>10

\* InsertProcessIntoQueue puts the new process behind the first of the line.
LEMMA InsertIntoLine ==
  ASSUME TypeOK, NEW w, IsLine(w),
         NEW p \in PID, next[p] = NULL,
         next' = InsertProcessIntoQueue(p),
         UNCHANGED processQueueStart,
         Queued' = Queued \cup {p}
  PROVE  IsLine(<<Head(w), p>> \o Tail(w))'
<1> DEFINE n == Len(w)
           v == <<Head(w), p>> \o Tail(w)
<1>1. /\ n \in Nat /\ n > 0 /\ w \in [1 .. n -> Queued]
      /\ w[1] = processQueueStart
      /\ \A i \in 1 .. (n - 1) : next[w[i]] = w[i + 1]
      /\ next[w[n]] = w[1]
      /\ \A i, j \in 1 .. n : w[i] = w[j] => i = j
      /\ \A q \in Queued : \E i \in 1 .. n : q = w[i]
  BY LineFacts
<1>2. /\ v \in Seq(PID) /\ Len(v) = n + 1
      /\ v[1] = w[1] /\ v[2] = p
      /\ \A i \in 3 .. (n + 1) : v[i] = w[i - 1]
  <2>1. w \in Seq(PID) /\ w # <<>>
    BY DEF IsLine
  <2>2. /\ Tail(w) \in Seq(PID) /\ Len(Tail(w)) = n - 1
        /\ \A i \in 1 .. (n - 1) : Tail(w)[i] = w[i + 1]
    BY <2>1, HeadTailProperties
  <2>3. Head(w) \in PID /\ Head(w) = w[1]
    BY <2>1, HeadTailProperties
  <2> DEFINE a == <<Head(w), p>>
             t == Tail(w)
  <2>4. a \in Seq(PID) /\ Len(a) = 2 /\ a[1] = w[1] /\ a[2] = p
    BY <2>3
  <2> HIDE DEF a, t, n
  <2>5. t \in Seq(PID) /\ Len(t) = n - 1 /\ \A i \in 1 .. (n - 1) : t[i] = w[i + 1]
    BY <2>2 DEF t
  <2>6. /\ a \o t \in Seq(PID) /\ Len(a \o t) = Len(a) + Len(t)
        /\ \A i \in 1 .. Len(a) + Len(t) :
             (a \o t)[i] = IF i <= Len(a) THEN a[i] ELSE t[i - Len(a)]
    <3>1. a \in Seq(PID) /\ t \in Seq(PID)
      BY <2>4, <2>5
    <3> QED
      BY <3>1, ConcatProperties, Zenon
  <2>7. /\ Len(a) + Len(t) = n + 1 /\ Len(a \o t) = n + 1
        /\ \A i \in 1 .. (n + 1) : (a \o t)[i] = IF i <= 2 THEN a[i] ELSE t[i - 2]
    <3>1. Len(a) + Len(t) = n + 1
      BY <1>1, <2>4, <2>5
    <3> QED
      BY <2>4, <2>6, <3>1
  <2>8. \A i \in 3 .. (n + 1) : (a \o t)[i] = w[i - 1]
    <3> TAKE i \in 3 .. (n + 1)
    <3>1. i \in 1 .. (n + 1) /\ ~(i <= 2) /\ i - 2 \in 1 .. (n - 1) /\ (i - 2) + 1 = i - 1
      BY <1>1
    <3> QED
      BY <2>5, <2>7, <3>1
  <2>9. (a \o t)[1] = w[1] /\ (a \o t)[2] = p
    <3>1. 1 \in 1 .. (n + 1) /\ 2 \in 1 .. (n + 1) /\ 1 <= 2 /\ 2 <= 2
      BY <1>1
    <3> QED
      BY <2>4, <2>7, <3>1
  <2> QED
    BY <2>6, <2>7, <2>8, <2>9 DEF a, t
<1> HIDE DEF n, v
<1>3. NULL \notin PID /\ processQueueStart # p /\ processQueueStart \in Queued
  BY <1>1, SchedulerAssumption DEF PID, Queued
<1>4. /\ next'[p] = next[w[1]] /\ next'[w[1]] = p
      /\ \A q \in PID \ {p, w[1]} : next'[q] = next[q]
  BY <1>1, <1>3 DEF InsertProcessIntoQueue, TypeOK, Queued
<1>5. \A i \in 2 .. n : w[i] \in PID \ {p, w[1]} /\ w[i] \in Queued
  BY <1>1 DEF Queued
<1>6. \A i \in 1 .. n : next'[v[i]] = v[i + 1]
  <2> TAKE i \in 1 .. n
  <2>1. CASE i = 1
    BY <1>2, <1>4, <2>1
  <2>2. CASE i = 2
    <3>1. 1 \in 1 .. (n - 1) /\ 3 \in 3 .. (n + 1)
      BY <1>1, <2>2
    <3> QED
      BY <1>1, <1>2, <1>4, <2>2, <3>1
  <2>3. CASE i > 2
    <3>1. /\ i - 1 \in 2 .. n /\ i - 1 \in 1 .. (n - 1) /\ (i - 1) + 1 = i
          /\ i \in 3 .. (n + 1) /\ i + 1 \in 3 .. (n + 1) /\ (i + 1) - 1 = i
      BY <1>1, <2>3
    <3>2. v[i] = w[i - 1] /\ v[i + 1] = w[i]
      BY <1>2, <3>1
    <3>3. next'[w[i - 1]] = next[w[i - 1]] /\ next[w[i - 1]] = w[i]
      BY <1>1, <1>4, <1>5, <3>1
    <3> QED
      BY <3>2, <3>3
  <2> QED
    BY <2>1, <2>2, <2>3
<1>7. next'[v[n + 1]] = v[1]
  <2>1. CASE n = 1
    BY <1>1, <1>2, <1>4, <2>1
  <2>2. CASE n # 1
    <3>1. n + 1 \in 3 .. (n + 1) /\ (n + 1) - 1 = n /\ n \in 2 .. n
      BY <1>1, <2>2
    <3> QED
      BY <1>1, <1>2, <1>4, <1>5, <3>1
  <2> QED
    BY <2>1, <2>2
<1>8. \A i, j \in 1 .. (n + 1) : v[i] = v[j] => i = j
  <2> DEFINE at(i) == IF i = 1 THEN 1 ELSE i - 1
  <2>1. \A i \in 1 .. (n + 1) : i # 2 => at(i) \in 1 .. n /\ v[i] = w[at(i)]
    <3> TAKE i \in 1 .. (n + 1)
    <3>1. i = 1 \/ i = 2 \/ (i \in 3 .. (n + 1) /\ i - 1 \in 1 .. n /\ i # 1)
      BY <1>1
    <3>2. 1 \in 1 .. n
      BY <1>1
    <3> QED
      BY <1>2, <3>1, <3>2
  <2>2. \A k \in 1 .. n : w[k] # p
    BY <1>1 DEF Queued
  <2> SUFFICES ASSUME NEW i \in 1 .. (n + 1), NEW j \in 1 .. (n + 1), v[i] = v[j]
               PROVE  i = j
    OBVIOUS
  <2>3. CASE i = 2 \/ j = 2
    BY <1>2, <2>1, <2>2, <2>3
  <2>4. CASE i # 2 /\ j # 2
    <3>1. at(i) = at(j)
      BY <1>1, <2>1, <2>4
    <3> QED
      BY <1>1, <2>4, <3>1
  <2> QED
    BY <2>3, <2>4
<1>9. \A q \in Queued' : \E i \in 1 .. (n + 1) : q = v[i]
  <2> TAKE q \in Queued'
  <2>1. CASE q = p
    <3>1. 2 \in 1 .. (n + 1)
      BY <1>1
    <3> QED
      BY <1>2, <2>1, <3>1
  <2>2. CASE q \in Queued
    <3>1. PICK i \in 1 .. n : q = w[i]
      BY <1>1, <2>2
    <3>2. CASE i = 1
      BY <1>1, <1>2, <3>1, <3>2
    <3>3. CASE i # 1
      <4>1. i + 1 \in 3 .. (n + 1) /\ (i + 1) - 1 = i /\ i + 1 \in 1 .. (n + 1)
        BY <1>1, <3>3
      <4> QED
        BY <1>2, <3>1, <4>1
    <3> QED
      BY <3>2, <3>3
  <2> QED
    BY <2>1, <2>2
<1>10. (n + 1) - 1 = n /\ n + 1 > 0
  BY <1>1
<1>11. IsLine(v)'
  BY <1>1, <1>2, <1>6, <1>7, <1>8, <1>9, <1>10 DEF IsLine
<1> QED
  BY <1>11 DEF v

\* RemoveProcessFromQueue closes the gap the process leaves in the line.
LEMMA RemoveFromLine ==
  ASSUME TypeOK, RingIntact, NEW w, IsLine(w),
         NEW k \in 2 .. Len(w),
         next' = [RemoveProcessFromQueue(w[k]) EXCEPT ![w[k]] = NULL],
         UNCHANGED processQueueStart,
         Queued' = Queued \ {w[k]}
  PROVE  IsLine(SubSeq(w, 1, k - 1) \o SubSeq(w, k + 1, Len(w)))'
<1> DEFINE n == Len(w)
           v == SubSeq(w, 1, k - 1) \o SubSeq(w, k + 1, Len(w))
<1>1. /\ n \in Nat /\ n > 0 /\ w \in [1 .. n -> Queued]
      /\ w[1] = processQueueStart
      /\ \A i \in 1 .. (n - 1) : next[w[i]] = w[i + 1]
      /\ next[w[n]] = w[1]
      /\ \A i, j \in 1 .. n : w[i] = w[j] => i = j
      /\ \A q \in Queued : \E i \in 1 .. n : q = w[i]
  BY LineFacts
<1>2. k \in 2 .. n /\ n = Len(w)
  OBVIOUS
<1> HIDE DEF n
<1>3. n \in Nat /\ k \in Nat /\ 2 <= k /\ k <= n
  BY <1>1, <1>2
<1>4. k \in 1 .. n /\ k - 1 \in 1 .. (n - 1) /\ (k - 1) + 1 = k /\ k - 1 \in 1 .. n
  BY <1>1, <1>2
<1>5. /\ v \in Seq(PID) /\ Len(v) = n - 1
      /\ \A i \in 1 .. (k - 1) : v[i] = w[i]
      /\ \A i \in k .. (n - 1) : v[i] = w[i + 1]
  <2> DEFINE a == SubSeq(w, 1, k - 1)
             t == SubSeq(w, k + 1, n)
  <2>1. \A i \in 1 .. n : w[i] \in PID
    BY <1>1 DEF Queued
  <2>2. /\ a \in Seq(PID) /\ Len(a) = k - 1
        /\ \A i \in 1 .. (k - 1) : a[i] = w[i]
    <3>1. 1 \in Int /\ k - 1 \in Int /\ \A i \in 1 .. (k - 1) : w[i] \in PID
      BY <1>1, <1>4, <2>1
    <3>2. /\ a \in Seq(PID)
          /\ Len(a) = IF 1 <= k - 1 THEN (k - 1) - 1 + 1 ELSE 0
          /\ \A i \in 1 .. (k - 1) - 1 + 1 : a[i] = w[1 + i - 1]
      BY <3>1, SubSeqProperties
    <3> HIDE DEF a
    <3> QED
      BY <1>1, <1>4, <3>2
  <2>3. /\ t \in Seq(PID) /\ Len(t) = n - k
        /\ \A i \in 1 .. (n - k) : t[i] = w[k + i]
    <3>1. k + 1 \in Int /\ n \in Int /\ \A i \in (k + 1) .. n : w[i] \in PID
      BY <1>1, <1>4, <2>1
    <3>2. /\ t \in Seq(PID)
          /\ Len(t) = IF k + 1 <= n THEN n - (k + 1) + 1 ELSE 0
          /\ \A i \in 1 .. n - (k + 1) + 1 : t[i] = w[(k + 1) + i - 1]
      BY <3>1, SubSeqProperties
    <3> HIDE DEF t
    <3> QED
      BY <1>1, <1>4, <3>2
  <2> HIDE DEF a, t
  <2>4. /\ a \o t \in Seq(PID) /\ Len(a \o t) = Len(a) + Len(t)
        /\ \A i \in 1 .. Len(a) + Len(t) :
             (a \o t)[i] = IF i <= Len(a) THEN a[i] ELSE t[i - Len(a)]
    <3>1. a \in Seq(PID) /\ t \in Seq(PID)
      BY <2>2, <2>3
    <3> QED
      BY <3>1, ConcatProperties, Zenon
  <2>5. Len(a) + Len(t) = n - 1
    BY <1>1, <1>4, <2>2, <2>3
  <2>6. \A i \in 1 .. (k - 1) : (a \o t)[i] = w[i]
    <3> TAKE i \in 1 .. (k - 1)
    <3>1. i \in 1 .. (n - 1) /\ i <= k - 1
      BY <1>1, <1>4
    <3> QED
      BY <2>2, <2>4, <2>5, <3>1
  <2>7. \A i \in k .. (n - 1) : (a \o t)[i] = w[i + 1]
    <3> TAKE i \in k .. (n - 1)
    <3>1. /\ i \in 1 .. (n - 1) /\ ~(i <= k - 1)
          /\ i - (k - 1) \in 1 .. (n - k) /\ k + (i - (k - 1)) = i + 1
      BY <1>1, <1>4
    <3> QED
      BY <2>2, <2>3, <2>4, <2>5, <3>1
  <2> QED
    BY <1>2, <2>4, <2>5, <2>6, <2>7 DEF a, t
<1> HIDE DEF v
<1> DEFINE p == w[k]
           q == w[k - 1]
<1>6. p \in Queued /\ p # processQueueStart /\ q \in Queued /\ next[q] = p /\ q # p
  BY <1>1, <1>2, <1>4
<1>7. q = Predecessor(p) /\ next[p] # p
  BY <1>6, PredecessorExists
<1>8. next'[q] = next[p] /\ \A r \in PID \ {p, q} : next'[r] = next[r]
  BY <1>6, <1>7 DEF RemoveProcessFromQueue, TypeOK, Queued
<1>9. \A i \in 1 .. n : i # k /\ i # k - 1 => next'[w[i]] = next[w[i]]
  <2> SUFFICES ASSUME NEW i \in 1 .. n, i # k, i # k - 1
               PROVE  w[i] \in PID \ {p, q}
    BY <1>8
  <2> QED
    BY <1>1, <1>4 DEF Queued
<1>10. \A i \in 1 .. ((n - 1) - 1) : next'[v[i]] = v[i + 1]
  <2> TAKE i \in 1 .. ((n - 1) - 1)
  <2>1. CASE i < k - 1
    <3>1. /\ i \in 1 .. (k - 1) /\ i + 1 \in 1 .. (k - 1)
          /\ i \in 1 .. n /\ i # k /\ i # k - 1 /\ i \in 1 .. (n - 1)
      BY <1>3, <2>1
    <3>2. v[i] = w[i] /\ v[i + 1] = w[i + 1]
      BY <1>5, <3>1
    <3> QED
      BY <1>1, <1>9, <3>1, <3>2
  <2>2. CASE i = k - 1
    <3>1. i \in 1 .. (k - 1) /\ i + 1 = k /\ k \in k .. (n - 1) /\ k \in 1 .. (n - 1)
      BY <1>1, <1>4, <2>2
    <3>2. v[i] = q /\ v[i + 1] = w[k + 1] /\ next[p] = w[k + 1]
      BY <1>1, <1>5, <2>2, <3>1
    <3> QED
      BY <1>8, <3>2
  <2>3. CASE i >= k
    <3>1. /\ i \in k .. (n - 1) /\ i + 1 \in k .. (n - 1)
          /\ i + 1 \in 1 .. n /\ i + 1 # k /\ i + 1 # k - 1 /\ i + 1 \in 1 .. (n - 1)
      BY <1>1, <1>4, <2>3
    <3>2. v[i] = w[i + 1] /\ v[i + 1] = w[(i + 1) + 1]
      BY <1>5, <3>1
    <3> QED
      BY <1>1, <1>9, <3>1, <3>2
  <2> QED
    BY <1>1, <1>4, <2>1, <2>2, <2>3
<1>11. next'[v[n - 1]] = v[1]
  <2>1. v[1] = w[1]
    BY <1>1, <1>4, <1>5
  <2>2. CASE k = n
    <3>1. n - 1 \in 1 .. (k - 1) /\ n - 1 = k - 1
      BY <1>1, <1>4, <2>2
    <3>2. v[n - 1] = q /\ next[p] = w[1]
      BY <1>1, <1>5, <2>2, <3>1
    <3> QED
      BY <1>8, <2>1, <3>2
  <2>3. CASE k # n
    <3>1. n - 1 \in k .. (n - 1) /\ (n - 1) + 1 = n /\ n \in 1 .. n /\ n # k /\ n # k - 1
      BY <1>1, <1>2, <2>3
    <3>2. v[n - 1] = w[n]
      BY <1>5, <3>1
    <3> QED
      BY <1>1, <1>9, <2>1, <3>1, <3>2
  <2> QED
    BY <2>2, <2>3
<1>12. \A i, j \in 1 .. (n - 1) : v[i] = v[j] => i = j
  <2> DEFINE at(i) == IF i < k THEN i ELSE i + 1
  <2>1. \A i \in 1 .. (n - 1) : at(i) \in 1 .. n /\ v[i] = w[at(i)]
    <3> TAKE i \in 1 .. (n - 1)
    <3>1. CASE i < k
      <4>1. i \in 1 .. (k - 1) /\ i \in 1 .. n
        BY <1>1, <1>4, <3>1
      <4> QED
        BY <1>5, <3>1, <4>1
    <3>2. CASE ~(i < k)
      <4>1. i \in k .. (n - 1) /\ i + 1 \in 1 .. n
        BY <1>1, <1>4, <3>2
      <4> QED
        BY <1>5, <3>2, <4>1
    <3> QED
      BY <3>1, <3>2
  <2> SUFFICES ASSUME NEW i \in 1 .. (n - 1), NEW j \in 1 .. (n - 1), v[i] = v[j]
               PROVE  i = j
    OBVIOUS
  <2>2. at(i) = at(j)
    BY <1>1, <2>1
  <2> QED
    BY <1>1, <1>4, <2>2
<1>13. \A r \in Queued' : \E i \in 1 .. (n - 1) : r = v[i]
  <2> TAKE r \in Queued'
  <2>1. PICK i \in 1 .. n : r = w[i] /\ i # k
    BY <1>1
  <2>2. CASE i < k
    <3>1. i \in 1 .. (k - 1) /\ i \in 1 .. (n - 1)
      BY <1>1, <1>4, <2>2
    <3> QED
      BY <1>5, <2>1, <3>1
  <2>3. CASE i > k
    <3>1. i - 1 \in k .. (n - 1) /\ (i - 1) + 1 = i /\ i - 1 \in 1 .. (n - 1)
      BY <1>3, <2>3
    <3> QED
      BY <1>5, <2>1, <3>1
  <2> QED
    BY <1>4, <2>1, <2>2, <2>3
<1>14. n - 1 > 0 /\ v[1] = w[1]
  BY <1>1, <1>4, <1>5
<1>15. IsLine(v)'
  BY <1>1, <1>5, <1>10, <1>11, <1>12, <1>13, <1>14 DEF IsLine
<1> QED
  BY <1>15 DEF v

-----------------------------------------------------------------------------
(* Every step of the scheduler is a step of RoundRobin or none.            *)

\* A process under construction has the last number given out.
LastNumbered ==
  \A p \in PID : pc[p] \in Building => newProc[p] = nextPID - 1

\* What the refinement needs beside IInv.
RInv == IsLine(RingWalk) /\ LastNumbered

\* At boot the line is the idle process.
LEMMA FirstLine == Init => RInv /\ RR!RRInit
<1> SUFFICES ASSUME Init PROVE RInv /\ RR!RRInit
  OBVIOUS
<1>1. 0 \in PID /\ NULL \notin PID
  BY SchedulerAssumption DEF PID
<1>2. Queued = {0} /\ next[0] = 0
  BY <1>1 DEF Init, Queued
<1>3. IsLine(<<0>>)
  BY <1>1, <1>2 DEF Init, IsLine
<1>4. RingWalk = <<0>>
  BY <1>3, WalkFollowsLine
<1>5. LastNumbered
  BY DEF LastNumbered, Building, Init
<1>6. Created = 1
  BY <1>1 DEF Created, Building, Init
<1> QED
  BY <1>3, <1>4, <1>5, <1>6 DEF RInv, RR!RRInit, Init

\* The walk follows the line in the next state as well.
LEMMA NextWalk == \A w : IsLine(w)' => RingWalk' = w
<1>1. \A w : IsLine(w) => RingWalk = w
  BY WalkFollowsLine
<1>2. (\A w : IsLine(w) => RingWalk = w)'
  BY <1>1, PTL
<1> QED
  BY <1>2

\* The process behind another one in the line is the one its link leads to.
LEMMA BehindIsNext ==
  ASSUME IsLine(RingWalk), currentProcess \in Queued
  PROVE  /\ RR!Place(currentProcess) \in 1 .. Len(RingWalk)
         /\ RingWalk[RR!Place(currentProcess)] = currentProcess
         /\ RR!Behind(currentProcess) = next[currentProcess]
<1>1. PICK w : w = RingWalk
  OBVIOUS
<1>2. IsLine(w)
  BY <1>1
<1> DEFINE n == Len(w)
<1>3. /\ n \in Nat /\ n > 0 
      /\ \A i \in 1 .. (n - 1) : next[w[i]] = w[i + 1]
      /\ next[w[n]] = w[1]
      /\ \A q \in Queued : \E i \in 1 .. n : q = w[i]
  BY <1>2, LineFacts
<1> HIDE DEF n
<1>4. PICK k : k = RR!Place(currentProcess)
  OBVIOUS
<1>5. k = CHOOSE i \in 1 .. n : w[i] = currentProcess
  BY <1>1, <1>4 DEF RR!Place, n
<1>6. k \in 1 .. n /\ w[k] = currentProcess
  BY <1>3, <1>5
<1>7. RR!Behind(currentProcess) = w[(k % n) + 1]
  BY <1>1, <1>4 DEF RR!Behind, n
<1>8. next[w[k]] = w[(k % n) + 1]
  <2>1. CASE k = n
    <3>1. k % n = 0
      BY <1>3, <2>1
    <3> QED
      BY <1>3, <2>1, <3>1
  <2>2. CASE k # n
    <3>1. k % n = k /\ k \in 1 .. (n - 1)
      BY <1>3, <1>6, <2>2
    <3> QED
      BY <1>3, <3>1
  <2> QED
    BY <2>1, <2>2
<1> QED
  BY <1>1, <1>4, <1>6, <1>7, <1>8 DEF n

\* The line stays while the ring and the CPU stay.
LEMMA LineStays ==
  ASSUME IsLine(RingWalk), UNCHANGED queueVars
  PROVE  IsLine(RingWalk)' /\ RingWalk' = RingWalk
<1>1. PICK w : w = RingWalk
  OBVIOUS
<1>2. IsLine(w)'
  BY <1>1 DEF IsLine, Queued, queueVars
<1>3. RingWalk' = w
  BY <1>2, NextWalk
<1> QED
  BY <1>1, <1>2, <1>3 DEF IsLine

\* The steps of process creation before and after the new process is queued,
\* and the system calls that return, are no steps of the abstract scheduler.
LEMMA QuietSteps ==
  ASSUME IInv, RInv,
         \/ CallCreateProcess \/ CallLoadELF \/ CreateProcess \/ LoadELF \/ SysExec
         \/ LoadSegment \/ FinishSegment \/ RestoreLock \/ SyscallReturn
         \/ PageFault \/ PagesRunOut
         \/ SyscalHandler \/ SysMemalloc \/ TickCount \/ UNCHANGED vars
  PROVE  RInv' /\ UNCHANGED RR!rrVars
<1> DEFINE c == currentProcess
<1>1. /\ c \in PID /\ pc \in [PID -> ControlPoint]
      /\ nextPID \in Nat /\ newProc \in [PID -> PID \cup {NULL}]
  BY RunningProcess DEF IInv, TypeOK
<1>2. \A p \in PID \ {c} : pc[p] \notin Building
  BY DEF IInv, KernelExclusive, Critical, Stuck, InterruptsOff, Building
<1>3. pc[c] \in Building => newProc[c] = nextPID - 1
  BY <1>1 DEF RInv, LastNumbered
<1> DEFINE Stays == nextPID' = nextPID /\ newProc' = newProc
           Starts == nextPID' = nextPID + 1 /\ newProc'[c] = nextPID
           Quiet ==
             /\ UNCHANGED <<queueVars, currentProcess>>
             /\ \A p \in PID \ {c} : pc'[p] = pc[p]
             /\ \/ Stays /\ (pc[c] \in Building <=> pc'[c] \in Building)
                \/ Starts /\ pc[c] \notin Building /\ pc'[c] \in Building
<1>4. Quiet
  <2>1. ASSUME NEW point \in {"create", "load"}, SaveLock(point) PROVE Quiet
    BY <1>1, <2>1 DEF SaveLock, Building
  <2>2. ASSUME NEW dir, NEW slice, NEW default, NEW n, NEW point \in {"map", "halted"},
               AllocateProcess(dir, slice, default, n, point),
               pc[c] \notin Building
        PROVE  Quiet
    BY <1>1, <2>2 DEF AllocateProcess, Building
  <2>3. CASE CallCreateProcess \/ CallLoadELF
    BY <2>1, <2>3 DEF CallCreateProcess, CallLoadELF
  <2>4. CASE CreateProcess \/ LoadELF \/ SysExec
    BY <2>2, <2>4 DEF CreateProcess, LoadELF, SysExec, Building
  <2>5. CASE LoadSegment \/ FinishSegment \/ PageFault \/ PagesRunOut
    BY <1>1, <2>5 DEF LoadSegment, FinishSegment, PageFault, PagesRunOut, frameVars, Building
  <2>6. CASE RestoreLock \/ SyscallReturn
    BY <1>1, <2>6 DEF RestoreLock, SyscallReturn, frameVars, Building
  <2>7. CASE SyscalHandler \/ SysMemalloc \/ TickCount
    BY <1>1, <2>7 DEF SyscalHandler, SysMemalloc, TickCount, frameVars, Building
  <2>8. CASE UNCHANGED vars
    BY <2>8 DEF vars, queueVars
  <2> QED
    BY <2>3, <2>4, <2>5, <2>6, <2>7, <2>8
<1>5. LastNumbered'
  BY <1>1, <1>2, <1>3, <1>4 DEF LastNumbered, Building
<1>6. Created' = Created
  BY <1>1, <1>4 DEF Created, Building
<1>7. IsLine(RingWalk)' /\ RingWalk' = RingWalk
  BY <1>4, LineStays DEF RInv
<1> QED
  BY <1>4, <1>5, <1>6, <1>7 DEF RInv, RR!rrVars

\* Queueing the new process is Spawn.
LEMMA QueueIsSpawn ==
  ASSUME IInv, RInv, QueueNewProcess
  PROVE  RInv' /\ RR!Spawn
<1> DEFINE c == currentProcess
<1>1. /\ c \in PID /\ c \in Queued /\ pc \in [PID -> ControlPoint]
      /\ nextPID \in 1 .. (MaxPID + 1) /\ MaxPID \in Nat
  BY RunningProcess, SchedulerAssumption DEF IInv, TypeOK
<1>2. \A p \in PID \ {c} : pc[p] \notin Building
  BY DEF IInv, KernelExclusive, Critical, Stuck, InterruptsOff, Building
<1>3. PICK p : p = newProc[c]
  OBVIOUS
<1>4. p \in PID /\ next[p] = NULL /\ p = nextPID - 1 /\ p # c
  BY <1>1, <1>3 DEF IInv, UnderConstruction, QueueNewProcess, RInv, LastNumbered, Building, Queued
<1>5. PICK w : w = RingWalk
  OBVIOUS
<1>6. IsLine(w)
  BY <1>5 DEF RInv
<1>7. next' = InsertProcessIntoQueue(p) /\ UNCHANGED <<processQueueStart, currentProcess>>
  BY <1>3 DEF QueueNewProcess
<1>8. Queued' = Queued \cup {p}
  BY <1>4, <1>7, InsertKeepsRing DEF IInv
<1>9. IsLine(<<Head(w), p>> \o Tail(w))'
  BY <1>4, <1>6, <1>7, <1>8, InsertIntoLine DEF IInv
<1>10. RingWalk' = <<Head(w), p>> \o Tail(w)
  BY <1>9, NextWalk
<1>11. IsLine(RingWalk)'
  BY <1>9, <1>10 DEF IsLine
<1>12. /\ pc'[c] = "unlock" /\ pc'[p] = "user" /\ pc[c] = "map"
       /\ \A q \in PID \ {c, p} : pc'[q] = pc[q]
       /\ nextPID' = nextPID
  BY <1>1, <1>3, <1>4 DEF QueueNewProcess
<1>13. LastNumbered'
  BY <1>2, <1>12 DEF LastNumbered, Building
<1>14. Created = p /\ Created' = Created + 1 /\ Created <= MaxPID
  BY <1>1, <1>4, <1>7, <1>12 DEF Created, Building, PID
<1> QED
  BY <1>5, <1>7, <1>10, <1>11, <1>13, <1>14 DEF RInv, RR!Spawn

\* A switch of Tick is Yield.
LEMMA SwitchIsYield ==
  ASSUME IInv, RInv, TickSwitch
  PROVE  RInv' /\ RR!Yield
<1> DEFINE c == currentProcess
<1>1. /\ c \in PID /\ c \in Queued /\ next[c] \in Queued
      /\ \A p \in PID : pc[p] \notin Building
  BY RunningProcess DEF IInv, KernelExclusive, TickSwitch, Preemptible, Critical, Stuck, InterruptsOff, Building
<1>2. next[c] \in PID /\ currentProcess' = next[c]
  BY <1>1 DEF TickSwitch, TaskSwitch, SwitchTarget, Queued
<1>3. UNCHANGED <<queueVars, nextPID, pc>>
  BY DEF TickSwitch
<1>4. IsLine(RingWalk)' /\ RingWalk' = RingWalk
  BY <1>3, LineStays DEF RInv
<1>5. LastNumbered'
  BY <1>1, <1>3 DEF LastNumbered, Building
<1>6. Created' = Created
  BY <1>1, <1>2, <1>3 DEF Created, Building
<1>7. RR!Behind(currentProcess) = next[c]
  BY <1>1, BehindIsNext DEF RInv
<1> QED
  BY <1>2, <1>4, <1>5, <1>6, <1>7 DEF RInv, RR!Yield

\* EndProcess is Exit.
LEMMA EndIsExit ==
  ASSUME IInv, RInv, EndProcess
  PROVE  RInv' /\ RR!Exit
<1> DEFINE c == currentProcess
<1>1. c \in PID /\ c \in Queued /\ next[c] \in Queued
  BY RunningProcess
<1>2. \A p \in PID : pc[p] \notin Building
  BY DEF IInv, KernelExclusive, Critical, Stuck, InterruptsOff, Building, EndProcess
<1>3. c # 0 /\ processQueueStart = 0
  BY SchedulerAssumption DEF IInv, EndProcess, ELFProcess, Directories
<1>4. PICK w : w = RingWalk
  OBVIOUS
<1>5. IsLine(w)
  BY <1>4 DEF RInv
<1>6. PICK k : k = RR!Place(currentProcess)
  OBVIOUS
<1>7. k \in 1 .. Len(w) /\ w[k] = c /\ RR!Behind(currentProcess) = next[c]
  BY <1>1, <1>4, <1>6, BehindIsNext DEF RInv
<1>8. k \in 2 .. Len(w) /\ Head(w) = 0
  <2>1. w[1] = 0 /\ Len(w) \in Nat /\ Head(w) = w[1]
    BY <1>3, <1>5 DEF IsLine
  <2> QED
    BY <1>3, <1>7, <2>1
<1>9. /\ next' = [RemoveProcessFromQueue(c) EXCEPT ![c] = NULL]
      /\ currentProcess' = next[c]
      /\ UNCHANGED <<processQueueStart, nextPID>>
      /\ pc' = [pc EXCEPT ![c] = "none"]
  BY DEF EndProcess, TaskSwitch
<1>10. Queued' = Queued \ {c}
  BY <1>1, <1>3, <1>9, RemoveKeepsRing DEF IInv
<1>11. IsLine(SubSeq(w, 1, k - 1) \o SubSeq(w, k + 1, Len(w)))'
  BY <1>5, <1>7, <1>8, <1>9, <1>10, RemoveFromLine DEF IInv
<1>12. RingWalk' = SubSeq(w, 1, k - 1) \o SubSeq(w, k + 1, Len(w))
  BY <1>11, NextWalk
<1>13. IsLine(RingWalk)'
  BY <1>11, <1>12 DEF IsLine
<1>14. \A p \in PID : pc'[p] \notin Building
  BY <1>1, <1>2, <1>9 DEF IInv, TypeOK, Building
<1>15. LastNumbered'
  BY <1>14 DEF LastNumbered, Building
<1>16. Created' = Created
  BY <1>1, <1>2, <1>9, <1>14 DEF Created, Building, Queued
<1>17. RingWalk' = RR!RemoveAt(RingWalk, RR!Place(currentProcess))
  BY <1>4, <1>6, <1>12 DEF RR!RemoveAt
<1> QED
  BY <1>3, <1>4, <1>7, <1>8, <1>9, <1>13, <1>15, <1>16, <1>17 DEF RInv, RR!Exit

\* Every step of the scheduler is a step of the abstract one or leaves it.
LEMMA StepRefines == IInv /\ RInv /\ [Next]_vars => RInv' /\ [RR!RRNext]_(RR!rrVars)
<1> SUFFICES ASSUME IInv, RInv, [Next]_vars
             PROVE  RInv' /\ [RR!RRNext]_(RR!rrVars)
  OBVIOUS
<1>1. CASE QueueNewProcess
  BY <1>1, QueueIsSpawn DEF RR!RRNext
<1>2. CASE TickSwitch
  BY <1>2, SwitchIsYield DEF RR!RRNext
<1>3. CASE EndProcess
  BY <1>3, EndIsExit DEF RR!RRNext
<1>4. CASE \/ CallCreateProcess \/ CallLoadELF \/ CreateProcess \/ LoadELF \/ SysExec
           \/ LoadSegment \/ FinishSegment \/ RestoreLock \/ SyscallReturn
           \/ PageFault \/ PagesRunOut
           \/ SyscalHandler \/ SysMemalloc \/ TickCount \/ UNCHANGED vars
  BY <1>4, QuietSteps
<1> QED
  BY <1>1, <1>2, <1>3, <1>4
     DEF Next, LoaderStep, FailStep, StandStill, TimerStep, TickLocked

\* Links, lock, slices and windows with interrupts open together implement
\* round robin, for any number of processes: nobody is skipped, lost or run
\* twice (Tick, EndProcess, InsertProcessIntoQueue).
THEOREM RefinesRoundRobin == Spec => ImplementsRoundRobin
<1>1. Init => RInv /\ RR!RRInit
  BY FirstLine
<1>2. IInv /\ RInv /\ [Next]_vars => RInv' /\ [RR!RRNext]_(RR!rrVars)
  BY StepRefines
<1> QED
  BY <1>1, <1>2, Invariance, PTL DEF Spec, ImplementsRoundRobin, RR!RRSpec
=============================================================================
