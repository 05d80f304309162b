------------------------------ MODULE Scheduler ------------------------------
(***************************************************************************)
(* The x86 process scheduler (Kernel/src/arch/x86/scheduler.cpp and .asm)  *)
(* together with the two paths that enter it: the timer interrupt and the  *)
(* system-call gate.  It keeps the ring of process_t structures, the       *)
(* global schedulerLock, the time slices, and the page directory in cr3.   *)
(*                                                                         *)
(* Grain of atomicity.  There is one CPU.  Every interrupt and system-call *)
(* gate is an interrupt gate (idt.cpp:132-194, flags 0x8E) and its stub    *)
(* starts with cli (idt.asm), so a handler runs to completion in one step  *)
(* unless it executes sti itself.  Two paths do so in mid-work:            *)
(* CreateAddressSpace (paging.cpp:228-257), which LoadELF calls, and       *)
(* SysMemalloc; the keyboard handler's sti is its last statement.  From    *)
(* there on, and in kernel processes that call CreateProcess or LoadELF    *)
(* directly, interrupts are open and every step is an action of its own.   *)
(*                                                                         *)
(* A process_t is named by its pid: pids are never reused (nextPID++).  A  *)
(* process that is preempted resumes behind ReadEIP in Tick and unwinds    *)
(* to where it was interrupted, so the registers TaskSwitch saves and      *)
(* loads are abstracted to the process's control point pc.                 *)
(***************************************************************************)
EXTENDS Naturals

CONSTANTS
  MaxPID,       \* bound: the largest pid handed out
  KernelSlice,  \* timeSliceDefault of CreateProcess (1 in the code)
  ELFSlice,     \* timeSliceDefault of LoadELF (15 in the code)
  MaxSegments,  \* bound: loadable program headers of one ELF image
  Kernel,       \* the kernel's page directory
  NULL          \* the null pointer, and the page directory at address 0

ASSUME SchedulerAssumption ==
  /\ MaxPID \in Nat
  /\ KernelSlice \in Nat
  /\ ELFSlice \in Nat
  /\ MaxSegments \in Nat
  /\ Kernel \notin Nat
  /\ NULL \notin Nat
  /\ Kernel # NULL

VARIABLES
  processQueueStart,
  currentProcess,
  nextPID,
  schedulerLock,
  next,              \* next[p]: the ring; NULL while p is not on it
  timeSlice,
  timeSliceDefault,
  pageDirectory,     \* p itself: what CreateAddressSpace returned for p,
                     \* whatever frame the physical allocator gave it
  cr3,               \* the page directory the CPU uses
  pc,                \* where each process is in the code
  schedulerState,    \* CreateProcess/LoadELF local: the lock value on entry
  newProc,           \* CreateProcess/LoadELF local: proc
  segments           \* LoadELF local: program headers still to be loaded

queueVars == <<processQueueStart, next>>
sliceVars == <<timeSlice, timeSliceDefault>>
frameVars == <<schedulerState, newProc, segments>>
vars == <<processQueueStart, currentProcess, nextPID, schedulerLock, next,
          timeSlice, timeSliceDefault, pageDirectory, cr3, pc,
          schedulerState, newProc, segments>>

PID == 0 .. MaxPID

\* Control points.  "none": no such process; "user": its own code;
\* "create"/"load": in CreateProcess/LoadELF, schedulerState just read;
\* "map": the process structure exists; "copy": a segment is being copied
\* with the kernel's directory in cr3; "unlock": the new process is queued;
\* "sysret": back in SyscalHandler with interrupts open.  The others are
\* endless loops under the lock: "hung": no pages for the stack; "halted",
\* "spin": no pages in CreateAddressSpace or SysMemalloc, which have
\* interrupts off; "fault": PageFaultHandler, entered from "copy".
InterruptsOff == {"halted", "spin", "fault"}
Stuck == InterruptsOff \cup {"hung"}
Critical == {"map", "copy", "unlock", "sysret"} \cup Stuck
ControlPoint == {"none", "user", "create", "load"} \cup Critical

\* Kernel processes run kernel code and call the scheduler directly; ELF
\* processes reach it through int 0x69 only.
KernelProcess(p) == pageDirectory[p] \in {Kernel, NULL}
ELFProcess(p) == pageDirectory[p] = p

Queued == {p \in PID : next[p] # NULL}

-----------------------------------------------------------------------------
(* Scheduler::Initialize: the idle process is alone on the ring and runs.  *)
Init ==
  /\ processQueueStart = 0
  /\ currentProcess = 0
  /\ nextPID = 1
  /\ schedulerLock = FALSE
  /\ next = [p \in PID |-> IF p = 0 THEN 0 ELSE NULL]
  /\ timeSlice = [p \in PID |-> IF p = 0 THEN KernelSlice ELSE 0]
  /\ timeSliceDefault = [p \in PID |-> IF p = 0 THEN KernelSlice ELSE 0]
  /\ pageDirectory = [p \in PID |-> IF p = 0 THEN Kernel ELSE NULL]
  /\ cr3 = Kernel
  /\ pc = [p \in PID |-> IF p = 0 THEN "user" ELSE "none"]
  /\ schedulerState = [p \in PID |-> FALSE]
  /\ newProc = [p \in PID |-> NULL]
  /\ segments = [p \in PID |-> 0]

-----------------------------------------------------------------------------
(* The ring.                                                               *)

\* Bug: the new process is linked to the start instead of the old successor.
InsertCutsRing(p) == [next EXCEPT ![p] = processQueueStart, ![processQueueStart] = p]

\* The queue is never empty here (Init holds that branch), so a new process
\* goes right behind the first one.
InsertProcessIntoQueue(p) ==
  IF next[processQueueStart] # NULL
    THEN [next EXCEPT ![p] = next[processQueueStart], ![processQueueStart] = p]
    ELSE [next EXCEPT ![processQueueStart] = p, ![p] = processQueueStart]

\* The process the walk of RemoveProcessFromQueue stops at.
Predecessor(p) == CHOOSE q \in PID : next[q] = p

\* Bug: the walk is left out and the predecessor keeps its link.
RemoveUnlinksNothing(p) == next

\* A process alone on the ring stays linked to itself; otherwise its
\* predecessor is linked to its successor.  processQueueStart is not moved.
RemoveProcessFromQueue(p) ==
  IF next[p] = p THEN next ELSE [next EXCEPT ![Predecessor(p)] = next[p]]

\* TaskSwitch: load the context of process p, its page directory included.
TaskSwitch(p) ==
  /\ currentProcess' = p
  /\ cr3' = pageDirectory[p]

-----------------------------------------------------------------------------
(* Creating processes.                                                     *)

\* Entry of CreateProcess or LoadELF in a kernel process: the lock is read.
SaveLock(point) ==
  /\ pc[currentProcess] = "user"
  /\ KernelProcess(currentProcess)
  /\ nextPID <= MaxPID
  /\ schedulerState' = [schedulerState EXCEPT ![currentProcess] = schedulerLock]
  /\ pc' = [pc EXCEPT ![currentProcess] = point]
  /\ UNCHANGED <<queueVars, currentProcess, nextPID, schedulerLock, sliceVars,
                 pageDirectory, cr3, newProc, segments>>

CallCreateProcess == SaveLock("create")
CallLoadELF == SaveLock("load")

\* Lock the scheduler and build the process_t, with page directory dir, the
\* given slices and n segments to load, and go on at point.  It is not on the
\* ring yet.
AllocateProcess(dir, slice, default, n, point) ==
  /\ nextPID <= MaxPID
  /\ schedulerLock' = TRUE
  /\ nextPID' = nextPID + 1
  /\ newProc' = [newProc EXCEPT ![currentProcess] = nextPID]
  /\ pageDirectory' = [pageDirectory EXCEPT ![nextPID] = dir]
  /\ timeSlice' = [timeSlice EXCEPT ![nextPID] = slice]
  /\ timeSliceDefault' = [timeSliceDefault EXCEPT ![nextPID] = default]
  /\ segments' = [segments EXCEPT ![currentProcess] = n]
  /\ pc' = [pc EXCEPT ![currentProcess] = point]
  /\ UNCHANGED <<queueVars, currentProcess, cr3>>

\* CreateProcess leaves the zeroed page directory pointer as it is.
CreateProcess ==
  /\ pc[currentProcess] = "create"
  /\ AllocateProcess(NULL, KernelSlice, KernelSlice, 0, "map")
  /\ UNCHANGED schedulerState

\* LoadELF sets timeSliceDefault only; timeSlice stays 0.  CreateAddressSpace
\* turns interrupts off and may find no pages for the directory or the tables.
LoadELF ==
  /\ pc[currentProcess] = "load"
  /\ \E n \in 0 .. MaxSegments, point \in {"map", "halted"} :
       AllocateProcess(nextPID, 0, ELFSlice, n, point)
  /\ UNCHANGED schedulerState

\* SysExec and SysForkExec: SyscalHandler locks, so LoadELF reads TRUE.  All
\* of it runs with interrupts off up to the sti of CreateAddressSpace.
SysExec ==
  /\ pc[currentProcess] = "user"
  /\ ELFProcess(currentProcess)
  /\ schedulerState' = [schedulerState EXCEPT ![currentProcess] = TRUE]
  /\ \E n \in 0 .. MaxSegments, point \in {"map", "halted"} :
       AllocateProcess(nextPID, 0, ELFSlice, n, point)

\* A segment is mapped and copied under the kernel's page directory ...
LoadSegment ==
  /\ pc[currentProcess] = "map"
  /\ segments[currentProcess] > 0
  /\ cr3' = Kernel
  /\ pc' = [pc EXCEPT ![currentProcess] = "copy"]
  /\ UNCHANGED <<queueVars, currentProcess, nextPID, schedulerLock, sliceVars,
                 pageDirectory, frameVars>>

\* Bug: the caller's page directory is not loaded again.
SegmentKeepsKernelDirectory == cr3

\* ... and then the caller's directory is loaded again.
DirectoryAfterSegment == pageDirectory[currentProcess]

\* Bug: the loop over the program headers does not advance.
SameSegmentAgain == segments[currentProcess]

\* Bug: the loop advances twice for one header.
HeaderCountedTwice == segments[currentProcess] - 2

SegmentsLeft == segments[currentProcess] - 1

FinishSegment ==
  /\ pc[currentProcess] = "copy"
  /\ cr3' = DirectoryAfterSegment
  /\ segments' = [segments EXCEPT ![currentProcess] = SegmentsLeft]
  /\ pc' = [pc EXCEPT ![currentProcess] = "map"]
  /\ UNCHANGED <<queueVars, currentProcess, nextPID, schedulerLock, sliceVars,
                 pageDirectory, schedulerState, newProc>>

\* The segment's pages are not there, or its tables are not: memset, memcpy or
\* MapVirtualPages faults and PageFaultHandler does not return.
PageFault ==
  /\ pc[currentProcess] = "copy"
  /\ pc' = [pc EXCEPT ![currentProcess] = "fault"]
  /\ UNCHANGED <<queueVars, currentProcess, nextPID, schedulerLock, sliceVars,
                 pageDirectory, cr3, frameVars>>

\* KernelAllocateVirtualPages finds no pages for the stack of the new process:
\* it loops for ever, with interrupts open and the lock held.
PagesRunOut ==
  /\ pc[currentProcess] = "map"
  /\ segments[currentProcess] = 0
  /\ pc' = [pc EXCEPT ![currentProcess] = "hung"]
  /\ UNCHANGED <<queueVars, currentProcess, nextPID, schedulerLock, sliceVars,
                 pageDirectory, cr3, frameVars>>

\* One turn of an endless loop.
StandStill ==
  /\ pc[currentProcess] \in Stuck
  /\ UNCHANGED vars

\* Set up the main thread and queue the process.  The first of the two
\* stores touches only the unpublished process, so one step is exact.
QueueNewProcess ==
  /\ pc[currentProcess] = "map"
  /\ segments[currentProcess] = 0
  /\ next' = InsertProcessIntoQueue(newProc[currentProcess])
  /\ pc' = [pc EXCEPT ![currentProcess] = "unlock",
                      ![newProc[currentProcess]] = "user"]
  /\ UNCHANGED <<processQueueStart, currentProcess, nextPID, schedulerLock,
                 sliceVars, pageDirectory, cr3, frameVars>>

\* Bug: the lock is left held instead of being put back.
LockStaysHeld == TRUE

LockToRestore == schedulerState[currentProcess]

\* Restore the lock and return: to SyscalHandler or to the kernel process.
RestoreLock ==
  /\ pc[currentProcess] = "unlock"
  /\ schedulerLock' = LockToRestore
  /\ pc' = [pc EXCEPT ![currentProcess] =
              IF ELFProcess(currentProcess) THEN "sysret" ELSE "user"]
  /\ UNCHANGED <<queueVars, currentProcess, nextPID, sliceVars, pageDirectory,
                 cr3, frameVars>>

-----------------------------------------------------------------------------
(* The other system calls.                                                 *)

\* A system call that keeps interrupts off throughout (SyscalHandler locks,
\* calls and unlocks): it leaves the lock open whatever it was before.
SyscalHandler ==
  /\ pc[currentProcess] = "user"
  /\ ELFProcess(currentProcess)
  /\ schedulerLock' = FALSE
  /\ UNCHANGED <<queueVars, currentProcess, nextPID, sliceVars, pageDirectory,
                 cr3, pc, frameVars>>

\* SysMemalloc opens interrupts before it returns to SyscalHandler, unless
\* AllocateVirtualPages finds no run of pages and loops for ever.
SysMemalloc ==
  /\ pc[currentProcess] = "user"
  /\ ELFProcess(currentProcess)
  /\ schedulerLock' = TRUE
  /\ \E point \in {"sysret", "spin"} : pc' = [pc EXCEPT ![currentProcess] = point]
  /\ UNCHANGED <<queueVars, currentProcess, nextPID, sliceVars, pageDirectory,
                 cr3, frameVars>>

\* The tail of SyscalHandler and the iret to the process.
SyscallReturn ==
  /\ pc[currentProcess] = "sysret"
  /\ schedulerLock' = FALSE
  /\ pc' = [pc EXCEPT ![currentProcess] = "user"]
  /\ UNCHANGED <<queueVars, currentProcess, nextPID, sliceVars, pageDirectory,
                 cr3, frameVars>>

\* SysExit: EndProcess takes the process off the ring, frees it and switches
\* to its successor.  TaskSwitch does not return, so the tail of SyscalHandler
\* never runs and the lock stays as SyscalHandler set it.
EndProcess ==
  LET p == currentProcess IN
  /\ pc[p] = "user"
  /\ ELFProcess(p)
  /\ schedulerLock' = TRUE
  /\ next' = [RemoveProcessFromQueue(p) EXCEPT ![p] = NULL]
  /\ TaskSwitch(next[p])
  /\ pc' = [pc EXCEPT ![p] = "none"]
  /\ pageDirectory' = [pageDirectory EXCEPT ![p] = NULL]
  /\ timeSlice' = [timeSlice EXCEPT ![p] = 0]
  /\ timeSliceDefault' = [timeSliceDefault EXCEPT ![p] = 0]
  /\ schedulerState' = [schedulerState EXCEPT ![p] = FALSE]
  /\ newProc' = [newProc EXCEPT ![p] = NULL]
  /\ UNCHANGED <<processQueueStart, nextPID, segments>>

-----------------------------------------------------------------------------
(* The timer interrupt: Timer::Handler calls Tick.                         *)

\* Bug: Tick does not look at the lock.
AlwaysPreemptible == TRUE

Preemptible == ~schedulerLock

Interruptible == pc[currentProcess] \notin InterruptsOff

TickCount ==
  /\ Interruptible
  /\ timeSlice[currentProcess] > 0
  /\ timeSlice' = [timeSlice EXCEPT ![currentProcess] = @ - 1]
  /\ UNCHANGED <<queueVars, currentProcess, nextPID, schedulerLock,
                 timeSliceDefault, pageDirectory, cr3, pc, frameVars>>

TickLocked ==
  /\ Interruptible
  /\ timeSlice[currentProcess] = 0
  /\ ~Preemptible
  /\ UNCHANGED vars

\* Bug: Tick reloads the context of the process it interrupted.
SwitchToSelf == currentProcess

SwitchTarget == next[currentProcess]

TickSwitch ==
  /\ Interruptible
  /\ timeSlice[currentProcess] = 0
  /\ Preemptible
  /\ timeSlice' = [timeSlice EXCEPT ![currentProcess] =
                     timeSliceDefault[currentProcess]]
  /\ TaskSwitch(SwitchTarget)
  /\ UNCHANGED <<queueVars, nextPID, schedulerLock, timeSliceDefault,
                 pageDirectory, pc, frameVars>>

-----------------------------------------------------------------------------
LoaderStep ==
  \/ CreateProcess \/ LoadELF
  \/ LoadSegment \/ FinishSegment \/ QueueNewProcess
  \/ RestoreLock \/ SyscallReturn

\* Where the kernel fails for good.
FailStep == PageFault \/ PagesRunOut \/ StandStill

TimerStep == TickCount \/ TickLocked \/ TickSwitch

Next ==
  \/ CallCreateProcess \/ CallLoadELF \/ SysExec
  \/ LoaderStep \/ FailStep
  \/ SyscalHandler \/ SysMemalloc \/ EndProcess
  \/ TimerStep

Spec == Init /\ [][Next]_vars

\* The timer keeps ticking, kernel code that is not in an endless loop keeps
\* running, and the ticks, which are not synchronised with the code, do not
\* all fall into locked windows.
Fairness ==
  /\ WF_vars(TickCount)
  /\ WF_vars(LoaderStep)
  /\ SF_vars(TickSwitch)

FairSpec == Spec /\ Fairness
-----------------------------------------------------------------------------
(* Properties.                                                             *)

\* Every variable keeps its type; in particular no pid beyond the bound, and
\* no control point outside the ones listed above.
TypeOK ==
  /\ processQueueStart \in PID
  /\ currentProcess \in PID
  /\ nextPID \in 1 .. (MaxPID + 1)
  /\ schedulerLock \in BOOLEAN
  /\ next \in [PID -> PID \cup {NULL}]
  /\ timeSlice \in [PID -> Nat]
  /\ timeSliceDefault \in [PID -> Nat]
  /\ pageDirectory \in [PID -> PID \cup {Kernel, NULL}]
  /\ cr3 \in PID \cup {Kernel, NULL}
  /\ pc \in [PID -> ControlPoint]
  /\ schedulerState \in [PID -> BOOLEAN]
  /\ newProc \in [PID -> PID \cup {NULL}]
  /\ segments \in [PID -> 0 .. MaxSegments]

\* A set that a walk along the ring, started at the first process, cannot
\* leave.
ClosedUnderNext(S) ==
  /\ processQueueStart \in S
  /\ \A q \in S : next[q] \in S \cup {NULL}

\* The queue is one ring: the walks of FindProcessByPID and Tick, started at
\* processQueueStart, meet every queued process, never a freed one, and come
\* back (InsertProcessIntoQueue, RemoveProcessFromQueue, EndProcess).
RingIntact ==
  /\ processQueueStart \in Queued
  /\ currentProcess \in Queued
  /\ \A p \in Queued : next[p] \in Queued
  /\ \A p, q \in Queued : next[p] = next[q] => p = q
  /\ \A S \in SUBSET PID : ClosedUnderNext(S) => Queued \subseteq S

\* Mutual exclusion: between taking schedulerLock and giving it back a
\* process keeps the CPU, so no two processes are ever inside process
\* creation or a system call with interrupts open (Tick's check of the lock
\* against SyscalHandler, CreateProcess and LoadELF).
KernelExclusive ==
  \A p \in PID : pc[p] \in Critical => p = currentProcess /\ schedulerLock

\* A process only ever runs under its own page directory, except while
\* LoadELF copies a segment (LoadKernelPageDirectory/SwitchPageDirectory
\* against TaskSwitch's load of cr3).
AddressSpaceMatches ==
  cr3 = IF pc[currentProcess] \in {"copy", "fault"}
          THEN Kernel ELSE pageDirectory[currentProcess]

\* The lock is held although the code that runs did not take it, or will put
\* it back as held.
Leaked ==
  /\ schedulerLock
  /\ \/ pc[currentProcess] \in {"user", "create", "load"}
     \/ /\ pc[currentProcess] \in {"map", "copy", "unlock"}
        /\ KernelProcess(currentProcess)
        /\ schedulerState[currentProcess]

\* Process creation and returning system calls hand the lock back as they
\* found it or free: only a process exit (EndProcess, whose TaskSwitch never
\* returns to SyscalHandler) can leave it held.
LeakOnlyByExit ==
  [][~Leaked /\ Leaked' => currentProcess \notin Queued']_vars

\* The lock is held for good by a kernel process.
Frozen ==
  /\ schedulerLock
  /\ KernelProcess(currentProcess)
  /\ pc[currentProcess] = "user" \/ schedulerState[currentProcess]

\* What the leak leads to: once a kernel process such as the idle process is
\* switched to by an exit, Tick never switches away from it again.
FrozenForever ==
  [][Frozen => Frozen' /\ currentProcess' = currentProcess]_vars

\* Round robin is fair: as long as the lock is released again and again, each
\* queued process is run, unless it exits first (Tick, InsertProcessIntoQueue,
\* RemoveProcessFromQueue).
NoStarvation ==
  []<>(~schedulerLock) =>
    \A p \in PID : (p \in Queued) ~> (currentProcess = p \/ p \notin Queued)

\* What is begun under the lock is finished: LoadELF, CreateProcess and
\* SysMemalloc return and the process that called them runs its own code
\* again, unless one of their calls for pages fails or a segment faults, which
\* stops the machine (the loop over the program headers against the endless
\* loops of KernelAllocateVirtualPages, AllocateVirtualPages and
\* PageFaultHandler).
KernelWorkCompletes ==
  \A p \in PID : (pc[p] \in Critical) ~> (pc[p] \in {"user"} \cup Stuck)

=============================================================================
