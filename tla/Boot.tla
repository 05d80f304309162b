-------------------------------- MODULE Boot --------------------------------
(***************************************************************************)
(* Start-up: HAL::Init and then Scheduler::Initialize, under timer         *)
(* interrupts.  IDT::Initialize opens interrupts as one of the first       *)
(* things, Timer::Initialize registers the handler that calls Tick, and    *)
(* from there until the first process exists Tick works on process 0, a    *)
(* null pointer.                                                           *)
(*                                                                         *)
(* kmain, which calls the two, is not in the repository.  The initialisers *)
(* of memory and PCI are in Paging, PhysicalAllocator and Pci; here they   *)
(* return.                                                                 *)
(***************************************************************************)
EXTENDS Naturals, Sequences

CONSTANTS
  Garbage,    \* what may be in memory where process 0's timeSlice would be
  MaxTicks    \* bound: timer interrupts

ASSUME BootAssumption == Garbage \subseteq Nat /\ MaxTicks \in Nat

NoProcess == 0 \* no process; the idle process is 1 here
Idle == 1

\* InitCore, InitVideo, InitExtra; then Scheduler::Initialize in three parts.
StartUp == <<"initialize_serial", "GDT", "IDT", "InitializeVirtualMemory", "memory map",
          "modules", "InitializePhysicalAllocator", "Timer", "PCI", "AHCI", "InitVideo",
          "InitExtra", "Scheduler", "InsertProcessIntoQueue", "TaskSwitch", "running">>

VARIABLES
  step,            \* what is done next
  interruptFlag,   \* the interrupt flag
  handler,         \* the timer's handler is registered
  schedulerLock,
  currentProcess,
  timeSlice,       \* by process; that of NoProcess is a word at address 0
  arrived,         \* history: interrupts that reached Tick
  switches         \* history: how often Tick went on to the next process

bootVars == <<step, interruptFlag, handler, schedulerLock, currentProcess, timeSlice,
          arrived, switches>>

\* The initial value of schedulerLock.
InitialLock == TRUE

BootInit ==
  /\ step = 1
  /\ interruptFlag = FALSE
  /\ handler = FALSE
  /\ schedulerLock = InitialLock
  /\ currentProcess = NoProcess
  /\ \E word \in Garbage :
       timeSlice = [p \in {NoProcess, Idle} |-> IF p = NoProcess THEN word ELSE 0]
  /\ arrived = 0
  /\ switches = 0
-----------------------------------------------------------------------------
\* Each initialiser runs to its end; the two that matter to the timer open
\* interrupts and register the handler.
Initialise ==
  /\ step \in 1 .. 12
  /\ interruptFlag' = (interruptFlag \/ StartUp[step] = "IDT")
  /\ handler' = (handler \/ StartUp[step] = "Timer")
  /\ step' = step + 1
  /\ UNCHANGED <<schedulerLock, currentProcess, timeSlice, arrived, switches>>

\* Scheduler::Initialize, up to the point where CreateProcess has a process.
SchedulerInitialize ==
  /\ StartUp[step] = "Scheduler"
  /\ schedulerLock' = TRUE
  /\ step' = step + 1
  /\ UNCHANGED <<interruptFlag, handler, currentProcess, timeSlice, arrived, switches>>

\* Bug: CreateProcess unlocks at its end instead of restoring the lock.
Unlocks == FALSE

\* What CreateProcess puts back: the lock as it was when it was called.
LockRestored == schedulerLock

\* The idle process enters the empty queue and becomes the current one.
InsertProcessIntoQueue ==
  /\ StartUp[step] = "InsertProcessIntoQueue"
  /\ currentProcess' = Idle
  /\ timeSlice' = [timeSlice EXCEPT ![Idle] = 1]
  /\ schedulerLock' = LockRestored
  /\ step' = step + 1
  /\ UNCHANGED <<interruptFlag, handler, arrived, switches>>

\* The end of Initialize: cli, unlock, TaskSwitch, which opens interrupts.
TaskSwitch ==
  /\ StartUp[step] = "TaskSwitch"
  /\ schedulerLock' = FALSE
  /\ step' = step + 1
  /\ UNCHANGED <<interruptFlag, handler, currentProcess, timeSlice, arrived, switches>>

\* Tick's first test and what it writes back.
CountedDown(slice) == IF slice > 0 THEN slice - 1 ELSE slice

\* The timer interrupts; Tick takes whatever is at the address for a slice.
\* The one process there is follows itself.
Tick ==
  /\ interruptFlag /\ handler /\ arrived < MaxTicks
  /\ arrived' = arrived + 1
  /\ LET slice == timeSlice[currentProcess]
         switch == slice = 0 /\ ~schedulerLock
     IN /\ timeSlice' = [timeSlice EXCEPT ![currentProcess] = IF switch THEN 1 ELSE CountedDown(slice)]
        /\ switches' = IF switch THEN switches + 1 ELSE switches
  /\ UNCHANGED <<step, interruptFlag, handler, schedulerLock, currentProcess>>

BootNext == Initialise \/ SchedulerInitialize \/ InsertProcessIntoQueue \/ TaskSwitch \/ Tick

BootSpec == BootInit /\ [][BootNext]_bootVars
-----------------------------------------------------------------------------
(* Properties.                                                             *)

\* However the ticks fall into start-up, none of them switches before the
\* first TaskSwitch: the lock is held from the beginning, and CreateProcess
\* gives it back as it found it.
NoSwitchBeforeStart == switches > 0 => StartUp[step] = "running"
=============================================================================
