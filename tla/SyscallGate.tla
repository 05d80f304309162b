----------------------------- MODULE SyscallGate -----------------------------
(***************************************************************************)
(* Interrupt 0x69: the numbers programs use, the table of functions behind *)
(* them, and SyscalHandler between the two.  What the functions do is in   *)
(* the other modules; here they answer what their return statements say.   *)
(***************************************************************************)
EXTENDS Naturals, Sequences, Null

CONSTANTS
  Junk,        \* whatever a function without a return statement leaves in eax
  MaxNumber,   \* bound: the largest number a program tries
  MaxCalls     \* bound: system calls

VARIABLES
  schedulerLock,
  halted,      \* a call through something that is no function
  eax,         \* what the caller finds in eax, NULL if it is gone
  asked, ran,  \* the number of the last call, and the function that ran
  calls        \* history: how many calls there were

syscallGateVars == <<schedulerLock, halted, eax, asked, ran, calls>>

SyscallGateInit ==
  /\ schedulerLock = FALSE
  /\ halted = FALSE
  /\ eax = NULL
  /\ asked = NULL
  /\ ran = NULL
  /\ calls = 0
-----------------------------------------------------------------------------
\* The defines: the function that goes by each number from 1 on; there is
\* none for 11.
Named == <<"SysExit", "SysExec", "SysRead", "SysWrite", "SysOpen", "SysClose", "SysSleep",
  "SysCreate", "SysLink", "SysUnlink", NULL, "SysChdir", "SysTime", "SysSendMessage",
  "SysReceiveMessage", "SysUname", "SysMemalloc", "SysStat", "SysLSeek", "SysGetPid",
  "SysMount", "SysUmount", "SysCreateDesktop", "SysCreateWindow", "SysPaintDesktop",
  "SysPaintWindow", "SysDesktopGetWindow", "SysDesktopGetWindowCount",
  "SysCopyWindowSurface", "SysReadDir", "SysUptime", "SysGetVideoMode",
  "SysDestroyWindow", "SysGrantPty", "SysForkExec", "SysGetSysinfo">>

NUM_SYSCALLS == 38

\* The table, its element 0 at position 1.
Table == <<NULL, "SysExit", "SysExec", "SysRead", "SysWrite", "SysOpen", "SysClose",
  "SysSleep", "SysCreate", "SysLink", "SysUnlink", "SysExec", "SysChdir", "SysTime",
  "SysSendMessage", "SysReceiveMessage", "SysUname", "SysMemalloc", "SysStat",
  "SysLSeek", "SysGetPid", "SysMount", "SysUmount", "SysCreateDesktop",
  "SysCreateWindow", "SysPaintDesktop", "SysDesktopGetWindow",
  "SysDesktopGetWindowCount", "SysCopyWindowSurface", "SysReadDir", "SysUptime",
  "SysGetVideoMode", "SysDestroyWindow", "SysGrantPty", "SysForkExec",
  "SysGetSysinfo", "SysDebug">>

\* syscalls[n]; behind the table is memory of some other variable.
Function(n) == IF n < Len(Table) THEN Table[n + 1] ELSE NULL
-----------------------------------------------------------------------------
(* What the functions return.                                              *)

\* Functions that end without a return statement, on every path or on one.
NoReturn == {"SysSleep", "SysChdir", "SysTime", "SysStat", "SysMount", "SysUmount", "SysUptime"}
NoReturnWhenDone == {"SysUname"}

\* SysCreate, SysLink, SysUnlink, SysGetPid, SysDebug cannot fail.
CannotFail == {"SysCreate", "SysLink", "SysUnlink", "SysGetPid", "SysDebug"}

Answers(f) ==
  CASE f \in NoReturn -> {Junk}
    [] f \in NoReturnWhenDone -> {Junk, 1}
    [] f \in CannotFail -> {0}
    [] f = "SysLSeek" -> {0, 1, 2, 3}
    [] f \in {"SysWrite", "SysClose", "SysDesktopGetWindow", "SysCopyWindowSurface", "SysReadDir"} -> {0, 1, 2}
    [] OTHER -> {0, 1}
-----------------------------------------------------------------------------
\* The early return leaves eax alone: the answer is the number.
Unanswered(n) == n

\* SyscalHandler.  The bound lets numbers without a function pass: the call
\* goes to address 0 or to whatever is behind the table, with the lock held.
\* SysExit does not come back; the lock stays as it is for the next process.
SyscalHandler(n) ==
  /\ calls < MaxCalls
  /\ calls' = calls + 1
  /\ asked' = n
  /\ \/ /\ n >= NUM_SYSCALLS
        /\ ran' = NULL
        /\ eax' = Unanswered(n)
        /\ UNCHANGED <<schedulerLock, halted>>
     \/ /\ n < NUM_SYSCALLS /\ Function(n) = NULL
        /\ ran' = NULL
        /\ halted' = TRUE
        /\ schedulerLock' = TRUE
        /\ eax' = NULL
     \/ /\ n < NUM_SYSCALLS /\ Function(n) # NULL
        /\ ran' = Function(n)
        /\ \E a \in Answers(Function(n)) :
             eax' = IF Function(n) = "SysExit" THEN NULL ELSE a
        /\ schedulerLock' = (Function(n) = "SysExit")
        /\ UNCHANGED halted

SyscallGateNext == ~halted /\ \E n \in 0 .. MaxNumber : SyscalHandler(n)

SyscallGateSpec == SyscallGateInit /\ [][SyscallGateNext]_syscallGateVars
-----------------------------------------------------------------------------
(* Properties.                                                             *)

\* "if syscall is non-existant then return": a number that has no function in
\* the table leaves the machine running.  The bound lets 0 and 37 pass: the
\* entry of the one is the null pointer, the other is one behind the table.
NonexistentReturns == asked # NULL /\ Function(asked) = NULL => ~halted

\* The defines of the SYS_ numbers: a program that asks for a number by its
\* name gets the function of that name.  SysPaintWindow is not in the table.
NameRunsItsFunction ==
  asked \in 1 .. Len(Named) /\ Named[asked] # NULL => ran = Named[asked]
=============================================================================
