# A TLA+ model of literateOS

literateOS is a small monolithic x86 kernel in C++ (`src/Kernel`). This
directory models it in TLA+, checks the models with TLC on small instances, and
proves the safety properties with TLAPS for every value of the constants.

## 1. The system

One CPU, one kernel, processes that are either *kernel processes* (they run
kernel code and call the scheduler directly; the idle process is one) or *ELF
processes* (they enter the kernel through `int 0x69`). Interrupts and system
calls come through interrupt gates (flags `0x8E`, and a `cli` in each stub of
`idt.asm`), so a handler runs to its end unless it executes `sti` itself. Three
do: `CreateAddressSpace`, called by `LoadELF`, and `SysMemalloc`, with work left
to do behind it, and the keyboard handler (`keyboard.cpp:72`), whose last
statement it is.

| Component | State | Operations | Interacts with |
|---|---|---|---|
| Scheduler (`scheduler.cpp`, `.asm`) | ring of `process_t`, `currentProcess`, `nextPID`, `schedulerLock`, slices, `cr3` | `CreateProcess`, `LoadELF`, `EndProcess`, `Tick`, `TaskSwitch` | timer, system calls, paging |
| Messages (`scheduler.cpp`, `syscall.cpp`) | a queue per process | `SendMessage`, `ReceiveMessage` and their system calls | ring, lists, keyboard |
| Keyboard | `caps`, the key message | interrupt handler | messages |
| Physical allocator | bitmap, `usedPhysicalBlocks` | boot, allocate, free | paging, loader, exit, `SysGetSysinfo` |
| System-call gate | function table | `SyscalHandler` | scheduler lock, everything below |
| File descriptors | a list per process | open, read, write, close, seek, readdir, pty, fork-exec | file system, exit |
| Windows and handles | handle list, desktop, windows | create, paint, list, destroy | scheduler, lists |
| Pseudo terminals | list of PTYs, two buffers each | grant, read, write | file descriptors |
| Paging | page tables, directories | search, map, free, create address space | loader, exit, `SysMemalloc` |
| Timer | `ticks`, `uptime` | handler, `SysUptime` | scheduler |
| Interrupt dispatch | handler table, two PICs | register, dispatch, acknowledge | all drivers |
| Mouse | three bytes, cycle, `data_update` | handler, `ReadDevice` | file descriptors |
| Lists (`list.h`) | linked nodes | add, get, replace, remove, clear | all of the above |
| PCI | list of devices | scan, `RegisterPCIDevice` | drivers |
| Boot (`hal.cpp`) | how far start-up has come | `Init`, `Scheduler::Initialize` | everything, under timer ticks |
| Serial line | UART queue | initialise, write | log, interrupt handlers |
| Spin lock (`lock.h`) | lock word, looks per waiter | acquire, release | x86_64 code |
| AHCI port | command register | `startCMD`, `stopCMD` | controller |

What is hard here: timer ticks inside process creation; a lock that is saved
and restored by its users; a context switch that never returns to the code that
would release the lock; identifiers (pids, handles, frames) used after their
object has gone; boundary values that double as error codes; loops that wait
with interrupts off. `PROJECT.json` lists each such hazard at its line.

What makes the components correct: the process queue is one ring; nobody runs
inside another's critical section; each process runs in its own address space;
everyone gets the CPU; messages go to living processes and name their real
sender; a frame belongs to one owner; a descriptor or handle names what it
was given out for; queues and counters survive their limits.

### Reading the source

The repository does not compile as it stands: identifiers are misspelt
(`Scheduller`, `dekstop`, `SysSenMessage`) and a few statements are malformed.
A misspelt name is read as the one declaration it can mean; the logic is taken
exactly as written, faults included. Code whose body is not in the repository
(`MarkMemoryRegionFree`, `IdleProcess`, liballoc, `CharacterBuffer`, the log,
the desktop variable, the file systems) is external and modelled from its use;
so are the devices: PICs, mouse controller, UART, configuration space, AHCI
controller.

Each component is modelled on its own terms: what it does if the ones it uses
keep their promise. Some faults would stop the real machine before others are
reached (with the physical allocator as it is, no page is ever allocated; with
the page index as it is, few programs load; with the slave PIC as it is, a mouse
sends one byte). Stacking the faults would leave nothing to say about the
components above, so `Paging` gets fresh frames, `FileTable` and `Windows` have
processes that run, and `Mouse` gets its interrupts.

## 2. Modules

### `Scheduler.tla`

The ring is the function `next` from pids to pids; `NULL` means not queued.
`processQueueStart`, `currentProcess`, `nextPID`, `schedulerLock`, `timeSlice`,
`timeSliceDefault` and `pageDirectory` are the code's; `cr3` is the register.
`pc[p]` is where process `p` is in the code; `schedulerState`, `newProc` and
`segments` are the locals of its `CreateProcess`/`LoadELF` frame. A process
that is preempted later resumes behind `ReadEIP` in `Tick` and unwinds to where
it was, so saved registers are abstracted to `pc`.

| Code | Action |
|---|---|
| `CreateProcess`, `LoadELF` up to the first statement | `CallCreateProcess`, `CallLoadELF` |
| locking, `nextPID++`, building the structure | `CreateProcess`, `LoadELF` (kernel process), `SysExec` (system call; also `SysForkExec`) |
| loop over program headers | `LoadSegment`, `FinishSegment` |
| main thread, `InsertProcessIntoQueue` | `QueueNewProcess` |
| restoring the lock, return | `RestoreLock`, then `SyscallReturn` under a system call |
| system calls that keep interrupts off, failing `SysExec` included | `SyscalHandler` |
| `SysMemalloc` up to its `sti` | `SysMemalloc` |
| `SysExit` | `EndProcess` |
| timer interrupt | `TickCount`, `TickLocked`, `TickSwitch` |
| no pages for a stack; a fault while a segment is mapped or copied; the endless loops behind both | `PagesRunOut`, `PageFault`, `StandStill` |

Work under the lock may fail for good. `KernelAllocateVirtualPages` and
`AllocateVirtualPages` loop for ever when they find no pages, and
`PageFaultHandler` does not return: control points `hung` (with interrupts on),
`halted`, `spin` and `fault` (with interrupts off), which a process never
leaves. Whether pages are there is nondeterministic here; `Paging` counts them.

Between `schedulerLock = true` and `InsertProcessIntoQueue` only the timer's
slice counter can interfere, so those statements are one step. `LoadELF` does
not set `timeSlice`, so an ELF process's first slice is empty; `CreateProcess`
leaves the page directory zero, so other kernel processes run with `cr3 = 0`
(`NULL` in the model). A page directory of an ELF process is named by its pid,
whatever frame it lies in; `PhysicalAllocator` shows that the allocator, as
written, puts all of them into frame 0, which neither the ring nor the lock
depends on. `Init` is the state after `Scheduler::Initialize`. Kernel processes
are assumed to make no `int 0x69`.

### `RoundRobin.tla` and `MCScheduler.tla`

The abstract scheduler: a line of processes, the CPU moving along it. A new
process is placed behind the first, an exiting one hands over to the one behind
it. `MCScheduler` reads the line off the ring (`RingWalk`) and states that the
scheduler implements it (`ImplementsRoundRobin`); `SchedulerProofs` proves it.

### `Messaging.tla`

Extends `Scheduler` with a message queue per process. `SysSendMessage` and
`SysReceiveMessage` are system calls that keep interrupts off, so they are
conjoined with `SyscalHandler`; `KeyboardHandler` may happen at any time, since
interrupts are on in every state between two steps. `FindProcessByPID` is the
walk along the ring: a process is found if it lies in every set that contains
the start and is closed under `next`. `List::remove_at` has no body behind its
range check; it removes nothing and what it returns is indeterminate. `posted`,
`owed` and `sent` are history variables; `sent` holds who really sent what to
whom, which the message itself only claims.

### `PhysicalAllocator.tla`

The bitmap word by word, from the `memset` at boot on. The entries of the
memory map may be any regions: the end of the map is computed by pointer
arithmetic in entries from a length in bytes, so the loop also reads what lies
behind the map. Callers are honest: a block is freed only by somebody it was
given to (`held`).

### `List.tla`

Several lists over one heap. The heap belongs to the whole kernel and `kmalloc`
does not clear what it returns, so a node starts with any link: null, another
node, itself, or a wild address (`Wild`). `add_back` writes none into the node
it gets, and `clear` follows links instead of the count. A single `clear` may
therefore free what is not the list's own; when it has, the model stops
(`damaged`). `content` is the history variable a list is compared with.

### `PageTables.tla`, `Paging.tla`, `Memalloc.tla`, `PageEntry.tla`

`PageTables` holds the sizes and index macros at any scale and the search for a
run of free pages. `Paging` is the kernel's tables with all callers of
`KernelAllocateVirtualPages` and `MapVirtualPages`: `MapRegion` (HAL),
`CreateProcess`, `LoadELF` with `CreateAddressSpace`, `EndProcess`. Each caller
is one step, since the loader holds the scheduler's lock.

`LoadELF` loads a segment at any word of any page (`p_vaddr` need not be
aligned, and the directory index of an address that is not is not zero), of any
size. It maps the segment in the kernel's tables, enters it in the new ones, and
clears and copies it through its own addresses; if the new tables, which were
given no page, or one of the segment's pages are not there, the machine stops in
`PageFaultHandler` (`"panic"`), and if pages run out, in an endless loop
(`"hung"`).

`Memalloc` is the second search, in the tables of a process. It starts from
tables with any contents: they are neither cleared nor set aside, and the
program is entered in them through `get_page`, which is seldom where it is.
`PageEntry` is one entry bit by bit: a word is the set of its one
bits.

### `Pty.tla` and `FileTable.tla`

`Pty` holds the buffers of the terminals and what is done to them; `FileTable`
extends it with the descriptors of processes, whose system calls do it. A system
call is one step, with interrupts off and the scheduler locked, so a
`Slave_Read` without input stops everything (`Stopped`); nobody holds a master,
so that is what becomes of every read of a terminal. `opened` and `heirs` are
history variables.

### `Windows.tla` and `SurfaceCopy.tla`

In `Windows` a handle is an address, objects have serial numbers, and the rest
of the kernel allocates and frees in between, so an address can come to hold
something else. A call that follows a pointer into something of another kind
ends the model (`wild`). `SurfaceCopy` is the row loop of
`SysCopyWindowSurface` with the block copy under it.

### `Interrupts.tla`, `Boot.tla`, `Timer.tla`, `SyscallGate.tla`

`Interrupts`: two external PICs with priorities and lines in service, the table
of handlers, `isr_handler`, `irq_handler`. `Boot`: the sequence of initialisers
with a timer tick between any two of them. `Timer`: the counters, and the
answer of `SysUptime` against the time on the chip's clock. `SyscallGate`:
numbers, table and handler.

### `Mouse.tla`, `Serial.tla`

`Mouse` follows each byte from the device to a reader, from the first command of
`Install` on: nine steps, each of whose waits may run out, in which case a
command may be lost and a read takes whatever is there.
`Serial` separates `write_serial`'s look at the line status from its write,
with interrupts in between.

### `Pci.tla`, `AhciPort.tla`, `SpinLock.tla`

`Pci`: the scan slot by slot and two forms of request; indeterminate fields are
any value. `AhciPort`: each statement of `startCMD` and `stopCMD` is a step
against a controller that changes status bits. `SpinLock`: the instructions of
`acquireLock`.

### `MCMemory.tla`, `MCSyscalls.tla`, `MCInterrupts.tla`, `MCDrivers.tla`

The other components are checked several to a run. Such a module extends
theirs, and in each behaviour one of them, `active`, takes its steps while the
others stay in their initial state: the state graph is the disjoint union of
the graphs of the components, and a property of one of them is checked on all
of its behaviours. This is no composition; the components that are composed are
`Messaging` over `Scheduler` and `FileTable` over `Pty`. For the same reason
these modules name their formulas `PagingInit`, `PagingNext`, `pagingVars` and
so on, and fairness is stated per component. `Null` declares the null pointer
they share.

### Proof modules

| Module | Theorems about |
|---|---|
| `SchedulerProofs` | `Scheduler`, and that it implements `RoundRobin` |
| `MessagingProofs` | `Messaging` |
| `PhysicalAllocatorProofs` | `PhysicalAllocator` |
| `MemoryProofs` | `Paging`, `Memalloc`, `PageEntry` |
| `SyscallProofs` | `SurfaceCopy`, `Windows`, `FileTable` with `Pty` |
| `InterruptProofs` | `Interrupts`, `Timer`, `Boot`, `Mouse` |
| `DriverProofs` | `List`, `Serial`, `Pci`, `SpinLock`, `AhciPort` |
| `NaturalInduction` | natural numbers |

Operators whose comment starts with *Bug:* are not part of the specifications;
each is a plausible slip in the definition behind it, and makes the property
named for it in `PROJECT.json` fail.

## 3. What TLC checks

| Run | Shows |
|---|---|
| `scheduler` | `RingIntact`: the queue is one ring, without freed processes. `KernelExclusive`: the lock keeps every other process out of process creation and of system calls with interrupts open. `AddressSpaceMatches`: `cr3` belongs to the running process. `LeakOnlyByExit`: only `EndProcess` leaves the lock held by nobody. `FrozenForever`: if a kernel process, such as the idle process, runs next, the lock is never released again and the system hangs there. `ImplementsRoundRobin`: the scheduler refines `RoundRobin`. |
| `scheduler_liveness` | `NoStarvation`: if the lock is free again and again, every queued process runs. `KernelWorkCompletes`: what is begun under the lock ends, or stops the machine in one of the endless loops for missing pages and page faults. |
| `messaging` | `NoMailForTheAbsent`: mail is kept for processes on the ring only. `SenderIsGenuine`: every stored message was sent by the process it names, to the one that has it. |
| `receive_message` | fails: `GrabsNextMessage`, the comment at `syscall.cpp:213`. No message ever leaves a queue. |
| `memory`: `PhysicalAllocator` | `SearchFindsLowest`: the search by words finds the lowest free block. `OnlyBlockZeroIsHandedOut`, `NothingIsMarkedUsed`: no allocation ever succeeds. |
| `first_block` | fails: `FirstBlockReserved`, the comment at `pyhsicalallocator.cpp:47`. `MarkMemoryRegionUsed` clears the bits it should set. |
| `memory`: `Paging` | `GrantsAreDisjoint`: the three off-by-ones of the search cancel out. `ExitReleasesItsOwn`: as long as nothing was given out past the first table, an exit finds exactly the frames its program was loaded into, among the entries all others have written. |
| `memory`: `Memalloc` | `OverlapOnlyAtFirstOffset`: from any tables, the only ways in which pages are given out that are marked, by an earlier grant or before. |
| `memory`: `PageEntry` | `ReadsTheLastMapping`: however often a page is mapped, the frame read back is the last one and the processor's, as long as no address above 2 GB was mapped there (the mask `0x7FFFF000` leaves out bit 31). |
| `page_mapping` | fails: `GrantedPagesHaveTheirFrames`, the comment at `paging.cpp:148`. |
| `system_calls`: `FileTable` | `NumbersKeepTheirNode`: an open number keeps its file, and its file alone, whatever is opened, closed and forked. `ExitCrashesWithTerminal`: exactly the processes with a terminal crash in `EndProcess`. |
| `system_calls`: `Windows` | `StaleOnlyByDestruction`: destruction leaves stale handles and entries, and nothing else does. |
| `system_calls`: `SurfaceCopy` | `ArrivesOrRunsAway`: rows of fewer than four pixels run away; otherwise regions from the top arrive and nothing else is touched (the loop ends at the region's height, so regions further down are cut). |
| `nonexistent_call` | fails: `NonexistentReturns`, the comment at `syscall.cpp:582`. Numbers 0 and 37 pass the bound and have no function. |
| `system_call_names` | fails: `NameRunsItsFunction`, the numbers defined in `syscall.cpp:21-55`. `SysPaintWindow` is not in the table. |
| `interrupts`: `Interrupts` | `MasterNeverBlocks`: no line that was served, of either PIC, holds up the master, although the slave is acknowledged at the wrong port. `TimerIsServed`: a raised timer is served. |
| `interrupts`: `Timer` | `AtMostAFifthFast`: the count is exact (proved), its conversion is not. |
| `interrupts`: `Boot` | `NoSwitchBeforeStart`: early ticks write through a null pointer but never switch. |
| `interrupts`: `Mouse` | `TornAtOneSeam`: how packets are torn. `NeverRecovers`: what a byte that comes before the handler is registered, or a wait that ran out, does for good. |
| `drivers`: `List` | `ReadsAsSequence`: lists read as sequences in spite of the garbage in their nodes, and share no node, up to the first `clear` that runs past the end of its list. |
| `drivers`: `SpinLock` | `MutualExclusion`; `AcquireEnds`: every attempt ends, inside or in interrupt 0. |
| `drivers`: `Serial` | `NothingIsLost`: nested writers need the FIFO, and never more than two bytes of it. |
| `drivers`: `Pci` | `SameDeviceForEveryDriver`: no driver can tell that its device is taken, and the class is right only if the latency timer is not zero. |
| `drivers`: `AhciPort` | `ReceiverOutlivesCommands`: over any sequence of starts and stops. |

Bounds. `MaxPID` is the number of processes created beside the idle process:
four (two for liveness) give rings with a first, a middle and a last process,
removal of each of them but the first, and processes created after others have
exited. `MaxSegments = 1` has images with and without a loadable segment,
`ELFSlice = 2` a slice that is partly used. Two messages have
a receiver with mail from two senders. Two words of three bits have a search within a word and across words;
`CounterMod = 4` lets the counter wrap.

Two lists over three nodes have a node move from one list to the other, and
links into the other list, into free memory and to the node itself. Two page
tables are enough for a first one and another one; the ten entries leave room
for two programs in the first. Segments are tried at every word of every page,
with sizes on both sides of a page. `Memalloc` starts from tables with up to
two runs of marked pages anywhere, of sizes up to one that leaves no room for a
third request; the proof is for every set. Three heap blocks for five objects
make addresses come back. Three processes have a grandchild by fork. `SurfaceCopy` tries every
offset and region of six by three pixels, which has rows below and above a
block of four. Two PCI slots hold two devices of a class. `Timer` runs at the
real frequency for three seconds; TLC's integers end at 2^31. `SyscallGate`
tries every number up to 40. Four mouse packets let a shift by one, two and
three bytes show. The limit of the spin lock is three instead of `0xFFFFFFF`:
mutual exclusion does not depend on it, as its proof shows.

Fairness. `WF(TickCount)`: the timer keeps interrupting. `WF(LoaderStep)`: a
process inside the kernel keeps executing. The loader never waits for anybody,
but it may fail: at the points where pages run out or a segment faults
`PagesRunOut` and `PageFault` compete with the loader's own step, fairness
prefers neither, and once stuck a process takes no more steps of `LoaderStep`.
`SF(TickSwitch)`: the timer is not synchronised with the code, so if the lock
is free again and again some tick finds it free. Nothing is assumed about user
code: a process may never make a system call. Since an exit can leave the lock
held for good, `NoStarvation` is conditional on the lock being released
infinitely often.

The other fairness assumptions: the processor takes an interrupt that a PIC keeps offering
(`Interrupts`); a thread inside `acquireLock` keeps executing, while nothing is
assumed of the holder (`SpinLock`).

Deadlock is checked except in runs with a component that may stop: a halted,
crashed or hung machine (`Paging`, `Memalloc`, `FileTable`, `Windows`,
`Interrupts`, `SyscallGate`), a finished algorithm (`SurfaceCopy`, `Pci`,
`Serial`), waiters that are all trapped (`SpinLock`) and components that end at
a bound on time (`Timer`, `Boot`).

## 4. What TLAPS proves

Every safety invariant and every action property that a run checks is also a
theorem, for every value of the constants, and so is the refinement of
`RoundRobin`. `PROJECT.json` names the theorem for each.

**Assumptions.** Each module names what its constants satisfy, and TLC
evaluates it on the instances. Most say that bounds are natural numbers. The
others: `NULL` and the other special values are different from what they must
be told apart from (no pid, file, node, address or mouse byte is `NULL`; a file
is no terminal), a heap has finitely many nodes (`List`), the entries of a page
table are a multiple of those of the directory (`PageTables`), no segment is empty (`LoadELF` skips
those, `Paging`), `PageEntry`'s three groups of bits are
disjoint. `UptimeError` alone is about numbers of the code: a frequency of 1200
and the chip's clock of 1193182 Hz.

**Induction.** The provers cannot instantiate an operator, so the library's
induction theorems cannot be cited. `NaturalInduction` states induction with
sets: a nonempty set of naturals has a least member (`LeastNumber`, from the
well-foundedness of inclusion of finite sets), and a set that holds 0 and all
successors holds every number (`ClosedUnderSuccessor`). What loops and walks
compute is proved with these two.

`SchedulerProofs`:

* The inductive invariant `IInv` (`Invariance`). `RingIntact` alone is not
  inductive: an insertion keeps the ring only if the new process is not on it
  (`UnderConstruction`, `FreshPids`), and a removal only if the first process
  never exits, because `RemoveProcessFromQueue` does not move
  `processQueueStart`; the first process is the idle process, which is not an
  ELF process (`Directories`). `KernelExclusive` needs to know that an ELF
  process in the loader saved the lock as held (`SavedLock`).
* From it `TypeCorrect`, `RingAlwaysIntact`, `LockExcludes`,
  `AddressSpaceCorrect`, and the action properties `OnlyExitLeaks` and
  `FrozenIsForever`.
* `RefinesRoundRobin`. The line is a walk along the ring, hence recursive, but
  induction over it is needed only once: a sequence that starts at the first
  process, follows the links, comes back and meets each queued process once
  (`IsLine`) is `RingWalk` (`WalkFollowsLine`; its length is the number of
  queued processes because it is a bijection). That there is a line is kept by
  insertion and removal (`InsertIntoLine`, `RemoveFromLine`). Beside `IInv` the
  steps need that the process under construction has the last number given out
  (`LastNumbered`), which is why `Created` can lag behind `nextPID`.
  `QueueNewProcess` is `Spawn`, `TickSwitch` is `Yield`, `EndProcess` is
  `Exit`, and every other step is none.

That the queue is *one* ring is stated without recursion: every set that holds
the first process and is closed under `next` holds every queued process. The
lemmas `InsertKeepsRing`, `PredecessorExists` and `RemoveKeepsRing` transform
such a set of the new ring into one of the old ring.

`MessagingProofs`: every step of `Messaging` is a step of the scheduler or
leaves it alone, so `IInv` carries over (`SchedulerInvariance`); with it
`MailOnlyForThePresent`, `SendersAreGenuine` (pid 0, the mark of
the keyboard, is a kernel process and makes no system call), and
the refinement (`MessagingRefinesRoundRobin`).

`PhysicalAllocatorProofs`: bit 0 is clear from boot on (`BlockZeroFree`), hence
the search answers 0, hence `OnlyBlockZero` and `NothingMarked`.
`LowestFreeBlock` is about any bitmap: blocks are words and bits, and a word
that is full hides no free block.

`MemoryProofs`, for page tables of any size:

* `GrantsDisjoint` from `PagingInv`. The marks of a grant cover it
  (`FirstRunIsFree`, `AllocationIsFree`, `OneGrant`), and what `MapVirtualPages`
  writes for page-aligned addresses lies in the first table, since their
  directory index is zero (`DirectoryIndexIsZero`); a segment that is not
  aligned may write into any table (`EntryIndex`), but it only adds marks.
* `ExitReleases` from `ExitInv`: while all grants lie in the first table, the
  pages in use are its first ones (`LowMemoryInOrder`). The new tables are
  written through the page after them, so that a segment loads only if it is
  aligned (`EnteredAtPageStart`), falls right behind them and does not wrap
  around (`LoadDoesNotWrap`): it overwrites no entry of an earlier program, and
  nothing later overwrites its own (`GrantKeepsOrder`, `LoadKeepsOrder`).
* `OverlapsAtFirstOffset`: each grant is in use with the two pages after it
  (`GrantsUsed`), so a run of free pages found later lies apart from it.
* `BitsStick`, `LastFrameOnly`, `ReadBack`: for masks of any width; the
  invariant ties the flags to the first mapping.

`SyscallProofs`:

* `CopyArrivesOrRunsAway`: the copied pixels are those of the rows done, all of
  each (`CopyInv`), for windows and regions of any size.
* `StaleByDestruction`: serial numbers tell the objects in the heap apart
  (`SerialsDiffer`), and a live handle or entry is not in free memory, so that
  no allocation takes its place.
* `NumbersKept`, `ExitCrashes` from `FileInv`: the standard descriptors of a
  process are all slaves if it got or inherited a terminal and all empty
  otherwise, and open files come behind them under their numbers.

`InterruptProofs`:

* `MasterIsNeverBlocked`: between two interrupts no line of the master is in
  service (`DispatchInv`), line 2 included.
* `TimerTypeCorrect`, `TicksAreExact`, `UptimeError`: at the turn of a second
  exactly `Frequency` ticks are there, so none is lost; the error of the answer
  follows by arithmetic, however long the machine runs.
* `NoEarlySwitch`: the lock is held up to the last step of start-up.
* `MouseNeverRecovers` (an action property) and `TornOnce`: while the handler
  is in step, its array holds the bytes of the packet being sent up to its place
  and of the packet before from there on; if no wait ran out, it can get out of
  step only by a byte that comes before the handler is registered, and then no
  other comes (`InTurn`).

`DriverProofs`:

* `ListsReadAsSequences`: each list lies along a path of nodes that no other
  list and no free memory shares (`Paths`), unless damaged. Nothing is known of
  the link of a last node: `get_at` and `replace_at` are kept from it by the
  count (`WalkOnPath`), `add_back` overwrites it, and `clear` frees nodes of its
  own path (`NodesOnPath`) and then whatever that link leads to.
* `NoByteLost`: at most one byte is queued when the kernel, having looked,
  writes. `SameDevice`: devices are listed in the order of their slots, and
  drivers ask only after the scan.
* `LockExcludes`: `MutualExclusion` alone is not inductive, since test-and-set
  only looks at the bit; with `SetWhileHeld` (`NeverStuck`) it is. `Counts`
  bounds the looks (`SpinLockTypeCorrect`).
* `ReceiverStaysOn` is not inductive either: clearing FRE is harmless only
  because ST has been clear since step 1, so that the controller cannot have
  started the list again (`Progress`). `StartsOnlyStopped`,
  `AhciPortTypeCorrect`.

Proved and not checked by a run: `SetWhileHeld`, `BitsOutsideTheMaskStick`,
`FrameIsTheLast`, `NoTickIsLost`, `StartsStopped` and the type invariants of
`SpinLock`, `Timer` and `AhciPort`.

Only model-checked: the liveness properties `NoStarvation`,
`KernelWorkCompletes`, `TimerIsServed` and `AcquireEnds`, since fairness is
beyond the prover; and the five properties that fail.

## 5. Plan

1. Done: scheduler, round robin, messages and keyboard, physical allocator.
2. Done: lists, paging, descriptors and terminals, windows, interrupts, mouse,
   timer, system-call gate, boot, serial line, PCI, AHCI port, spin
   lock.
3. Done: a proof of every safety property, and of the refinement.
4. Open: the safety part of the liveness arguments (that a queued process comes
   closer to the CPU with every switch).
5. Open compositions: `Paging` over `PhysicalAllocator`, and `FileTable` over
   `Scheduler`.

## 6. Not modelled

* `gdt.cpp` and `entry.asm`: straight-line code. `GDT::SetGate` calls itself
  without end as written, so nothing behind it could be stated.
* `SysLSeek` and `SysReadDir` change no state of the kernel, and `FS_Ioctl`, which
  no system call reaches, a window size nobody else reads; `FreeVirtualPages`
  has no caller; page directory switches are `cr3` in `Scheduler`.
* The stubs of `idt.asm` only move registers. `GetLongFilename`, the one body of
  the FAT32 driver, copies characters and has no caller.
* The text screen (`vga.cpp`) is a cursor that neither wraps nor scrolls.
* `cpuid.cpp` reads processor identification; the keymap and the vendor list
  feed the log.
* NVMe, xHCI, GPT, initrd, tar, network and ATA exist as declarations only, as
  do most of AHCI and FAT32. The x86_64 port is headers and an empty file.
* `kmalloc` entered by an interrupt while a kernel process is inside it:
  liballoc is not in the repository.
* Stack overflow by nested interrupts, the contents of memory and the timing of
  instructions are below the models' level.
