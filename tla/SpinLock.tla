------------------------------ MODULE SpinLock ------------------------------
(***************************************************************************)
(* The spin lock of lock.h, with CHECK_DEADLOCK as the header defines it:  *)
(* a waiter counts its looks at the lock and raises interrupt 0 when there *)
(* were too many.  Behind the int instruction the code runs on into the    *)
(* critical section; only the handler of interrupt 0, which does not       *)
(* return (isr_handler, no handler registered), keeps it out.              *)
(***************************************************************************)
EXTENDS Naturals

CONSTANTS
  Proc,    \* the threads that use the lock
  Limit    \* looks before interrupt 0, 0xFFFFFFF in the header

ASSUME SpinAssumption == Limit \in Nat

VARIABLES
  lock,   \* bit 0 of the lock word
  pc,     \* per thread: "out", "start", "spin", "in" or "trapped"
  rax     \* per thread: its looks in this acquireLock

spinLockVars == <<lock, pc, rax>>

SpinLockInit ==
  /\ lock = 0
  /\ pc = [p \in Proc |-> "out"]
  /\ rax = [p \in Proc |-> 0]
-----------------------------------------------------------------------------
\* acquireLock is entered: xor rax, rax.
acquireLock(p) ==
  /\ pc[p] = "out"
  /\ pc' = [pc EXCEPT ![p] = "start"]
  /\ rax' = [rax EXCEPT ![p] = 0]
  /\ UNCHANGED lock

\* jnc exit: the bit was clear.
WasClear == lock = 0

\* lock btsl $0: test and set in one step.
TestAndSet(p) ==
  /\ pc[p] = "start"
  /\ lock' = 1
  /\ pc' = [pc EXCEPT ![p] = IF WasClear THEN "in" ELSE "spin"]
  /\ UNCHANGED rax

\* Bug: the looks are not counted.
CountsNothing(n) == n

Counted(n) == n + 1

\* cmpq, jg int.
GivesUp(n) == n > Limit

\* Bug: the handler of interrupt 0 returns, and the code runs on.
RunsOn == "in"

AfterInterrupt == "trapped"

\* The loop at spin: count, give up, look again, or go back to start.  The
\* count goes on over all rounds of one acquireLock.
Spin(p) ==
  /\ pc[p] = "spin"
  /\ rax' = [rax EXCEPT ![p] = Counted(@)]
  /\ pc' = [pc EXCEPT ![p] = IF GivesUp(Counted(rax[p])) THEN AfterInterrupt
                             ELSE IF lock = 1 THEN "spin" ELSE "start"]
  /\ UNCHANGED lock

Cleared == 0

releaseLock(p) ==
  /\ pc[p] = "in"
  /\ lock' = Cleared
  /\ pc' = [pc EXCEPT ![p] = "out"]
  /\ UNCHANGED rax

Acquiring(p) == TestAndSet(p) \/ Spin(p)

SpinLockNext == \E p \in Proc : acquireLock(p) \/ Acquiring(p) \/ releaseLock(p)

SpinLockSpec == SpinLockInit /\ [][SpinLockNext]_spinLockVars

\* A thread in acquireLock goes on; nothing is assumed of the threads that
\* hold the lock.
SpinLockFairness == \A p \in Proc : WF_spinLockVars(Acquiring(p))
-----------------------------------------------------------------------------
(* Properties.                                                             *)

\* A lock bit, a place and a count for every thread.
SpinLockTypeOK ==
  /\ lock \in {0, 1}
  /\ pc \in [Proc -> {"out", "start", "spin", "in", "trapped"}]
  /\ rax \in [Proc -> 0 .. (Limit + 1)]

\* At most one thread is between acquireLock and releaseLock.
MutualExclusion ==
  \A p, q \in Proc : pc[p] = "in" /\ pc[q] = "in" => p = q

\* The word is set exactly while a thread is inside: a thread that gave up
\* leaves it alone, and one that comes late does not find it stuck.
SetWhileHeld == lock = 1 <=> \E p \in Proc : pc[p] = "in"

\* Every acquireLock ends, in the critical section or in interrupt 0, even
\* if the holder never releases the lock and however others overtake.
AcquireEnds ==
  \A p \in Proc : pc[p] = "start" ~> pc[p] \in {"in", "trapped"}
=============================================================================
