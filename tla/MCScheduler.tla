---------------------------- MODULE MCScheduler ----------------------------
(***************************************************************************)
(* The scheduler implements RoundRobin: the line of processes is the ring  *)
(* read off from processQueueStart.                                        *)
(***************************************************************************)
EXTENDS Scheduler, FiniteSets

\* The ring as a sequence: RingWalk[i] is reached from processQueueStart
\* after i - 1 steps along next.
RingWalk ==
  LET walk[n \in 1 .. Cardinality(Queued)] ==
        IF n = 1 THEN processQueueStart ELSE next[walk[n - 1]]
  IN  [n \in 1 .. Cardinality(Queued) |-> walk[n]]

\* The running process has numbered a process that is not on the ring.
Building == {"map", "copy", "hung", "halted", "fault"}

\* A process counts as created once it is on the ring, not when it is
\* numbered.
Created == IF pc[currentProcess] \in Building THEN nextPID - 1 ELSE nextPID

RR == INSTANCE RoundRobin WITH
        order <- RingWalk, running <- currentProcess, created <- Created

\* Links, lock, slices and the windows with interrupts open together do what
\* round robin says: every switch of Tick and EndProcess goes to the process
\* behind the current one, nobody is skipped, lost or run twice, and new
\* processes enter behind the first one in the order of their pids.
ImplementsRoundRobin == RR!RRSpec

=============================================================================
