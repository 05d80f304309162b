----------------------------- MODULE RoundRobin -----------------------------
(***************************************************************************)
(* What the scheduler promises, without links, locks or slices: processes  *)
(* stand in a line that wraps around; the CPU moves along the line one     *)
(* place at a time; a new process is placed right behind the first one,    *)
(* and a process that exits hands the CPU to the one behind it.            *)
(* Scheduler.tla is shown to implement this module (MCScheduler.tla).      *)
(***************************************************************************)
EXTENDS Naturals, Sequences, SequencesExt

CONSTANT MaxPID

VARIABLES
  order,     \* the processes in ring order, the first one being the idle one
  running,   \* the process that has the CPU
  created    \* how many processes have been created, exited ones included

rrVars == <<order, running, created>>

RRInit ==
  /\ order = <<0>>
  /\ running = 0
  /\ created = 1

\* Where p stands in the line, and the process behind it, wrapping around.
Place(p) == CHOOSE i \in 1 .. Len(order) : order[i] = p

Behind(p) == order[(Place(p) % Len(order)) + 1]

\* Pids are given out in the order in which processes enter the line.
Spawn ==
  /\ created <= MaxPID
  /\ order' = <<Head(order), created>> \o Tail(order)
  /\ created' = created + 1
  /\ UNCHANGED running

Yield ==
  /\ running' = Behind(running)
  /\ UNCHANGED <<order, created>>

Exit ==
  /\ running # Head(order)
  /\ running' = Behind(running)
  /\ order' = RemoveAt(order, Place(running))
  /\ UNCHANGED created

RRNext == Spawn \/ Yield \/ Exit

RRSpec == RRInit /\ [][RRNext]_rrVars
=============================================================================
