-------------------------------- MODULE Timer --------------------------------
(***************************************************************************)
(* The system clock (timer.cpp) and what SysUptime makes of it.            *)
(*                                                                         *)
(* The timer chip is external: it interrupts once in `divisor' cycles of   *)
(* its own clock.  An interrupt is one step, and so is a system call: both *)
(* keep interrupts off.  The call of Scheduler::Tick is in Scheduler.      *)
(***************************************************************************)
EXTENDS Naturals

CONSTANTS
  Frequency,    \* the argument of Timer::Initialize, 1200 in the HAL
  Clock,        \* the chip's clock, 1193182 Hz
  MaxUptime     \* bound: seconds of uptime

ASSUME TimerAssumption ==
  /\ Frequency \in Nat /\ Frequency >= 1000
  /\ Clock \in Nat /\ Clock >= Frequency
  /\ MaxUptime \in Nat

VARIABLES
  ticks, uptime,
  interrupts    \* history: interrupts since Initialize

timerVars == <<ticks, uptime, interrupts>>

TimerInit ==
  /\ ticks = 0
  /\ uptime = 0
  /\ interrupts = 0
-----------------------------------------------------------------------------
\* Initialize: the chip counts whole cycles.
divisor == Clock \div Frequency

SecondIsOver(t) == t >= Frequency

\* What is left of the ticks when a second is over.
Remaining(t) == t - Frequency

Handler ==
  /\ uptime < MaxUptime
  /\ interrupts' = interrupts + 1
  /\ IF SecondIsOver(ticks + 1)
       THEN uptime' = uptime + 1 /\ ticks' = Remaining(ticks + 1)
       ELSE ticks' = ticks + 1 /\ UNCHANGED uptime

TimerNext == Handler

TimerSpec == TimerInit /\ [][TimerNext]_timerVars
-----------------------------------------------------------------------------
\* Bug: seconds of a hundred milliseconds.
SecondsAsTenths == [seconds |-> uptime, milliseconds |-> ticks \div (Frequency \div 100)]

\* The answer of SysUptime.  Frequency / 1000 is an integer, 1 in the HAL's
\* case: the milliseconds are ticks.
SysUptime == [seconds |-> uptime, milliseconds |-> ticks \div (Frequency \div 1000)]

\* The answer as a number of milliseconds, and the time on the chip's clock.
\* The quotient is taken with half of both operands, which keeps the product
\* below 2^31; both are even.
Answered == SysUptime.seconds * 1000 + SysUptime.milliseconds
Passed == (interrupts * (divisor \div 2) * 1000) \div (Clock \div 2)
-----------------------------------------------------------------------------
(* Properties.                                                             *)

\* Less than a second of ticks is kept.
TimerTypeOK ==
  /\ ticks \in 0 .. (Frequency - 1)
  /\ uptime \in 0 .. MaxUptime
  /\ interrupts \in Nat

\* No interrupt is lost or counted twice at the turn of a second: seconds and
\* ticks together are the interrupts there were.
NoTickIsLost == uptime * Frequency + ticks = interrupts

\* SysUptime is never slow, and at most a fifth of a second fast (its
\* milliseconds count ticks) plus a millisecond for each second (the divisor
\* is rounded down).
AtMostAFifthFast == Passed <= Answered /\ Answered <= Passed + 201 + uptime
=============================================================================
