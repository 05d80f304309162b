----------------------------- MODULE Interrupts -----------------------------
(***************************************************************************)
(* Interrupt dispatch: the gates and PICs as IDT::Initialize sets them up, *)
(* isr_handler and irq_handler.                                            *)
(*                                                                         *)
(* The two 8259 PICs are external: fixed priority, the slave behind line   *)
(* 2, a line is passed on only if none of the same or a higher priority is *)
(* in service, and a non-specific end of interrupt ends the service of the *)
(* line with the highest priority.  All gates are interrupt gates, so a    *)
(* handler is one step.                                                    *)
(***************************************************************************)
EXTENDS Integers

CONSTANTS
  Lines,       \* lines with a device, of 0 .. 15 without 2
  Exceptions   \* vectors the processor or a program raises

ASSUME InterruptAssumption ==
  /\ Lines \subseteq (0 .. 15) \ {2}
  /\ Exceptions \subseteq (0 .. 31) \cup {105}

Timer == 0
SyscallVector == 105   \* 0x69

VARIABLES
  raised,    \* lines a device has raised and no PIC has passed on
  service,   \* lines in service: 0 .. 7 on the master, 8 .. 15 on the slave
  handlers,  \* vectors with an entry in interrupt_handlers
  halted     \* isr_handler's endless loop

interruptsVars == <<raised, service, handlers, halted>>

\* IDT::Initialize: no line is masked, no handler is registered.
InterruptsInit ==
  /\ raised = {}
  /\ service = {}
  /\ handlers = {}
  /\ halted = FALSE
-----------------------------------------------------------------------------
(* The PICs, external.                                                     *)

IsSlave(n) == n >= 8

\* The slave passes on its lowest raised line if no line up to it is in service.
SlaveOutput ==
  {n \in raised : IsSlave(n) /\ \A m \in raised \cup service : IsSlave(m) => n <= m}
    \ service

\* The lines the master sees, with the slave's on line 2.
Input(n) == IF IsSlave(n) THEN 2 ELSE n
Candidates == {n \in raised : ~IsSlave(n)} \cup SlaveOutput

\* The line the processor is interrupted for: at most one.
Interrupting ==
  {n \in Candidates :
     /\ \A m \in Candidates : Input(n) <= Input(m)
     /\ \A m \in service : ~IsSlave(m) => Input(n) < m}

\* Ends the service of the master's or of the slave's foremost line.
EndOfInterrupt(lines, slave) ==
  lines \ {n \in lines : IsSlave(n) = slave /\ \A m \in lines : IsSlave(m) = slave => n <= m}

\* A device raises its line.
Raise(n) ==
  /\ n \notin raised
  /\ raised' = raised \cup {n}
  /\ UNCHANGED <<service, handlers, halted>>
-----------------------------------------------------------------------------
\* The vector is an uint8_t.
Index(v) == v % 256

RegisterInterruptHandler(v) ==
  /\ handlers' = handlers \cup {Index(v)}
  /\ UNCHANGED <<raised, service, halted>>

\* isr_handler: without a handler an early system call is logged, everything
\* else is fatal.
Fatal(v) == v \notin handlers /\ v # SyscallVector

Exception(v) ==
  /\ halted' = Fatal(v)
  /\ UNCHANGED <<raised, service, handlers>>

\* Bug: the master is acknowledged for its own lines alone.
AcknowledgesOne(lines, n) == IF IsSlave(n) THEN lines ELSE EndOfInterrupt(lines, FALSE)

\* Bug: the acknowledgement comes after the handler, which does not return
\* when the timer switches processes.
AcknowledgesTooLate(lines, n) == IF n = Timer THEN lines ELSE EndOfInterrupt(lines, FALSE)

\* irq_handler acknowledges the slave at port 0x0A, where no PIC is, and then
\* the master.
Acknowledged(lines, n) == EndOfInterrupt(lines, FALSE)

\* The PIC passes a line on; irq_handler and the registered handler,
\* if there is one, run to their end.  What the handlers of the timer, the
\* keyboard and the mouse do is in Scheduler, Messaging and Mouse.
Interrupt(n) ==
  /\ n \in Interrupting
  /\ raised' = raised \ {n}
  /\ service' = Acknowledged(service \cup {n} \cup {Input(n)}, n)
  /\ UNCHANGED <<handlers, halted>>

InterruptsNext ==
  /\ ~halted
  /\ \/ \E n \in Lines : Raise(n) \/ Interrupt(n)
     \/ \E v \in Exceptions : RegisterInterruptHandler(v) \/ Exception(v)

InterruptsSpec == InterruptsInit /\ [][InterruptsNext]_interruptsVars

\* The processor takes an interrupt that a PIC keeps offering.
InterruptsFairness == \A n \in Lines : WF_interruptsVars(~halted /\ Interrupt(n))
-----------------------------------------------------------------------------
(* Properties.                                                             *)

\* Nothing that was served holds up the master PIC: in whatever order lines of
\* both PICs came, the foremost of the lines that wait at the master is offered
\* to the processor.  (Line 2, which goes into service with every line of the
\* slave, is ended by the second write of irq_handler.)
MasterNeverBlocks ==
  \A n \in Candidates :
    (\A m \in Candidates : Input(n) <= Input(m)) => n \in Interrupting

\* The master PIC keeps working whatever happens to the slave: a raised timer
\* is served, as long as the machine has not halted (irq_handler acknowledges
\* before the handler, which may leave for another process, is called).
TimerIsServed ==
  (Timer \in raised) ~> (Timer \notin raised \/ halted)
=============================================================================
