------------------------------- MODULE Serial -------------------------------
(***************************************************************************)
(* The serial line: initialize_serial and write_serial, called by the      *)
(* kernel with interrupts open and, in the middle of that, by interrupt    *)
(* handlers that log.  Between its look at the line status and its out     *)
(* instruction a writer may be interrupted by another.                     *)
(*                                                                         *)
(* The UART is external: a queue of 16 bytes if its FIFO is enabled and of *)
(* one otherwise; a byte written to a full queue is lost.  So is the log,  *)
(* which the repository only declares; it is taken to call write_serial    *)
(* once for each message.                                                  *)
(***************************************************************************)
EXTENDS Naturals, Sequences

CONSTANTS
  Text,          \* characters the kernel writes
  MaxMessage,    \* bound: characters of a handler's message
  MaxInterrupts  \* bound: interrupts that log

ASSUME SerialAssumption == {Text, MaxMessage, MaxInterrupts} \subseteq Nat

\* Bug: the FIFO is left off.
WithoutFifo == <<<<1, 0>>, <<3, 128>>, <<0, 3>>, <<1, 0>>, <<3, 3>>, <<4, 11>>>>

\* The register writes of initialize_serial, as offset and value.
initialize_serial ==
  <<<<1, 0>>, <<3, 128>>, <<0, 3>>, <<1, 0>>, <<3, 3>>, <<2, 199>>, <<4, 11>>>>

\* Bit 0 of register 2 enables the FIFO.
Depth == IF \E i \in 1 .. Len(initialize_serial) :
              initialize_serial[i][1] = 2 /\ initialize_serial[i][2] % 2 = 1
           THEN 16 ELSE 1

VARIABLES
  fifo,      \* bytes the UART has yet to send: <<writer, number>>
  line,      \* bytes on the wire
  lost,      \* bytes that found the queue full
  written,   \* the kernel's position in its text
  ready,     \* the kernel has seen the transmitter empty and not yet written
  message,   \* characters the running handler has yet to write
  interrupts \* history: interrupts so far

serialVars == <<fifo, line, lost, written, ready, message, interrupts>>

SerialInit ==
  /\ fifo = <<>>
  /\ line = <<>>
  /\ lost = <<>>
  /\ written = 0
  /\ ready = FALSE
  /\ message = 0
  /\ interrupts = 0
-----------------------------------------------------------------------------
\* Bit 5 of the line status register.
is_transmit_empty == fifo = <<>>

\* outportb(PORT, c).
Out(byte) ==
  IF Len(fifo) < Depth THEN fifo' = Append(fifo, byte) /\ UNCHANGED lost
                       ELSE lost' = Append(lost, byte) /\ UNCHANGED fifo

\* *s++
NextCharacter(n) == n + 1

\* The kernel's write_serial: it looks, and then it writes.
Look ==
  /\ message = 0 /\ ~ready /\ written < Text
  /\ is_transmit_empty
  /\ ready' = TRUE
  /\ UNCHANGED <<fifo, line, lost, written, message, interrupts>>

Put ==
  /\ message = 0 /\ ready
  /\ Out(<<0, written + 1>>)
  /\ written' = NextCharacter(written)
  /\ ready' = FALSE
  /\ UNCHANGED <<line, message, interrupts>>

\* An interrupt whose handler logs a message.
Interrupt(n) ==
  /\ message = 0 /\ interrupts < MaxInterrupts
  /\ message' = n
  /\ interrupts' = interrupts + 1
  /\ UNCHANGED <<fifo, line, lost, written, ready>>

\* write_serial in the handler, where nothing comes between look and write.
HandlerPuts ==
  /\ message > 0
  /\ is_transmit_empty
  /\ Out(<<interrupts, message>>)
  /\ message' = message - 1
  /\ UNCHANGED <<line, written, ready, interrupts>>

\* The UART sends a byte.
Send ==
  /\ fifo # <<>>
  /\ line' = Append(line, Head(fifo))
  /\ fifo' = Tail(fifo)
  /\ UNCHANGED <<lost, written, ready, message, interrupts>>

SerialNext == Look \/ Put \/ (\E n \in 1 .. MaxMessage : Interrupt(n)) \/ HandlerPuts \/ Send

SerialSpec == SerialInit /\ [][SerialNext]_serialVars
-----------------------------------------------------------------------------
(* Properties.                                                             *)

\* Of the kernel's characters, these bytes hold 1 .. written, ascending.
InOrder(bytes) ==
  /\ \A c \in 1 .. written : \E i \in 1 .. Len(bytes) : bytes[i] = <<0, c>>
  /\ \A i \in 1 .. Len(bytes) : bytes[i][1] = 0 => bytes[i][2] \in 1 .. written
  /\ \A i, j \in 1 .. Len(bytes) :
       i < j /\ bytes[i][1] = 0 /\ bytes[j][1] = 0 => bytes[i][2] < bytes[j][2]

\* Nothing is lost although the look at the line and the write are apart: the
\* queue never holds more than two bytes, initialize_serial has enabled the
\* FIFO, and what the kernel writes comes out once and in its order.
NothingIsLost == lost = <<>> /\ Len(fifo) <= 2 /\ InOrder(line \o fifo)
=============================================================================
