-------------------------------- MODULE Mouse --------------------------------
(***************************************************************************)
(* The PS/2 mouse driver: Install, which talks to the device by polling,   *)
(* the interrupt handler, which collects packets of three bytes, and the   *)
(* readers of the device file.                                             *)
(*                                                                         *)
(* The controller is external: it holds one byte for the processor, sends  *)
(* the next one only when that has been read, and interrupts for each.     *)
(* Without a registered handler the interrupt is acknowledged and the byte *)
(* stays; so it does while the controller's interrupt is off.  Interrupts  *)
(* are on while Install runs, off in a reader.                             *)
(***************************************************************************)
EXTENDS Naturals, Sequences

CONSTANTS
  NULL,
  MaxPackets   \* bound: packets the mouse sends

ASSUME MouseAssumption ==
  /\ MaxPackets \in Nat \ {0}
  /\ NULL \notin [packet : 0 .. MaxPackets, byte : 0 .. 2]

Ack == [packet |-> 0, byte |-> 0]
Data(n) == [packet |-> (n \div 3) + 1, byte |-> n % 3]   \* the n-th byte sent

VARIABLES
  install,      \* where Install is: the step it takes next
  acks,         \* answers the controller and the mouse have yet to send
  enabled,      \* the controller interrupts for bytes of the mouse
  streaming,    \* command 0xF4 has reached the mouse
  sent,         \* bytes of packets sent so far
  port,         \* the byte at port 0x60 that nobody has read, or NULL
  mouseData, mouseCycle, data_update,
  timedOut,     \* history: a Wait of Install has run out
  answer        \* what the last reader was given

mouseVars == <<install, acks, enabled, streaming, sent, port, mouseData, mouseCycle,
               data_update, timedOut, answer>>

InstallStep == <<"ask", "status", "configure", "defaults", "read", "enable", "read2",
                 "register", "done">>

MouseInit ==
  /\ install = 1
  /\ acks = 0
  /\ enabled = FALSE
  /\ streaming = FALSE
  /\ sent = 0
  /\ port = NULL
  /\ mouseData = [k \in 0 .. 2 |-> NULL]
  /\ mouseCycle = 0
  /\ data_update = FALSE
  /\ timedOut = FALSE
  /\ answer = <<>>

Registered == InstallStep[install] = "done"
-----------------------------------------------------------------------------
\* Wait(1) gives up after 100000 looks; what is then written over a command
\* the controller has not taken is lost, or not.
InTime(taken) == \/ taken /\ UNCHANGED timedOut
                 \/ timedOut' = TRUE

\* Install asks the controller for its configuration and the mouse for its
\* defaults and its packets (0x20, 0xF6, 0xF4); each is answered with a byte.
InstallWrite ==
  /\ InstallStep[install] \in {"ask", "defaults", "enable"}
  /\ \E taken \in BOOLEAN :
       /\ InTime(taken)
       /\ acks' = IF taken THEN acks + 1 ELSE acks
       /\ streaming' = (taken /\ InstallStep[install] = "enable")
  /\ install' = install + 1
  /\ UNCHANGED <<enabled, sent, port, mouseData, mouseCycle, data_update, answer>>

\* Install writes the configuration back with the bit for the mouse.  Once a
\* Wait has run out, what it writes need not be the configuration.
InstallConfigure ==
  /\ InstallStep[install] = "configure"
  /\ \E taken \in BOOLEAN : InTime(taken)
  /\ enabled' \in IF timedOut' THEN BOOLEAN ELSE {TRUE}
  /\ install' = install + 1
  /\ UNCHANGED <<acks, streaming, sent, port, mouseData, mouseCycle, data_update, answer>>

\* Read takes a byte, or, after 100000 looks, whatever is in the port.
InstallRead ==
  /\ InstallStep[install] \in {"status", "read", "read2"}
  /\ \/ port # NULL /\ UNCHANGED timedOut
     \/ port = NULL /\ timedOut' = TRUE
  /\ port' = NULL
  /\ install' = install + 1
  /\ UNCHANGED <<acks, enabled, streaming, sent, mouseData, mouseCycle, data_update, answer>>

\* RegisterInterruptHandler at the end of Install.
InstallRegister ==
  /\ InstallStep[install] = "register"
  /\ install' = install + 1
  /\ UNCHANGED <<acks, enabled, streaming, sent, port, mouseData, mouseCycle, data_update,
                 timedOut, answer>>

\* Bug: the cycle starts again at the second byte.
SkipsTheFirst(c) == IF c = 2 THEN 1 ELSE c + 1

NextCycle(c) == IF c = 2 THEN 0 ELSE c + 1

\* The interrupt handler: one byte, and the flag after every one of them.
HandlerTakes(byte) ==
  /\ mouseData' = [mouseData EXCEPT ![mouseCycle] = byte]
  /\ mouseCycle' = NextCycle(mouseCycle)
  /\ data_update' = TRUE

\* The controller has a byte for the processor.
Arrives(byte) ==
  IF Registered /\ enabled
    THEN HandlerTakes(byte) /\ UNCHANGED port
    ELSE port' = byte /\ UNCHANGED <<mouseData, mouseCycle, data_update>>

SendAck ==
  /\ port = NULL /\ acks > 0
  /\ acks' = acks - 1
  /\ Arrives(Ack)
  /\ UNCHANGED <<install, enabled, streaming, sent, timedOut, answer>>

\* The mouse is moved; acknowledgements go first.
SendData ==
  /\ port = NULL /\ acks = 0 /\ streaming /\ sent < 3 * MaxPackets
  /\ sent' = sent + 1
  /\ Arrives(Data(sent))
  /\ UNCHANGED <<install, acks, enabled, streaming, timedOut, answer>>

\* Bug: the second byte is the first one again.
RepeatsButtons == <<mouseData[0], mouseData[0], mouseData[2]>>

\* What ReadDevice copies when there is something new.
Copy == <<mouseData[0], mouseData[1], mouseData[2]>>

\* ReadDevice with a buffer for three bytes: a new packet, or the buttons of
\* the last one and no movement (NULL here).
ReadDevice ==
  /\ answer' = IF data_update THEN Copy ELSE <<mouseData[0], NULL, NULL>>
  /\ data_update' = FALSE
  /\ UNCHANGED <<install, acks, enabled, streaming, sent, port, mouseData, mouseCycle, timedOut>>

MouseNext ==
  \/ InstallWrite \/ InstallConfigure \/ InstallRead \/ InstallRegister
  \/ SendAck \/ SendData
  \/ ReadDevice

MouseSpec == MouseInit /\ [][MouseNext]_mouseVars
-----------------------------------------------------------------------------
(* Properties.                                                             *)

\* Byte b is what the k-th byte of packet n should be, none for packet 0.
Is(b, n, k) == IF n = 0 THEN b = NULL ELSE b = [packet |-> n, byte |-> k]

\* If no Wait ran out, a reader gets at worst a packet that is torn in one
\* way: first bytes of a packet, the others of the packet before it, each in
\* its place (data_update is set after every byte).
TornAtOneSeam ==
  ~timedOut /\ answer # <<>> =>
    \E n \in 0 .. MaxPackets : \E seam \in 0 .. 3 :
      \A k \in 0 .. 2 : \/ answer[k + 1] = NULL
                        \/ Is(answer[k + 1], IF k < seam THEN n + 1 ELSE n, k)

\* The handler is in step: the place it fills next is that of the next byte,
\* and no byte lies in the port, where it would keep the others back.
InStep == mouseCycle = sent % 3 /\ acks = 0 /\ port = NULL

\* Nothing ever brings the handler back in step: once it is out of step when
\* Install is done, because a byte came too early or a Wait ran out, it stays
\* so for the rest of the session (there is no resynchronisation).
NeverRecovers == [][Registered /\ acks = 0 /\ ~InStep => ~InStep']_mouseVars
=============================================================================
