-------------------------- MODULE InterruptProofs --------------------------
(***************************************************************************)
(* What holds of interrupt dispatch, the clock, start-up and the mouse for *)
(* every choice of lines, handlers and bounds.                             *)
(***************************************************************************)
EXTENDS Interrupts, Timer, Boot, Mouse, TLAPS

(***************************************************************************)
(* Interrupt dispatch.  Between two interrupts only lines of the slave are *)
(* in service.                                                             *)
(***************************************************************************)
DispatchInv ==
  /\ raised \subseteq 0 .. 15
  /\ \A m \in service : IsSlave(m)

\* The acknowledgement irq_handler sends the master is for the line that was
\* served, or for line 2 when that was one of the slave's.
LEMMA AcknowledgedLeavesSlaves ==
  ASSUME DispatchInv, NEW n \in 0 .. 15,
         NEW m \in Acknowledged(service \cup {n} \cup {Input(n)}, n)
  PROVE  IsSlave(m)
<1> DEFINE lines == service \cup {n} \cup {Input(n)}
<1>1. SUFFICES ASSUME ~IsSlave(m) PROVE FALSE
  OBVIOUS
<1>2. \A k \in lines : ~IsSlave(k) => k = Input(n)
  BY DEF DispatchInv, Input
<1>3. m \in lines
  BY DEF Acknowledged, EndOfInterrupt
<1>4. ~(/\ IsSlave(m) = FALSE
        /\ \A k \in lines : IsSlave(k) = FALSE => m <= k)
  BY <1>3 DEF Acknowledged, EndOfInterrupt
<1>5. m = Input(n) /\ m <= m
  <2>1. m = Input(n)
    BY <1>1, <1>2, <1>3
  <2>2. Input(n) \in 0 .. 15
    BY DEF Input
  <2> QED
    BY <2>1, <2>2
<1>6. \A k \in lines : ~IsSlave(k) => m <= k
  BY <1>2, <1>5
<1> QED
  BY <1>1, <1>4, <1>6

\* Every step of a device, the processor or a handler keeps it so.
LEMMA DispatchStepInv == DispatchInv /\ [InterruptsNext]_interruptsVars => DispatchInv'
<1> SUFFICES ASSUME DispatchInv, [InterruptsNext]_interruptsVars PROVE DispatchInv'
  OBVIOUS
<1>1. ASSUME NEW n \in Lines, Raise(n) PROVE DispatchInv'
  <2>1. n \in 0 .. 15
    BY InterruptAssumption
  <2> QED
    BY <1>1, <2>1 DEF Raise, DispatchInv
<1>2. ASSUME NEW n \in Lines, Interrupt(n) PROVE DispatchInv'
  <2>1. n \in 0 .. 15 /\ raised' \subseteq raised
    BY <1>2, InterruptAssumption DEF Interrupt
  <2>2. service' = Acknowledged(service \cup {n} \cup {Input(n)}, n)
    BY <1>2 DEF Interrupt
  <2>3. \A m \in service' : IsSlave(m)
    BY <2>1, <2>2, AcknowledgedLeavesSlaves
  <2> QED
    BY <2>1, <2>3 DEF DispatchInv, IsSlave
<1>3. ASSUME NEW v \in Exceptions, RegisterInterruptHandler(v) \/ Exception(v) PROVE DispatchInv'
  BY <1>3 DEF RegisterInterruptHandler, Exception, DispatchInv
<1>4. CASE UNCHANGED interruptsVars
  BY <1>4 DEF interruptsVars, DispatchInv
<1> QED
  BY <1>1, <1>2, <1>3, <1>4 DEF InterruptsNext

\* Whatever was raised and served before, the foremost line waiting at the
\* master PIC is offered to the processor: no line of the master, line 2
\* included, is left in service (irq_handler acknowledges the master each time).
THEOREM MasterIsNeverBlocked == InterruptsSpec => []MasterNeverBlocks
<1>1. InterruptsInit => DispatchInv
  BY DEF InterruptsInit, DispatchInv
<1>2. DispatchInv => MasterNeverBlocks
  BY DEF DispatchInv, MasterNeverBlocks, Interrupting
<1> QED
  BY <1>1, <1>2, DispatchStepInv, PTL DEF InterruptsSpec

(***************************************************************************)
(* The clock.                                                              *)
(***************************************************************************)
TimerInv == TimerTypeOK /\ NoTickIsLost

\* The clock starts at zero.
LEMMA TimerInitInv == TimerInit => TimerInv
BY TimerAssumption DEF TimerInit, TimerInv, TimerTypeOK, NoTickIsLost

\* Within a second a tick is added; at its end Frequency ticks become one
\* second.
LEMMA TimerStepInv == TimerInv /\ [TimerNext]_timerVars => TimerInv'
<1> SUFFICES ASSUME TimerInv, [TimerNext]_timerVars PROVE TimerInv'
  OBVIOUS
<1> USE TimerAssumption DEF TimerInv, TimerTypeOK, NoTickIsLost
<1>1. CASE Handler
  <2>1. CASE ticks + 1 >= Frequency
    <3>1. /\ ticks' = 0
          /\ uptime' = uptime + 1
          /\ interrupts' = interrupts + 1
          /\ ticks + 1 = Frequency
      BY <1>1, <2>1 DEF Handler, SecondIsOver, Remaining
    <3>2. (uptime + 1) * Frequency = uptime * Frequency + Frequency
      OBVIOUS
    <3> QED BY <1>1, <3>1, <3>2 DEF Handler
  <2>2. CASE ~(ticks + 1 >= Frequency)
    BY <1>1, <2>2 DEF Handler, SecondIsOver
  <2> QED BY <2>1, <2>2
<1>2. CASE UNCHANGED timerVars
  BY <1>2 DEF timerVars
<1> QED BY <1>1, <1>2 DEF TimerNext

\* Less than a second of ticks is ever kept.
THEOREM TimerTypeCorrect == TimerSpec => []TimerTypeOK
BY TimerInitInv, TimerStepInv, PTL DEF TimerSpec, TimerInv

\* Seconds and ticks together are exactly the interrupts there were, for any
\* frequency and any time of running.
THEOREM TicksAreExact == TimerSpec => []NoTickIsLost
BY TimerInitInv, TimerStepInv, PTL DEF TimerSpec, TimerInv

\* With the frequency the HAL asks for and the clock of the chip, SysUptime is
\* never slow and at most a fifth of a second plus a millisecond a second
\* fast, however long the machine runs.
THEOREM UptimeError ==
  ASSUME Frequency = 1200, Clock = 1193182
  PROVE  TimerSpec => []AtMostAFifthFast
<1>1. TimerInv => AtMostAFifthFast
  <2> SUFFICES ASSUME TimerInv PROVE AtMostAFifthFast
    OBVIOUS
  <2>1. divisor \div 2 = 497 /\ Clock \div 2 = 596591 /\ Frequency \div 1000 = 1
    BY DEF divisor
  <2>2. ticks \in 0 .. 1199 /\ uptime \in Nat /\ interrupts = uptime * 1200 + ticks
    BY TimerAssumption DEF TimerInv, TimerTypeOK, NoTickIsLost
  <2>3. ticks \div 1 = ticks
    BY <2>2
  <2>4. Answered = uptime * 1000 + ticks
    BY <2>1, <2>3 DEF Answered, SysUptime
  <2>5. Passed = ((uptime * 1200 + ticks) * 497 * 1000) \div 596591
    BY <2>1, <2>2 DEF Passed
  <2>6. ASSUME NEW u \in Nat, NEW t \in 0 .. 1199,
               NEW p \in Nat, p = ((u * 1200 + t) * 497 * 1000) \div 596591
        PROVE  p <= u * 1000 + t /\ u * 1000 + t <= p + 201 + u
    <3>1. ((u * 1200 + t) * 497 * 1000) = 596400000 * u + 497000 * t
      OBVIOUS
    <3>2. 596591 * p <= 596400000 * u + 497000 * t /\ 596400000 * u + 497000 * t < 596591 * p + 596591
      BY <2>6, <3>1
    <3> QED
      BY ONLY <3>2, u \in Nat, t \in 0 .. 1199, p \in Nat
  <2>7. ((uptime * 1200 + ticks) * 497 * 1000) \div 596591 \in Nat
    BY <2>2
  <2> QED
    BY <2>2, <2>4, <2>5, <2>6, <2>7 DEF AtMostAFifthFast
<1> QED
  BY <1>1, TimerInitInv, TimerStepInv, PTL DEF TimerSpec

(***************************************************************************)
(* Start-up.  The lock is held until the last step, TaskSwitch.            *)
(***************************************************************************)
BootInv ==
  /\ step \in 1 .. 16
  /\ switches \in Nat
  /\ step # 16 => schedulerLock = TRUE /\ switches = 0

\* The steps the code names, by their place in start-up.
LEMMA Places ==
  ASSUME NEW i \in 1 .. 16
  PROVE  /\ StartUp[i] = "Scheduler" => i = 13
         /\ StartUp[i] = "InsertProcessIntoQueue" => i = 14
         /\ StartUp[i] = "TaskSwitch" => i = 15
         /\ i = 16 => StartUp[i] = "running"
<1>2. /\ StartUp[1] = "initialize_serial" /\ StartUp[2] = "GDT" /\ StartUp[3] = "IDT"
      /\ StartUp[4] = "InitializeVirtualMemory" /\ StartUp[5] = "memory map"
      /\ StartUp[6] = "modules" /\ StartUp[7] = "InitializePhysicalAllocator"
      /\ StartUp[8] = "Timer" /\ StartUp[9] = "PCI" /\ StartUp[10] = "AHCI"
      /\ StartUp[11] = "InitVideo" /\ StartUp[12] = "InitExtra" /\ StartUp[13] = "Scheduler"
      /\ StartUp[14] = "InsertProcessIntoQueue" /\ StartUp[15] = "TaskSwitch"
      /\ StartUp[16] = "running"
  BY DEF StartUp
<1>3. \A j \in 1 .. 12 : StartUp[j] \notin {"Scheduler", "InsertProcessIntoQueue", "TaskSwitch"}
  <2> TAKE j \in 1 .. 12
  <2>1. \/ j = 1 \/ j = 2 \/ j = 3 \/ j = 4 \/ j = 5 \/ j = 6
        \/ j = 7 \/ j = 8 \/ j = 9 \/ j = 10 \/ j = 11 \/ j = 12
    OBVIOUS
  <2> QED
    BY ONLY <1>2, <2>1
<1>4. i \in 1 .. 12 \/ i = 13 \/ i = 14 \/ i = 15 \/ i = 16
  OBVIOUS
<1> QED
  BY ONLY <1>2, <1>3, <1>4

\* However the timer interrupts fall into start-up, none switches before the
\* first TaskSwitch (schedulerLock starts locked, CreateProcess restores it).
THEOREM NoEarlySwitch == BootSpec => []NoSwitchBeforeStart
<1>1. BootInit => BootInv
  BY DEF BootInit, BootInv, InitialLock
<1>2. BootInv /\ [BootNext]_bootVars => BootInv'
  <2> SUFFICES ASSUME BootInv, [BootNext]_bootVars PROVE BootInv'
    OBVIOUS
  <2> USE DEF BootInv
  <2>1. CASE Initialise
    BY <2>1 DEF Initialise
  <2>2. CASE SchedulerInitialize
    BY <2>2, Places DEF SchedulerInitialize
  <2>3. CASE InsertProcessIntoQueue
    BY <2>3, Places DEF InsertProcessIntoQueue, LockRestored
  <2>4. CASE TaskSwitch
    BY <2>4, Places DEF TaskSwitch
  <2>5. CASE Tick
    BY <2>5 DEF Tick
  <2>6. CASE UNCHANGED bootVars
    BY <2>6 DEF bootVars
  <2> QED
    BY <2>1, <2>2, <2>3, <2>4, <2>5, <2>6 DEF BootNext
<1>3. BootInv => NoSwitchBeforeStart
  BY Places DEF BootInv, NoSwitchBeforeStart
<1> QED
  BY <1>1, <1>2, <1>3, PTL DEF BootSpec

(***************************************************************************)
(* The mouse.                                                              *)
(***************************************************************************)

\* The places of the steps of Install.
LEMMA InstallPlaces ==
  ASSUME NEW i \in 1 .. 9
  PROVE  /\ InstallStep[i] \in {"ask", "defaults", "enable"} => i = 1 \/ i = 4 \/ i = 6
         /\ InstallStep[i] = "enable" <=> i = 6
         /\ InstallStep[i] = "configure" => i = 3
         /\ InstallStep[i] \in {"status", "read", "read2"} => i = 2 \/ i = 5 \/ i = 7
         /\ InstallStep[i] = "register" => i = 8
         /\ InstallStep[i] = "done" <=> i = 9
<1>1. i = 1 \/ i = 2 \/ i = 3 \/ i = 4 \/ i = 5 \/ i = 6 \/ i = 7 \/ i = 8 \/ i = 9
  OBVIOUS
<1> QED
  BY <1>1 DEF InstallStep

\* What the mouse and the driver's arrays can hold.
MouseTypes ==
  /\ install \in 1 .. 9
  /\ acks \in Nat
  /\ sent \in 0 .. 3 * MaxPackets
  /\ mouseCycle \in 0 .. 2
  /\ DOMAIN mouseData = 0 .. 2

\* The place of a byte in its packet moves on as the handler's place does.
LEMMA CycleFollowsBytes ==
  ASSUME NEW s \in Nat
  PROVE  /\ s % 3 \in 0 .. 2
         /\ (s + 1) % 3 = NextCycle(s % 3)
         /\ s % 3 = 2 => (s + 1) \div 3 = (s \div 3) + 1
         /\ s % 3 # 2 => (s + 1) \div 3 = s \div 3
         /\ \A c \in 0 .. 2 : /\ NextCycle(c) \in 0 .. 2
                              /\ NextCycle(c) = NextCycle(s % 3) => c = s % 3
<1>1. s % 3 \in 0 .. 2
  OBVIOUS
<1>2. s = 3 * (s \div 3) + (s % 3)
  OBVIOUS
<1>3. (s + 1) % 3 = NextCycle(s % 3)
  BY DEF NextCycle
<1>4. /\ s % 3 = 2 => (s + 1) \div 3 = (s \div 3) + 1
      /\ s % 3 # 2 => (s + 1) \div 3 = s \div 3
  BY <1>1, <1>2
<1>5. \A c \in 0 .. 2 : /\ NextCycle(c) \in 0 .. 2
                        /\ NextCycle(c) = NextCycle(s % 3) => c = s % 3
  BY <1>1 DEF NextCycle
<1> QED
  BY <1>1, <1>3, <1>4, <1>5

\* Every step keeps the types.
LEMMA MouseTypesStep == MouseTypes /\ [MouseNext]_mouseVars => MouseTypes'
<1> SUFFICES ASSUME MouseTypes, [MouseNext]_mouseVars PROVE MouseTypes'
  OBVIOUS
<1> USE MouseAssumption DEF MouseTypes
<1>1. ASSUME NEW byte, Arrives(byte) PROVE mouseCycle' \in 0 .. 2 /\ DOMAIN mouseData' = 0 .. 2
  BY <1>1 DEF Arrives, HandlerTakes, NextCycle
<1>2. CASE InstallWrite
  BY <1>2, InstallPlaces DEF InstallWrite
<1>3. CASE InstallRead
  BY <1>3, InstallPlaces DEF InstallRead
<1>4. CASE InstallRegister
  BY <1>4, InstallPlaces DEF InstallRegister
<1>5. CASE SendAck
  BY <1>1, <1>5 DEF SendAck
<1>6. CASE SendData
  BY <1>1, <1>6 DEF SendData
<1>7. CASE ReadDevice
  BY <1>7 DEF ReadDevice
<1>8. CASE InstallConfigure
  BY <1>8, InstallPlaces DEF InstallConfigure
<1>9. CASE UNCHANGED mouseVars
  BY <1>9 DEF mouseVars
<1> QED
  BY <1>2, <1>3, <1>4, <1>5, <1>6, <1>7, <1>8, <1>9 DEF MouseNext

\* A byte is not the empty port.
LEMMA BytesAreNotNull ==
  /\ Ack # NULL
  /\ \A n \in 0 .. (3 * MaxPackets) - 1 : Data(n) # NULL
<1>1. Ack \in [packet : 0 .. MaxPackets, byte : 0 .. 2]
  BY MouseAssumption DEF Ack
<1>2. ASSUME NEW n \in 0 .. (3 * MaxPackets) - 1
      PROVE  Data(n) \in [packet : 0 .. MaxPackets, byte : 0 .. 2]
  <2>1. n % 3 \in 0 .. 2 /\ (n \div 3) + 1 \in 0 .. MaxPackets
    BY MouseAssumption
  <2> QED
    BY <2>1 DEF Data
<1> QED
  BY <1>1, <1>2, MouseAssumption

\* Out of step once Install is done, out of step for ever, be it for a byte
\* too many or too few or for one left in the port (there is no
\* resynchronisation).
THEOREM MouseNeverRecovers == MouseSpec => NeverRecovers
<1> DEFINE Act == Registered /\ acks = 0 /\ ~InStep => ~InStep'
<1>1. MouseInit => MouseTypes
  BY MouseAssumption DEF MouseInit, MouseTypes
<1>2. MouseTypes /\ [MouseNext]_mouseVars => [Act]_mouseVars
  <2> SUFFICES ASSUME MouseTypes, MouseNext, Registered, acks = 0, ~InStep PROVE ~InStep'
    BY DEF MouseNext
  <2>1. install = 9
    BY InstallPlaces DEF Registered, MouseTypes
  <2>2. ~InstallWrite /\ ~InstallConfigure /\ ~InstallRead /\ ~InstallRegister
    <3>1. InstallStep[9] = "done"
      BY DEF InstallStep
    <3> QED
      BY <2>1, <3>1 DEF InstallWrite, InstallConfigure, InstallRead, InstallRegister
  <2>3. ~SendAck
    BY DEF SendAck
  <2>4. CASE SendData
    <3>1. sent \in Nat /\ mouseCycle \in 0 .. 2 /\ port = NULL
      BY <2>4, MouseAssumption DEF MouseTypes, SendData
    <3>2. sent \in 0 .. (3 * MaxPackets) - 1 /\ sent' = sent + 1 /\ acks' = acks
      BY <2>4, MouseAssumption DEF SendData, MouseTypes
    <3>3. CASE enabled
      <4>1. mouseCycle' = NextCycle(mouseCycle)
        BY <2>4, <3>3 DEF SendData, Arrives, HandlerTakes
      <4>2. mouseCycle' = sent' % 3 => mouseCycle = sent % 3
        BY <3>1, <3>2, <4>1, CycleFollowsBytes
      <4> QED
        BY <3>1, <3>2, <4>2 DEF InStep
    <3>4. CASE ~enabled
      <4>1. port' = Data(sent)
        BY <2>4, <3>4 DEF SendData, Arrives
      <4> QED
        BY <3>2, <4>1, BytesAreNotNull DEF InStep
    <3> QED
      BY <3>3, <3>4
  <2>5. CASE ReadDevice
    BY <2>5 DEF ReadDevice, InStep
  <2> QED
    BY <2>2, <2>3, <2>4, <2>5 DEF MouseNext
<1> QED
  BY <1>1, <1>2, MouseTypesStep, PTL DEF MouseSpec, NeverRecovers

\* What the array holds when the handler is in step: the bytes of the packet
\* being sent up to the handler's place, from there those of the one before.
InArray ==
  \A k \in 0 .. 2 : Is(mouseData[k], IF k < mouseCycle THEN (sent \div 3) + 1 ELSE sent \div 3, k)

\* The handler has not run.
Untouched == mouseCycle = 0 /\ \A k \in 0 .. 2 : mouseData[k] = NULL

\* One acknowledgement is on its way or in the port.
AckComes == \/ acks = 1 /\ port = NULL
            \/ acks = 0 /\ port # NULL

\* Install as it runs when no Wait runs out: each acknowledgement is read, so
\* that only a byte which comes before the handler is registered can get the
\* handler out of step, and then no other byte comes.
InTurn ==
  /\ install \in {1, 3, 4, 6} => acks = 0 /\ port = NULL
  /\ install \in {2, 5, 7} => AckComes
  /\ install \in 1 .. 6 => streaming = FALSE
  /\ install \in 1 .. 7 => sent = 0
  /\ install \in {8, 9} => acks = 0
  /\ install \in 4 .. 9 => enabled = TRUE
  /\ install = 8 /\ port = NULL => sent = 0
  /\ install # 9 \/ port # NULL => Untouched
  /\ install = 9 /\ port = NULL => mouseCycle = sent % 3 /\ InArray

MouseInv == MouseTypes /\ (~timedOut => InTurn) /\ TornAtOneSeam

\* The handler in step takes the next byte and stays in step.
LEMMA HandlerInStep ==
  ASSUME MouseTypes, mouseCycle = sent % 3, InArray,
         HandlerTakes(Data(sent)), sent' = sent + 1
  PROVE  mouseCycle' = sent' % 3 /\ InArray'
<1> DEFINE q == sent \div 3
<1>1. /\ sent \in Nat /\ mouseCycle \in 0 .. 2 /\ DOMAIN mouseData = 0 .. 2
      /\ q \in Nat
  BY MouseAssumption DEF MouseTypes
<1>2. /\ mouseCycle' = NextCycle(mouseCycle)
      /\ mouseData' = [mouseData EXCEPT ![mouseCycle] = Data(sent)]
      /\ Data(sent) = [packet |-> q + 1, byte |-> mouseCycle]
  BY DEF HandlerTakes, Data
<1>3. mouseCycle' = sent' % 3
  BY <1>1, <1>2, CycleFollowsBytes
<1>4. sent' \div 3 = IF mouseCycle = 2 THEN q + 1 ELSE q
  BY <1>1, CycleFollowsBytes
<1> HIDE DEF q
<1>5. ASSUME NEW k \in 0 .. 2
      PROVE  Is(mouseData'[k], IF k < mouseCycle' THEN (sent' \div 3) + 1 ELSE sent' \div 3, k)
  <2>1. CASE k = mouseCycle
    <3>1. mouseData'[k] = [packet |-> q + 1, byte |-> k]
      BY <1>1, <1>2, <2>1
    <3>2. Is(mouseData'[k], q + 1, k)
      BY <1>1, <3>1 DEF Is
    <3>3. (IF k < mouseCycle' THEN (sent' \div 3) + 1 ELSE sent' \div 3) = q + 1
      BY <1>1, <1>2, <1>4, <2>1 DEF NextCycle
    <3> QED
      BY <3>2, <3>3
  <2>2. CASE k # mouseCycle
    <3>1. mouseData'[k] = mouseData[k]
      BY <1>1, <1>2, <2>2
    <3>2. Is(mouseData[k], IF k < mouseCycle THEN q + 1 ELSE q, k)
      BY DEF InArray, q
    <3>3. (IF k < mouseCycle' THEN (sent' \div 3) + 1 ELSE sent' \div 3)
            = IF k < mouseCycle THEN q + 1 ELSE q
      BY <1>1, <1>2, <1>4, <2>2 DEF NextCycle
    <3> QED
      BY <3>1, <3>2, <3>3
  <2> QED
    BY <2>1, <2>2
<1>6. InArray'
  BY <1>5 DEF InArray, Is
<1> QED
  BY <1>3, <1>6

\* A reader is given the array as it is, torn at the handler's place, or its
\* first byte.
LEMMA ReadIsTornOnce ==
  ASSUME MouseTypes, ~timedOut => InTurn, ReadDevice
  PROVE  TornAtOneSeam'
<1> SUFFICES ASSUME ~timedOut
             PROVE  \E n \in 0 .. MaxPackets : \E seam \in 0 .. 3 :
                      \A k \in 0 .. 2 : \/ answer'[k + 1] = NULL
                                        \/ Is(answer'[k + 1], IF k < seam THEN n + 1 ELSE n, k)
  BY DEF ReadDevice, TornAtOneSeam, Is
<1>1. \A k \in 0 .. 2 : answer'[k + 1] = mouseData[k] \/ answer'[k + 1] = NULL
  <2>1. answer' = <<mouseData[0], mouseData[1], mouseData[2]>> \/ answer' = <<mouseData[0], NULL, NULL>>
    BY DEF ReadDevice, Copy
  <2> TAKE k \in 0 .. 2
  <2>2. k = 0 \/ k = 1 \/ k = 2
    OBVIOUS
  <2> QED
    BY <2>1, <2>2
<1>2. CASE Untouched
  BY <1>1, <1>2, MouseAssumption DEF Untouched
<1>3. CASE ~Untouched
  <2>1. InArray
    BY <1>3 DEF InTurn, MouseTypes
  <2>2. sent \div 3 \in 0 .. MaxPackets /\ mouseCycle \in 0 .. 3
    BY MouseAssumption DEF MouseTypes
  <2>3. \A k \in 0 .. 2 :
          \/ answer'[k + 1] = NULL
          \/ Is(answer'[k + 1], IF k < mouseCycle THEN (sent \div 3) + 1 ELSE sent \div 3, k)
    BY <1>1, <2>1, Zenon DEF InArray
  <2> QED
    BY <2>2, <2>3, Zenon
<1> QED
  BY <1>2, <1>3

\* Every step keeps the invariant.
LEMMA MouseStepInv == MouseInv /\ [MouseNext]_mouseVars => MouseInv'
<1> SUFFICES ASSUME MouseInv, [MouseNext]_mouseVars PROVE MouseInv'
  OBVIOUS
<1>1. MouseTypes /\ (~timedOut => InTurn) /\ TornAtOneSeam
  BY DEF MouseInv
<1>2. MouseTypes'
  BY <1>1, MouseTypesStep
<1>3. ASSUME answer' = answer, ~timedOut' => ~timedOut PROVE TornAtOneSeam'
  BY <1>1, <1>3 DEF TornAtOneSeam, Is
<1>4. ASSUME UNCHANGED <<sent, mouseData, mouseCycle>>
      PROVE  InArray' = InArray /\ Untouched' = Untouched
  BY <1>4 DEF InArray, Untouched, Is
<1>5. CASE InstallWrite
  <2>1. ASSUME InTurn, ~timedOut' PROVE InTurn'
    <3>1. /\ install \in {1, 4, 6} /\ install' = install + 1 /\ acks' = acks + 1
          /\ streaming' = (install = 6)
          /\ UNCHANGED <<enabled, sent, port, mouseData, mouseCycle>>
      <4>1. PICK taken \in BOOLEAN :
              /\ InTime(taken)
              /\ acks' = IF taken THEN acks + 1 ELSE acks
              /\ streaming' = (taken /\ InstallStep[install] = "enable")
        BY <1>5 DEF InstallWrite
      <4>2. taken = TRUE
        BY <2>1, <4>1 DEF InTime
      <4>3. streaming' = (InstallStep[install] = "enable")
        BY <4>1, <4>2, Zenon
      <4>4. install \in {1, 4, 6} /\ (InstallStep[install] = "enable" <=> install = 6)
        BY <1>1, <1>5, InstallPlaces DEF InstallWrite, MouseTypes
      <4>5. streaming' = (install = 6)
        BY <4>3, <4>4
      <4> QED
        BY <1>5, <4>1, <4>2, <4>4, <4>5 DEF InstallWrite
    <3>2. acks = 0 /\ port = NULL /\ sent = 0 /\ Untouched
      BY <2>1, <3>1 DEF InTurn
    <3>3. Untouched'
      BY <1>4, <3>1, <3>2
    <3>4. acks' = 1 /\ port' = NULL /\ sent' = 0
      BY ONLY <3>1, <3>2
    <3>5. CASE install \in {1, 4}
      <4>1. install' \in {2, 5} /\ (install' = 5 => enabled')
        BY <2>1, <3>1, <3>5 DEF InTurn
      <4>2. ~(install = 6) /\ streaming' = (install = 6)
        BY <3>1, <3>5
      <4>3. streaming' = FALSE
        BY ONLY <4>2, Zenon
      <4> QED
        BY ONLY <3>3, <3>4, <4>1, <4>3 DEF InTurn, AckComes
    <3>6. CASE install = 6
      <4>1. install' = 7 /\ enabled'
        BY <2>1, <3>1, <3>6 DEF InTurn
      <4> QED
        BY ONLY <3>3, <3>4, <4>1 DEF InTurn, AckComes
    <3> QED
      BY <3>1, <3>5, <3>6
  <2>2. TornAtOneSeam' /\ (~timedOut' => ~timedOut)
    BY <1>3, <1>5 DEF InstallWrite, InTime
  <2> QED
    BY <1>1, <1>2, <2>1, <2>2 DEF MouseInv
<1>12. CASE InstallConfigure
  <2>1. ASSUME InTurn, ~timedOut' PROVE InTurn'
    <3>1. install = 3 /\ install' = 4 /\ enabled' = TRUE
      BY <1>1, <1>12, <2>1, InstallPlaces DEF InstallConfigure, MouseTypes
    <3>2. UNCHANGED <<acks, streaming, sent, port, mouseData, mouseCycle>>
      BY <1>12 DEF InstallConfigure
    <3> QED
      BY <1>4, <2>1, <3>1, <3>2 DEF InTurn
  <2>2. TornAtOneSeam' /\ (~timedOut' => ~timedOut)
    BY <1>3, <1>12 DEF InstallConfigure, InTime
  <2> QED
    BY <1>1, <1>2, <2>1, <2>2 DEF MouseInv
<1>6. CASE InstallRead
  <2>1. ~timedOut' => ~timedOut /\ port # NULL
    BY <1>6 DEF InstallRead
  <2>2. InTurn /\ port # NULL => InTurn'
    BY <1>1, <1>4, <1>6, InstallPlaces DEF InstallRead, InTurn, AckComes, MouseTypes
  <2>3. TornAtOneSeam'
    BY <1>3, <1>6, <2>1 DEF InstallRead
  <2> QED
    BY <1>1, <1>2, <2>1, <2>2, <2>3 DEF MouseInv
<1>7. CASE InstallRegister
  <2>1. InTurn => InTurn'
    <3> SUFFICES ASSUME InTurn PROVE InTurn'
      OBVIOUS
    <3>1. install = 8 /\ install' = 9 /\ acks = 0 /\ enabled = TRUE /\ Untouched
      BY <1>1, <1>7, InstallPlaces DEF InstallRegister, InTurn, MouseTypes
    <3>2. UNCHANGED <<acks, enabled, port, sent, mouseData, mouseCycle>>
      BY <1>7 DEF InstallRegister
    <3>3. port = NULL => mouseCycle = sent % 3 /\ InArray
      BY <3>1 DEF InTurn, Untouched, InArray, Is
    <3> QED
      BY <1>4, <3>1, <3>2, <3>3 DEF InTurn
  <2>2. TornAtOneSeam' /\ timedOut' = timedOut
    BY <1>3, <1>7 DEF InstallRegister
  <2> QED
    BY <1>1, <1>2, <2>1, <2>2 DEF MouseInv
<1>8. CASE SendAck
  <2>1. InTurn => InTurn'
    <3> SUFFICES ASSUME InTurn PROVE InTurn'
      OBVIOUS
    <3>1. install \in {2, 5, 7} /\ acks = 1 /\ port = NULL
      BY <1>1, <1>8 DEF SendAck, InTurn, AckComes, MouseTypes
    <3>2. ~Registered
      BY <1>1, <3>1, InstallPlaces DEF Registered
    <3>3. acks' = 0 /\ port' = Ack /\ UNCHANGED <<install, enabled, streaming, sent, mouseData, mouseCycle>>
      BY <1>8, <3>1, <3>2 DEF SendAck, Arrives
    <3> QED
      BY <1>4, <3>1, <3>3, BytesAreNotNull DEF InTurn, AckComes
  <2>2. TornAtOneSeam' /\ timedOut' = timedOut
    BY <1>3, <1>8 DEF SendAck
  <2> QED
    BY <1>1, <1>2, <2>1, <2>2 DEF MouseInv
<1>9. CASE SendData
  <2>1. InTurn => InTurn'
    <3> SUFFICES ASSUME InTurn PROVE InTurn'
      OBVIOUS
    <3>1. /\ install \in {8, 9} /\ acks = 0 /\ port = NULL /\ acks' = 0 /\ install' = install
          /\ enabled = TRUE /\ enabled' = enabled
          /\ sent' = sent + 1 /\ sent \in 0 .. (3 * MaxPackets) - 1
      BY <1>1, <1>9, MouseAssumption DEF SendData, InTurn, AckComes, MouseTypes
    <3>2. Data(sent) # NULL
      BY <3>1, BytesAreNotNull
    <3>3. CASE install = 8
      <4>1. ~Registered
        BY <1>1, <3>3, InstallPlaces DEF Registered
      <4>2. port' = Data(sent) /\ UNCHANGED <<mouseData, mouseCycle>>
        BY <1>9, <4>1 DEF SendData, Arrives
      <4>3. Untouched'
        BY <3>3, <4>2 DEF InTurn, Untouched
      <4> QED
        BY <3>1, <3>2, <3>3, <4>2, <4>3 DEF InTurn
    <3>4. CASE install = 9
      <4>1. Registered
        BY <1>1, <3>4, InstallPlaces DEF Registered
      <4>2. port' = NULL /\ HandlerTakes(Data(sent))
        BY <1>9, <3>1, <4>1 DEF SendData, Arrives
      <4>3. mouseCycle' = sent' % 3 /\ InArray'
        BY <1>1, <3>1, <3>4, <4>2, HandlerInStep DEF InTurn
      <4> QED
        BY <3>1, <3>4, <4>2, <4>3 DEF InTurn
    <3> QED
      BY <3>1, <3>3, <3>4
  <2>2. TornAtOneSeam' /\ timedOut' = timedOut
    BY <1>3, <1>9 DEF SendData
  <2> QED
    BY <1>1, <1>2, <2>1, <2>2 DEF MouseInv
<1>10. CASE ReadDevice
  <2>1. InTurn => InTurn'
    BY <1>4, <1>10 DEF ReadDevice, InTurn, AckComes
  <2>2. TornAtOneSeam' /\ timedOut' = timedOut
    BY <1>1, <1>10, ReadIsTornOnce DEF ReadDevice
  <2> QED
    BY <1>1, <1>2, <2>1, <2>2 DEF MouseInv
<1>11. CASE UNCHANGED mouseVars
  <2>1. InTurn => InTurn'
    BY <1>4, <1>11 DEF mouseVars, InTurn, AckComes
  <2>2. TornAtOneSeam' /\ timedOut' = timedOut
    BY <1>3, <1>11 DEF mouseVars
  <2> QED
    BY <1>1, <1>2, <2>1, <2>2 DEF MouseInv
<1> QED
  BY <1>5, <1>6, <1>7, <1>8, <1>9, <1>10, <1>11, <1>12 DEF MouseNext

\* If no Wait of Install ran out, whatever a reader is given is torn in at
\* most one place: first bytes of a packet, the others of the one before
\* (data_update is set after every byte).
THEOREM TornOnce == MouseSpec => []TornAtOneSeam
<1>1. MouseInit => MouseInv
  <2> SUFFICES ASSUME MouseInit PROVE MouseInv
    OBVIOUS
  <2>1. MouseTypes
    BY MouseAssumption DEF MouseInit, MouseTypes
  <2>2. InTurn
    BY DEF MouseInit, InTurn, Untouched
  <2>3. TornAtOneSeam
    BY DEF MouseInit, TornAtOneSeam
  <2> QED
    BY <2>1, <2>2, <2>3 DEF MouseInv
<1>2. MouseInv => TornAtOneSeam
  BY DEF MouseInv
<1> QED
  BY <1>1, <1>2, MouseStepInv, PTL DEF MouseSpec

=============================================================================
