---------------------------- MODULE MCInterrupts ----------------------------
(***************************************************************************)
(* Interrupt dispatch, the clock, start-up and the mouse side by side: in  *)
(* each behaviour one of them runs and the others stay in their initial    *)
(* state.                                                                  *)
(***************************************************************************)
EXTENDS Interrupts, Timer, Boot, Mouse

VARIABLE active

MCVars == <<active, interruptsVars, timerVars, bootVars, mouseVars>>

MCInit ==
  /\ active \in {"interrupts", "timer", "boot", "mouse"}
  /\ InterruptsInit /\ TimerInit /\ BootInit /\ MouseInit
  /\ active # "boot" => timeSlice[NoProcess] = 0

MCNext ==
  /\ UNCHANGED active
  /\ \/ active = "interrupts" /\ InterruptsNext /\ UNCHANGED <<timerVars, bootVars, mouseVars>>
     \/ active = "timer" /\ TimerNext /\ UNCHANGED <<interruptsVars, bootVars, mouseVars>>
     \/ active = "boot" /\ BootNext /\ UNCHANGED <<interruptsVars, timerVars, mouseVars>>
     \/ active = "mouse" /\ MouseNext /\ UNCHANGED <<interruptsVars, timerVars, bootVars>>

MCSpec == MCInit /\ [][MCNext]_MCVars /\ InterruptsFairness
=============================================================================
