------------------------------ MODULE AhciPort ------------------------------
(***************************************************************************)
(* startCMD and stopCMD of the AHCI driver against the controller: each    *)
(* works on the command register of one port, bit by bit, while the        *)
(* controller changes the status bits of all ports on its own.             *)
(*                                                                         *)
(* The controller is external: it runs the command list (CR) of a port     *)
(* whose ST is set and stops some time after ST is cleared; FR follows FRE *)
(* while the list is not running.                                          *)
(***************************************************************************)
EXTENDS Naturals, Null

CONSTANT Port

ASSUME PortAssumption == NULL \notin Port

Bit == {"ST", "FRE", "FR", "CR"}

VARIABLES
  cmd,     \* per port: the bits of its command register that are set
  at,      \* the driver: <<function, step>>, <<"none", 0>> between calls
  port     \* the port it works on

ahciPortVars == <<cmd, at, port>>

\* The firmware may have left a port in any state it can be in by itself.
AhciPortInit ==
  /\ cmd \in [Port -> {{}, {"FRE", "FR"}, {"ST", "FRE", "FR", "CR"}}]
  /\ at = <<"none", 0>>
  /\ port = NULL
-----------------------------------------------------------------------------
Call(f, p) ==
  /\ at = <<"none", 0>>
  /\ at' = <<f, 1>>
  /\ port' = p
  /\ UNCHANGED cmd

Set(p, b) == cmd' = [cmd EXCEPT ![p] = @ \cup {b}]
Clear(p, b) == cmd' = [cmd EXCEPT ![p] = @ \ {b}]

\* Both functions begin with clearing ST.
ClearST ==
  /\ at \in {<<"startCMD", 1>>, <<"stopCMD", 1>>}
  /\ Clear(port, "ST")
  /\ at' = <<at[1], 2>>
  /\ UNCHANGED port

\* Bug: the wait is left out.
WaitsForNothing == TRUE

\* What ends the loops of both.
CommandListStopped == "CR" \notin cmd[port]

AfterWait(f) == <<f, 3>>

WaitCR ==
  /\ at \in {<<"startCMD", 2>>, <<"stopCMD", 2>>}
  /\ CommandListStopped
  /\ at' = AfterWait(at[1])
  /\ UNCHANGED <<cmd, port>>

\* startCMD: the receiver first, then the command list.
StartReceiver ==
  /\ at = <<"startCMD", 3>>
  /\ Set(port, "FRE")
  /\ at' = <<"startCMD", 4>>
  /\ UNCHANGED port

StartCommands ==
  /\ at = <<"startCMD", 4>>
  /\ Set(port, "ST")
  /\ at' = <<"none", 0>>
  /\ port' = NULL

\* stopCMD: the receiver is told to stop and not waited for.
StopReceiver ==
  /\ at = <<"stopCMD", 3>>
  /\ Clear(port, "FRE")
  /\ at' = <<"none", 0>>
  /\ port' = NULL

\* The controller catches up with a port.
Controller(p) ==
  /\ \/ "ST" \in cmd[p] /\ "CR" \notin cmd[p] /\ "FRE" \in cmd[p] /\ Set(p, "CR")
     \/ "ST" \notin cmd[p] /\ "CR" \in cmd[p] /\ Clear(p, "CR")
     \/ "FRE" \in cmd[p] /\ "FR" \notin cmd[p] /\ Set(p, "FR")
     \/ "FRE" \notin cmd[p] /\ "FR" \in cmd[p] /\ "CR" \notin cmd[p] /\ Clear(p, "FR")
  /\ UNCHANGED <<at, port>>

Driver == ClearST \/ WaitCR \/ StartReceiver \/ StartCommands \/ StopReceiver

AhciPortNext ==
  \/ \E p \in Port : Call("startCMD", p) \/ Call("stopCMD", p) \/ Controller(p)
  \/ Driver

AhciPortSpec == AhciPortInit /\ [][AhciPortNext]_ahciPortVars
-----------------------------------------------------------------------------
(* Properties.                                                             *)

\* The register holds its four bits.
AhciPortTypeOK ==
  /\ cmd \in [Port -> SUBSET Bit]
  /\ at \in {<<"none", 0>>} \cup ({"startCMD"} \X (1 .. 4)) \cup ({"stopCMD"} \X (1 .. 3))
  /\ port \in Port \cup {NULL}

\* The receiver is on whenever the command list may run, and is switched off
\* only when it has stopped, whichever calls were made on the port before.
ReceiverOutlivesCommands ==
  \A p \in Port : {"ST", "CR"} \cap cmd[p] # {} => "FRE" \in cmd[p]

\* ST is only set while the controller has stopped the list of that port.
StartsStopped ==
  [][\A p \in Port : "ST" \notin cmd[p] /\ "ST" \in cmd'[p] => "CR" \notin cmd[p]]_ahciPortVars
=============================================================================
