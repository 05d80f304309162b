------------------------------ MODULE MCDrivers ------------------------------
(***************************************************************************)
(* Lists, the spin lock, the serial line, the PCI bus and an AHCI          *)
(* controller side by side: in each behaviour one of them runs and the     *)
(* others stay in their initial state.                                     *)
(***************************************************************************)
EXTENDS List, SpinLock, Serial, Pci, AhciPort

VARIABLE active

MCVars == <<active, listVars, spinLockVars, serialVars, pciVars, ahciPortVars>>

MCInit ==
  /\ active \in {"list", "lock", "serial", "pci", "ahci"}
  /\ ListInit /\ SpinLockInit /\ SerialInit /\ PciInit /\ AhciPortInit
  /\ active # "pci" => config = [s \in Slot |-> NULL]
  /\ active # "ahci" => cmd = [p \in Port |-> {}]

MCNext ==
  /\ UNCHANGED active
  /\ \/ active = "list" /\ ListNext
          /\ UNCHANGED <<spinLockVars, serialVars, pciVars, ahciPortVars>>
     \/ active = "lock" /\ SpinLockNext
          /\ UNCHANGED <<listVars, serialVars, pciVars, ahciPortVars>>
     \/ active = "serial" /\ SerialNext
          /\ UNCHANGED <<listVars, spinLockVars, pciVars, ahciPortVars>>
     \/ active = "pci" /\ PciNext
          /\ UNCHANGED <<listVars, spinLockVars, serialVars, ahciPortVars>>
     \/ active = "ahci" /\ AhciPortNext
          /\ UNCHANGED <<listVars, spinLockVars, serialVars, pciVars>>

MCSpec == MCInit /\ [][MCNext]_MCVars /\ SpinLockFairness
=============================================================================
