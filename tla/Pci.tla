--------------------------------- MODULE Pci ---------------------------------
(***************************************************************************)
(* The PCI bus: the scan of PCI::Init, one slot a step, and drivers        *)
(* asking for a device with RegisterPCIDevice, by class or by number.      *)
(*                                                                         *)
(* Configuration space is external and does not change.  Undefined values  *)
(* (a field never assigned, a function without return) are any value.  So  *)
(* are what ReadType1Config reads: it has no body; it is taken to read the *)
(* header right.                                                           *)
(***************************************************************************)
EXTENDS Naturals, Sequences, Null

CONSTANTS
  NumSlots,   \* slots of all buses, in the order of the scan
  Vendors,    \* vendor ids, without the one of an empty slot
  Classes,    \* class and subclass, as one value
  Ids,        \* device ids
  Names,      \* names drivers give
  MaxDrivers  \* bound: calls of RegisterPCIDevice

ASSUME PciAssumption == NumSlots \in Nat \ {0} /\ MaxDrivers \in Nat

Slot == 1 .. NumSlots
Empty == "0xFFFF"    \* the vendor id an empty slot reads as
Unknown == "Unknow Device."

VARIABLES
  config,    \* per slot: vendor, class, and whether byte 13 has a low bit set
  slot,      \* the slot scanned next
  devices,   \* the list of devices
  answer,    \* the answer to the last driver
  drivers    \* history: the requests by class that were answered with a device

pciVars == <<config, slot, devices, answer, drivers>>

PciInit ==
  /\ config \in [Slot -> [vendor : Vendors, class : Classes, latency : BOOLEAN] \cup {NULL}]
  /\ slot = 1
  /\ devices = <<>>
  /\ answer = NULL
  /\ drivers = <<>>
-----------------------------------------------------------------------------
\* Config_ReadWord at offset 0, function 0.
GetVendor(s) == IF config[s] = NULL THEN Empty ELSE config[s].vendor

CheckDevice(s) == GetVendor(s) # Empty

\* The class Init may end up with.  ReadConfig takes byte 13 (the latency
\* timer) for the header type.  If it is not zero, the class is read from the
\* other header; if it is zero, ReadConfig ends without a return and both
\* header type and class are undefined.
ClassRead(s) == IF config[s].latency THEN {config[s].class} ELSE Classes

AddBack(list, device) == Append(list, device)

\* One round of the loops in PCI::Init.  The device id is never assigned.
ScanSlot ==
  /\ slot \in Slot
  /\ slot' = slot + 1
  /\ IF CheckDevice(slot)
       THEN \E c \in ClassRead(slot), id \in Ids :
              devices' = AddBack(devices,
                [vendor |-> GetVendor(slot), slot |-> slot, class |-> c, id |-> id,
                 name |-> Unknown, generic |-> FALSE])
       ELSE UNCHANGED devices
  /\ UNCHANGED <<config, answer, drivers>>

\* Bug: the last match, not the first.
LastMatch(matches) == CHOOSE i \in matches : \A k \in matches : k <= i

\* The loops of RegisterPCIDevice return at the first match.
FirstMatch(matches) == CHOOSE i \in matches : \A k \in matches : i <= k

\* What replace_at puts back: the same device under the driver's name.
Claimed(device, name, generic) == [device EXCEPT !.name = name, !.generic = generic]

\* Both forms of RegisterPCIDevice: the entry is renamed and a copy of it
\* returned; without a match the request comes back with vendor 0xFFFF.
Register(matches, name, generic) ==
  IF matches = {}
    THEN answer' = [vendor |-> Empty] /\ UNCHANGED devices
    ELSE LET i == FirstMatch(matches) IN
         /\ devices' = [devices EXCEPT ![i] = Claimed(@, name, generic)]
         /\ answer' = Claimed(devices[i], name, generic)

RegisterByClass(c, name) ==
  LET matches == {i \in 1 .. Len(devices) : devices[i].class = c} IN
  /\ slot \notin Slot /\ Len(drivers) < MaxDrivers
  /\ Register(matches, name, TRUE)
  /\ drivers' = Append(drivers, [class |-> c, slot |-> IF matches = {} THEN 0 ELSE answer'.slot])
  /\ UNCHANGED <<config, slot>>

RegisterById(vendor, id, name) ==
  LET matches == {i \in 1 .. Len(devices) : devices[i].vendor = vendor /\ devices[i].id = id} IN
  /\ slot \notin Slot /\ Len(drivers) < MaxDrivers
  /\ Register(matches, name, FALSE)
  /\ drivers' = Append(drivers, [class |-> NULL, slot |-> IF matches = {} THEN 0 ELSE answer'.slot])
  /\ UNCHANGED <<config, slot>>

PciNext ==
  \/ ScanSlot
  \/ \E name \in Names : \/ \E c \in Classes : RegisterByClass(c, name)
                         \/ \E v \in Vendors, id \in Ids : RegisterById(v, id, name)

PciSpec == PciInit /\ [][PciNext]_pciVars
-----------------------------------------------------------------------------
(* Properties.                                                             *)

\* All drivers that ask for a class are given the same device, the first one
\* listed under it: a second controller of a class is never handed out, and
\* nothing tells the second driver that the device is taken.  The device is
\* of that class if its latency timer is not zero.
SameDeviceForEveryDriver ==
  \A i, k \in 1 .. Len(drivers) :
    drivers[i].class # NULL /\ drivers[i].class = drivers[k].class =>
      /\ drivers[i].slot = drivers[k].slot
      /\ \A n \in 1 .. Len(devices) :
           devices[n].class = drivers[i].class => drivers[i].slot <= devices[n].slot
      /\ drivers[i].slot # 0 /\ config[drivers[i].slot].latency
           => config[drivers[i].slot].class = drivers[i].class
=============================================================================
