------------------------------ MODULE HotPlug ------------------------------
(***************************************************************************)
(* bccattach.py traces the plugging in of a disk.  One map counts the PCI   *)
(* slots scanned since the last ACPI interrupt: the interrupt's probe sets  *)
(* it to 0 at any time, on any CPU, also while the probe of pci_scan_slot   *)
(* is between its lookup and its update; a new device is shown with it.     *)
(***************************************************************************)
EXTENDS Integers

CONSTANTS MaxSlots,   \* bound: slots scanned in a row
          Byte        \* 256: the number shown is an u8

VARIABLES
  drvn,    \* the counter in the map, NoCount before the first interrupt
  scan,    \* the value the probe of pci_scan_slot looked up, Idle outside of it
  event,   \* the event submitted by the last step
  slots,   \* history: slots scanned since the last interrupt
  hit      \* history: an interrupt came while a scan's probe was under way

plugVars == <<drvn, scan, event, slots, hit>>

NoCount == -1
NotScanning == -2
Quietly == event' = [type |-> 1]

PlugInit ==
  /\ drvn = NoCount /\ scan = NotScanning /\ slots = 0 /\ hit = FALSE
  /\ event = [type |-> 1]

\* Mutant: only the first interrupt sets the counter.
IrqOnce ==
  /\ drvn' = (IF drvn = NoCount THEN 0 ELSE drvn) /\ event' = [type |-> 0]
  /\ slots' = 0 /\ hit' = (scan # NotScanning)
  /\ UNCHANGED scan

AcpiIrq ==
  /\ drvn' = 0 /\ event' = [type |-> 0]
  /\ slots' = 0 /\ hit' = (scan # NotScanning)
  /\ UNCHANGED scan

PciScanSlotLookup ==
  /\ scan = NotScanning /\ drvn # NoCount /\ drvn < MaxSlots
  /\ scan' = drvn /\ Quietly
  /\ UNCHANGED <<drvn, slots, hit>>

PciScanSlotUpdate ==
  /\ scan # NotScanning
  /\ drvn' = scan + 1 /\ scan' = NotScanning /\ slots' = slots + 1
  /\ Quietly /\ UNCHANGED hit

\* pci_device_add is called while a slot is scanned, after the probe above.
PciDeviceAdd ==
  /\ scan = NotScanning /\ drvn # NoCount
  /\ event' = [type |-> 2, virtn |-> drvn % Byte]
  /\ UNCHANGED <<drvn, scan, slots, hit>>

\* kobject_uevent_env, virtblk_probe, pci_assign_resource and device_create_file
\* only report what they were given or return: OK is a return value of 0.
Traced ==
  /\ \E type \in 3 .. 7, ok \in BOOLEAN : event' = [type |-> type, ok |-> ok]
  /\ UNCHANGED <<drvn, scan, slots, hit>>

PlugNext == AcpiIrq \/ PciScanSlotLookup \/ PciScanSlotUpdate \/ PciDeviceAdd \/ Traced

PlugSpec == PlugInit /\ [][PlugNext]_plugVars

----------------------------------------------------------------------------
\* A new device is shown with the number of slots scanned since the last interrupt,
\* the plug's own number, unless that interrupt fell into a scan's lookup and update;
\* the next interrupt puts even that right.
ShownIsSlotCount ==
  event.type = 2 /\ ~hit => event.virtn = slots % Byte
=============================================================================
