------------------------------- MODULE MCDevices -------------------------------
(***************************************************************************)
(* The components that wait for the system's answers, side by side: an     *)
(* execution is of one of them, the part.  A program enumerates the        *)
(* devices of /proc, drivers are sent firmware by scripts, and share an    *)
(* interrupt.                                                              *)
(***************************************************************************)
EXTENDS Naturals, Sequences

CONSTANTS
    Slots, Kinds, NoKind, IrqOf,                \* of PCI devices
    Drivers, ImageOf, Scripts, Buffers,         \* of firmware requests
    Nothing                                     \* a NULL

VARIABLES
    part,
    \* OsalPciUser
    device, listing, pc, by, key, after, lines, pci_dev, result, irq, wanted, found,
    matching, disturbed,
    \* OsalFirmware
    side, loaded, procfile, fw_device, fw_address, fw_size, heap, request, script,
    fw_result, alone, lost,
    \* OsalSharedInterrupt
    own, irqs, inited, line, asserted, hard, woken, thread, work

pciVars == <<device, listing, pc, by, key, after, lines, pci_dev, result, irq, wanted, found,
             matching, disturbed>>
firmwareVars == <<side, loaded, procfile, fw_device, fw_address, fw_size, heap, request,
                  script, fw_result, alone, lost>>
sharedVars == <<own, irqs, inited, line, asserted, hard, woken, thread, work>>
vars == <<part, pciVars, firmwareVars, sharedVars>>

Pci == INSTANCE OsalPciUser

Firmware == INSTANCE OsalFirmware

\* A pointer is NULL or points to something.
ASSUME NothingAssumption ==
    /\ Nothing \notin Drivers \cup Buffers \cup Scripts
    /\ \A data \in SUBSET Firmware!Images : data # Nothing

Shared == INSTANCE OsalSharedInterrupt WITH irq <- irqs

(* What a part may begin with in more than one way is fixed in the others. *)
Init ==
    /\ part \in {"pci", "firmware", "shared"}
    /\ Pci!Init /\ Firmware!Init /\ Shared!Init
    /\ part = "firmware" \/ side = "kernel"

PciFrame == part = "pci" /\ UNCHANGED <<part, firmwareVars, sharedVars>>
FirmwareFrame == part = "firmware" /\ UNCHANGED <<part, pciVars, sharedVars>>
SharedFrame == part = "shared" /\ UNCHANGED <<part, pciVars, firmwareVars>>

Next ==
    \/ part = "pci" /\ Pci!Next /\ PciFrame
    \/ part = "firmware" /\ Firmware!Next /\ FirmwareFrame
    \/ part = "shared" /\ Shared!Next /\ SharedFrame

(* A search goes on and so does the enumeration; each script runs, and each
   interrupt thread.  Only those of one part are ever enabled, so that a script
   and a thread can share a condition. *)
Fairness ==
    /\ WF_vars(part = "pci" /\ Pci!Search /\ PciFrame)
    /\ WF_vars(part = "pci" /\ Pci!FindNext /\ PciFrame)
    /\ \A i \in Drivers \cup Scripts :
          WF_vars(\/ part = "firmware" /\ i \in Scripts /\ Firmware!Script(i) /\ FirmwareFrame
                  \/ part = "shared" /\ i \in Drivers /\ Shared!Thread(i) /\ SharedFrame)

Spec == Init /\ [][Next]_vars /\ Fairness

-----------------------------------------------------------------------------
(* An enumeration in user space ends, whatever is plugged and unplugged. *)
EnumerationEnds == Pci!EnumerationEnds

(* Firmware that was got is the whole of the image that was asked for, in a buffer
   that one context holds; no buffer is left behind by a failure or a release, and
   nothing by a module that is unloaded. *)
FirmwareIsKept ==
    Firmware!FirmwareIsWhole /\ Firmware!FirmwareHeld /\ Firmware!UnloadLeavesNothing

(* Each request for firmware is answered. *)
RequestEnds == Firmware!RequestEnds

(* No interrupt or thread in progress is left with an os_irq_t that was freed. *)
HandlersAreAlive == Shared!HandlersAreAlive

(* A bottom handler that was asked for runs, also during a release. *)
BottomHandlerRuns == Shared!BottomHandlerRuns

-----------------------------------------------------------------------------
(* For TLC: two slots, on two buses. *)
MCSlots == {<<0, 2, 1>>, <<1, 0, 0>>}
MCIrqOf == [s \in MCSlots |-> 10 + s[1]]

(* Two drivers ask for an image each; a script may be left from a request that
   has timed out while the next is answered. *)
MCDrivers == {1, 2}
MCImageOf == <<"i1", "i2">>
=============================================================================
