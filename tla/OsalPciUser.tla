----------------------------- MODULE OsalPciUser -----------------------------
(***************************************************************************)
(* The device searches of linux_user/src/osal_pci.c: a program enumerates  *)
(* the devices of a kind with find_first and find_next, by vendor and      *)
(* device or by class, while devices are plugged and unplugged.  A search  *)
(* goes through /proc/bus/pci/devices line by line; find_next goes past    *)
(* the lines whose address is not above that of the device it is given;    *)
(* a search by class opens each device's configuration file on its way.    *)
(*                                                                         *)
(* From the kernel (not under src/): the devices are listed in the order   *)
(* in which they were found, so that one plugged later comes last whatever *)
(* its address; the listing is short enough to be read in one piece; a     *)
(* device's configuration file exists while it is plugged.                 *)
(***************************************************************************)
EXTENDS Naturals, SequencesExt

CONSTANTS
    Slots,      \* the slots devices can be plugged into: <<bus, dev, func>>, a
                \* subset of (0..255) \X (0..31) \X (0..7)
    Kinds,      \* the kinds of device, told apart by id and by class alike
    NoKind,     \* the kind of an empty slot, not in Kinds
    IrqOf       \* the interrupt a slot is wired to, a natural number

VARIABLES
    device,     \* the kind of device in each slot
    listing,    \* the slots in the order of /proc/bus/pci/devices
    pc,         \* where the program is
    by,         \* its enumeration is by "id", by "class", or one "slot" is looked up
    key,        \* the kind the search in progress compares with
    after,      \* the slot_address that search goes past, if any
    lines,      \* what is left of the file it reads
    pci_dev,    \* the device handle the program holds
    result,     \* what its last call returned
    irq,        \* what os_pci_get_interrupt has returned for the handle, if called
    \* history of an enumeration
    wanted,     \* the kind it is for
    found,      \* the slots of the devices it has returned
    matching,   \* the slots that have held a device of that kind all along
    disturbed   \* something has happened that it is not made for

busVars == <<device, listing>>
searchVars == <<by, key, after, lines>>
historyVars == <<wanted, found, matching, disturbed>>
vars == <<busVars, pc, searchVars, pci_dev, result, irq, historyVars>>

(* The types; the listing is that of the bus, and the file of a search is closed
   on each of its returns. *)
TypeOK ==
    /\ device \in [Slots -> Kinds \cup {NoKind}]
    /\ {listing[i] : i \in DOMAIN listing} = {s \in Slots : device[s] # NoKind}
    /\ pc \in {"idle", "search", "held", "ended"}
    /\ by \in {"id", "class", "slot"}
    /\ key \in Kinds /\ wanted \in Kinds
    /\ after \subseteq Nat
    /\ lines \in Seq([slot : Slots, kind : Kinds])
    /\ lines # <<>> => pc = "search"
    /\ pci_dev.slot_address \in Nat /\ pci_dev.irq \subseteq Nat
    /\ result \in {"OSAL_SUCCESS", "OSAL_NOT_FOUND", "OSAL_ERROR",
                   "OSAL_INSUFFICIENT_MEMORY"}
    /\ irq \subseteq Nat /\ (irq # {} => pc = "held")
    /\ found \subseteq Slots /\ matching \subseteq Slots
    /\ disturbed \in BOOLEAN

-----------------------------------------------------------------------------
(* Addresses.  The kernel prints nDevAddr as bus and devfn, the code shifts it
   left by 8, and takes it apart again to name a configuration file. *)

DevAddr(s) == s[1] * 256 + s[2] * 8 + s[3]

SlotAddress(nDevAddr) == nDevAddr * 256

FromAddress(bus, dev, func) == bus * 65536 + dev * 2048 + func * 256

PCI_BUS(a) == (a \div 65536) % 32768
PCI_DEV(a) == (a \div 2048) % 32
PCI_FUNC(a) == (a \div 256) % 8

(* os_pci_get_device_address, and the file /proc/bus/pci/<bus>/<dev>.<func> *)
DeviceAddress(a) == <<PCI_BUS(a), PCI_DEV(a), PCI_FUNC(a)>>

Plugged(a) == device[DeviceAddress(a)] # NoKind

Ascending(slots) ==
    \A i, j \in DOMAIN slots : i < j => DevAddr(slots[i]) < DevAddr(slots[j])

FileLines == [i \in DOMAIN listing |-> [slot |-> listing[i], kind |-> device[listing[i]]]]

-----------------------------------------------------------------------------
NoDevice == [slot_address |-> 0, irq |-> {}]
AnyKind == CHOOSE k \in Kinds : TRUE

Init ==
    /\ device = [s \in Slots |-> NoKind] /\ listing = <<>>
    /\ pc = "idle" /\ by = "id"
    /\ key = AnyKind /\ wanted = AnyKind
    /\ after = {} /\ lines = <<>>
    /\ pci_dev = NoDevice
    /\ result = "OSAL_SUCCESS" /\ irq = {}
    /\ found = {} /\ matching = {} /\ disturbed = FALSE

(* The bus.  An enumeration is disturbed by a device that is listed out of order
   and by one that takes the place of a device of another kind that the program
   holds or that its search has on its list. *)
Listed == {lines[i].slot : i \in DOMAIN lines}

Relied ==
    Listed \cup IF pc = "held" THEN {DeviceAddress(pci_dev.slot_address)} ELSE {}

Plug(s, k) ==
    /\ device[s] = NoKind
    /\ device' = [device EXCEPT ![s] = k]
    /\ listing' = Append(listing, s)
    /\ disturbed' = \/ disturbed
                    \/ ~Ascending(listing')
                    \/ k # wanted /\ s \in Relied
    /\ UNCHANGED <<pc, searchVars, pci_dev, result, irq, wanted, found, matching>>

(* A search by class is disturbed when a device goes away before its turn. *)
Unplug(s) ==
    /\ device[s] # NoKind
    /\ device' = [device EXCEPT ![s] = NoKind]
    /\ listing' = RemoveFirst(listing, s)
    /\ matching' = matching \ {s}
    /\ disturbed' = (disturbed \/ (by = "class" /\ s \in Listed))
    /\ UNCHANGED <<pc, searchVars, pci_dev, result, irq, wanted, found>>

-----------------------------------------------------------------------------
(* A call returns without a device. *)
Fails(r) ==
    /\ pc' = "ended" /\ result' = r
    /\ lines' = <<>>

(* The start of pci_find_device and pci_find_device_by_class *)
OpenDevices(past) ==
    \/ pc' = "search" /\ lines' = FileLines /\ after' = past
       /\ UNCHANGED <<result, disturbed>>
    \/ Fails("OSAL_NOT_FOUND") /\ disturbed' = TRUE     \* fopen fails
       /\ UNCHANGED after

FindFirst(b, k) ==
    /\ pc = "idle"
    /\ by' = b /\ key' = k
    /\ wanted' = k /\ found' = {} /\ matching' = {s \in Slots : device[s] = k}
    /\ \/ /\ pc' = "search" /\ lines' = FileLines /\ after' = {}
          /\ disturbed' = ~Ascending(listing)
          /\ UNCHANGED result
       \/ /\ Fails("OSAL_NOT_FOUND") /\ after' = {}
          /\ disturbed' = TRUE
    /\ UNCHANGED <<busVars, pci_dev, irq>>

(* The kind to look for is read again, from the device that is now in the slot;
   the old handle stays with the program. *)
FindNext ==
    /\ pc = "held" /\ by # "slot"
    /\ irq' = {}
    /\ IF Plugged(pci_dev.slot_address)
       THEN /\ key' = device[DeviceAddress(pci_dev.slot_address)]
            /\ OpenDevices({pci_dev.slot_address})
       ELSE Fails("OSAL_ERROR") /\ UNCHANGED <<key, after, disturbed>>
    /\ UNCHANGED <<busVars, by, pci_dev, wanted, found, matching>>

-----------------------------------------------------------------------------
(* One line of the file.  pci_find_device believes the line, and
   pci_find_device_by_class asks the device. *)

Line == Head(lines)
LineAddress == SlotAddress(DevAddr(Line.slot))

NextLine ==
    /\ lines' = Tail(lines)
    /\ UNCHANGED <<busVars, pc, by, key, after, pci_dev, result, irq, historyVars>>

(* Mutated: a line with the same address is not gone past. *)
PastBelow == \A a \in after : LineAddress >= a

(* Mutated: the line's address is not shifted before it is compared. *)
PastUnshifted == \A a \in after : DevAddr(Line.slot) > a

Past == \A a \in after : LineAddress > a

SkipLine == pc = "search" /\ lines # <<>> /\ ~Past /\ NextLine

KindNow == IF by = "id" THEN Line.kind ELSE device[DeviceAddress(LineAddress)]

NoMatch ==
    /\ pc = "search" /\ lines # <<>> /\ Past
    /\ KindNow \notin {key, NoKind}
    /\ NextLine

(* A search by class ends where a device has gone away. *)
DeviceGone ==
    /\ pc = "search" /\ lines # <<>> /\ Past
    /\ KindNow = NoKind
    /\ Fails("OSAL_NOT_FOUND")
    /\ UNCHANGED <<busVars, by, key, after, pci_dev, irq, historyVars>>

(* Only the search by id fills in the interrupt. *)
Match ==
    /\ pc = "search" /\ lines # <<>> /\ Past
    /\ KindNow = key
    /\ pc' = "held" /\ result' = "OSAL_SUCCESS" /\ lines' = <<>>
    /\ pci_dev' = [slot_address |-> LineAddress,
                   irq |-> IF by = "id" THEN {IrqOf[Line.slot]} ELSE {}]
    /\ found' = found \cup {Line.slot}
    /\ UNCHANGED <<busVars, by, key, after, irq, wanted, matching, disturbed>>

NoMemory ==
    /\ pc = "search" /\ lines # <<>> /\ Past
    /\ KindNow = key
    /\ Fails("OSAL_NOT_FOUND")
    /\ disturbed' = TRUE
    /\ UNCHANGED <<busVars, by, key, after, pci_dev, irq, wanted, found, matching>>

EndOfFile ==
    /\ pc = "search" /\ lines = <<>>
    /\ Fails("OSAL_NOT_FOUND")
    /\ UNCHANGED <<busVars, by, key, after, pci_dev, irq, historyVars>>

-----------------------------------------------------------------------------
(* os_pci_device_from_address, with os_pci_device_from_slot *)
DeviceFromAddress(s) ==
    LET slot == FromAddress(s[1], s[2], s[3])
    IN  /\ pc = "idle"
        /\ by' = "slot"
        /\ \/ /\ Plugged(slot)
              /\ pc' = "held" /\ result' = "OSAL_SUCCESS"
              /\ pci_dev' = [slot_address |-> slot, irq |-> {}]
              /\ UNCHANGED lines
           \/ ~Plugged(slot) /\ Fails("OSAL_NOT_FOUND") /\ UNCHANGED pci_dev
           \/ Plugged(slot) /\ Fails("OSAL_INSUFFICIENT_MEMORY") /\ UNCHANGED pci_dev
        /\ UNCHANGED <<busVars, key, after, irq, historyVars>>

(* os_pci_get_interrupt reads the handle's irq, whatever it is if nothing has
   been written there. *)
GetInterrupt ==
    /\ pc = "held"
    /\ \E n \in IF pci_dev.irq = {} THEN {IrqOf[s] : s \in Slots} ELSE pci_dev.irq :
          irq' = {n}
    /\ UNCHANGED <<busVars, pc, searchVars, pci_dev, result, historyVars>>

OsPciEnableDevice ==
    /\ pc = "idle"
    /\ result' = "OSAL_ERROR"
    /\ UNCHANGED <<busVars, pc, searchVars, pci_dev, irq, historyVars>>

(* The program frees what it holds and is done with the enumeration. *)
FreeDevice ==
    /\ pc \in {"held", "ended"}
    /\ pc' = "idle" /\ pci_dev' = NoDevice /\ irq' = {} /\ after' = {}
    /\ by' = "id" /\ key' = AnyKind /\ wanted' = AnyKind /\ result' = "OSAL_SUCCESS"
    /\ found' = {} /\ matching' = {} /\ disturbed' = FALSE
    /\ UNCHANGED <<busVars, lines>>

-----------------------------------------------------------------------------
Search == SkipLine \/ NoMatch \/ DeviceGone \/ Match \/ NoMemory \/ EndOfFile

Next ==
    \/ \E s \in Slots : Unplug(s) \/ \E k \in Kinds : Plug(s, k)
    \/ \E b \in {"id", "class"}, k \in Kinds : FindFirst(b, k)
    \/ FindNext
    \/ Search
    \/ \E s \in Slots : DeviceFromAddress(s)
    \/ GetInterrupt \/ OsPciEnableDevice \/ FreeDevice

(* A call that is begun returns, and the program goes on with its enumeration
   until it ends or the program has found what it wants. *)
Fairness == WF_vars(Search) /\ WF_vars(FindNext)

Spec == Init /\ [][Next]_vars /\ Fairness

-----------------------------------------------------------------------------
(* include/osal_pci.h: OSAL_NOT_FOUND of a find_next means "No more matching PCI
   devices".  Every device of the kind that was there all along has been found
   by then, while others came and went, unless the enumeration was disturbed:
   a file or an allocation failed, the listing was out of order, the device
   held was replaced, or one went away under a search by class. *)
EnumerationComplete ==
    pc = "ended" /\ by # "slot" /\ result = "OSAL_NOT_FOUND" /\ ~disturbed =>
        matching \subseteq found

(* What a search returns is of the kind that was asked for, or has been when the
   file was opened: the address that was taken apart and put together again
   names the device of the line. *)
FoundMatches ==
    pc = "held" /\ by # "slot" /\ ~disturbed =>
        LET s == DeviceAddress(pci_dev.slot_address)
        IN  s \in found /\ device[s] \in {wanted, NoKind}

(* An enumeration comes to an end, whatever is plugged and unplugged meanwhile:
   no device is returned twice. *)
EnumerationEnds == (pc = "search") ~> pc \in {"ended", "idle"}

(* include/osal_pci.h, of os_pci_get_interrupt's OSAL_SUCCESS: "returned IRQ is
   valid". *)
InterruptIsValid ==
    \A n \in irq : n = IrqOf[DeviceAddress(pci_dev.slot_address)]
=============================================================================
