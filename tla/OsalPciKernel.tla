---------------------------- MODULE OsalPciKernel ----------------------------
(***************************************************************************)
(* The PCI interface of linux_kernel/src/osal_pci.c, where a handle is     *)
(* Linux's own struct pci_dev.  Every search takes a reference on what it  *)
(* finds and, if it goes on from a device, drops the one on that device;   *)
(* os_pci_free_device drops none.                                          *)
(*                                                                         *)
(* From Linux (not under src/): the list of devices in the order in which  *)
(* they were found; pci_get_device, pci_get_class and pci_get_slot, each   *)
(* under the list's lock.  A device may be removed at any time, also the   *)
(* one a search stands at: what Linux then makes of a search that goes on  *)
(* from it depends on its version.  Those before 2.6.28 find no more,      *)
(* those since 3.9 begin with the first device again; those between follow *)
(* a pointer that is not valid any more, and nothing is said of what       *)
(* happens then.                                                           *)
(***************************************************************************)
EXTENDS Integers, SequencesExt

CONSTANTS
    Devs,       \* the devices that may be plugged in, each at most once
    NoDev,      \* NULL
    IdOf,       \* vendor and device
    IrqOf,      \* pdev->irq
    NoIrq,      \* what is read there when Linux has freed it
    ClassOf,    \* <<base class, subclass, programming interface>>
    PlaceOf,    \* <<bus, dev, func>>
    MaxHandles  \* bound: the handles to one device that were ever given out

VARIABLES
    listed,     \* Linux's list of devices
    gone,       \* the devices that have been removed from it
    refs,       \* the references on each struct pci_dev
    handles,    \* the handles to it the program has
    forgotten,  \* those that it has given to os_pci_free_device
    cursor,     \* where each enumeration is: the program's, os_pci_enable_device's
    sought,     \* the devices each was asked for
    seen,       \* those it has reached
    present,    \* those of the sought that have been there all along
    ended,      \* it has found no more
    strayed,    \* and Linux has said so of a device that had been removed
    enabled     \* the devices os_pci_enable_device has tried to enable

busVars == <<listed, gone>>
enumVars == <<cursor, sought, seen, present, ended, strayed>>
pciVars == <<busVars, refs, handles, forgotten, enumVars, enabled>>

Tasks == {"program", "enable"}
Plugged == ToSet(listed)

TypeOK ==
    /\ listed \in Seq(Devs) /\ gone \subseteq Devs /\ Plugged \cap gone = {}
    /\ refs \in [Devs -> Nat] /\ handles \in [Devs -> Nat]
    /\ forgotten \in [Devs -> Nat]
    /\ cursor \in [Tasks -> Devs \cup {NoDev}]
    /\ seen \in [Tasks -> SUBSET Devs] /\ present \in [Tasks -> SUBSET Devs]
    /\ sought \in [Tasks -> SUBSET Devs]
    /\ ended \in [Tasks -> BOOLEAN] /\ strayed \in [Tasks -> BOOLEAN]
    /\ enabled \subseteq Devs

None == [d \in Devs |-> 0]

Init ==
    /\ listed = <<>> /\ gone = {}
    /\ refs = None /\ handles = None /\ forgotten = None
    /\ cursor = [a \in Tasks |-> NoDev] /\ sought = [a \in Tasks |-> {}]
    /\ seen = [a \in Tasks |-> {}] /\ present = [a \in Tasks |-> {}]
    /\ ended = [a \in Tasks |-> FALSE] /\ strayed = [a \in Tasks |-> FALSE]
    /\ enabled = {}

-----------------------------------------------------------------------------
(* Linux *)

Plug(d) ==
    /\ d \notin Plugged \cup gone
    /\ listed' = Append(listed, d)
    /\ UNCHANGED <<gone, refs, handles, forgotten, enumVars, enabled>>

Unplug(d) ==
    /\ d \in Plugged
    /\ listed' = RemoveFirst(listed, d)
    /\ gone' = gone \cup {d}
    /\ present' = [a \in Tasks |-> present[a] \ {d}]
    /\ UNCHANGED <<refs, handles, forgotten, cursor, sought, seen, ended, strayed, enabled>>

(* Removed, and without a reference: Linux has freed it. *)
Freed(d) == d \in gone /\ refs[d] = 0

Moved(f, from, to) ==
    [d \in Devs |-> f[d] + (IF d = to THEN 1 ELSE 0) - (IF d = from THEN 1 ELSE 0)]

(* found is the first device of S behind the list's at-th, NULL if there is none. *)
FirstBehind(S, at, found) ==
    LET behind == {i \in DOMAIN listed : i > at /\ listed[i] \in S}
    IN  IF behind = {} THEN found = NoDev
        ELSE \E i \in behind : found = listed[i] /\ \A j \in behind : i <= j

PciGet(S, from, found) ==
    \/ from = NoDev /\ FirstBehind(S, 0, found)
    \/ from \in Plugged /\ FirstBehind(S, SelectInSeq(listed, LAMBDA e : e = from), found)
    \/ from \in gone /\ (found = NoDev \/ FirstBehind(S, 0, found))

(* Mutated: the searches are pci_find_device's, which counts nothing. *)
HoldNone(from, found) == refs' = refs

(* Linux takes a reference on the device that it returns and drops the one on the
   device that it goes on from. *)
Hold(from, found) == refs' = Moved(refs, from, found)

(* A search by task a for S behind from: found is its result, NULL (and
   OSAL_NOT_FOUND) if there is none. *)
Search(a, S, from, found) ==
    /\ PciGet(S, from, found)
    /\ Hold(from, found)
    /\ cursor' = [cursor EXCEPT ![a] = found]
    /\ sought' = [sought EXCEPT ![a] = S]
    /\ seen' = [seen EXCEPT ![a] = (IF from = NoDev THEN {} ELSE @) \cup ({found} \ {NoDev})]
    /\ present' = [present EXCEPT ![a] = IF from = NoDev THEN S \cap Plugged ELSE @]
    /\ ended' = [ended EXCEPT ![a] = found = NoDev]
    /\ strayed' = [strayed EXCEPT ![a] = found = NoDev /\ from \in gone]
    /\ UNCHANGED busVars

Give(from, found) ==
    /\ found # NoDev => handles[found] + forgotten[found] < MaxHandles
    /\ handles' = Moved(handles, from, found)
    /\ UNCHANGED <<forgotten, enabled>>

-----------------------------------------------------------------------------
WithId(id) == {d \in Devs : IdOf[d] = id}

Class(base, sub, pi) == base * 65536 + sub * 256 + pi
ClassNumber(d) == Class(ClassOf[d][1], ClassOf[d][2], ClassOf[d][3])

(* pdev->class is compared with the three arguments put together. *)
WithClass(c) == {d \in Devs : ClassNumber(d) = Class(c[1], c[2], c[3])}

OsPciFindFirstDevice ==
    \E id \in {IdOf[d] : d \in Devs}, found \in Devs \cup {NoDev} :
        Search("program", WithId(id), NoDev, found) /\ Give(NoDev, found)

OsPciFindFirstDeviceByClass ==
    \E c \in {ClassOf[d] : d \in Devs}, found \in Devs \cup {NoDev} :
        Search("program", WithClass(c), NoDev, found) /\ Give(NoDev, found)

(* The handle the program goes on from is no longer its own.  An enumeration
   keeps to the way in which it was begun. *)
GoOn(S) ==
    LET d == cursor["program"]
    IN  /\ d # NoDev /\ S = sought["program"]
        /\ \E found \in Devs \cup {NoDev} : Search("program", S, d, found) /\ Give(d, found)

OsPciFindNextDevice ==
    cursor["program"] # NoDev /\ GoOn(WithId(IdOf[cursor["program"]]))

OsPciFindNextDeviceByClass ==
    cursor["program"] # NoDev /\ GoOn(WithClass(ClassOf[cursor["program"]]))

(* A handle by its address leaves the enumeration alone.  devfn is taken from
   the slot number by a shift and a mask. *)
SlotNumber(p) == p[1] * 65536 + (p[2] % 32) * 2048 + (p[3] % 8) * 256

OsPciGetSlotAddress(d) == PlaceOf[d][1] * 65536 + (PlaceOf[d][2] * 8 + PlaceOf[d][3]) * 256

OsPciDeviceFromSlot(slot, found) ==
    /\ found = LET S == {d \in Plugged : /\ PlaceOf[d][1] = slot \div 65536
                                         /\ PlaceOf[d][2] * 8 + PlaceOf[d][3]
                                              = (slot \div 256) % 256}
               IN  IF S = {} THEN NoDev ELSE CHOOSE d \in S : TRUE
    /\ Hold(NoDev, found)
    /\ Give(NoDev, found)
    /\ UNCHANGED <<busVars, enumVars>>

OsPciDeviceFromAddress ==
    \E p \in {PlaceOf[d] : d \in Devs}, found \in Devs \cup {NoDev} :
        OsPciDeviceFromSlot(SlotNumber(p), found)

OsPciGetInterrupt(d) == IF Freed(d) THEN NoIrq ELSE IrqOf[d]

(* The handle is given up; its reference stays. *)
OsPciFreeDevice(d) ==
    /\ handles[d] > 0
    /\ handles' = Moved(handles, d, NoDev)
    /\ forgotten' = [forgotten EXCEPT ![d] = @ + 1]
    /\ cursor' = [cursor EXCEPT !["program"] = IF @ = d THEN NoDev ELSE @]
    /\ UNCHANGED <<busVars, refs, sought, seen, present, ended, strayed, enabled>>

-----------------------------------------------------------------------------
(* os_pci_enable_device, in another task: find_first, and then enable and
   find_next until there is no more. *)
EnableFirst ==
    /\ cursor["enable"] = NoDev
    /\ \E id \in {IdOf[d] : d \in Devs}, found \in Devs \cup {NoDev} :
          Search("enable", WithId(id), NoDev, found)
    /\ enabled' = {}
    /\ UNCHANGED <<handles, forgotten>>

EnableNext ==
    LET d == cursor["enable"]
    IN  /\ d # NoDev
        /\ \E found \in Devs \cup {NoDev} : Search("enable", WithId(IdOf[d]), d, found)
        /\ enabled' = enabled \cup {d}
        /\ UNCHANGED <<handles, forgotten>>

Next ==
    \/ \E d \in Devs : Plug(d) \/ Unplug(d) \/ OsPciFreeDevice(d)
    \/ OsPciFindFirstDevice \/ OsPciFindFirstDeviceByClass
    \/ OsPciFindNextDevice \/ OsPciFindNextDeviceByClass
    \/ OsPciDeviceFromAddress
    \/ EnableFirst \/ EnableNext

-----------------------------------------------------------------------------
(* A handle the program has, and the device os_pci_enable_device's loop is at, are
   not freed by Linux, whatever was unplugged, these devices included: each has a
   reference of its own, so that what is read through a handle, its interrupt for
   one, is the device's, and the loop goes on with the id of the device it has just
   enabled. *)
HandlesAreAlive ==
    /\ \A d \in Devs : handles[d] > 0 => OsPciGetInterrupt(d) = IrqOf[d]
    /\ \A a \in Tasks : cursor[a] # NoDev => ~Freed(cursor[a])

(* include/osal_pci.h, of the searches' OSAL_NOT_FOUND, "No more matching PCI
   devices", and of os_pci_enable_device's OSAL_SUCCESS, "PCI device found and
   enabled": each device that was there all along has been reached, unless Linux
   found no more because the device the search stood at had been removed. *)
EnumerationComplete ==
    \A a \in Tasks : ended[a] => /\ ~strayed[a] => present[a] \subseteq seen[a]
                                 /\ a = "enable" => seen[a] \subseteq enabled

(* A search returns what was asked for: with this class in all its parts. *)
FoundMatches ==
    \A a \in Tasks : \A d, e \in seen[a] : IdOf[d] = IdOf[e] \/ ClassOf[d] = ClassOf[e]
=============================================================================
