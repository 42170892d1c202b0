------------------------------- MODULE MCLibrary -------------------------------
(***************************************************************************)
(* The components that share no state and wait for nobody, side by side:   *)
(* an execution is of one of them, the part, with small sets of devices,   *)
(* accesses, nodes, addresses, times and messages.                         *)
(***************************************************************************)
EXTENDS Integers, Sequences, TLC

CONSTANTS
    \* OsalPciUser
    Slots, Kinds, NoKind, IrqOf,
    \* OsalPciKernel
    Devs, NoDev, MaxHandles, PlaceOf, LineOf, NoIrq, IdOf, ClassOf,
    \* OsalPciConfig
    Offsets, UnsignedLong,
    \* OsalList
    Nodes, Head0, Poison,
    \* OsalMemmap
    Page, Word, Low, Bases, Sizes, BarOf, MaxRegions,
    \* OsalClock
    ClockWord, Wide, Kilo, Hz, Epoch, FirstTick, Starts, Steps, Times, MaxBegin, MaxTime,
    \* OsalTrace
    Tracers, LevelOf, Debugs

(* A PCI slot is a bus, a device of it and a function of that; a device has a
   class, a subclass and a programming interface of a byte each.  The head of a
   list is no node, and trace_init is given one of the levels. *)
ASSUME SlotsAssumption == Slots \subseteq (0..255) \X (0..31) \X (0..7)
ASSUME KindsAssumption == Kinds # {} /\ NoKind \notin Kinds
ASSUME NoDevAssumption == NoDev \notin Devs
ASSUME ClassOfAssumption == ClassOf \in [Devs -> (0..255) \X (0..255) \X (0..255)]
ASSUME OffsetsAssumption == Offsets \subseteq Nat /\ UnsignedLong \in Nat
ASSUME HeadAssumption == Head0 \notin Nodes
ASSUME LevelOfAssumption == LevelOf \in [Tracers -> 0..3]

VARIABLES
    part,
    \* OsalPciUser
    device, listing, pc, by, key, after, lines, pci_dev, result, irq, wanted, found,
    matching, disturbed,
    \* OsalPciKernel
    listed, gone, refs, handles, forgotten, cursor, sought, seen, present, ended, strayed,
    enabled,
    \* OsalPciConfig
    config, there, shown, cpc, access, files, val, cresult, before, swapped,
    \* OsalList
    poisons, next, last, walk, entry, n, members, due, visited, again,
    \* OsalMemmap
    where, cards, use_rambo, table, regions,
    \* OsalClock
    uptime, wall, doing, kernel, user, time, began, set, slept,
    \* OsalTrace
    parms, priority, tpc, read, message, osal_debug, used, mixed, logged

pciUserVars == <<device, listing, pc, by, key, after, lines, pci_dev, result, irq, wanted,
                 found, matching, disturbed>>
pciKernelVars == <<listed, gone, refs, handles, forgotten, cursor, sought, seen, present,
                   ended, strayed, enabled>>
configVars == <<config, there, shown, cpc, access, files, val, cresult, before, swapped>>
listVars == <<poisons, next, last, walk, entry, n, members, due, visited, again>>
mapVars == <<where, cards, use_rambo, table, regions>>
clockVars == <<uptime, wall, doing, kernel, user, time, began, set, slept>>
traceVars == <<parms, priority, tpc, read, message, osal_debug, used, mixed, logged>>
vars == <<part, pciUserVars, pciKernelVars, configVars, listVars, mapVars, clockVars,
          traceVars>>

-----------------------------------------------------------------------------
PciUser == INSTANCE OsalPciUser

PciKernel == INSTANCE OsalPciKernel WITH IrqOf <- LineOf

Config == INSTANCE OsalPciConfig

(* The processor is one whose compiler lays os_pci_dev_header_t out as the device
   does its registers: it is where an unsigned long has 32 bits. *)
ASSUME LayoutAssumption == Config!HeaderIsLaidOut

List == INSTANCE OsalList

Memmap == INSTANCE OsalMemmap

(* A word is a whole number of pages, in both of its halves; addresses are words, as
   are lengths when they have been rounded up; and bars begin with a page. *)
ASSUME PageAssumption ==
    /\ Page \in Nat \ {0} /\ Word \in Nat \ {0} /\ Word % (2 * Page) = 0
    /\ Bases \subseteq 0..(Word - 1) /\ Sizes \subseteq 1..(Word - 2 * Page)
    /\ BarOf \in [{"hdmi", "gateway", "rambo", "rambo2", "front", "host"} -> 0..(Word - 1)]
    /\ \A card \in DOMAIN BarOf : BarOf[card] % Page = 0

Clock == INSTANCE OsalClock WITH Word <- ClockWord

(* A tick is a whole number of microseconds.  A board whose clock has no battery
   begins in 1970. *)
ASSUME TickAssumption ==
    /\ {ClockWord, Wide, Kilo, Hz, Clock!Tick} \subseteq Nat \ {0}
    /\ Clock!Second = Hz * Clock!Tick
    /\ {Epoch, FirstTick, MaxBegin, MaxTime} \subseteq Nat
    /\ 0 \in Starts /\ Starts \subseteq Nat /\ Steps \subseteq Int /\ Times \subseteq Nat

(* The microseconds of a system's time are below 2^64, with the longest alarm; and
   those of one that does not know the year do not come to 2002. *)
ASSUME WideAssumption ==
    \A s \in Starts :
        /\ s * Clock!Second + MaxTime + ClockWord <= Wide
        /\ s >= Epoch \/ s * Clock!Second + MaxTime + ClockWord <= Epoch * Clock!Second
ASSUME EpochAssumption == Epoch * Clock!Second <= Wide

Trace == INSTANCE OsalTrace

-----------------------------------------------------------------------------
Parts == {"pci_user", "pci_kernel", "config", "list", "memmap", "clock", "trace"}

NoConfig ==
    /\ config = <<>> /\ before = <<>> /\ there = FALSE /\ swapped = FALSE /\ shown = 0
    /\ cpc = "idle" /\ access = <<>> /\ files = 0 /\ val = <<>> /\ cresult = "none"

(* What a part may begin with in more than one way is fixed in the others. *)
Init ==
    /\ part \in Parts
    /\ PciUser!Init
    /\ PciKernel!Init
    /\ IF part = "config" THEN Config!Init ELSE NoConfig
    /\ List!Init /\ (part = "list" \/ ~poisons)
    /\ Memmap!Init /\ (part = "memmap" \/ (where = "kernel" /\ ~use_rambo /\ cards = {}))
    /\ Clock!Init /\ (part = "clock" \/ wall = 0)
    /\ Trace!Init /\ (part = "trace" \/ osal_debug = 0)

PciUserFrame ==
    /\ part = "pci_user"
    /\ UNCHANGED <<part, pciKernelVars, configVars, listVars, mapVars, clockVars, traceVars>>
PciKernelFrame ==
    /\ part = "pci_kernel"
    /\ UNCHANGED <<part, pciUserVars, configVars, listVars, mapVars, clockVars, traceVars>>
ConfigFrame ==
    /\ part = "config"
    /\ UNCHANGED <<part, pciUserVars, pciKernelVars, listVars, mapVars, clockVars, traceVars>>
ListFrame ==
    /\ part = "list"
    /\ UNCHANGED <<part, pciUserVars, pciKernelVars, configVars, mapVars, clockVars, traceVars>>
MemmapFrame ==
    /\ part = "memmap"
    /\ UNCHANGED <<part, pciUserVars, pciKernelVars, configVars, listVars, clockVars, traceVars>>
ClockFrame ==
    /\ part = "clock"
    /\ UNCHANGED <<part, pciUserVars, pciKernelVars, configVars, listVars, mapVars, traceVars>>
TraceFrame ==
    /\ part = "trace"
    /\ UNCHANGED <<part, pciUserVars, pciKernelVars, configVars, listVars, mapVars, clockVars>>

(* The part is tested first. *)
Next ==
    \/ part = "pci_user" /\ PciUser!Next /\ PciUserFrame
    \/ part = "pci_kernel" /\ PciKernel!Next /\ PciKernelFrame
    \/ part = "config" /\ Config!Next /\ ConfigFrame
    \/ part = "list" /\ List!Next /\ ListFrame
    \/ part = "memmap" /\ Memmap!Next /\ MemmapFrame
    \/ part = "clock" /\ Clock!Next /\ ClockFrame
    \/ part = "trace" /\ Trace!Next /\ TraceFrame

Spec == Init /\ [][Next]_vars

-----------------------------------------------------------------------------
(* A search of PCI devices that says there are no more has returned every device
   of the kind that was there all along, and returns no others, in user space and
   in the kernel, whose os_pci_enable_device has been at each of them; but where a
   device goes away that a search stands at. *)
EnumerationExact ==
    /\ PciUser!EnumerationComplete /\ PciUser!FoundMatches
    /\ PciKernel!EnumerationComplete /\ PciKernel!FoundMatches

(* No handle, and not the loop of os_pci_enable_device, is left with a struct pci_dev
   that Linux has freed, whichever devices go away. *)
HandlesAreAlive == PciKernel!HandlesAreAlive

(* Configuration space is read and written exactly where it was asked for, and a
   header that is read is laid out like the registers. *)
ConfigAccessExact ==
    part = "config" => Config!ConfigAccessExact /\ Config!HeaderMatchesRegisters

(* The list is what was added and not deleted, and loops are at each of its nodes. *)
ListIsWalked == List!ListIsWalked

(* Mapped memory leads to the device's, byte for byte, until it is unmapped. *)
MappingsExact == Memmap!MappingsExact

(* Elapsed times are those that have elapsed, alarms expire when they are said to,
   and a sleep is as long as its side's _OS_SLEEP takes its argument to mean. *)
TimesAreRight == Clock!ElapsedIsRight /\ Clock!AlarmsAreOnTime /\ Clock!SleepsAreOnTime

(* Trace messages are filtered by their subsystem's level and carry its severity. *)
SeverityFromUse == Trace!SeverityFromUse

-----------------------------------------------------------------------------
(* Three slots, on two devices of one bus and on a second bus. *)
MCPlaceOf == <<<<0, 1, 0>>, <<0, 2, 1>>, <<1, 0, 0>>>>
MCSlots == {MCPlaceOf[i] : i \in 1..3}
MCIrqOf == [s \in MCSlots |-> 10 + s[1]]

(* Two of three devices have the same id, and another two the same class; all
   have the same base class. *)
MCLineOf == <<17, 18, 19>>
MCIdOf == <<"a", "b", "a">>
MCClassOf == <<<<1, 2, 0>>, <<1, 3, 0>>, <<1, 3, 0>>>>

(* Accesses at the end of what is shown, across the end of the file, where only
   16 bits are aligned, and behind it. *)
MCOffsets == {60, 254, 257}

(* Sixteen pages of four bytes; addresses at the start of a page and inside one,
   below Low and above it. *)
MCBases == {2, 8, 33}
MCSizes == {1, 4, 7}
MCBarOf == "hdmi" :> 16 @@ "rambo" :> 24 @@ "rambo2" :> 24 @@ "host" :> 32
           @@ "front" :> 16 @@ "gateway" :> 16

(* Four microseconds to the millisecond, four milliseconds to the second and two
   ticks; the ticks are about to wrap. *)
MCStarts == {0, 41}
MCSteps == {1, -1}
MCTimes == {1, 3, 5}

MCLevelOf == <<1, 2>>
=============================================================================
