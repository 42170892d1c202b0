---------------------------- MODULE OsalPciConfig ----------------------------
(***************************************************************************)
(* The configuration space accesses of user space and the kernel.  In the  *)
(* kernel they are Linux's.  Those of linux_user/src/osal_pci.c: each      *)
(* opens the device's file under /proc/bus/pci, seeks, reads or writes     *)
(* once, and closes it on each way out; the device may go away, or another *)
(* one take its place, in between.  And the layout of the structure that   *)
(* os_pci_read_config_header fills with 256 bytes in one read.             *)
(*                                                                         *)
(* From Linux (not under src/): a seek past the 256 bytes of the file      *)
(* fails; a read ends where the part that is shown ends, the first 64      *)
(* bytes for an ordinary user, and a write where the file ends.  The       *)
(* processor is little-endian.  The kernel's accessors take a lock, refuse *)
(* an offset that is not aligned, and read all ones where no device is.    *)
(***************************************************************************)
EXTENDS Integers, SequencesExt

CONSTANTS
    Offsets,        \* the offsets that the program passes
    UnsignedLong    \* the bytes of an unsigned long

Length == 256
Written == 0                                    \* what each byte is that is written
Junk == -1                                      \* what has not been written
Fresh == [i \in 0..(Length - 1) |-> i]          \* the space of a new device

VARIABLES
    config,     \* the configuration space of the device in the slot
    there,      \* there is a device
    shown,      \* how much of it this program may read
    cpc,        \* where the program is: "idle", "open", "seek", "transfer"
    access,     \* its call: what it is, the offset, the bytes
    files,      \* the descriptors it has open
    val,        \* what the call has stored for its caller, if anything
    cresult,    \* what it has returned
    \* history
    before,     \* the configuration space when the file was opened
    swapped     \* the device has gone away since

configVars == <<config, there, shown, cpc, access, files, val, cresult, before, swapped>>

Accesses == [op : {"read", "write", "header"}, offset : Offsets \cup {0}, width : {1, 2, 4, Length}]

TypeOK ==
    /\ config \in [0..(Length - 1) -> 0..(Length - 1)]
    /\ there \in BOOLEAN /\ swapped \in BOOLEAN
    /\ shown \in {64, Length}
    /\ cpc \in {"idle", "open", "seek", "transfer"}
    /\ access \in Accesses
    /\ files = (IF cpc \in {"seek", "transfer"} THEN 1 ELSE 0)
    /\ val \in Seq(Junk..(Length - 1))
    /\ cresult \in {"none", "OSAL_SUCCESS", "OSAL_ERROR", "OSAL_NOT_FOUND",
                    "OSAL_INVALID_HANDLE", "OSAL_INVALID_PARAM",
                    "PCIBIOS_BAD_REGISTER_NUMBER"}

Init ==
    /\ config = Fresh /\ there = TRUE /\ before = config /\ swapped = FALSE
    /\ shown \in {64, Length}
    /\ cpc = "idle" /\ access = [op |-> "read", offset |-> 0, width |-> 1]
    /\ files = 0 /\ val = <<>> /\ cresult = "none"

(* n bytes of the space. *)
Bytes(space, offset, n) == [i \in 1..n |-> space[offset + i - 1]]

-----------------------------------------------------------------------------
(* The slot *)
Unplug ==
    /\ there /\ there' = FALSE
    /\ swapped' = TRUE
    /\ UNCHANGED <<config, shown, cpc, access, files, val, cresult, before>>

Plug ==
    /\ ~there /\ there' = TRUE
    /\ config' = Fresh /\ before' = Fresh
    /\ UNCHANGED <<shown, cpc, access, files, val, cresult, swapped>>

-----------------------------------------------------------------------------
(* A call: the arguments that may be NULL are looked at, in order. *)
Call(a, null) ==
    /\ cpc = "idle"
    /\ access' = a /\ val' = <<>>
    /\ before' = config /\ swapped' = FALSE
    /\ \/ null = "none" /\ cpc' = "open" /\ cresult' = "none"
       \/ null = "pci_dev" /\ cpc' = "idle" /\ cresult' = "OSAL_INVALID_HANDLE"
       \/ /\ null = "val" /\ cpc' = "idle"
          /\ cresult' = IF a.op = "header" THEN "OSAL_INVALID_HANDLE" ELSE "OSAL_INVALID_PARAM"
    /\ UNCHANGED <<config, there, shown, files>>

ReadConfig(w) ==
    \E o \in Offsets, null \in {"none", "pci_dev", "val"} :
        Call([op |-> "read", offset |-> o, width |-> w], null)

WriteConfig(w) ==
    \E o \in Offsets, null \in {"none", "pci_dev"} :
        Call([op |-> "write", offset |-> o, width |-> w], null)

OsPciReadConfig8 == ReadConfig(1)
OsPciReadConfig16 == ReadConfig(2)
OsPciReadConfig32 == ReadConfig(4)
OsPciWriteConfig8 == WriteConfig(1)
OsPciWriteConfig16 == WriteConfig(2)
OsPciWriteConfig32 == WriteConfig(4)
OsPciReadConfigHeader ==
    \E null \in {"none", "pci_dev", "val"} :
        Call([op |-> "header", offset |-> 0, width |-> Length], null)

Return(r) == cpc' = "idle" /\ cresult' = r

(* open fails without a device, and for want of a right or a descriptor.  The
   header is read from the start of the file. *)
OpenConfig ==
    /\ cpc = "open"
    /\ \/ /\ there
          /\ files' = files + 1 /\ UNCHANGED cresult
          /\ cpc' = IF access.op = "header" THEN "transfer" ELSE "seek"
          /\ before' = config /\ swapped' = FALSE
       \/ Return("OSAL_NOT_FOUND") /\ UNCHANGED <<files, before, swapped>>
    /\ UNCHANGED <<config, there, shown, access, val>>

SeekConfig ==
    /\ cpc = "seek"
    /\ IF access.offset <= Length
       THEN cpc' = "transfer" /\ UNCHANGED <<cresult, files>>
       ELSE Return("OSAL_ERROR") /\ files' = files - 1
    /\ UNCHANGED <<config, there, shown, access, val, before, swapped>>

(* How many bytes one read or write moves, where limit is the end.  Nothing moves
   to or from a device that is gone since the file was opened. *)
Moved(limit) ==
    IF swapped \/ access.offset >= limit THEN 0
    ELSE IF access.offset + access.width > limit THEN limit - access.offset
    ELSE access.width

(* The local variable that 16 and 32 bits are read into is an unsigned long, of
   which read fills the first bytes. *)
Hosemonky(n) ==
    [i \in 1..(IF UnsignedLong > n THEN UnsignedLong ELSE n) |->
        IF i <= n THEN config[access.offset + i - 1] ELSE Junk]

(* Mutated: the local variable is handed on as it is. *)
ReadTransferWhole ==
    /\ cpc = "transfer" /\ access.op # "write"
    /\ IF Moved(shown) = access.width
       THEN val' = Hosemonky(access.width) /\ Return("OSAL_SUCCESS")
       ELSE Return("OSAL_ERROR") /\ UNCHANGED val
    /\ files' = files - 1
    /\ UNCHANGED <<config, there, shown, access, before, swapped>>

(* read, close, and the cast to what the caller asked for; or less was read than
   that, and close.  A header is read into the caller's structure. *)
ReadTransfer ==
    /\ cpc = "transfer" /\ access.op # "write"
    /\ IF Moved(shown) = access.width
       THEN val' = SubSeq(Hosemonky(access.width), 1, access.width) /\ Return("OSAL_SUCCESS")
       ELSE /\ Return("OSAL_ERROR")
            /\ val' = IF access.op = "header" THEN Bytes(config, 0, Moved(shown)) ELSE val
    /\ files' = files - 1
    /\ UNCHANGED <<config, there, shown, access, before, swapped>>

WriteTransfer ==
    /\ cpc = "transfer" /\ access.op = "write"
    /\ config' = [i \in 0..(Length - 1) |->
                     IF i \in access.offset..(access.offset + Moved(Length) - 1)
                     THEN Written ELSE config[i]]
    /\ Return(IF Moved(Length) = access.width THEN "OSAL_SUCCESS" ELSE "OSAL_ERROR")
    /\ files' = files - 1
    /\ UNCHANGED <<there, shown, access, val, before, swapped>>

-----------------------------------------------------------------------------
(* The kernel's calls, which hand on what Linux returns: 0, which is
   OSAL_SUCCESS, or a code of Linux's own. *)

KernelCall(op, w) ==
    /\ cpc = "idle"
    /\ \E o \in Offsets \cap (0..(Length - 1)) : access' = [op |-> op, offset |-> o, width |-> w]
    /\ before' = config /\ swapped' = ~there
    /\ cresult' = IF access'.offset % w = 0 THEN "OSAL_SUCCESS" ELSE "PCIBIOS_BAD_REGISTER_NUMBER"
    /\ UNCHANGED <<there, shown, cpc, files>>

KernelRead(w) ==
    /\ KernelCall("read", w)
    /\ val' = IF access'.offset % w # 0 THEN <<>>
              ELSE IF there THEN Bytes(config, access'.offset, w)
              ELSE [i \in 1..w |-> Length - 1]
    /\ UNCHANGED config

KernelWrite(w) ==
    /\ KernelCall("write", w)
    /\ val' = <<>>
    /\ config' = [i \in 0..(Length - 1) |->
                     IF /\ there /\ access'.offset % w = 0
                        /\ i \in access'.offset..(access'.offset + w - 1)
                     THEN Written ELSE config[i]]

KernelReadConfig8 == KernelRead(1)
KernelReadConfig16 == KernelRead(2)
KernelReadConfig32 == KernelRead(4)
KernelWriteConfig8 == KernelWrite(1)
KernelWriteConfig16 == KernelWrite(2)
KernelWriteConfig32 == KernelWrite(4)

Next ==
    \/ KernelReadConfig8 \/ KernelReadConfig16 \/ KernelReadConfig32
    \/ KernelWriteConfig8 \/ KernelWriteConfig16 \/ KernelWriteConfig32
    \/ Unplug \/ Plug
    \/ OsPciReadConfig8 \/ OsPciReadConfig16 \/ OsPciReadConfig32
    \/ OsPciWriteConfig8 \/ OsPciWriteConfig16 \/ OsPciWriteConfig32
    \/ OsPciReadConfigHeader
    \/ OpenConfig \/ SeekConfig \/ ReadTransfer \/ WriteTransfer

-----------------------------------------------------------------------------
(* os_pci_dev_header_t: the members as <<name, size, how many>>, those of one
   size that have no register of their own together. *)

Common == <<
    <<"OS_PCI_VENDOR_ID", 2, 1>>, <<"OS_PCI_DEVICE_ID", 2, 1>>, <<"OS_PCI_COMMAND", 2, 1>>,
    <<"OS_PCI_STATUS", 2, 1>>, <<"OS_PCI_REVISION_ID", 1, 1>>, <<"OS_PCI_CLASS_PROG", 1, 1>>,
    <<"OS_PCI_CLASS_DEVICE", 1, 2>>, <<"OS_PCI_CACHE_LINE_SIZE", 1, 1>>,
    <<"OS_PCI_LATENCY_TIMER", 1, 1>>, <<"OS_PCI_HEADER_TYPE", 1, 1>>, <<"OS_PCI_BIST", 1, 1>> >>

Interrupt == << <<"OS_PCI_INTERRUPT_LINE", 1, 1>>, <<"OS_PCI_INTERRUPT_PIN", 1, 1>> >>

Long == UnsignedLong

Type0 == << <<"OS_PCI_BASE_ADDRESS_0", Long, 1>>, <<"OS_PCI_BASE_ADDRESS_1", Long, 1>>,
            <<"base_addresses", Long, 4>>, <<"cis", Long, 1>>, <<"sub_vendor_id", 2, 2>>,
            <<"rom_base_address", Long, 3>> >>
         \o Interrupt \o << <<"minimum_grant", 1, 2>> >>

Type1 == << <<"OS_PCI_BASE_ADDRESS_0", Long, 1>>, <<"OS_PCI_BASE_ADDRESS_1", Long, 1>>,
            <<"primary_bus_number", 1, 6>>, <<"secondary_status", 2, 5>>,
            <<"prefetchable_memory_base_upper32", Long, 2>>, <<"io_base_upper", 2, 2>>,
            <<"reserved2", Long, 2>> >>
         \o Interrupt \o << <<"bridge_control", 2, 1>> >>

Type2 == << <<"OS_PCI_BASE_ADDRESS_0", Long, 1>>, <<"capabilities_ptr", 1, 2>>,
            <<"secondary_status", 2, 1>>, <<"primary_bus_number", 1, 4>>,
            <<"memory_base0", Long, 4>>, <<"io_base0_lo", 2, 8>> >>
         \o Interrupt
         \o << <<"bridge_control", 2, 3>>, <<"legacy_base_address", Long, 1>>,
               <<"reserved3", 1, 56>>, <<"system_control", Long, 1>>,
               <<"multi_media_control", 1, 8>>, <<"irq_mux_routing", Long, 1>>,
               <<"retry_status", 1, 4>> >>

Align(n, size) == ((n + size - 1) \div size) * size

(* The end of a sequence of members that starts at an offset. *)
End(members, offset) ==
    FoldLeft(LAMBDA at, m : Align(at, m[2]) + m[2] * m[3], offset, members)

UnionAt == Align(End(Common, 0), Long)
UnionEnd == CHOOSE e \in {Align(End(t, UnionAt), Long) : t \in {Type0, Type1, Type2}} :
                \A t \in {Type0, Type1, Type2} : End(t, UnionAt) <= e
SizeOfHeader == Align(UnionEnd + 108, Long)     \* behind the union: device_specific

(* The macros of include/osal_pci.h. *)
Register ==
    [OS_PCI_VENDOR_ID |-> 0, OS_PCI_DEVICE_ID |-> 2, OS_PCI_COMMAND |-> 4, OS_PCI_STATUS |-> 6,
     OS_PCI_REVISION_ID |-> 8, OS_PCI_CLASS_PROG |-> 9, OS_PCI_CLASS_DEVICE |-> 10,
     OS_PCI_CACHE_LINE_SIZE |-> 12, OS_PCI_LATENCY_TIMER |-> 13, OS_PCI_HEADER_TYPE |-> 14,
     OS_PCI_BIST |-> 15, OS_PCI_BASE_ADDRESS_0 |-> 16, OS_PCI_BASE_ADDRESS_1 |-> 20,
     OS_PCI_INTERRUPT_LINE |-> 60, OS_PCI_INTERRUPT_PIN |-> 61]

Headers == {Common \o t : t \in {Type0, Type1, Type2}}

(* Where the i-th member is and how long, and which of them are registers. *)
At(members, i) == Align(End(SubSeq(members, 1, i - 1), 0), members[i][2])
Width(members, i) == members[i][2] * members[i][3]
Registers(members) == {i \in DOMAIN members : members[i][1] \in DOMAIN Register}

(* The compiler puts the members where the macros say that the registers are. *)
HeaderIsLaidOut ==
    /\ SizeOfHeader = Length
    /\ \A members \in Headers : \A i \in Registers(members) :
          /\ At(members, i) = Register[members[i][1]]
          /\ At(members, i) \in 0..Length
          /\ Width(members, i) \in 0..(Length - At(members, i))

-----------------------------------------------------------------------------
Ours == {access.offset + i - 1 : i \in 1..access.width} \cap (0..(Length - 1))

(* include/osal_pci.h, "Config space read successful" and "write successful": all
   bytes that were asked for, and no others, have been read from or written to
   the device that was there, at their offset.  A call that fails may have
   written some of its bytes, touches no other, and stores nothing, if it is not
   for the header. *)
ConfigAccessExact ==
    cpc = "idle" /\ ~swapped =>
        /\ \A i \in 0..(Length - 1) : config[i] # before[i] => access.op = "write" /\ i \in Ours
        /\ cresult = "OSAL_SUCCESS" =>
              IF access.op = "write" THEN \A i \in Ours : config[i] = Written
              ELSE val = Bytes(config, access.offset, access.width)
        /\ cresult # "OSAL_SUCCESS" /\ access.op # "header" => val = <<>>

(* The 256 bytes that a header is read into are the structure's, and each member
   of it that has a register's macro is what a read of that register gives, for
   each of the three kinds of header. *)
HeaderMatchesRegisters ==
    cpc = "idle" /\ ~swapped /\ access.op = "header" /\ cresult = "OSAL_SUCCESS" =>
        /\ SizeOfHeader = Len(val)
        /\ \A members \in Headers : \A i \in Registers(members) :
              SubSeq(val, At(members, i) + 1, At(members, i) + Width(members, i))
                = Bytes(config, Register[members[i][1]], Width(members, i))
=============================================================================
