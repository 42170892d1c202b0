------------------------------ MODULE OsalMemmap ------------------------------
(***************************************************************************)
(* Device memory, mapped and unmapped by raw/memmap.c.  A base address is  *)
(* rounded down to a page, the mapping made that much longer, and the rest *)
(* added to its address; user space's unmap takes the address apart again. *)
(* Before there was silicon, low addresses are moved into the bar of the   *)
(* first card found of a list.                                             *)
(*                                                                         *)
(* From Linux (not under src/): mmap and ioremap map whole pages, at a     *)
(* free place of theirs, or fail; munmap unmaps the pages of a range and   *)
(* iounmap the whole mapping that an address is in.                        *)
(***************************************************************************)
EXTENDS Integers, Sequences, FiniteSets

CONSTANTS
    Page,       \* getpagesize(), PAGE_SIZE
    Word,       \* an unsigned long is below it
    Low,        \* 0x20000000
    Bases,      \* the base addresses and
    Sizes,      \* the sizes that are asked for
    BarOf,      \* what is in the bar that is read of each card
    MaxRegions  \* bound: as many mappings at a time

VARIABLES
    where,      \* "kernel" or "user"
    cards,      \* the cards that pci_find_device finds
    use_rambo,  \* g_use_rambo_backdoor
    table,      \* the page table: the physical page of a page, or Unmapped
    regions     \* what the program has been given and not unmapped

mapVars == <<where, cards, use_rambo, table, regions>>

Unmapped == -1
Places == 1..(Word \div Page - 1)   \* no mapping is at address 0

TypeOK ==
    /\ where \in {"kernel", "user"} /\ use_rambo \in BOOLEAN
    /\ cards \subseteq DOMAIN BarOf
    /\ table \in [Places -> 0..(Word \div Page - 1) \cup {Unmapped}]
    /\ \A r \in regions : r.virt \in 1..(Word - 1) /\ r.base \in Bases /\ r.size \in Sizes

Init ==
    /\ where \in {"kernel", "user"} /\ use_rambo \in BOOLEAN
    /\ cards \in {{}, {"rambo", "host"}, {"hdmi"}}
    /\ table = [p \in Places |-> Unmapped]
    /\ regions = {}

-----------------------------------------------------------------------------
(* An unsigned long in an int, which has its width, and back. *)
ToInt(x) == IF x < Word \div 2 THEN x ELSE x - Word
ToUnsigned(i) == i % Word

Pages(length) == (length + Page - 1) \div Page

(* mmap and ioremap: the mapping is at any place where it fits *)
Fits(place, count) ==
    \A p \in place..(place + count - 1) : p \in Places /\ table[p] = Unmapped

Enter(place, frame, count) ==
    table' = [p \in Places |-> IF p \in place..(place + count - 1)
                               THEN (frame + p - place) % (Word \div Page) ELSE table[p]]

Region(virt, base, size, shift, count) ==
    [virt |-> virt, base |-> base, size |-> size, shift |-> shift, pages |-> count]

Clear(pages) == table' = [p \in Places |-> IF p \in pages THEN Unmapped ELSE table[p]]

(* A base address, its page, and what the mapping must be longer by. *)
PgAligned(base) == (base \div Page) * Page
Offset(base) == base - PgAligned(base)

Map(base, size, shift) ==
    LET count == Pages(size + Offset(base))
    IN  \E place \in Places :
            /\ Fits(place, count)
            /\ Enter(place, ((PgAligned(base) + shift) % Word) \div Page, count)
            /\ regions' = regions \cup
                   {Region(place * Page + Offset(base), base, size, shift, count)}

-----------------------------------------------------------------------------
(* The cached mapping of user space keeps the aligned base and the offset in
   ints; or open or mmap fails, and the result is NULL. *)
OsMapIoToMemCache(base, size) ==
    LET aligned == ToInt(PgAligned(base))
        offset == ToInt((base - aligned) % Word)
        count == Pages(size + offset)
    IN  /\ where = "user"
        /\ \/ \E place \in Places :
                  /\ Fits(place, count)
                  /\ Enter(place, ToUnsigned(aligned) \div Page, count)
                  /\ regions' = regions \cup
                         {Region(place * Page + offset, base, size, 0, count)}
           \/ UNCHANGED <<table, regions>>

(* The card whose bar is added, if there is one: the first of the list that is found. *)
First(list) ==
    {list[i] : i \in {j \in DOMAIN list : /\ list[j] \in cards
                                        /\ \A k \in 1..(j - 1) : list[k] \notin cards}}

UserCard ==
    First(<<"hdmi", "gateway">> \o (IF use_rambo THEN <<"rambo", "rambo2">> ELSE <<>>)
          \o <<"front", "host">>)

KernelCard == First(<<"hdmi", "rambo", "rambo2", "host">>)

(* Nothing is added if the card's configuration space cannot be read. *)
Shifts(base, found) ==
    {0} \cup IF PgAligned(base) <= Low THEN {BarOf[card] : card \in found} ELSE {}

OsMapIoToMemNocache(base, size) ==
    /\ where = "user"
    /\ \/ \E shift \in Shifts(base, UserCard) : Map(base, size, shift)
       \/ UNCHANGED <<table, regions>>

(* ioremap's NULL is not looked at: the offset is added to it. *)
KernelMapNocache(base, size) ==
    /\ where = "kernel"
    /\ \E shift \in Shifts(base, KernelCard) :
          \/ Map(base, size, shift)
          \/ /\ regions' = regions \cup
                   (IF Offset(base) = 0 THEN {} ELSE {Region(Offset(base), base, size, shift, 0)})
             /\ UNCHANGED table

(* Mutated: the length is not corrected by the offset. *)
OsUnmapIoFromMemShort(r) ==
    LET aligned == ToInt(PgAligned(r.virt))
    IN  /\ where = "user"
        /\ Clear((ToUnsigned(aligned) \div Page)
                 ..(ToUnsigned(aligned) \div Page + Pages(r.size) - 1))
        /\ regions' = regions \ {r}

OsUnmapIoFromMem(r) ==
    LET aligned == ToInt(PgAligned(r.virt))
        offset == ToInt((r.virt - aligned) % Word)
    IN  /\ where = "user"
        /\ Clear((ToUnsigned(aligned) \div Page)
                 ..(ToUnsigned(aligned) \div Page + Pages(r.size + offset) - 1))
        /\ regions' = regions \ {r}

(* iounmap refuses what is not one of its mappings. *)
KernelUnmap(r) ==
    /\ where = "kernel"
    /\ Clear((r.virt \div Page)..(r.virt \div Page + r.pages - 1))
    /\ regions' = regions \ {r}

Next ==
    /\ \/ /\ Cardinality(regions) < MaxRegions
          /\ \E base \in Bases, size \in Sizes :
                \/ OsMapIoToMemCache(base, size)
                \/ OsMapIoToMemNocache(base, size)
                \/ KernelMapNocache(base, size)
       \/ \E r \in regions : OsUnmapIoFromMem(r) \/ KernelUnmap(r)
    /\ UNCHANGED <<where, cards, use_rambo>>

-----------------------------------------------------------------------------
(* Every byte a program was given leads to its byte of the device, at whatever
   address the mapping begins and ends within a page; no two mappings share a
   page; and once they are unmapped no page is left.  Left aside are addresses
   that the kernel returns although ioremap has failed. *)
MappingsExact ==
    LET real == {r \in regions : r.pages > 0}
        PagesOf(r) == (r.virt \div Page)..((r.virt + r.size - 1) \div Page)
    IN  /\ \A r \in real : \A i \in 0..(r.size - 1) :
              (table[(r.virt + i) \div Page] * Page) + ((r.virt + i) % Page)
                  = (r.base + r.shift + i) % Word
        /\ \A r, s \in real : r # s => PagesOf(r) \cap PagesOf(s) = {}
        /\ {p \in Places : table[p] # Unmapped} = UNION {PagesOf(r) : r \in real}
=============================================================================
