------------------------------- MODULE OsalList -------------------------------
(***************************************************************************)
(* The doubly linked list of os/osal_list.h, in user space by its own      *)
(* macros and in the kernel by linux/list.h, whose list_del also poisons   *)
(* the pointers of the node.  A program adds and deletes nodes, and walks  *)
(* the list, with the safe loop also while it deletes the node it is at.   *)
(***************************************************************************)
EXTENDS Integers, Sequences, SequencesExt

CONSTANTS
    Nodes,  \* the nodes a program has
    Head0,  \* the head
    Poison  \* what list_del leaves in a node

VARIABLES
    poisons,    \* in the kernel
    next, last, \* the pointers
    walk,       \* the loop the program is in: "none", "plain" or "safe"
    entry, n,   \* its variables
    \* history
    members,    \* the nodes that were added and not deleted, in order
    due,        \* those that have been members since the walk began
    visited,    \* the nodes it has been at
    again       \* those of the due that it has been at twice

linkVars == <<poisons, next, last, members>>
walkVars == <<walk, entry, n, due, visited, again>>
listVars == <<linkVars, walkVars>>

Pointers == Nodes \cup {Head0, Poison}

TypeOK ==
    /\ poisons \in BOOLEAN
    /\ next \in [Nodes \cup {Head0} -> Pointers] /\ last \in [Nodes \cup {Head0} -> Pointers]
    /\ walk \in {"none", "plain", "safe"} /\ entry \in Pointers /\ n \in Pointers
    /\ members \in Seq(Nodes) /\ due \subseteq Nodes /\ visited \subseteq Nodes /\ again \subseteq Nodes

(* OS_LIST_HEAD or OS_INIT_LIST_HEAD; the pointers of a node are whatever was
   there. *)
Init ==
    /\ poisons \in BOOLEAN
    /\ next = [x \in Nodes \cup {Head0} |-> IF x = Head0 THEN Head0 ELSE Poison]
    /\ last = next
    /\ walk = "none" /\ entry = Head0 /\ n = Head0
    /\ members = <<>> /\ due = {} /\ visited = {} /\ again = {}

-----------------------------------------------------------------------------
(* Mutated: the head points back to the node before the node does to the last. *)
OsListAddTailSwapped(x) ==
    /\ x \notin ToSet(members)
    /\ next' = [next EXCEPT ![x] = Head0, ![last[Head0]] = x]
    /\ last' = [last EXCEPT ![x] = x, ![Head0] = x]
    /\ members' = Append(members, x)
    /\ UNCHANGED <<poisons, walkVars>>

OsListAddTail(x) ==
    /\ x \notin ToSet(members)
    /\ next' = [next EXCEPT ![x] = Head0, ![last[Head0]] = x]
    /\ last' = [last EXCEPT ![x] = last[Head0], ![Head0] = x]
    /\ members' = Append(members, x)
    /\ UNCHANGED <<poisons, walkVars>>

(* A pointer of a node that is deleted: list_del of linux/list.h poisons it. *)
Unlinked(pointer) == IF poisons THEN Poison ELSE pointer

(* The node's own pointers stay, or are poisoned.  In a loop the program deletes
   the node it is at, and no other, and that only in the safe one. *)
OsListDel(x) ==
    /\ x \in ToSet(members)
    /\ walk # "none" => walk = "safe" /\ x = entry
    /\ LET unlink(f, at, to) ==
               [f EXCEPT ![at] = to, ![x] = Unlinked(@)]
       IN  next' = unlink(next, last[x], next[x]) /\ last' = unlink(last, next[x], last[x])
    /\ members' = RemoveFirst(members, x)
    /\ due' = due \ {x}
    /\ UNCHANGED <<poisons, walk, entry, n, visited, again>>

-----------------------------------------------------------------------------
At(x) ==
    /\ entry' = x
    /\ IF x = Head0
       THEN walk' = "none" /\ UNCHANGED <<visited, again>>
       ELSE /\ visited' = visited \cup {x}
            /\ again' = again \cup (visited \cap due \cap {x})
            /\ UNCHANGED walk

OsListEmpty == next[Head0] = Head0

OsListForEach ==
    /\ walk = "none" /\ ~OsListEmpty
    /\ walk' \in {"plain", "safe"}
    /\ entry' = next[Head0] /\ n' = next[next[Head0]]
    /\ visited' = {entry'} /\ again' = {} /\ due' = ToSet(members)
    /\ UNCHANGED linkVars

ForEachNext ==
    /\ walk = "plain"
    /\ At(next[entry])
    /\ UNCHANGED <<linkVars, n, due>>

ForEachSafeNext ==
    /\ walk = "safe"
    /\ At(n)
    /\ n' = next[n]
    /\ UNCHANGED <<linkVars, due>>

Next ==
    \/ \E x \in Nodes : OsListAddTail(x) \/ OsListDel(x)
    \/ OsListForEach \/ ForEachNext \/ ForEachSafeNext

-----------------------------------------------------------------------------
(* The list is the sequence of what was added and not deleted, forwards and
   backwards, and empty when it looks it; and a loop that has ended has been at
   every node that was in the list all along, at none twice, in spite of the
   deletions on its way. *)
ListIsWalked ==
    /\ LET ring == <<Head0>> \o members \o <<Head0>>
       IN  \A i \in 1..(Len(ring) - 1) :
               next[ring[i]] = ring[i + 1] /\ last[ring[i + 1]] = ring[i]
    /\ OsListEmpty <=> members = <<>>
    /\ walk # "none" => entry \in Nodes
    /\ walk = "none" => due \subseteq visited
    /\ again \cap due = {}
=============================================================================
