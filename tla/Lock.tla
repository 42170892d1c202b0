-------------------------------- MODULE Lock --------------------------------
(***************************************************************************)
(* What include/osal_lock.h and include/osal_irqlock.h promise of a lock,  *)
(* whatever it is built from: one context at a time holds it, and one that *)
(* waits for it gets it.                                                   *)
(***************************************************************************)
CONSTANTS
    Contexts,   \* the threads and interrupt handlers that use the lock
    NoContext   \* the owner of a free lock

VARIABLES
    owner,      \* who holds the lock
    wanting,    \* the contexts that wait for it
    live        \* the lock is created and not destroyed

vars == <<owner, wanting, live>>

Init ==
    /\ owner = NoContext
    /\ wanting = {}
    /\ live \in BOOLEAN     \* a statically initialised lock is there from the start

Create ==
    /\ ~live
    /\ live' = TRUE
    /\ UNCHANGED <<owner, wanting>>

Want(c) ==
    /\ live
    /\ c \notin wanting \cup {owner}
    /\ wanting' = wanting \cup {c}
    /\ UNCHANGED <<owner, live>>

Grant(c) ==
    /\ c \in wanting
    /\ owner = NoContext
    /\ owner' = c
    /\ wanting' = wanting \ {c}
    /\ UNCHANGED live

(* Without blocking: the lock is taken at once, or not at all. *)
Try(c) ==
    /\ live
    /\ c \notin wanting
    /\ owner = NoContext
    /\ owner' = c
    /\ UNCHANGED <<wanting, live>>

Release ==
    /\ owner # NoContext
    /\ owner' = NoContext
    /\ UNCHANGED <<wanting, live>>

Destroy ==
    /\ live
    /\ owner = NoContext
    /\ wanting = {}
    /\ live' = FALSE
    /\ UNCHANGED <<owner, wanting>>

GrantSome == \E c \in Contexts : Grant(c)

Next ==
    \/ Create
    \/ Release
    \/ Destroy
    \/ \E c \in Contexts : Want(c) \/ Grant(c) \/ Try(c)

SafeSpec == Init /\ [][Next]_vars

(* Whoever holds the lock can go on to release it, and a free lock that somebody
   waits for is given to somebody. *)
Spec == SafeSpec /\ WF_vars(GrantSome) /\ WF_vars(Release)

(* Whoever waits gets the lock if it is free often enough. *)
Fair == \A c \in Contexts : SF_vars(Grant(c))
=============================================================================
