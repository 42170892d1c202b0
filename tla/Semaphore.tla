----------------------------- MODULE Semaphore -----------------------------
(***************************************************************************)
(* What include/osal_sema.h promises of a counting semaphore, whatever     *)
(* primitives an operating system builds it from: a permit is handed over  *)
(* in one indivisible step, a put adds exactly one permit, and creating    *)
(* the semaphore is the only thing that sets the number of permits.        *)
(***************************************************************************)
EXTENDS Naturals

CONSTANTS
    Threads,    \* the callers of the semaphore
    Initial     \* the initial_value given when the semaphore is created

VARIABLES
    avail,      \* the permits a get may take
    asking,     \* the threads inside a get that has not been granted a permit
    live        \* the semaphore is created and not destroyed

vars == <<avail, asking, live>>

TypeOK ==
    /\ avail \in Nat
    /\ asking \subseteq Threads
    /\ live \in BOOLEAN

Init ==
    /\ avail = 0
    /\ asking = {}
    /\ live = FALSE

Create ==
    /\ ~live
    /\ live' = TRUE
    /\ avail' = Initial
    /\ UNCHANGED asking

Ask(t) ==
    /\ live
    /\ t \notin asking
    /\ asking' = asking \cup {t}
    /\ UNCHANGED <<avail, live>>

Grant(t) ==
    /\ t \in asking
    /\ avail > 0
    /\ avail' = avail - 1
    /\ asking' = asking \ {t}
    /\ UNCHANGED live

(* A get that does not wait. *)
Take(t) ==
    /\ live
    /\ t \notin asking
    /\ avail > 0
    /\ avail' = avail - 1
    /\ UNCHANGED <<asking, live>>

Release ==
    /\ live
    /\ avail' = avail + 1
    /\ UNCHANGED <<asking, live>>

Destroy ==
    /\ live
    /\ asking = {}
    /\ live' = FALSE
    /\ avail' = 0
    /\ UNCHANGED asking

GrantSome == \E t \in Threads : Grant(t)

Next ==
    \/ Create
    \/ Destroy
    \/ Release
    \/ \E t \in Threads : Ask(t) \/ Take(t) \/ Grant(t)

SafeSpec == Init /\ [][Next]_vars

(* A permit that stays available while somebody asks is handed to somebody;
   which of the askers gets it is left open. *)
Spec == SafeSpec /\ WF_vars(GrantSome)
=============================================================================
