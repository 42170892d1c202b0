-------------------------------- MODULE Event --------------------------------
(***************************************************************************)
(* What include/osal_event.h promises of an event, whatever primitives an  *)
(* operating system builds it from.  A set is kept in the flag, or given   *)
(* to those who are inside a wait; an auto-reset flag is taken by one wait *)
(* in one step; and a wait returns OSAL_SUCCESS only if something occurred *)
(* during it, OSAL_TIMEOUT only if it has a timeout and OSAL_NOT_DONE only *)
(* if it is not a hardwait.                                                *)
(*                                                                         *)
(* Weaker than the header, as the implementations are: something besides a *)
(* set may be taken for the event, and the end of a wait may clear the     *)
(* flag of an auto-reset event whatever its result.                        *)
(***************************************************************************)
EXTENDS Naturals

CONSTANT Threads    \* the callers of the event

AllCalls == [ms : {"poll", "timed", "forever"}, interruptible : BOOLEAN]
NoCall == [ms |-> "none", interruptible |-> FALSE]
Answers == {"OSAL_SUCCESS", "OSAL_TIMEOUT", "OSAL_NOT_DONE"}

VARIABLES
    live,       \* the event is created and not destroyed
    manual,     \* it is a manual-reset event
    flag,       \* it is signaled
    ringing,    \* a set is in progress
    call,       \* the wait that each thread is inside, or NoCall
    occurred,   \* the threads during whose wait something occurred
    answer      \* what each wait is going to return, or "none"

vars == <<live, manual, flag, ringing, call, occurred, answer>>

Inside == {t \in Threads : call[t] # NoCall}

TypeOK ==
    /\ {live, manual, flag, ringing} \subseteq BOOLEAN
    /\ call \in [Threads -> AllCalls \cup {NoCall}]
    /\ occurred \subseteq Inside
    /\ answer \in [Threads -> Answers \cup {"none"}]

Init ==
    /\ live = FALSE /\ manual = FALSE /\ flag = FALSE /\ ringing = FALSE
    /\ call = [t \in Threads |-> NoCall]
    /\ occurred = {}
    /\ answer = [t \in Threads |-> "none"]

Create ==
    /\ ~live
    /\ live' = TRUE /\ manual' \in BOOLEAN /\ flag' = FALSE
    /\ UNCHANGED <<ringing, call, occurred, answer>>

Destroy ==
    /\ live /\ ~ringing /\ Inside = {}
    /\ live' = FALSE
    /\ UNCHANGED <<manual, flag, ringing, call, occurred, answer>>

(* Some of those who wait are told at once. *)
Tell(who) ==
    /\ \A t \in who : call[t] # NoCall /\ answer[t] = "none"
    /\ answer' = [t \in Threads |-> IF t \in who THEN "OSAL_SUCCESS" ELSE answer[t]]

(* Nobody's set is lost: it is in the flag, or else there was somebody to be told. *)
Set ==
    /\ live /\ ~ringing
    /\ \/ flag' = TRUE /\ ringing' = FALSE
       \/ Inside # {} /\ flag' = manual /\ ringing' = TRUE
    /\ occurred' = Inside
    /\ \E who \in SUBSET Threads : Tell(who)
    /\ UNCHANGED <<live, manual, call>>

SetReturns ==
    /\ ringing
    /\ ringing' = FALSE
    /\ UNCHANGED <<live, manual, flag, call, occurred, answer>>

Reset ==
    /\ live /\ ~ringing
    /\ flag' = FALSE
    /\ UNCHANGED <<live, manual, ringing, call, occurred, answer>>

(* A timer that is another wait's, or a spurious wakeup. *)
Disturb(who) ==
    /\ occurred' = occurred \cup (who \cap Inside)
    /\ \E told \in SUBSET who : Tell(told)
    /\ UNCHANGED <<live, manual, flag, ringing, call>>

Call(t, c) ==
    /\ live /\ t \notin Inside
    /\ call' = [call EXCEPT ![t] = c]
    /\ occurred' = IF ringing THEN occurred \cup {t} ELSE occurred
    /\ UNCHANGED <<live, manual, flag, ringing, answer>>

Take(t) ==
    /\ flag /\ ~ringing
    /\ Tell({t})
    /\ flag' = manual
    /\ occurred' = occurred \cup {t}
    /\ UNCHANGED <<live, manual, ringing, call>>

(* A wait that need not wait for the flag. *)
TakeAtOnce ==
    /\ live /\ flag /\ ~ringing
    /\ flag' = manual
    /\ UNCHANGED <<live, manual, ringing, call, occurred, answer>>

(* What is not a success remains what it is, and a poll gives up only while the
   flag is clear. *)
Answer(t, a) ==
    /\ t \in Inside /\ answer[t] \in {"none", "OSAL_SUCCESS"}
    /\ \/ a = "OSAL_SUCCESS" /\ t \in occurred
       \/ a = "OSAL_TIMEOUT" /\ call[t].ms # "forever" /\ (call[t].ms = "poll" => ~flag)
       \/ a = "OSAL_NOT_DONE" /\ call[t].interruptible
    /\ answer' = [answer EXCEPT ![t] = a]
    /\ UNCHANGED <<live, manual, flag, ringing, call, occurred>>

Return(t) ==
    /\ answer[t] # "none"
    /\ flag' \in {flag, flag /\ manual}
    /\ call' = [call EXCEPT ![t] = NoCall]
    /\ occurred' = occurred \ {t}
    /\ answer' = [answer EXCEPT ![t] = "none"]
    /\ UNCHANGED <<live, manual, ringing>>

Next ==
    \/ Create
    \/ Destroy
    \/ Set
    \/ SetReturns
    \/ Reset
    \/ \E who \in SUBSET Threads : Disturb(who)
    \/ TakeAtOnce
    \/ \E t \in Threads :
          \/ \E c \in AllCalls : Call(t, c)
          \/ Take(t)
          \/ \E a \in Answers : Answer(t, a)
          \/ Return(t)

Spec == Init /\ [][Next]_vars
=============================================================================
