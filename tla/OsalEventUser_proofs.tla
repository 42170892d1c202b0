------------------------ MODULE OsalEventUser_proofs ------------------------
(***************************************************************************)
(* Theorems about the user-space event, for any number of waiters: the     *)
(* type invariant, that an auto-reset event is never left signaled with    *)
(* threads asleep on it but nobody woken, and that a wait that succeeds    *)
(* has a cause.  Their conjunction is inductive.  With Reasons, which ties *)
(* what a wait returns to its call, every step is one of the abstract      *)
(* event.                                                                  *)
(***************************************************************************)
EXTENDS OsalEventUser, TLAPS

(* Nobody is inside a wait on an event that is not initialised, so that the
   condition variable a create makes empty had nobody on it. *)
Idle == ~Initialized => \A w \in Waiters : waiting[w] = "none"

IInv == TypeOK /\ Idle /\ NoSleepWhileSignaled /\ SuccessHasCause

LEMMA InitIInv == Init => IInv
  BY DEF Init, IInv, Idle, TypeOK, NoSleepWhileSignaled, SuccessHasCause, Woken

(* The types and the flag against the queue; SuccessHasCause has no part in it. *)
LEMMA StepSleep ==
  TypeOK /\ NoSleepWhileSignaled /\ [Next]_vars => TypeOK' /\ NoSleepWhileSignaled'
<1> DEFINE Inv == TypeOK /\ NoSleepWhileSignaled
<1> SUFFICES ASSUME Inv, [Next]_vars PROVE Inv'
  OBVIOUS
<1> USE DEF TypeOK, NoSleepWhileSignaled, Woken, Initialized, eventVars
<1>1. ASSUME NEW manual \in BOOLEAN, OsEventCreate(manual) PROVE Inv'
  BY <1>1 DEF OsEventCreate
<1>2. CASE OsEventDestroy
  BY <1>2 DEF OsEventDestroy
<1>3. CASE OsEventSet
  <2>1. CASE condvar = {} /\ UNCHANGED condvar
    BY <1>3, <2>1 DEF OsEventSet
  <2>2. ASSUME NEW w \in condvar, condvar' = condvar \ {w} PROVE Inv'
    <3>1. w \in Waiters /\ waiting'[w] # "none" /\ w \notin condvar'
      BY <1>3, <2>2 DEF OsEventSet
    <3>2. TypeOK'
      BY <1>3, <2>2 DEF OsEventSet
    <3>. QED
      BY <3>1, <3>2
  <2>. QED
    BY <1>3, <2>1, <2>2 DEF OsEventSet
<1>4. CASE OsEventReset
  BY <1>4 DEF OsEventReset
<1>5. ASSUME NEW w \in Waiters, WaitSignaled(w) PROVE Inv'
  BY <1>5 DEF WaitSignaled
<1>6. ASSUME NEW w \in Waiters, NEW ms \in WaitTimes, WaitBlock(w, ms) PROVE Inv'
  BY <1>6 DEF WaitBlock, WaitTimes
<1>7. ASSUME NEW w \in Waiters, Expire(w) PROVE Inv'
  <2>1. TypeOK'
    BY <1>7 DEF Expire
  <2>2. waiting'[w] # "none" /\ w \notin condvar'
    BY <1>7 DEF Expire
  <2>. QED
    BY <2>1, <2>2
<1>8. ASSUME NEW w \in Waiters, SpuriousWakeup(w) PROVE Inv'
  <2>1. TypeOK'
    BY <1>8 DEF SpuriousWakeup
  <2>2. waiting'[w] # "none" /\ w \notin condvar'
    BY <1>8 DEF SpuriousWakeup
  <2>. QED
    BY <2>1, <2>2
<1>9. ASSUME NEW w \in Waiters, WaitReturn(w) PROVE Inv'
  BY <1>9 DEF WaitReturn
<1>10. CASE UNCHANGED vars
  BY <1>10 DEF vars
<1>. QED
  BY <1>1, <1>2, <1>3, <1>4, <1>5, <1>6, <1>7, <1>8, <1>9, <1>10 DEF Next

LEMMA StepIdle == TypeOK /\ Idle /\ [Next]_vars => Idle'
<1> SUFFICES ASSUME TypeOK, Idle, [Next]_vars, ~Initialized', NEW v \in Waiters
             PROVE  waiting'[v] = "none"
  BY DEF Idle
<1> USE DEF TypeOK, Idle, Initialized, eventVars
<1>1. CASE OsEventDestroy
  BY <1>1 DEF OsEventDestroy
<1>2. CASE UNCHANGED vars
  BY <1>2 DEF vars
<1>. QED
  BY <1>1, <1>2 DEF Next, OsEventCreate, OsEventSet, OsEventReset, WaitSignaled, WaitBlock,
                    Expire, SpuriousWakeup, WaitReturn

(* The cause of a success: only a set and a spurious wakeup take a thread off
   the queue whose wait_ret stays 0, and both record themselves. *)
LEMMA StepCause == TypeOK /\ Idle /\ SuccessHasCause /\ [Next]_vars => SuccessHasCause'
<1> SUFFICES ASSUME TypeOK, Idle, SuccessHasCause, [Next]_vars,
                    NEW v \in Waiters, Woken(v)', wait_ret'[v] = "0"
             PROVE  occurred'[v]
  BY DEF SuccessHasCause, Status
<1> USE DEF TypeOK, Woken, Initialized, eventVars
<1>0. waiting'[v] # "none" /\ v \notin condvar'
  OBVIOUS
<1>1. waiting[v] # "none" /\ v \notin condvar /\ wait_ret[v] = "0" => occurred[v]
  BY DEF SuccessHasCause, Status
<1>2. ASSUME NEW manual \in BOOLEAN, OsEventCreate(manual) PROVE occurred'[v]
  BY <1>0, <1>2 DEF OsEventCreate, Idle
<1>3. CASE OsEventDestroy
  BY <1>0, <1>1, <1>3 DEF OsEventDestroy
<1>4. CASE OsEventSet
  BY <1>0, <1>4 DEF OsEventSet
<1>5. CASE OsEventReset
  BY <1>0, <1>1, <1>5 DEF OsEventReset
<1>6. ASSUME NEW w \in Waiters, WaitSignaled(w) PROVE occurred'[v]
  BY <1>0, <1>1, <1>6 DEF WaitSignaled
<1>7. ASSUME NEW w \in Waiters, NEW ms \in WaitTimes, WaitBlock(w, ms) PROVE occurred'[v]
  BY <1>0, <1>1, <1>7 DEF WaitBlock
<1>8. ASSUME NEW w \in Waiters, Expire(w) PROVE occurred'[v]
  BY <1>0, <1>1, <1>8 DEF Expire
<1>9. ASSUME NEW w \in Waiters, SpuriousWakeup(w) PROVE occurred'[v]
  BY <1>0, <1>1, <1>9 DEF SpuriousWakeup
<1>10. ASSUME NEW w \in Waiters, WaitReturn(w) PROVE occurred'[v]
  BY <1>0, <1>1, <1>10 DEF WaitReturn
<1>11. CASE UNCHANGED vars
  BY <1>0, <1>1, <1>11 DEF vars
<1>. QED
  BY <1>2, <1>3, <1>4, <1>5, <1>6, <1>7, <1>8, <1>9, <1>10, <1>11 DEF Next

LEMMA StepIInv == IInv /\ [Next]_vars => IInv'
  BY StepSleep, StepIdle, StepCause DEF IInv

(* Whatever sets, timeouts, spurious wakeups and waits interleave, the state
   keeps its types, and only threads whose call sleeps are queued. *)
THEOREM TypeCorrect == Spec => []TypeOK
<1>1. IInv => TypeOK
  BY DEF IInv
<1>. QED
  BY <1>1, InitIInv, StepIInv, PTL DEF Spec

(* One pthread_cond_signal per os_event_set is enough for an auto-reset event:
   it is never signaled while threads sleep on it and none is on its way. *)
THEOREM NobodyIsForgotten == Spec => []NoSleepWhileSignaled
<1>1. IInv => NoSleepWhileSignaled
  BY DEF IInv
<1>. QED
  BY <1>1, InitIInv, StepIInv, PTL DEF Spec

(* A wait that returns OSAL_SUCCESS was woken during its call by a set or
   spuriously: a timeout is never taken for the event. *)
THEOREM SuccessIsCaused == Spec => []SuccessHasCause
<1>1. IInv => SuccessHasCause
  BY DEF IInv
<1>. QED
  BY <1>1, InitIInv, StepIInv, PTL DEF Spec

-----------------------------------------------------------------------------
(* A wait has ended for a reason that its call allows, and what occurs during a wait
   occurs to a thread that is inside one. *)
Reasons ==
    \A w \in Waiters :
        /\ w \in condvar => wait_ret[w] = "0"
        /\ wait_ret[w] = "ETIMEDOUT" => waiting[w] = "timed"
        /\ occurred[w] => waiting[w] # "none"

(* A thread leaves the queue with ETIMEDOUT only when its timed wait expires. *)
LEMMA ReasonsStep == TypeOK /\ Idle /\ Reasons /\ [Next]_vars => Reasons'
<1> SUFFICES ASSUME TypeOK, Idle, Reasons, [Next]_vars PROVE Reasons'
  OBVIOUS
<1> USE DEF TypeOK, Reasons, Initialized, eventVars
<1>1. ASSUME NEW manual \in BOOLEAN, OsEventCreate(manual) PROVE Reasons'
  BY <1>1 DEF OsEventCreate
<1>2. CASE OsEventDestroy
  BY <1>2 DEF OsEventDestroy
<1>3. CASE OsEventSet
  <2>1. condvar' \subseteq condvar
    BY <1>3 DEF OsEventSet
  <2> QED
    BY <1>3, <2>1 DEF OsEventSet
<1>4. CASE OsEventReset
  BY <1>4 DEF OsEventReset
<1>5. ASSUME NEW w \in Waiters, WaitSignaled(w) PROVE Reasons'
  BY <1>5 DEF WaitSignaled
<1>6. ASSUME NEW w \in Waiters, NEW ms \in WaitTimes, WaitBlock(w, ms) PROVE Reasons'
  BY <1>6 DEF WaitBlock, WaitTimes
<1>7. ASSUME NEW w \in Waiters, Expire(w) PROVE Reasons'
  BY <1>7 DEF Expire
<1>8. ASSUME NEW w \in Waiters, SpuriousWakeup(w) PROVE Reasons'
  BY <1>8 DEF SpuriousWakeup
<1>9. ASSUME NEW w \in Waiters, WaitReturn(w) PROVE Reasons'
  BY <1>9 DEF WaitReturn
<1>10. CASE UNCHANGED vars
  BY <1>10 DEF vars
<1>. QED
  BY <1>1, <1>2, <1>3, <1>4, <1>5, <1>6, <1>7, <1>8, <1>9, <1>10 DEF Next

-----------------------------------------------------------------------------
(* The state of the abstract event. *)
Calls == [w \in Waiters |-> [ms |-> waiting[w], interruptible |-> FALSE]]
Answers == [w \in Waiters |-> IF Woken(w) THEN Status(w) ELSE "none"]

(* The abstract event has inside it the threads whose call sleeps. *)
LEMMA InsideMeansWaiting ==
    ASSUME TypeOK PROVE Abstract!Inside = {w \in Waiters : waiting[w] # "none"}
BY DEF Abstract!Inside, Abstract!NoCall

(* Nobody has called, and nothing has occurred. *)
LEMMA AbstractStarts == Init => Abstract!Init
BY DEF Init, Initialized, Woken, Abstract!Init, Abstract!NoCall

(* What takes a thread off the queue settles what it returns. *)
LEMMA AbstractSteps == IInv /\ Reasons /\ [Next]_vars => [Abstract!Next]_(Abstract!vars)
<1> SUFFICES ASSUME TypeOK, Idle, Reasons, [Next]_vars PROVE [Abstract!Next]_(Abstract!vars)
  BY DEF IInv
<1>0. Abstract!Inside = {w \in Waiters : waiting[w] # "none"}
  BY InsideMeansWaiting
<1> USE DEF TypeOK, Initialized, eventVars
<1>1. ASSUME NEW manual \in BOOLEAN, OsEventCreate(manual) PROVE Abstract!Create
  BY <1>0, <1>1 DEF OsEventCreate, Abstract!Create, Woken, Status, Idle
<1>2. CASE OsEventDestroy
  BY <1>0, <1>2 DEF OsEventDestroy, Abstract!Destroy, Woken, Status, Abstract!Next
<1>3. CASE OsEventSet
  <2>1. ASSUME NEW who \in SUBSET Waiters, condvar' = condvar \ who, who \subseteq condvar
        PROVE  Abstract!Tell(who)
    <3>1. \A t \in who :
              waiting[t] # "none" /\ Answers[t] = "none" /\ Answers'[t] = "OSAL_SUCCESS"
      BY <1>3, <2>1 DEF OsEventSet, Answers, Woken, Status, Reasons
    <3>2. \A t \in Waiters \ who : Answers'[t] = Answers[t]
      BY <1>3, <2>1 DEF OsEventSet, Answers, Woken, Status
    <3>3. Answers' = [t \in Waiters |-> IF t \in who THEN "OSAL_SUCCESS" ELSE Answers[t]]
      BY <2>1, <3>1, <3>2 DEF Answers
    <3> QED
      BY <3>1, <3>3, Zenon DEF Abstract!Tell, Abstract!NoCall, Answers
  <2>2. PICK who \in SUBSET Waiters : condvar' = condvar \ who /\ who \subseteq condvar
    <3>1. CASE condvar = {} /\ UNCHANGED condvar
      BY <3>1
    <3>2. ASSUME NEW w \in condvar, condvar' = condvar \ {w}
          PROVE  {w} \in SUBSET Waiters /\ condvar' = condvar \ {w} /\ {w} \subseteq condvar
      <4>1. w \in Waiters
        BY <3>2
      <4> QED
        BY <3>2, <4>1
    <3> QED
      BY <1>3, <3>1, <3>2 DEF OsEventSet
  <2>3. {w \in Waiters : occurred'[w]} = Abstract!Inside
    BY <1>0, <1>3 DEF OsEventSet
  <2> QED
    BY <1>3, <2>1, <2>2, <2>3 DEF OsEventSet, Abstract!Set, Abstract!Next
<1>4. CASE OsEventReset
  BY <1>4 DEF OsEventReset, Abstract!Reset, Abstract!Next, Woken, Status
<1>5. ASSUME NEW w \in Waiters, WaitSignaled(w) PROVE Abstract!TakeAtOnce
  BY <1>5 DEF WaitSignaled, Abstract!TakeAtOnce, Woken, Status
<1>6. ASSUME NEW w \in Waiters, NEW ms \in WaitTimes, WaitBlock(w, ms)
      PROVE  \E c \in Abstract!AllCalls : Abstract!Call(w, c)
  <2> DEFINE c == [ms |-> ms, interruptible |-> FALSE]
  <2>1. c \in Abstract!AllCalls
    BY DEF Abstract!AllCalls, WaitTimes
  <2>2. Calls' = [Calls EXCEPT ![w] = c]
    <3>1. waiting' = [v \in Waiters |-> IF v = w THEN ms ELSE waiting[v]]
      BY <1>6 DEF WaitBlock
    <3> QED
      BY <3>1, Zenon DEF Calls
  <2>3. Answers' = Answers
    BY <1>6 DEF WaitBlock, Answers, Woken, Status
  <2>4. Abstract!Call(w, c)
    BY <1>0, <1>6, <2>2, <2>3 DEF WaitBlock, Abstract!Call, Calls, Answers
  <2> QED
    BY <2>1, <2>4
<1>7. ASSUME NEW w \in Waiters, Expire(w)
      PROVE  Abstract!Answer(w, "OSAL_TIMEOUT")
  BY <1>0, <1>7 DEF Expire, Abstract!Answer, Woken, Status
<1>8. ASSUME NEW w \in Waiters, SpuriousWakeup(w) PROVE Abstract!Disturb({w})
  <2>1. Abstract!Tell({w})
    <3>1. /\ waiting[w] # "none" /\ Answers[w] = "none" /\ Answers'[w] = "OSAL_SUCCESS"
          /\ \A t \in Waiters \ {w} : Answers'[t] = Answers[t]
      BY <1>8 DEF SpuriousWakeup, Answers, Woken, Status, Reasons
    <3>2. Answers' = [t \in Waiters |-> IF t \in {w} THEN "OSAL_SUCCESS" ELSE Answers[t]]
      BY <3>1 DEF Answers
    <3> QED
      BY <3>1, <3>2, Zenon DEF Abstract!Tell, Abstract!NoCall, Answers
  <2>2. {v \in Waiters : occurred'[v]}
           = {v \in Waiters : occurred[v]} \cup ({w} \cap Abstract!Inside)
    BY <1>0, <1>8 DEF SpuriousWakeup
  <2> QED
    BY <1>8, <2>1, <2>2 DEF SpuriousWakeup, Abstract!Disturb
<1>9. ASSUME NEW w \in Waiters, WaitReturn(w) PROVE Abstract!Return(w)
  <2>1. Calls' = [Calls EXCEPT ![w] = Abstract!NoCall]
    <3>1. waiting' = [v \in Waiters |-> IF v = w THEN "none" ELSE waiting[v]]
      BY <1>9 DEF WaitReturn
    <3> QED
      BY <3>1, Zenon DEF Calls, Abstract!NoCall
  <2>2. Answers' = [Answers EXCEPT ![w] = "none"] /\ Answers[w] # "none"
    <3>1. /\ Answers[w] # "none" /\ Answers'[w] = "none"
          /\ \A t \in Waiters \ {w} : Answers'[t] = Answers[t]
      BY <1>9 DEF WaitReturn, Answers, Woken, Status
    <3> QED
      BY <3>1 DEF Answers
  <2>3. {v \in Waiters : occurred'[v]} = {v \in Waiters : occurred[v]} \ {w}
    <3>1. ~occurred'[w] /\ \A v \in Waiters \ {w} : occurred'[v] <=> occurred[v]
      BY <1>9 DEF WaitReturn
    <3> QED
      BY <3>1
  <2>4. signaled' \in {signaled, signaled /\ manual_reset}
    BY <1>9 DEF WaitReturn
  <2> QED
    BY <1>9, <2>1, <2>2, <2>3, <2>4 DEF WaitReturn, Abstract!Return, Calls, Answers
<1>10. CASE UNCHANGED vars
  BY <1>10 DEF vars, Abstract!vars, Woken, Status
<1> QED
  <2>1. \A w \in Waiters : {w} \in SUBSET Waiters /\ "OSAL_TIMEOUT" \in Abstract!Answers
    BY DEF Abstract!Answers
  <2> QED
    BY <1>1, <1>2, <1>3, <1>4, <1>5, <1>6, <1>7, <1>8, <1>9, <1>10, <2>1
       DEF Next, Abstract!Next

(* The user-space event is the event of the header, whatever sets, timeouts, spurious
   wakeups and waits interleave: a set stays in the flag, and what a wait returns has
   a reason that lies in its call and in what happened during it. *)
THEOREM Refinement == Spec => ImplementsEvent
<1>1. Init => Reasons
  BY DEF Init, Reasons
<1>2. IInv /\ Reasons /\ [Next]_vars => IInv' /\ Reasons'
  BY StepIInv, ReasonsStep DEF IInv
<1> QED
  BY <1>1, <1>2, InitIInv, AbstractStarts, AbstractSteps, PTL
     DEF Spec, ImplementsEvent, Abstract!Spec
=============================================================================
