----------------------- MODULE OsalEventKernel_proofs -----------------------
(***************************************************************************)
(* Theorems about the kernel event, for any number of waiters and setters  *)
(* and any calls.  TypeOK and TimerDisarmed are inductive; Sleepers says   *)
(* that a task that is not runnable is on the queue, where every wake_up   *)
(* finds it, and gives NoSleepWhileSignaled; Causes says what has made a   *)
(* task runnable, and gives SuccessHasCause; with Calling, which ties the  *)
(* call to where its task is, every step is a step of the abstract event.  *)
(***************************************************************************)
EXTENDS OsalEventKernel, TLAPS

Sleepers ==
    /\ \A w \in Waiters : ~runnable[w] => w \in wait_queue
    /\ state = "UNINITIALIZED" => \A w \in Waiters : ~InCall(w)
    /\ \A w \in Waiters :
          signaled /\ pc[w] \in {"arm", "schedule", "asleep"} /\ ~runnable[w] =>
              spinlock # NoSetter

Causes ==
    /\ spinlock # NoSetter => \A w \in Waiters : InCall(w) => seen[w] = "set"
    /\ \A w \in Waiters : pc[w] = "taken" => seen[w] = "set"
    /\ \A w \in Waiters :
          /\ \/ pc[w] = "conclude"
             \/ pc[w] \in {"check", "arm", "schedule", "asleep"} /\ runnable[w]
          /\ ~Interrupted(w)
          => seen[w] # "none"

-----------------------------------------------------------------------------
LEMMA InitAll == Init => TypeOK /\ Sleepers /\ TimerDisarmed /\ Causes
<1> SUFFICES ASSUME Init PROVE TypeOK /\ Sleepers /\ TimerDisarmed /\ Causes
  OBVIOUS
<1> USE DEF Init, EventInit, WaitersInit
<1>1. TypeOK
  BY DEF TypeOK
<1>2. Sleepers
  BY DEF Sleepers, InCall
<1>3. TimerDisarmed
  BY DEF TimerDisarmed
<1>4. Causes
  BY DEF Causes
<1>. QED
  BY <1>1, <1>2, <1>3, <1>4

LEMMA TypeStep == TypeOK /\ [Next]_vars => TypeOK'
<1> SUFFICES ASSUME TypeOK, [Next]_vars PROVE TypeOK'
  OBVIOUS
<1> USE SettersAssumption DEF TypeOK, eventVars, taskVars, timerVars, Goto, InCall
<1>1. ASSUME NEW manual \in BOOLEAN, OsEventCreate(manual) PROVE TypeOK'
  BY <1>1 DEF OsEventCreate
<1>2. CASE OsEventDestroy
  BY <1>2 DEF OsEventDestroy
<1>3. CASE OsEventReset
  BY <1>3 DEF OsEventReset
<1>4. ASSUME NEW s \in Setters, SetFlag(s) PROVE TypeOK'
  BY <1>4 DEF SetFlag, SeenBy
<1>5. ASSUME NEW s \in Setters, SetWake(s) PROVE TypeOK'
  BY <1>5 DEF SetWake, WakeUp
<1>6. ASSUME NEW w \in Waiters, NEW c \in Calls[w], CallWait(w, c) PROVE TypeOK'
  BY <1>6, CallsAssumption DEF CallWait
<1>7. ASSUME NEW w \in Waiters, Signal(w) PROVE TypeOK'
  BY <1>7 DEF Signal
<1>8. ASSUME NEW w \in Waiters, CheckSignaled(w) PROVE TypeOK'
  BY <1>8 DEF CheckSignaled, SeenBy
<1>9. ASSUME NEW w \in Waiters, CheckPoll(w) PROVE TypeOK'
  BY <1>9 DEF CheckPoll
<1>10. ASSUME NEW w \in Waiters, CheckSleep(w) PROVE TypeOK'
  BY <1>10 DEF CheckSleep
<1>11. ASSUME NEW w \in Waiters, Leave(w) PROVE TypeOK'
  BY <1>11 DEF Leave, EndCall, FinishWait
<1>12. ASSUME NEW w \in Waiters, Arm(w) PROVE TypeOK'
  BY <1>12 DEF Arm
<1>13. ASSUME NEW w \in Waiters, Sleep(w) PROVE TypeOK'
  BY <1>13 DEF Sleep
<1>14. ASSUME NEW w \in Waiters, Resume(w) PROVE TypeOK'
  BY <1>14 DEF Resume, FinishWait, ClearTimeout
<1>15. ASSUME NEW w \in Waiters, Conclude(w) PROVE TypeOK'
  BY <1>15 DEF Conclude, EndCall
<1>16. ASSUME NEW w \in Waiters, Expire(w) PROVE TypeOK'
  BY <1>16 DEF Expire
<1>17. ASSUME NEW w \in Waiters, HandlerMark(w) PROVE TypeOK'
  BY <1>17 DEF HandlerMark
<1>18. ASSUME NEW w \in Waiters, HandlerWake(w) PROVE TypeOK'
  <2>1. CASE WakeUp /\ SeenBy({v \in wait_queue : seen[v] = "none"}, "timer")
    BY <1>18, <2>1 DEF HandlerWake, WakeUp, SeenBy
  <2>2. CASE stale[w] /\ UNCHANGED <<wait_queue, runnable, seen>>
    BY <1>18, <2>2 DEF HandlerWake
  <2>. QED
    BY <1>18, <2>1, <2>2 DEF HandlerWake
<1>19. CASE UNCHANGED vars
  BY <1>19 DEF vars
<1>. QED
  BY <1>1, <1>2, <1>3, <1>4, <1>5, <1>6, <1>7, <1>8, <1>9, <1>10, <1>11, <1>12,
     <1>13, <1>14, <1>15, <1>16, <1>17, <1>18, <1>19
     DEF Next, Waiting, Handler

(* A task leaves the queue when it is made runnable or by itself. *)
LEMMA SleepersStep == TypeOK /\ Sleepers /\ [Next]_vars => Sleepers'
<1> SUFFICES ASSUME TypeOK, Sleepers, [Next]_vars PROVE Sleepers'
  OBVIOUS
<1> USE SettersAssumption DEF TypeOK, eventVars, taskVars, timerVars, Goto, InCall, Sleepers
<1>1. ASSUME NEW manual \in BOOLEAN, OsEventCreate(manual) PROVE Sleepers'
  BY <1>1 DEF OsEventCreate
<1>2. CASE OsEventDestroy
  BY <1>2 DEF OsEventDestroy
<1>3. CASE OsEventReset
  BY <1>3 DEF OsEventReset
<1>4. ASSUME NEW s \in Setters, SetFlag(s) PROVE Sleepers'
  BY <1>4 DEF SetFlag, SeenBy
<1>5. ASSUME NEW s \in Setters, SetWake(s) PROVE Sleepers'
  BY <1>5 DEF SetWake, WakeUp
<1>6. ASSUME NEW w \in Waiters, NEW c \in Calls[w], CallWait(w, c) PROVE Sleepers'
  BY <1>6, CallsAssumption DEF CallWait
<1>7. ASSUME NEW w \in Waiters, Signal(w) PROVE Sleepers'
  BY <1>7 DEF Signal
<1>8. ASSUME NEW w \in Waiters, CheckSignaled(w) PROVE Sleepers'
  BY <1>8 DEF CheckSignaled, SeenBy
<1>9. ASSUME NEW w \in Waiters, CheckPoll(w) PROVE Sleepers'
  BY <1>9 DEF CheckPoll
<1>10. ASSUME NEW w \in Waiters, CheckSleep(w) PROVE Sleepers'
  BY <1>10 DEF CheckSleep
<1>11. ASSUME NEW w \in Waiters, Leave(w) PROVE Sleepers'
  BY <1>11 DEF Leave, EndCall, FinishWait
<1>12. ASSUME NEW w \in Waiters, Arm(w) PROVE Sleepers'
  BY <1>12 DEF Arm
<1>13. ASSUME NEW w \in Waiters, Sleep(w) PROVE Sleepers'
  BY <1>13 DEF Sleep
<1>14. ASSUME NEW w \in Waiters, Resume(w) PROVE Sleepers'
  BY <1>14 DEF Resume, FinishWait, ClearTimeout
<1>15. ASSUME NEW w \in Waiters, Conclude(w) PROVE Sleepers'
  BY <1>15 DEF Conclude, EndCall
<1>16. ASSUME NEW w \in Waiters, Expire(w) PROVE Sleepers'
  BY <1>16 DEF Expire
<1>17. ASSUME NEW w \in Waiters, HandlerMark(w) PROVE Sleepers'
  BY <1>17 DEF HandlerMark
<1>18. ASSUME NEW w \in Waiters, HandlerWake(w) PROVE Sleepers'
  <2>1. CASE WakeUp /\ SeenBy({v \in wait_queue : seen[v] = "none"}, "timer")
    BY <1>18, <2>1 DEF HandlerWake, WakeUp, SeenBy
  <2>2. CASE stale[w] /\ UNCHANGED <<wait_queue, runnable, seen>>
    BY <1>18, <2>2 DEF HandlerWake
  <2>. QED
    BY <1>18, <2>1, <2>2 DEF HandlerWake
<1>19. CASE UNCHANGED vars
  BY <1>19 DEF vars
<1>. QED
  BY <1>1, <1>2, <1>3, <1>4, <1>5, <1>6, <1>7, <1>8, <1>9, <1>10, <1>11, <1>12,
     <1>13, <1>14, <1>15, <1>16, <1>17, <1>18, <1>19
     DEF Next, Waiting, Handler

(* Every way out of schedule() goes through clear_timeout. *)
LEMMA TimerStep == TypeOK /\ TimerDisarmed /\ [Next]_vars => TimerDisarmed'
<1> SUFFICES ASSUME TypeOK, TimerDisarmed, [Next]_vars PROVE TimerDisarmed'
  OBVIOUS
<1> USE SettersAssumption DEF TypeOK, eventVars, taskVars, timerVars, Goto, InCall, TimerDisarmed
<1>1. ASSUME NEW manual \in BOOLEAN, OsEventCreate(manual) PROVE TimerDisarmed'
  BY <1>1 DEF OsEventCreate
<1>2. CASE OsEventDestroy
  BY <1>2 DEF OsEventDestroy
<1>3. CASE OsEventReset
  BY <1>3 DEF OsEventReset
<1>4. ASSUME NEW s \in Setters, SetFlag(s) PROVE TimerDisarmed'
  BY <1>4 DEF SetFlag, SeenBy
<1>5. ASSUME NEW s \in Setters, SetWake(s) PROVE TimerDisarmed'
  BY <1>5 DEF SetWake, WakeUp
<1>6. ASSUME NEW w \in Waiters, NEW c \in Calls[w], CallWait(w, c) PROVE TimerDisarmed'
  BY <1>6, CallsAssumption DEF CallWait
<1>7. ASSUME NEW w \in Waiters, Signal(w) PROVE TimerDisarmed'
  BY <1>7 DEF Signal
<1>8. ASSUME NEW w \in Waiters, CheckSignaled(w) PROVE TimerDisarmed'
  BY <1>8 DEF CheckSignaled, SeenBy
<1>9. ASSUME NEW w \in Waiters, CheckPoll(w) PROVE TimerDisarmed'
  BY <1>9 DEF CheckPoll
<1>10. ASSUME NEW w \in Waiters, CheckSleep(w) PROVE TimerDisarmed'
  BY <1>10 DEF CheckSleep
<1>11. ASSUME NEW w \in Waiters, Leave(w) PROVE TimerDisarmed'
  BY <1>11 DEF Leave, EndCall, FinishWait
<1>12. ASSUME NEW w \in Waiters, Arm(w) PROVE TimerDisarmed'
  BY <1>12 DEF Arm
<1>13. ASSUME NEW w \in Waiters, Sleep(w) PROVE TimerDisarmed'
  BY <1>13 DEF Sleep
<1>14. ASSUME NEW w \in Waiters, Resume(w) PROVE TimerDisarmed'
  BY <1>14 DEF Resume, FinishWait, ClearTimeout
<1>15. ASSUME NEW w \in Waiters, Conclude(w) PROVE TimerDisarmed'
  BY <1>15 DEF Conclude, EndCall
<1>16. ASSUME NEW w \in Waiters, Expire(w) PROVE TimerDisarmed'
  BY <1>16 DEF Expire
<1>17. ASSUME NEW w \in Waiters, HandlerMark(w) PROVE TimerDisarmed'
  BY <1>17 DEF HandlerMark
<1>18. ASSUME NEW w \in Waiters, HandlerWake(w) PROVE TimerDisarmed'
  BY <1>18 DEF HandlerWake, WakeUp, SeenBy
<1>19. CASE UNCHANGED vars
  BY <1>19 DEF vars
<1>. QED
  BY <1>1, <1>2, <1>3, <1>4, <1>5, <1>6, <1>7, <1>8, <1>9, <1>10, <1>11, <1>12,
     <1>13, <1>14, <1>15, <1>16, <1>17, <1>18, <1>19
     DEF Next, Waiting, Handler

(* What makes a waiting task runnable is a set it has seen, a timer, or a
   signal it will report. *)
LEMMA CausesStep == TypeOK /\ Causes /\ [Next]_vars => Causes'
<1> SUFFICES ASSUME TypeOK, Causes, [Next]_vars PROVE Causes'
  OBVIOUS
<1> USE SettersAssumption DEF TypeOK, eventVars, taskVars, timerVars, Goto, InCall, Causes, Interrupted
<1>1. ASSUME NEW manual \in BOOLEAN, OsEventCreate(manual) PROVE Causes'
  BY <1>1 DEF OsEventCreate
<1>2. CASE OsEventDestroy
  BY <1>2 DEF OsEventDestroy
<1>3. CASE OsEventReset
  BY <1>3 DEF OsEventReset
<1>4. ASSUME NEW s \in Setters, SetFlag(s) PROVE Causes'
  BY <1>4 DEF SetFlag, SeenBy
<1>5. ASSUME NEW s \in Setters, SetWake(s) PROVE Causes'
  BY <1>5 DEF SetWake, WakeUp
<1>6. ASSUME NEW w \in Waiters, NEW c \in Calls[w], CallWait(w, c) PROVE Causes'
  BY <1>6, CallsAssumption DEF CallWait
<1>7. ASSUME NEW w \in Waiters, Signal(w) PROVE Causes'
  BY <1>7 DEF Signal
<1>8. ASSUME NEW w \in Waiters, CheckSignaled(w) PROVE Causes'
  BY <1>8 DEF CheckSignaled, SeenBy
<1>9. ASSUME NEW w \in Waiters, CheckPoll(w) PROVE Causes'
  BY <1>9 DEF CheckPoll
<1>10. ASSUME NEW w \in Waiters, CheckSleep(w) PROVE Causes'
  BY <1>10 DEF CheckSleep
<1>11. ASSUME NEW w \in Waiters, Leave(w) PROVE Causes'
  BY <1>11 DEF Leave, EndCall, FinishWait
<1>12. ASSUME NEW w \in Waiters, Arm(w) PROVE Causes'
  BY <1>12 DEF Arm
<1>13. ASSUME NEW w \in Waiters, Sleep(w) PROVE Causes'
  BY <1>13 DEF Sleep
<1>14. ASSUME NEW w \in Waiters, Resume(w) PROVE Causes'
  BY <1>14 DEF Resume, FinishWait, ClearTimeout
<1>15. ASSUME NEW w \in Waiters, Conclude(w) PROVE Causes'
  BY <1>15 DEF Conclude, EndCall
<1>16. ASSUME NEW w \in Waiters, Expire(w) PROVE Causes'
  BY <1>16 DEF Expire
<1>17. ASSUME NEW w \in Waiters, HandlerMark(w) PROVE Causes'
  BY <1>17 DEF HandlerMark
<1>18. ASSUME NEW w \in Waiters, HandlerWake(w) PROVE Causes'
  BY <1>18 DEF HandlerWake, WakeUp, SeenBy
<1>19. CASE UNCHANGED vars
  BY <1>19 DEF vars
<1>. QED
  BY <1>1, <1>2, <1>3, <1>4, <1>5, <1>6, <1>7, <1>8, <1>9, <1>10, <1>11, <1>12,
     <1>13, <1>14, <1>15, <1>16, <1>17, <1>18, <1>19
     DEF Next, Waiting, Handler

-----------------------------------------------------------------------------
IInv == TypeOK /\ Sleepers /\ TimerDisarmed /\ Causes

LEMMA InvariantKept == IInv /\ [Next]_vars => IInv'
  BY TypeStep, SleepersStep, TimerStep, CausesStep DEF IInv

LEMMA Invariance == Spec => []IInv
<1>1. Init => IInv
  BY InitAll DEF IInv
<1>. QED
  BY <1>1, InvariantKept, PTL DEF Spec

(* The types, and: only tasks inside a wait are on the queue. *)
THEOREM TypeCorrect == Spec => []TypeOK
<1>1. IInv => TypeOK
  BY DEF IInv
<1>. QED
  BY <1>1, Invariance, PTL

(* No task sleeps through a signaled event that is not just being set. *)
THEOREM SetWakesSleepers == Spec => []NoSleepWhileSignaled
<1>1. IInv => NoSleepWhileSignaled
  BY DEF IInv, Sleepers, NoSleepWhileSignaled
<1>. QED
  BY <1>1, Invariance, PTL

(* No wait leaves an armed timer on its stack. *)
THEOREM NoDanglingTimer == Spec => []TimerDisarmed
<1>1. IInv => TimerDisarmed
  BY DEF IInv
<1>. QED
  BY <1>1, Invariance, PTL

(* A wait succeeds only if the event was set, or a timer fired, during it. *)
THEOREM SuccessIsCaused == Spec => []SuccessHasCause
<1>1. IInv => SuccessHasCause
  BY DEF IInv, TypeOK, Causes, SuccessHasCause, Outcome, TimedOut
<1>. QED
  BY <1>1, Invariance, PTL

-----------------------------------------------------------------------------
(* A task has a call while it is inside a wait, and nothing that it has seen once it
   has returned; and nobody sets an event that is not initialised. *)
Calling ==
    /\ \A w \in Waiters :
          /\ pc[w] = "idle" <=> call[w] = NoCall
          /\ pc[w] = "idle" => seen[w] = "none"
    /\ state = "UNINITIALIZED" => spinlock = NoSetter

(* What a waiter calls is a call. *)
LEMMA CallsAreCalls ==
    ASSUME NEW w \in Waiters, NEW c \in Calls[w]
    PROVE  c \in AllCalls /\ c # NoCall
BY CallsAssumption DEF AllCalls, NoCall

(* A call is noted when its task is queued, and forgotten when it returns. *)
LEMMA CallingStep == TypeOK /\ Calling /\ [Next]_vars => Calling'
<1> SUFFICES ASSUME TypeOK, Calling, [Next]_vars PROVE Calling'
  OBVIOUS
<1> USE DEF TypeOK, eventVars, taskVars, timerVars, Goto, InCall, Calling
<1>1. ASSUME NEW manual \in BOOLEAN, OsEventCreate(manual) PROVE Calling'
  BY <1>1 DEF OsEventCreate
<1>2. CASE OsEventDestroy
  BY <1>2 DEF OsEventDestroy
<1>3. CASE OsEventReset
  BY <1>3 DEF OsEventReset
<1>4. ASSUME NEW s \in Setters, SetFlag(s) PROVE Calling'
  BY <1>4 DEF SetFlag, SeenBy
<1>5. ASSUME NEW s \in Setters, SetWake(s) PROVE Calling'
  BY <1>5 DEF SetWake
<1>6. ASSUME NEW w \in Waiters, NEW c \in Calls[w], CallWait(w, c) PROVE Calling'
  BY <1>6, CallsAreCalls DEF CallWait
<1>7. ASSUME NEW w \in Waiters, Signal(w) PROVE Calling'
  BY <1>7 DEF Signal
<1>8. ASSUME NEW w \in Waiters, CheckSignaled(w) PROVE Calling'
  BY <1>8 DEF CheckSignaled, SeenBy
<1>9. ASSUME NEW w \in Waiters, CheckPoll(w) PROVE Calling'
  BY <1>9 DEF CheckPoll
<1>10. ASSUME NEW w \in Waiters, CheckSleep(w) PROVE Calling'
  BY <1>10 DEF CheckSleep
<1>11. ASSUME NEW w \in Waiters, Leave(w) PROVE Calling'
  BY <1>11 DEF Leave, EndCall
<1>12. ASSUME NEW w \in Waiters, Arm(w) PROVE Calling'
  BY <1>12 DEF Arm
<1>13. ASSUME NEW w \in Waiters, Sleep(w) PROVE Calling'
  BY <1>13 DEF Sleep
<1>14. ASSUME NEW w \in Waiters, Resume(w) PROVE Calling'
  BY <1>14 DEF Resume
<1>15. ASSUME NEW w \in Waiters, Conclude(w) PROVE Calling'
  BY <1>15 DEF Conclude, EndCall
<1>16. ASSUME NEW w \in Waiters, Expire(w) PROVE Calling'
  BY <1>16 DEF Expire
<1>17. ASSUME NEW w \in Waiters, HandlerMark(w) PROVE Calling'
  BY <1>17 DEF HandlerMark
<1>18. ASSUME NEW w \in Waiters, HandlerWake(w) PROVE Calling'
  BY <1>18 DEF HandlerWake, SeenBy
<1>19. CASE UNCHANGED vars
  BY <1>19 DEF vars
<1>. QED
  BY <1>1, <1>2, <1>3, <1>4, <1>5, <1>6, <1>7, <1>8, <1>9, <1>10, <1>11, <1>12,
     <1>13, <1>14, <1>15, <1>16, <1>17, <1>18, <1>19
     DEF Next, Waiting, Handler

-----------------------------------------------------------------------------
(* The state of the abstract event. *)
Occurred == {w \in Waiters : seen[w] # "none"}
Answered == [w \in Waiters |-> Outcome(w)]

(* The abstract event has inside it the tasks inside a wait. *)
LEMMA InsideMeansCalling ==
    ASSUME Calling PROVE Abstract!Inside = {w \in Waiters : InCall(w)}
BY DEF Calling, Abstract!Inside, Abstract!NoCall, NoCall, InCall

(* The answers change only where a task moves or something is settled. *)
LEMMA AnswersStay ==
    ASSUME UNCHANGED <<pc, call, signal, timedout>>
    PROVE  Answered' = Answered
BY DEF Answered, Outcome, Interrupted, TimedOut

(* One of them changes. *)
LEMMA OneAnswer ==
    ASSUME NEW w \in Waiters, \A v \in Waiters \ {w} : Outcome(v)' = Outcome(v)
    PROVE  Answered' = [Answered EXCEPT ![w] = Outcome(w)']
BY DEF Answered

(* Nobody has called, and nothing has occurred. *)
LEMMA AbstractStarts == Init => Abstract!Init
<1> SUFFICES ASSUME Init PROVE Abstract!Init
  OBVIOUS
<1> USE DEF Init, EventInit, WaitersInit
<1>1. Answered = [w \in Waiters |-> "none"] /\ Occurred = {}
  BY DEF Answered, Occurred, Outcome
<1>2. call = [w \in Waiters |-> Abstract!NoCall]
  BY DEF Abstract!NoCall, NoCall
<1> QED
  BY <1>1, <1>2 DEF Abstract!Init, Answered, Occurred

(* Nothing of the abstract event changes. *)
LEMMA Stutter ==
    ASSUME UNCHANGED <<state, manual_reset, signaled, spinlock, call, seen>>,
           \A v \in Waiters : Outcome(v)' = Outcome(v)
    PROVE  UNCHANGED Abstract!vars
BY DEF Abstract!vars

(* What a wait is going to return is settled when it takes the flag or gives up, when
   schedule() returns, or by a late handler; the rest of a wait is a stutter. *)
LEMMA AbstractSteps == IInv /\ Calling /\ [Next]_vars => [Abstract!Next]_(Abstract!vars)
<1> SUFFICES ASSUME TypeOK, Sleepers, Causes, Causes', Calling, [Next]_vars
             PROVE  [Abstract!Next]_(Abstract!vars)
  BY CausesStep DEF IInv
<1> USE DEF TypeOK, eventVars, taskVars, timerVars
<1>0. Abstract!Inside = {w \in Waiters : InCall(w)}
  BY InsideMeansCalling
<1>1. ASSUME NEW manual \in BOOLEAN, OsEventCreate(manual) PROVE Abstract!Create
  <2>1. Answered' = Answered
    BY <1>1, AnswersStay DEF OsEventCreate
  <2> QED
    BY <1>1, <2>1 DEF OsEventCreate, Abstract!Create, Calling, Answered
<1>2. ASSUME OsEventDestroy PROVE Abstract!Destroy
  <2>1. Answered' = Answered
    BY <1>2, AnswersStay DEF OsEventDestroy
  <2> QED
    BY <1>0, <1>2, <2>1 DEF OsEventDestroy, Abstract!Destroy, Answered
<1>3. ASSUME OsEventReset PROVE Abstract!Reset
  <2>1. Answered' = Answered
    BY <1>3, AnswersStay DEF OsEventReset
  <2> QED
    BY <1>3, <2>1 DEF OsEventReset, Abstract!Reset, Answered
<1>4. ASSUME NEW s \in Setters, SetFlag(s) PROVE Abstract!Set
  <2>1. Answered' = Answered
    BY <1>4, AnswersStay DEF SetFlag
  <2>2. Abstract!Tell({})
    BY <2>1 DEF Abstract!Tell, Answered
  <2>3. Occurred' = Abstract!Inside
    BY <1>0, <1>4 DEF SetFlag, SeenBy, Occurred, Calling, InCall
  <2>4. wait_queue # {} => Abstract!Inside # {}
    BY <1>0 DEF InCall
  <2>5. s # NoSetter
    BY SettersAssumption
  <2> QED
    BY <1>4, <2>2, <2>3, <2>4, <2>5 DEF SetFlag, Abstract!Set, Occurred
<1>5. ASSUME NEW s \in Setters, SetWake(s) PROVE Abstract!SetReturns
  <2>1. Answered' = Answered
    BY <1>5, AnswersStay DEF SetWake
  <2> QED
    BY <1>5, <2>1, SettersAssumption DEF SetWake, Abstract!SetReturns, Answered
<1>6. ASSUME NEW w \in Waiters, NEW c \in Calls[w], CallWait(w, c)
      PROVE  c \in Abstract!AllCalls /\ Abstract!Call(w, c)
  <2>1. \A v \in Waiters : Outcome(v)' = Outcome(v)
    BY <1>6 DEF CallWait, Goto, Outcome, Interrupted, TimedOut
  <2>2. Occurred' = IF spinlock # NoSetter THEN Occurred \cup {w} ELSE Occurred
    BY <1>6 DEF CallWait, Goto, Occurred, Calling
  <2>3. w \notin Abstract!Inside
    BY <1>0, <1>6 DEF CallWait, Goto, InCall
  <2>4. c \in Abstract!AllCalls
    BY CallsAreCalls DEF AllCalls, Abstract!AllCalls
  <2> QED
    BY <1>6, <2>1, <2>2, <2>3, <2>4 DEF CallWait, Abstract!Call, Occurred
<1>7. ASSUME NEW w \in Waiters, Signal(w) PROVE UNCHANGED Abstract!vars
  <2>1. \A v \in Waiters : Outcome(v)' = Outcome(v)
    BY <1>7 DEF Signal, Outcome, Interrupted, TimedOut
  <2> QED
    BY <1>7, <2>1, Stutter DEF Signal
<1>8. ASSUME NEW w \in Waiters, CheckSignaled(w) PROVE Abstract!Take(w)
  <2>1. Outcome(w) = "none" /\ Outcome(w)' = "OSAL_SUCCESS"
    BY <1>8 DEF CheckSignaled, Goto, Outcome
  <2>2. \A v \in Waiters \ {w} : Outcome(v)' = Outcome(v)
    BY <1>8 DEF CheckSignaled, Goto, Outcome, Interrupted, TimedOut
  <2>3. call[w] # Abstract!NoCall
    BY <1>8 DEF CheckSignaled, Goto, Calling, NoCall, Abstract!NoCall
  <2>4. Abstract!Tell({w})
    BY <2>1, <2>2, <2>3 DEF Abstract!Tell
  <2>5. Occurred' = Occurred \cup {w}
    BY <1>8 DEF CheckSignaled, Goto, SeenBy, InCall, Occurred
  <2> QED
    BY <1>8, <2>4, <2>5 DEF CheckSignaled, Abstract!Take, Occurred
<1>9. ASSUME NEW w \in Waiters, CheckPoll(w) PROVE Abstract!Answer(w, "OSAL_TIMEOUT")
  <2>1. Outcome(w) = "none" /\ Outcome(w)' = "OSAL_TIMEOUT"
    BY <1>9 DEF CheckPoll, Goto, Outcome
  <2>2. \A v \in Waiters \ {w} : Outcome(v)' = Outcome(v)
    BY <1>9 DEF CheckPoll, Goto, Outcome, Interrupted, TimedOut
  <2>3. w \in Abstract!Inside
    BY <1>0, <1>9 DEF CheckPoll, Goto, InCall
  <2>4. Answered' = [Answered EXCEPT ![w] = "OSAL_TIMEOUT"]
    BY <2>1, <2>2, OneAnswer
  <2> QED
    BY <1>9, <2>1, <2>3, <2>4 DEF CheckPoll, Abstract!Answer, Answered
<1>10. ASSUME NEW w \in Waiters, CheckSleep(w) \/ Arm(w) \/ Sleep(w)
       PROVE  UNCHANGED Abstract!vars
  <2>1. \A v \in Waiters : Outcome(v)' = Outcome(v)
    BY <1>10 DEF CheckSleep, Arm, Sleep, Goto, Outcome, Interrupted, TimedOut
  <2> QED
    BY <1>10, <2>1, Stutter DEF CheckSleep, Arm, Sleep
<1>11. ASSUME NEW w \in Waiters, Leave(w) \/ Conclude(w) PROVE Abstract!Return(w)
  <2>1. Outcome(w) # "none" /\ Outcome(w)' = "none"
    BY <1>11 DEF Leave, Conclude, Goto, Outcome
  <2>2. \A v \in Waiters \ {w} : Outcome(v)' = Outcome(v)
    BY <1>11 DEF Leave, Conclude, Goto, EndCall, Outcome, Interrupted, TimedOut
  <2>3. Answered' = [Answered EXCEPT ![w] = "none"]
    BY <2>1, <2>2, OneAnswer
  <2>4. call' = [call EXCEPT ![w] = Abstract!NoCall] /\ Occurred' = Occurred \ {w}
    BY <1>11 DEF Leave, Conclude, EndCall, NoCall, Abstract!NoCall, Occurred
  <2>5. signaled' \in {signaled, signaled /\ manual_reset}
    BY <1>11 DEF Leave, Conclude
  <2>6. UNCHANGED <<state, manual_reset, spinlock>>
    BY <1>11 DEF Leave, Conclude
  <2> QED
    BY <2>1, <2>3, <2>4, <2>5, <2>6 DEF Abstract!Return, Answered, Occurred
<1>12. ASSUME NEW w \in Waiters, Resume(w)
       PROVE  Abstract!Answer(w, Outcome(w)') /\ Outcome(w)' \in Abstract!Answers
  <2>1. Outcome(w) = "none" /\ pc'[w] = "conclude" /\ w \in Abstract!Inside
    BY <1>0, <1>12 DEF Resume, Goto, Outcome, InCall
  <2>2. \A v \in Waiters \ {w} : Outcome(v)' = Outcome(v)
    BY <1>12 DEF Resume, Goto, Outcome, Interrupted, TimedOut
  <2>3. Answered' = [Answered EXCEPT ![w] = Outcome(w)']
    BY <2>2, OneAnswer
  <2>4. \/ Outcome(w)' = "OSAL_SUCCESS" /\ w \in Occurred
        \/ Outcome(w)' = "OSAL_TIMEOUT" /\ call[w].ms = "timed"
        \/ Outcome(w)' = "OSAL_NOT_DONE" /\ call[w].interruptible
    BY <1>12, <2>1 DEF Resume, Outcome, Interrupted, TimedOut, Causes, Occurred
  <2> QED
    BY <1>12, <2>1, <2>3, <2>4 DEF Resume, Abstract!Answer, Abstract!Answers, Answered, Occurred
<1>13. ASSUME NEW w \in Waiters, Expire(w) PROVE UNCHANGED Abstract!vars
  <2>1. \A v \in Waiters : Outcome(v)' = Outcome(v)
    BY <1>13 DEF Expire, Outcome, Interrupted, TimedOut
  <2> QED
    BY <1>13, <2>1, Stutter DEF Expire
<1>14. ASSUME NEW w \in Waiters, HandlerMark(w)
       PROVE  Abstract!Answer(w, "OSAL_TIMEOUT") \/ UNCHANGED Abstract!vars
  <2>1. \A v \in Waiters \ {w} : Outcome(v)' = Outcome(v)
    BY <1>14 DEF HandlerMark, Outcome, Interrupted, TimedOut
  <2>2. CASE Outcome(w)' = Outcome(w)
    BY <1>14, <2>1, <2>2, Stutter DEF HandlerMark
  <2>3. CASE Outcome(w)' # Outcome(w)
    <3>1. /\ Outcome(w) = "OSAL_SUCCESS" /\ Outcome(w)' = "OSAL_TIMEOUT"
          /\ call[w].ms = "timed" /\ w \in Abstract!Inside
      BY <1>0, <1>14, <2>3 DEF HandlerMark, Outcome, Interrupted, TimedOut, InCall
    <3>2. Answered' = [Answered EXCEPT ![w] = "OSAL_TIMEOUT"]
      BY <2>1, <3>1, OneAnswer
    <3> QED
      BY <1>14, <3>1, <3>2 DEF HandlerMark, Abstract!Answer, Answered
  <2> QED
    BY <2>2, <2>3
<1>15. ASSUME NEW w \in Waiters, HandlerWake(w)
       PROVE  (\E who \in SUBSET Waiters : Abstract!Disturb(who)) \/ UNCHANGED Abstract!vars
  <2>1. \A v \in Waiters : Outcome(v)' = Outcome(v)
    BY <1>15 DEF HandlerWake, Outcome, Interrupted, TimedOut
  <2>2. CASE UNCHANGED seen
    BY <1>15, <2>1, <2>2, Stutter DEF HandlerWake
  <2> DEFINE who == {v \in wait_queue : seen[v] = "none"}
  <2>3. CASE SeenBy(who, "timer")
    <3>1. who \in SUBSET Waiters
      OBVIOUS
    <3>2. Occurred' = Occurred \cup (who \cap Abstract!Inside)
      BY <1>0, <2>3 DEF SeenBy, Occurred
    <3>3. Abstract!Tell({})
      BY <2>1 DEF Abstract!Tell
    <3> QED
      BY <1>15, <3>1, <3>2, <3>3 DEF HandlerWake, Abstract!Disturb, Occurred
  <2> QED
    BY <1>15, <2>2, <2>3 DEF HandlerWake
<1>16. CASE UNCHANGED vars
  <2>1. Answered' = Answered
    BY <1>16, AnswersStay DEF vars
  <2> QED
    BY <1>16, <2>1 DEF vars, Abstract!vars, Answered
<1> QED
  <2>1. "OSAL_TIMEOUT" \in Abstract!Answers
    BY DEF Abstract!Answers
  <2> QED
    BY <1>1, <1>2, <1>3, <1>4, <1>5, <1>6, <1>7, <1>8, <1>9, <1>10, <1>11, <1>12,
       <1>13, <1>14, <1>15, <1>16, <2>1 DEF Next, Waiting, Handler, Abstract!Next

(* The kernel event is the event of the header, whatever sets, timers, signals and
   waits interleave between its two locks: a set stays in the flag or is seen by all
   who are inside a wait, and what a wait returns has a reason. *)
THEOREM Refinement == Spec => ImplementsEvent
<1>1. Init => Calling
  BY DEF Init, EventInit, WaitersInit, Calling
<1>2. IInv /\ Calling /\ [Next]_vars => Calling'
  BY CallingStep DEF IInv
<1> QED
  BY <1>1, <1>2, Invariance, AbstractStarts, AbstractSteps, PTL
     DEF Spec, ImplementsEvent, Abstract!Spec
=============================================================================
