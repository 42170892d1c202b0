------------------------- MODULE OsalSemaUser_proofs -------------------------
(***************************************************************************)
(* Proofs about the user-space semaphore, for every set of threads, every  *)
(* initial value and every MaxCount.  TypeOK and WaitQueue are inductive   *)
(* by themselves; InitInv says who may initialise the semaphore and who    *)
(* may use it, and MutualExclusion, InitAlone and the refinement rest on   *)
(* it; NoLostWakeup counts the wakeups on their way.                       *)
(***************************************************************************)
EXTENDS OsalSemaUser, FiniteSetTheorems, TLAPS

(* Only sleeping getters are queued on the condition variable. *)
WaitQueue == \A t \in non_zero : pc[t] = "get_wait"

(* How static initialisation proceeds: fast_mutex covers the section, the flag
   tells the thread that is to write from the one that has nothing left to do,
   and only a thread that has seen the semaphore initialised uses it. *)
InitInv ==
    /\ \A t \in Threads : pc[t] \in {"init_write", "init_unlock"} => fast_mutex = t
    /\ \A t \in Threads : pc[t] \in InitPCs => style = "static"
    /\ \A t \in Threads : pc[t] = "init_write" => sema_static_init_cnt = 0
    /\ \A t \in Threads : pc[t] = "init_unlock" => sema_static_init_cnt = 1
    /\ style = "static" => (initialised <=> sema_static_init_cnt = 1)
    /\ ready # {} => initialised
    /\ \A t \in Threads : pc[t] \in GetPCs \cup PutPCs => t \in ready

IInv == TypeOK /\ WaitQueue /\ InitInv /\ MutualExclusion /\ NoLostWakeup

-----------------------------------------------------------------------------
(* Every variable keeps its type: in particular count never becomes negative,
   for every initial value that is not negative. *)
THEOREM TypeCorrect == Spec => []TypeOK
<1>1. ASSUME Init PROVE TypeOK
  BY <1>1, CountsAssumption DEF Init, TypeOK, InitPCs, GetPCs, PutPCs
<1>2. TypeOK /\ [Next]_vars => TypeOK'
  <2> SUFFICES ASSUME TypeOK, [Next]_vars PROVE TypeOK'
    OBVIOUS
  <2> USE CountsAssumption, ThreadsAssumption
      DEF TypeOK, useVars, initVars, Goto, AtLoop, InitPCs, GetPCs, PutPCs
  <2>1. CASE OsSemaInit
    BY <2>1 DEF OsSemaInit
  <2>2. CASE OsSemaDestroy
    BY <2>2 DEF OsSemaDestroy
  <2>3. ASSUME NEW t \in Threads, CallInitPreInited(t) PROVE TypeOK'
    BY <2>3 DEF CallInitPreInited
  <2>4. ASSUME NEW t \in Threads, CallGet(t) PROVE TypeOK'
    BY <2>4 DEF CallGet
  <2>5. ASSUME NEW t \in Threads, CallPut(t) PROVE TypeOK'
    BY <2>5 DEF CallPut
  <2>6. ASSUME NEW t \in Threads, SpuriousWakeup(t) PROVE TypeOK'
    BY <2>6 DEF SpuriousWakeup
  <2>7. ASSUME NEW t \in Threads, Inside(t) PROVE TypeOK'
    <3>1. CASE InitLock(t)
      BY <3>1 DEF InitLock
    <3>2. CASE InitWrite(t)
      BY <3>2 DEF InitWrite
    <3>3. CASE InitUnlock(t)
      BY <3>3 DEF InitUnlock
    <3>4. CASE GetTake(t)
      BY <3>4 DEF GetTake
    <3>5. CASE GetBlock(t)
      BY <3>5 DEF GetBlock
    <3>6. CASE GetUnlock(t)
      BY <3>6 DEF GetUnlock
    <3>7. CASE PutInc(t)
      BY <3>7 DEF PutInc
    <3>8. CASE PutUnlock(t)
      BY <3>8 DEF PutUnlock
    <3>9. CASE PutSignal(t)
      BY <3>9 DEF PutSignal
    <3> QED
      BY <2>7, <3>1, <3>2, <3>3, <3>4, <3>5, <3>6, <3>7, <3>8, <3>9 DEF Inside
  <2>8. CASE UNCHANGED vars
    BY <2>8 DEF vars
  <2> QED
    BY <2>1, <2>2, <2>3, <2>4, <2>5, <2>6, <2>7, <2>8 DEF Next
<1> QED
  BY <1>1, <1>2, PTL DEF Spec

-----------------------------------------------------------------------------
(* Only threads inside pthread_cond_wait are on the queue. *)
LEMMA WaitQueueStep ==
    ASSUME TypeOK, WaitQueue, [Next]_vars
    PROVE  WaitQueue'
<1> USE DEF TypeOK, WaitQueue, useVars, initVars, Goto, AtLoop
<1>1. CASE OsSemaInit
  BY <1>1 DEF OsSemaInit
<1>2. CASE OsSemaDestroy
  BY <1>2 DEF OsSemaDestroy
<1>3. ASSUME NEW t \in Threads,
             CallInitPreInited(t) \/ CallGet(t) \/ CallPut(t) \/ SpuriousWakeup(t)
      PROVE  WaitQueue'
  BY <1>3 DEF CallInitPreInited, CallGet, CallPut, SpuriousWakeup
<1>4. ASSUME NEW t \in Threads, Inside(t) PROVE WaitQueue'
  <2>1. CASE InitLock(t) \/ InitWrite(t) \/ InitUnlock(t)
    BY <2>1 DEF InitLock, InitWrite, InitUnlock
  <2>2. CASE GetTake(t) \/ GetBlock(t) \/ GetUnlock(t)
    BY <2>2 DEF GetTake, GetBlock, GetUnlock
  <2>3. CASE PutInc(t) \/ PutUnlock(t) \/ PutSignal(t)
    BY <2>3 DEF PutInc, PutUnlock, PutSignal
  <2> QED
    BY <1>4, <2>1, <2>2, <2>3 DEF Inside
<1>5. CASE UNCHANGED vars
  BY <1>5 DEF vars
<1> QED
  BY <1>1, <1>2, <1>3, <1>4, <1>5 DEF Next

(* The discipline of initialisation survives every step. *)
LEMMA InitInvStep ==
    ASSUME TypeOK, InitInv, [Next]_vars
    PROVE  InitInv'
<1> USE ThreadsAssumption
    DEF TypeOK, InitInv, useVars, initVars, Goto, AtLoop, Quiet, InitPCs, GetPCs, PutPCs
<1>1. CASE OsSemaInit
  BY <1>1 DEF OsSemaInit
<1>2. CASE OsSemaDestroy
  BY <1>2 DEF OsSemaDestroy
<1>3. ASSUME NEW t \in Threads, CallInitPreInited(t) PROVE InitInv'
  BY <1>3 DEF CallInitPreInited
<1>4. ASSUME NEW t \in Threads, CallGet(t) \/ CallPut(t) \/ SpuriousWakeup(t)
      PROVE  InitInv'
  BY <1>4 DEF CallGet, CallPut, SpuriousWakeup
<1>5. ASSUME NEW t \in Threads, Inside(t) PROVE InitInv'
  <2>1. CASE InitLock(t)
    BY <2>1 DEF InitLock
  <2>2. CASE InitWrite(t)
    BY <2>2 DEF InitWrite
  <2>3. CASE InitUnlock(t)
    BY <2>3 DEF InitUnlock
  <2>4. CASE GetTake(t) \/ GetBlock(t) \/ GetUnlock(t)
    BY <2>4 DEF GetTake, GetBlock, GetUnlock
  <2>5. CASE PutInc(t) \/ PutUnlock(t) \/ PutSignal(t)
    BY <2>5 DEF PutInc, PutUnlock, PutSignal
  <2> QED
    BY <1>5, <2>1, <2>2, <2>3, <2>4, <2>5 DEF Inside
<1>6. CASE UNCHANGED vars
  BY <1>6 DEF vars
<1> QED
  BY <1>1, <1>2, <1>3, <1>4, <1>5, <1>6 DEF Next

(* The initialisation discipline leaves the writer alone with the semaphore. *)
LEMMA WriterAlone ==
    ASSUME TypeOK, InitInv
    PROVE  InitAlone
BY DEF TypeOK, InitInv, InitAlone, InitPCs, GetPCs, PutPCs

(* A mutex that is taken only when free, and overwritten only by a writer who
   is alone, has one owner. *)
LEMMA MutualExclusionStep ==
    ASSUME TypeOK, InitInv, MutualExclusion, [Next]_vars
    PROVE  MutualExclusion'
<1> USE ThreadsAssumption
    DEF TypeOK, MutualExclusion, useVars, initVars, Goto, AtLoop, Quiet
<1>1. CASE OsSemaInit \/ OsSemaDestroy
  BY <1>1 DEF OsSemaInit, OsSemaDestroy
<1>2. ASSUME NEW t \in Threads,
             CallInitPreInited(t) \/ CallGet(t) \/ CallPut(t) \/ SpuriousWakeup(t)
      PROVE  MutualExclusion'
  BY <1>2 DEF CallInitPreInited, CallGet, CallPut, SpuriousWakeup
<1>3. ASSUME NEW t \in Threads, Inside(t) PROVE MutualExclusion'
  <2>1. CASE InitWrite(t)
    BY <2>1, WriterAlone DEF InitWrite, InitAlone, GetPCs, PutPCs
  <2>2. CASE InitLock(t) \/ InitUnlock(t)
    BY <2>2 DEF InitLock, InitUnlock
  <2>3. CASE GetTake(t) \/ GetBlock(t) \/ GetUnlock(t)
    BY <2>3 DEF GetTake, GetBlock, GetUnlock
  <2>4. CASE PutInc(t) \/ PutUnlock(t) \/ PutSignal(t)
    BY <2>4 DEF PutInc, PutUnlock, PutSignal
  <2> QED
    BY <1>3, <2>1, <2>2, <2>3, <2>4 DEF Inside
<1>4. CASE UNCHANGED vars
  BY <1>4 DEF vars
<1> QED
  BY <1>1, <1>2, <1>3, <1>4 DEF Next

-----------------------------------------------------------------------------
(* Waking is a set of threads, so its size is a number, and moving a thread in
   or out of it changes that number as one expects. *)
LEMMA WakingFinite == IsFiniteSet(Waking) /\ Cardinality(Waking) \in Nat
<1>1. Waking \subseteq Threads
  BY DEF Waking
<1> QED
  BY <1>1, ThreadsAssumption, FS_Subset, FS_CardinalityType

(* A step that adds nobody to the sleepers, takes nobody out of Waking and adds
   no permit leaves every permit its wakeup. *)
LEMMA WakingGrows ==
    ASSUME TypeOK, TypeOK', NoLostWakeup,
           non_zero' \subseteq non_zero, Waking \subseteq Waking', count' <= count
    PROVE  NoLostWakeup'
<1>1. /\ IsFiniteSet(Waking) /\ Cardinality(Waking) \in Nat
      /\ IsFiniteSet(Waking') /\ Cardinality(Waking') \in Nat
  <2>1. Waking' \subseteq Threads
    BY DEF Waking
  <2> QED
    BY <2>1, WakingFinite, ThreadsAssumption, FS_Subset, FS_CardinalityType
<1>2. Cardinality(Waking) <= Cardinality(Waking')
  BY <1>1, FS_Subset
<1> QED
  BY <1>1, <1>2 DEF NoLostWakeup, TypeOK

(* No step leaves a permit without a wakeup while a getter sleeps: a put brings
   its own, its signal turns it into a woken getter, and a woken getter that
   uses its wakeup takes a permit or finds none. *)
LEMMA NoLostWakeupStep ==
    ASSUME TypeOK, TypeOK', WaitQueue, NoLostWakeup, [Next]_vars
    PROVE  NoLostWakeup'
<1> USE ThreadsAssumption DEF TypeOK, useVars, initVars, Goto
<1>1. CASE OsSemaInit \/ OsSemaDestroy
  <2>1. Quiet /\ non_zero' = non_zero
    BY <1>1 DEF OsSemaInit, OsSemaDestroy
  <2>2. non_zero = {}
    BY <2>1 DEF Quiet, WaitQueue
  <2> QED
    BY <2>1, <2>2 DEF NoLostWakeup
<1>2. ASSUME NEW t \in Threads,
             CallInitPreInited(t) \/ CallGet(t) \/ CallPut(t) \/ SpuriousWakeup(t)
      PROVE  NoLostWakeup'
  <2>1. /\ non_zero' \subseteq non_zero
        /\ Waking \subseteq Waking'
        /\ count' <= count
    BY <1>2 DEF CallInitPreInited, CallGet, CallPut, SpuriousWakeup, Waking
  <2> QED
    BY <2>1, WakingGrows
<1>3. ASSUME NEW t \in Threads, Inside(t) PROVE NoLostWakeup'
  <2>1. CASE InitLock(t) \/ InitUnlock(t) \/ GetUnlock(t) \/ PutUnlock(t)
    <3>1. /\ non_zero' \subseteq non_zero
          /\ Waking \subseteq Waking'
          /\ count' <= count
      BY <2>1 DEF InitLock, InitUnlock, GetUnlock, PutUnlock, Waking
    <3> QED
      BY <3>1, WakingGrows
  <2>2. CASE InitWrite(t)
    BY <2>2 DEF InitWrite, NoLostWakeup
  <2>3. CASE GetTake(t)
    <3>1. /\ non_zero' = non_zero
          /\ count' = count - 1
          /\ Waking' = Waking \ {t}
      BY <2>3 DEF GetTake, AtLoop, Waking
    <3>2. Cardinality(Waking \ {t}) =
             IF t \in Waking THEN Cardinality(Waking) - 1 ELSE Cardinality(Waking)
      BY WakingFinite, FS_RemoveElement
    <3>3. Cardinality(Waking') >= Cardinality(Waking) - 1
      BY <3>1, <3>2, WakingFinite
    <3>4. Cardinality(Waking') \in Nat
      <4>1. Waking' \subseteq Threads
        BY DEF Waking
      <4> QED
        BY <4>1, FS_Subset, FS_CardinalityType
    <3> QED
      BY <3>1, <3>3, <3>4, WakingFinite DEF NoLostWakeup
  <2>4. CASE GetBlock(t)
    <3>1. count' = 0
      BY <2>4 DEF GetBlock, AtLoop
    <3>2. Waking' \subseteq Threads
      BY DEF Waking
    <3>3. Cardinality(Waking') \in Nat
      BY <3>2, FS_Subset, FS_CardinalityType
    <3> QED
      BY <3>1, <3>3 DEF NoLostWakeup
  <2>5. CASE PutInc(t)
    <3>1. /\ non_zero' = non_zero
          /\ count' = count + 1
          /\ t \notin Waking
          /\ Waking' = Waking \cup {t}
      BY <2>5 DEF PutInc, Waking
    <3>2. Cardinality(Waking') = Cardinality(Waking) + 1
      BY <3>1, WakingFinite, FS_AddElement
    <3> QED
      BY <3>1, <3>2, WakingFinite DEF NoLostWakeup
  <2>6. CASE PutSignal(t)
    <3>1. CASE non_zero = {} /\ UNCHANGED non_zero
      BY <3>1 DEF NoLostWakeup
    <3>2. ASSUME NEW u \in non_zero, non_zero' = non_zero \ {u}
          PROVE  NoLostWakeup'
      <4>1. /\ u \in Threads /\ u # t
            /\ u \notin Waking
            /\ t \in Waking
            /\ Waking' = (Waking \ {t}) \cup {u}
            /\ count' = count
        BY <2>6, <3>2 DEF PutSignal, WaitQueue, Waking
      <4>2. /\ IsFiniteSet(Waking \ {t})
            /\ Cardinality(Waking \ {t}) = Cardinality(Waking) - 1
        BY <4>1, WakingFinite, FS_RemoveElement
      <4>3. Cardinality((Waking \ {t}) \cup {u}) = Cardinality(Waking \ {t}) + 1
        BY <4>1, <4>2, FS_AddElement
      <4>4. Cardinality(Waking') = Cardinality(Waking)
        BY <4>1, <4>2, <4>3, WakingFinite
      <4> QED
        BY <4>1, <4>4, <3>2 DEF NoLostWakeup
    <3> QED
      BY <2>6, <3>1, <3>2 DEF PutSignal
  <2> QED
    BY <1>3, <2>1, <2>2, <2>3, <2>4, <2>5, <2>6 DEF Inside
<1>4. CASE UNCHANGED vars
  BY <1>4, WakingGrows DEF vars, Waking
<1> QED
  BY <1>1, <1>2, <1>3, <1>4 DEF Next

-----------------------------------------------------------------------------
(* The inductive invariant holds throughout. *)
THEOREM Invariance == Spec => []IInv
<1>1. Init => IInv
  <2> SUFFICES ASSUME Init PROVE IInv
    OBVIOUS
  <2>1. TypeOK
    BY CountsAssumption DEF Init, TypeOK, InitPCs, GetPCs, PutPCs
  <2>2. WaitQueue /\ InitInv /\ MutualExclusion /\ NoLostWakeup
    BY DEF Init, WaitQueue, InitInv, MutualExclusion, NoLostWakeup, InitPCs, GetPCs, PutPCs
  <2> QED
    BY <2>1, <2>2 DEF IInv
<1>2. TypeOK' /\ IInv /\ [Next]_vars => IInv'
  BY WaitQueueStep, InitInvStep, MutualExclusionStep, NoLostWakeupStep DEF IInv
<1> QED
  BY <1>1, <1>2, TypeCorrect, PTL DEF Spec

(* However get, put and init interleave, every available permit has a wakeup on
   its way while a getter sleeps. *)
THEOREM NoWakeupIsLost == Spec => []NoLostWakeup
<1>1. IInv => NoLostWakeup
  BY DEF IInv
<1> QED
  BY <1>1, Invariance, PTL

(* The mutex has one owner, even with initialisers running beside the users. *)
THEOREM MutexExcludes == Spec => []MutualExclusion
<1>1. IInv => MutualExclusion
  BY DEF IInv
<1> QED
  BY <1>1, Invariance, PTL

(* os_sema_init_pre_inited never writes a semaphore that is in use. *)
THEOREM InitialisedOnce == Spec => []InitAlone
<1>1. IInv => InitAlone
  BY WriterAlone DEF IInv
<1> QED
  BY <1>1, Invariance, PTL

-----------------------------------------------------------------------------
(* Every behaviour of the mutex and condition-variable protocol is, seen
   through count and the getters still asking, a behaviour of the abstract
   semaphore; ImplementsSemaphore adds the fairness, which only TLC checks. *)
THEOREM Refinement == Spec => Abstract!SafeSpec
<1>1. Init => Abstract!Init
  BY DEF Init, Abstract!Init
<1>2. IInv /\ [Next]_vars => [Abstract!Next]_(Abstract!vars)
  <2> SUFFICES ASSUME IInv, [Next]_vars PROVE [Abstract!Next]_(Abstract!vars)
    OBVIOUS
  <2> USE CountsAssumption
      DEF IInv, TypeOK, InitInv, useVars, initVars, Goto, AtLoop, Quiet,
          InitPCs, GetPCs, PutPCs
  <2>1. CASE OsSemaInit
    BY <2>1 DEF OsSemaInit, Abstract!Next, Abstract!Create
  <2>2. CASE OsSemaDestroy
    BY <2>2 DEF OsSemaDestroy, Abstract!Next, Abstract!Destroy
  <2>3. ASSUME NEW t \in Threads,
               CallInitPreInited(t) \/ CallPut(t) \/ SpuriousWakeup(t)
        PROVE  UNCHANGED Abstract!vars
    BY <2>3 DEF CallInitPreInited, CallPut, SpuriousWakeup, Abstract!vars
  <2>4. ASSUME NEW t \in Threads, CallGet(t) PROVE Abstract!Ask(t)
    BY <2>4 DEF CallGet, Abstract!Ask
  <2>5. ASSUME NEW t \in Threads, Inside(t) PROVE [Abstract!Next]_(Abstract!vars)
    <3>1. CASE InitLock(t) \/ InitUnlock(t) \/ GetBlock(t) \/ GetUnlock(t)
                 \/ PutUnlock(t) \/ PutSignal(t)
      BY <3>1 DEF InitLock, InitUnlock, GetBlock, GetUnlock, PutUnlock, PutSignal,
                  Abstract!vars
    <3>2. CASE InitWrite(t)
      BY <3>2, WriterAlone DEF InitWrite, InitAlone, Abstract!Next, Abstract!Create
    <3>3. CASE GetTake(t)
      <4>1. Abstract!Grant(t)
        BY <3>3 DEF GetTake, Abstract!Grant
      <4> QED
        BY <4>1 DEF Abstract!Next
    <3>4. CASE PutInc(t)
      BY <3>4 DEF PutInc, Abstract!Next, Abstract!Release
    <3> QED
      BY <2>5, <3>1, <3>2, <3>3, <3>4 DEF Inside
  <2>6. CASE UNCHANGED vars
    BY <2>6 DEF vars, Abstract!vars
  <2> QED
    BY <2>1, <2>2, <2>3, <2>4, <2>5, <2>6 DEF Next, Abstract!Next
<1> QED
  BY <1>1, <1>2, Invariance, PTL DEF Spec, Abstract!SafeSpec
=============================================================================
