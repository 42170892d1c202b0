--------------------------- MODULE MCDevices_proofs ---------------------------
(***************************************************************************)
(* Proofs about firmware requests and shared interrupts, for any number of *)
(* drivers, scripts and buffers.  Neither shares a variable with another   *)
(* part, so each has an invariant that holds in every execution.           *)
(***************************************************************************)
EXTENDS MCDevices, TLAPS

(* What each step of a driver with its interrupt owns.  A driver is on the line
   only while it owns the interrupt, and until free_irq has waited for them an
   interrupt and the thread may still be with it. *)
Owned ==
    \A d \in Drivers :
        /\ own[d] = "none" <=> d \notin irqs
        /\ d \in inited => own[d] # "request"
        /\ d \in line <=> own[d] = "owned"
        /\ d \in hard \cup woken \/ thread[d] # "wait" => own[d] \in {"owned", "sync"}

SharedInv == Shared!TypeOK /\ Owned

(* A request in sysfs is that of a driver which waits for it; a buffer is free for
   its image, since only one is asked for at a time.  A script that writes to it
   holds its data file open. *)
Asked ==
    /\ request # Firmware!NoRequest =>
          /\ side = "kernel"
          /\ request.driver \in Drivers
          /\ fw_result[request.driver] = "pending"
          /\ Firmware!Allocated # Buffers
    /\ \A s \in Scripts :
          /\ script[s].step = "copying" => request # Firmware!NoRequest
          /\ script[s].step # "off" => script[s].image \in Firmware!Images

(* A buffer is a context's, or was lost by it, and never both. *)
Held ==
    /\ \A c \in Drivers : fw_address[c] # Nothing => fw_address[c] \notin lost
    /\ Firmware!FirmwareHeld

(* When no script was left of an earlier request, the request's own is the only
   one until it is answered, and what it has done is all that was done. *)
Alone(c) ==
    \A s \in Scripts :
        script[s].step # "off" =>
            /\ \A t \in Scripts : script[t].step # "off" => t = s
            /\ script[s].image = ImageOf[c]
            /\ script[s].step \in {"start", "copy", "copying"} => request.data = {}
            /\ script[s].step = "copied" => request.data = {ImageOf[c]}

Whole ==
    /\ request # Firmware!NoRequest /\ alone[request.driver] => Alone(request.driver)
    /\ Firmware!FirmwareIsWhole

FirmwareInv ==
    Firmware!TypeOK /\ Asked /\ Held /\ Whole /\ Firmware!UnloadLeavesNothing

IInv == SharedInv /\ FirmwareInv

-----------------------------------------------------------------------------
LEMMA SharedInit == Init => SharedInv
  BY DEF Init, Shared!Init, SharedInv, Shared!TypeOK, Owned

LEMMA SharedStep == SharedInv /\ [Next]_vars => SharedInv'
<1> SUFFICES ASSUME SharedInv, [Next]_vars PROVE SharedInv'
  OBVIOUS
<1> USE DEF SharedInv, Shared!TypeOK, Owned
<1>1. ASSUME NEW d \in Drivers, Shared!Acquire(d) PROVE SharedInv'
  <2>1. CASE Shared!AcquireAlloc(d)
    BY <2>1 DEF Shared!AcquireAlloc
  <2>2. CASE Shared!AcquireRequest(d)
    BY <2>2 DEF Shared!AcquireRequest
  <2> QED
    BY <1>1, <2>1, <2>2 DEF Shared!Acquire
<1>2. ASSUME NEW d \in Drivers, Shared!Release(d) PROVE SharedInv'
  <2>1. CASE Shared!ReleaseUnlink(d)
    BY <2>1 DEF Shared!ReleaseUnlink
  <2>2. CASE Shared!ReleaseSync(d)
    BY <2>2 DEF Shared!ReleaseSync
  <2>3. CASE Shared!ReleaseFree(d)
    BY <2>3 DEF Shared!ReleaseFree
  <2> QED
    BY <1>2, <2>1, <2>2, <2>3 DEF Shared!Release
<1>3. ASSUME NEW d \in Drivers, Shared!Raise(d) PROVE SharedInv'
  BY <1>3 DEF Shared!Raise
<1>4. CASE Shared!Interrupt
  BY <1>4 DEF Shared!Interrupt
<1>5. ASSUME NEW d \in Drivers, Shared!OsIrqWrapper(d) PROVE SharedInv'
  <2>1. /\ hard' = hard \ {d} /\ asserted' = asserted \ {d} /\ d \in hard
        /\ woken' \subseteq woken \cup {d} /\ work' \subseteq work \cup {d}
        /\ UNCHANGED <<own, irqs, inited, line, thread>>
    BY <1>5 DEF Shared!OsIrqWrapper
  <2> QED
    BY <2>1
<1>6. ASSUME NEW d \in Drivers, Shared!Thread(d) PROVE SharedInv'
  <2>1. CASE Shared!ThreadRun(d)
    BY <2>1 DEF Shared!ThreadRun
  <2>2. CASE Shared!ThreadPrio(d)
    BY <2>2 DEF Shared!ThreadPrio
  <2>3. CASE Shared!ThreadDone(d)
    BY <2>3 DEF Shared!ThreadDone
  <2> QED
    BY <1>6, <2>1, <2>2, <2>3 DEF Shared!Thread
<1>7. CASE UNCHANGED sharedVars
  BY <1>7 DEF sharedVars
<1> QED
  BY <1>1, <1>2, <1>3, <1>4, <1>5, <1>6, <1>7
  DEF Next, vars, PciFrame, FirmwareFrame, Shared!Next

-----------------------------------------------------------------------------
LEMMA FirmwareInit == Init => FirmwareInv
<1> SUFFICES ASSUME Init PROVE FirmwareInv
  OBVIOUS
<1> USE NothingAssumption DEF Init, Firmware!Init
<1>1. loaded = FALSE /\ procfile = FALSE
  BY Zenon
<1>2. Firmware!TypeOK
  <2>1. fw_size \in [Drivers -> BOOLEAN] /\ alone \in [Drivers -> BOOLEAN]
    BY Zenon
  <2>2. request \in [driver : Drivers \cup {Nothing}, loading : BOOLEAN,
                     data : SUBSET Firmware!Images]
    BY DEF Firmware!NoRequest
  <2>3. script \in [Scripts -> [step : {"off", "start", "copy", "copying", "copied", "failed"},
                                image : Firmware!Images \cup {Nothing}]]
    BY DEF Firmware!Off
  <2>4. heap \in [Buffers -> (SUBSET Firmware!Images) \cup {Nothing}]
    OBVIOUS
  <2> QED
    BY <1>1, <2>1, <2>2, <2>3, <2>4 DEF Firmware!TypeOK
<1>3. Asked
  BY DEF Asked, Firmware!Off
<1>4. Held
  BY DEF Held, Firmware!FirmwareHeld, Firmware!Allocated
<1>5. Whole
  BY DEF Whole, Firmware!FirmwareIsWhole
<1>6. Firmware!UnloadLeavesNothing
  BY <1>1 DEF Firmware!UnloadLeavesNothing
<1> QED
  BY <1>2, <1>3, <1>4, <1>5, <1>6 DEF FirmwareInv

(* A buffer that was free is the context's, and the one it had is lost. *)
LEMMA Stored ==
    ASSUME FirmwareInv, NEW c \in Drivers, NEW content \in SUBSET Firmware!Images,
           Firmware!Allocated # Buffers, Firmware!Store(c, content)
    PROVE  \E b \in Buffers :
              /\ heap[b] = Nothing
              /\ heap' = [heap EXCEPT ![b] = content]
              /\ fw_address' = [fw_address EXCEPT ![c] = b]
              /\ fw_size' = [fw_size EXCEPT ![c] = TRUE]
              /\ lost' = lost \cup ({fw_address[c]} \ {Nothing})
<1> DEFINE b == Firmware!AnyOf(Buffers \ Firmware!Allocated)
<1>1. Firmware!Allocated \subseteq Buffers
  BY DEF Firmware!Allocated
<1>2. b \in Buffers \ Firmware!Allocated
  BY <1>1 DEF Firmware!AnyOf
<1>3. heap[b] = Nothing
  BY <1>2 DEF Firmware!Allocated
<1> QED
  BY <1>2, <1>3 DEF Firmware!Store

LEMMA StoreHeld ==
    ASSUME FirmwareInv, NEW c \in Drivers, NEW content \in SUBSET Firmware!Images,
           Firmware!Allocated # Buffers, Firmware!Store(c, content)
    PROVE  Held'
<1>1. PICK b \in Buffers :
         /\ heap[b] = Nothing
         /\ heap' = [heap EXCEPT ![b] = content]
         /\ fw_address' = [fw_address EXCEPT ![c] = b]
         /\ lost' = lost \cup ({fw_address[c]} \ {Nothing})
  BY Stored
<1>2. /\ heap \in [Buffers -> (SUBSET Firmware!Images) \cup {Nothing}]
      /\ fw_address \in [Drivers -> Buffers \cup {Nothing}]
      /\ lost \subseteq Buffers
      /\ content # Nothing /\ Nothing \notin Buffers
  BY NothingAssumption DEF FirmwareInv, Firmware!TypeOK
<1>3. b \notin Firmware!Allocated /\ Firmware!Allocated' = Firmware!Allocated \cup {b}
  BY <1>1, <1>2 DEF Firmware!Allocated
<1>4. \A d \in Drivers : fw_address[d] # b /\ b \notin lost
  BY <1>2, <1>3 DEF FirmwareInv, Held, Firmware!FirmwareHeld
<1>5. Firmware!Allocated' = lost' \cup ({fw_address'[d] : d \in Drivers} \ {Nothing})
  BY <1>1, <1>2, <1>3, <1>4 DEF FirmwareInv, Held, Firmware!FirmwareHeld
<1>6. \A d \in Drivers : fw_address'[d] # Nothing => fw_address'[d] \notin lost'
  BY <1>1, <1>2, <1>4 DEF FirmwareInv, Held, Firmware!FirmwareHeld
<1>7. \A d, e \in Drivers :
         fw_address'[d] # Nothing => /\ fw_address'[d] \in Firmware!Allocated'
                                     /\ fw_address'[e] = fw_address'[d] => e = d
  BY <1>1, <1>2, <1>3, <1>4 DEF FirmwareInv, Held, Firmware!FirmwareHeld
<1> QED
  BY <1>5, <1>6, <1>7 DEF Held, Firmware!FirmwareHeld

LEMMA FreeHeld ==
    ASSUME FirmwareInv, NEW c \in Drivers, Firmware!Free(c)
    PROVE  Held' /\ Firmware!Allocated' \subseteq Firmware!Allocated
<1>1. /\ fw_address[c] # Nothing
      /\ heap' = [heap EXCEPT ![fw_address[c]] = Nothing]
      /\ fw_address' = [fw_address EXCEPT ![c] = Nothing]
      /\ lost' = lost
  BY DEF Firmware!Free
<1>2. /\ heap \in [Buffers -> (SUBSET Firmware!Images) \cup {Nothing}]
      /\ fw_address \in [Drivers -> Buffers \cup {Nothing}]
      /\ lost \subseteq Buffers
      /\ Nothing \notin Buffers
  BY NothingAssumption DEF FirmwareInv, Firmware!TypeOK
<1>3. Firmware!Allocated' = Firmware!Allocated \ {fw_address[c]}
  BY <1>1, <1>2 DEF Firmware!Allocated
<1>4. Firmware!Allocated' = lost' \cup ({fw_address'[d] : d \in Drivers} \ {Nothing})
  BY <1>1, <1>2, <1>3 DEF FirmwareInv, Held, Firmware!FirmwareHeld
<1>5. \A d \in Drivers : fw_address'[d] # Nothing => fw_address'[d] \notin lost'
  BY <1>1, <1>2 DEF FirmwareInv, Held
<1>6. \A d, e \in Drivers :
         fw_address'[d] # Nothing => /\ fw_address'[d] \in Firmware!Allocated'
                                     /\ fw_address'[e] = fw_address'[d] => e = d
  BY <1>1, <1>2, <1>3 DEF FirmwareInv, Held, Firmware!FirmwareHeld
<1> QED
  BY <1>3, <1>4, <1>5, <1>6 DEF Held, Firmware!FirmwareHeld

(* What is in a context's buffer stays there while others are stored and freed. *)
LEMMA StoreWhole ==
    ASSUME FirmwareInv, NEW c \in Drivers, NEW content \in SUBSET Firmware!Images,
           Firmware!Allocated # Buffers, Firmware!Store(c, content),
           NEW r, fw_result' = [fw_result EXCEPT ![c] = r], alone' = alone,
           r = "OSAL_SUCCESS" /\ alone[c] => content = {ImageOf[c]}
    PROVE  Firmware!FirmwareIsWhole'
<1>1. PICK b \in Buffers :
         /\ heap[b] = Nothing
         /\ heap' = [heap EXCEPT ![b] = content]
         /\ fw_address' = [fw_address EXCEPT ![c] = b]
  BY Stored
<1>2. /\ heap \in [Buffers -> (SUBSET Firmware!Images) \cup {Nothing}]
      /\ fw_address \in [Drivers -> Buffers \cup {Nothing}]
      /\ fw_result \in [Drivers -> {"none", "pending", "OSAL_SUCCESS", "OSAL_ERROR"}]
  BY DEF FirmwareInv, Firmware!TypeOK
<1>3. \A d \in Drivers : fw_address[d] # b
  BY <1>1, NothingAssumption
  DEF FirmwareInv, Held, Firmware!FirmwareHeld, Firmware!Allocated
<1> SUFFICES ASSUME NEW d \in Drivers, fw_result'[d] = "OSAL_SUCCESS", alone[d],
                    fw_address'[d] # Nothing
             PROVE  heap'[fw_address'[d]] = {ImageOf[d]}
  BY DEF Firmware!FirmwareIsWhole
<1>4. CASE d = c
  BY <1>1, <1>2, <1>4
<1>5. CASE d # c
  BY <1>1, <1>2, <1>3, <1>5 DEF FirmwareInv, Whole, Firmware!FirmwareIsWhole
<1> QED
  BY <1>4, <1>5

LEMMA FreeWhole ==
    ASSUME FirmwareInv, NEW c \in Drivers, Firmware!Free(c)
    PROVE  Firmware!FirmwareIsWhole'
<1>1. /\ fw_address[c] # Nothing
      /\ heap' = [heap EXCEPT ![fw_address[c]] = Nothing]
      /\ fw_address' = [fw_address EXCEPT ![c] = Nothing]
      /\ fw_result' = fw_result /\ alone' = alone
  BY DEF Firmware!Free, Firmware!askVars
<1>2. /\ heap \in [Buffers -> (SUBSET Firmware!Images) \cup {Nothing}]
      /\ fw_address \in [Drivers -> Buffers \cup {Nothing}]
  BY DEF FirmwareInv, Firmware!TypeOK
<1>3. \A d \in Drivers : d # c => fw_address[d] # fw_address[c]
  BY <1>1 DEF FirmwareInv, Held, Firmware!FirmwareHeld
<1> QED
  BY <1>1, <1>2, <1>3 DEF FirmwareInv, Whole, Firmware!FirmwareIsWhole

(* The request is answered: the script that does it is done, or it was nobody, and
   none is left writing to the data of the request. *)
LEMMA Withdrawn ==
    ASSUME FirmwareInv, NEW s \in Scripts \cup {Nothing}, NEW step, s = Nothing \/ step = "off",
           Firmware!Withdraw(s, step)
    PROVE  /\ request' = Firmware!NoRequest
           /\ script' \in [Scripts -> [step : {"off", "start", "copy", "copied", "failed"},
                                       image : Firmware!Images \cup {Nothing}]]
           /\ \A t \in Scripts : script'[t].step # "off" => script'[t].image \in Firmware!Images
<1>1. /\ request' = Firmware!NoRequest
      /\ script' = [t \in Scripts |->
                       IF t = s THEN Firmware!Off
                       ELSE IF script[t].step = "copying"
                       THEN [script[t] EXCEPT !.step = "failed"] ELSE script[t]]
  BY NothingAssumption DEF Firmware!Withdraw
<1>2. script \in [Scripts -> [step : {"off", "start", "copy", "copying", "copied", "failed"},
                              image : Firmware!Images \cup {Nothing}]]
  BY DEF FirmwareInv, Firmware!TypeOK
<1>3. \A t \in Scripts :
         script'[t] \in [step : {"off", "start", "copy", "copied", "failed"},
                         image : Firmware!Images \cup {Nothing}]
  BY <1>1, <1>2 DEF Firmware!Off
<1>4. \A t \in Scripts : script'[t].step # "off" => script'[t].image \in Firmware!Images
  BY <1>1, <1>2 DEF Firmware!Off, FirmwareInv, Asked
<1> QED
  BY <1>1, <1>3, <1>4

(* Whatever answers a request leaves nobody writing, gives its buffer to the driver
   or leaves all buffers as they are. *)
LEMMA AnswerStep ==
    ASSUME FirmwareInv, request # Firmware!NoRequest,
           UNCHANGED <<side, loaded, procfile, fw_device>>,
           NEW s \in Scripts \cup {Nothing},
           \/ Firmware!GivenUp(s, "off")
           \/ /\ Firmware!Completed(s, "off")
              /\ s \in Scripts /\ script[s].step = "copied"
    PROVE  FirmwareInv'
<1> DEFINE c == request.driver
<1>1. /\ c \in Drivers /\ request.data \in SUBSET Firmware!Images
      /\ Firmware!Allocated # Buffers /\ fw_result[c] = "pending"
      /\ Firmware!UnloadLeavesNothing'
  BY DEF FirmwareInv, Asked, Firmware!TypeOK, Firmware!UnloadLeavesNothing
<1>2. /\ request' = Firmware!NoRequest /\ alone' = alone
      /\ script' \in [Scripts -> [step : {"off", "start", "copy", "copied", "failed"},
                                  image : Firmware!Images \cup {Nothing}]]
      /\ \A t \in Scripts : script'[t].step # "off" => script'[t].image \in Firmware!Images
  BY Withdrawn DEF Firmware!GivenUp, Firmware!Completed
<1>3. Asked'
  BY <1>2 DEF Asked
<1>4. CASE Firmware!GivenUp(s, "off")
  <2>1. fw_result' = [fw_result EXCEPT ![c] = "OSAL_ERROR"] /\ UNCHANGED Firmware!ctxtVars
    BY <1>4 DEF Firmware!GivenUp, Firmware!Returns
  <2>2. Held'
    BY <2>1 DEF FirmwareInv, Held, Firmware!FirmwareHeld, Firmware!Allocated, Firmware!ctxtVars
  <2>3. Whole'
    BY <1>1, <1>2, <2>1
    DEF FirmwareInv, Whole, Firmware!FirmwareIsWhole, Firmware!ctxtVars, Firmware!TypeOK
  <2>4. Firmware!TypeOK'
    <3>1. script' \in [Scripts -> [step : {"off", "start", "copy", "copying", "copied", "failed"},
                                  image : Firmware!Images \cup {Nothing}]]
      BY <1>2
    <3>2. request' \in [driver : Drivers \cup {Nothing}, loading : BOOLEAN,
                       data : SUBSET Firmware!Images]
      BY <1>2 DEF Firmware!NoRequest
    <3> QED
      BY <1>2, <2>1, <3>1, <3>2 DEF FirmwareInv, Firmware!TypeOK, Firmware!ctxtVars
  <2> QED
    BY <1>1, <1>3, <2>2, <2>3, <2>4 DEF FirmwareInv
<1>5. CASE /\ Firmware!Completed(s, "off")
           /\ s \in Scripts /\ script[s].step = "copied"
  <2>1. /\ Firmware!Store(c, request.data)
        /\ fw_result' = [fw_result EXCEPT ![c] = "OSAL_SUCCESS"]
    BY <1>5 DEF Firmware!Completed, Firmware!Returns
  <2>2. Held'
    BY <1>1, <2>1, StoreHeld
  <2>3. alone[c] => request.data = {ImageOf[c]}
    BY <1>5 DEF FirmwareInv, Whole, Alone
  <2>4. Firmware!FirmwareIsWhole'
    BY <1>1, <1>2, <2>1, <2>3, StoreWhole
  <2>5. Whole'
    BY <1>2, <2>4 DEF Whole
  <2>6. Firmware!TypeOK'
    <3>1. script' \in [Scripts -> [step : {"off", "start", "copy", "copying", "copied", "failed"},
                                  image : Firmware!Images \cup {Nothing}]]
      BY <1>2
    <3>2. request' \in [driver : Drivers \cup {Nothing}, loading : BOOLEAN,
                       data : SUBSET Firmware!Images]
      BY <1>2 DEF Firmware!NoRequest
    <3>3. PICK b \in Buffers :
            /\ heap' = [heap EXCEPT ![b] = request.data]
            /\ fw_address' = [fw_address EXCEPT ![c] = b]
            /\ fw_size' = [fw_size EXCEPT ![c] = TRUE]
            /\ lost' = lost \cup ({fw_address[c]} \ {Nothing})
      BY <1>1, <2>1, Stored
    <3> QED
      BY <1>1, <1>2, <2>1, <3>1, <3>2, <3>3 DEF FirmwareInv, Firmware!TypeOK
  <2> QED
    BY <1>1, <1>3, <2>2, <2>5, <2>6 DEF FirmwareInv
<1> QED
  BY <1>4, <1>5


(* The module's entry and exit change nothing a request or a buffer depends on. *)
LEMMA ModuleStep ==
    ASSUME FirmwareInv, Firmware!OsalInitModule \/ Firmware!OsalCleanupModule
    PROVE  FirmwareInv'
<1>1. UNCHANGED <<side, fw_address, fw_size, heap, lost, fw_result, alone, request, script>>
  BY DEF Firmware!OsalInitModule, Firmware!OsalCleanupModule, Firmware!ctxtVars,
         Firmware!askVars
<1>2. Firmware!TypeOK' /\ Firmware!UnloadLeavesNothing'
  <2>1. CASE Firmware!OsalInitModule
    <3>1. loaded' = TRUE /\ procfile' \in BOOLEAN
      BY <2>1, Zenon DEF Firmware!OsalInitModule, Firmware!OsalIrqproxyInit
    <3>2. fw_device' \in {"registered", "failed"}
      BY <2>1 DEF Firmware!OsalInitModule, Firmware!OsalFirmwareInit
    <3> QED
      BY <1>1, <3>1, <3>2 DEF FirmwareInv, Firmware!TypeOK, Firmware!UnloadLeavesNothing
  <2>2. CASE Firmware!OsalCleanupModule
    <3>1. fw_device' \in {"none", "oops"}
      BY <2>2 DEF Firmware!OsalCleanupModule, Firmware!OsalFirmwareExit
    <3>2. CASE fw_device' = "oops"
      <4>1. loaded /\ loaded' = loaded /\ procfile' = procfile
        BY <2>2, <3>2, Zenon DEF Firmware!OsalCleanupModule
      <4> QED
        BY <1>1, <3>1, <4>1 DEF FirmwareInv, Firmware!TypeOK, Firmware!UnloadLeavesNothing
    <3>3. CASE fw_device' # "oops"
      <4>1. loaded' = FALSE /\ procfile' = FALSE
        BY <2>2, <3>3, Zenon DEF Firmware!OsalCleanupModule, Firmware!OsalIrqproxyExit
      <4> QED
        BY <1>1, <3>1, <3>3, <4>1
        DEF FirmwareInv, Firmware!TypeOK, Firmware!UnloadLeavesNothing
    <3> QED
      BY <3>2, <3>3
  <2> QED
    BY <2>1, <2>2
<1>3. Asked' /\ Held' /\ Whole'
  BY <1>1
  DEF FirmwareInv, Asked, Held, Whole, Alone, Firmware!FirmwareHeld, Firmware!FirmwareIsWhole,
      Firmware!Allocated
<1> QED
  BY <1>2, <1>3 DEF FirmwareInv

LEMMA RequestStep ==
    ASSUME FirmwareInv, NEW c \in Drivers, Firmware!OsFirmwareRequest(c)
    PROVE  FirmwareInv'
<1>1. /\ UNCHANGED <<side, loaded, procfile, fw_device, fw_address, fw_size, heap, lost>>
      /\ side = "kernel" /\ fw_result[c] # "pending"
  BY DEF Firmware!OsFirmwareRequest, Firmware!driverVars, Firmware!ctxtVars
<1>2. Held' /\ Firmware!UnloadLeavesNothing'
  BY <1>1 DEF FirmwareInv, Held, Firmware!FirmwareHeld, Firmware!Allocated,
              Firmware!UnloadLeavesNothing
<1>3. CASE /\ fw_result' = [fw_result EXCEPT ![c] = "OSAL_ERROR"]
           /\ UNCHANGED <<alone, request, script>>
  <2>1. Firmware!TypeOK'
    BY <1>1, <1>3 DEF FirmwareInv, Firmware!TypeOK
  <2>2. Asked'
    BY <1>1, <1>3 DEF FirmwareInv, Asked, Firmware!TypeOK, Firmware!Allocated
  <2>3. Whole'
    BY <1>1, <1>3 DEF FirmwareInv, Whole, Alone, Firmware!FirmwareIsWhole, Firmware!TypeOK
  <2> QED
    BY <1>2, <2>1, <2>2, <2>3 DEF FirmwareInv
<1>4. ASSUME NEW s \in Scripts, script[s] = Firmware!Off,
             request = Firmware!NoRequest, Firmware!Allocated # Buffers,
             request' = [driver |-> c, loading |-> FALSE, data |-> {}],
             script' = [script EXCEPT ![s] = [step |-> "start", image |-> ImageOf[c]]],
             alone' = [alone EXCEPT ![c] = \A t \in Scripts : script[t] = Firmware!Off],
             fw_result' = [fw_result EXCEPT ![c] = "pending"]
      PROVE  FirmwareInv'
  <2>1. ImageOf[c] \in Firmware!Images /\ c # Nothing
    BY NothingAssumption DEF Firmware!Images
  <2>2. /\ script \in [Scripts -> [step : {"off", "start", "copy", "copying", "copied", "failed"},
                                   image : Firmware!Images \cup {Nothing}]]
        /\ fw_result \in [Drivers -> {"none", "pending", "OSAL_SUCCESS", "OSAL_ERROR"}]
        /\ alone \in [Drivers -> BOOLEAN]
    BY DEF FirmwareInv, Firmware!TypeOK
  <2>3. script' \in [Scripts -> [step : {"off", "start", "copy", "copying", "copied", "failed"},
                                image : Firmware!Images \cup {Nothing}]]
    BY <1>4, <2>1, <2>2
  <2>4. /\ fw_result' \in [Drivers -> {"none", "pending", "OSAL_SUCCESS", "OSAL_ERROR"}]
        /\ request' \in [driver : Drivers \cup {Nothing}, loading : BOOLEAN,
                        data : SUBSET Firmware!Images]
    BY <1>4, <2>2
  <2>5. alone' \in [Drivers -> BOOLEAN]
    <3>1. (\A t \in Scripts : script[t] = Firmware!Off) \in BOOLEAN
      BY Zenon
    <3> QED
      BY <1>4, <2>2, <3>1
  <2>6. Firmware!TypeOK'
    BY <1>1, <2>3, <2>4, <2>5 DEF FirmwareInv, Firmware!TypeOK
  <2>7. Asked'
    <3>1. /\ request'.driver = c /\ side' = "kernel" /\ fw_result'[c] = "pending"
          /\ Firmware!Allocated' # Buffers
      BY <1>1, <1>4, <2>2 DEF Firmware!Allocated
    <3>2. \A t \in Scripts :
             /\ script'[t].step # "copying"
             /\ script'[t].step # "off" => script'[t].image \in Firmware!Images
      BY <1>4, <2>1, <2>2 DEF FirmwareInv, Asked
    <3> QED
      BY <3>1, <3>2 DEF Asked
  <2>8. alone'[c] => Alone(c)'
    BY <1>4, <2>2 DEF Alone, Firmware!Off
  <2>9. Firmware!FirmwareIsWhole'
    BY <1>1, <1>4, <2>2 DEF FirmwareInv, Whole, Firmware!FirmwareIsWhole
  <2>10. Whole'
    <3>1. request'.driver = c
      BY <1>4
    <3> QED
      BY <2>8, <2>9, <3>1 DEF Whole, Alone
  <2> QED
    BY <1>2, <2>6, <2>7, <2>10 DEF FirmwareInv
<1>5. CASE \E s \in Scripts : script[s] = Firmware!Off
  <2> DEFINE s == Firmware!AnyOf({t \in Scripts : script[t] = Firmware!Off})
  <2>1. s \in Scripts /\ script[s] = Firmware!Off
    BY <1>5 DEF Firmware!AnyOf
  <2> HIDE DEF s
  <2> QED
    BY <1>3, <1>4, <2>1 DEF Firmware!OsFirmwareRequest, Firmware!Returns, s
<1> QED
  BY <1>3, <1>5 DEF Firmware!OsFirmwareRequest, Firmware!Returns

LEMMA FreeStep ==
    ASSUME FirmwareInv, NEW c \in Drivers, Firmware!Free(c),
           side = "user" \/ fw_result[c] # "pending"
    PROVE  FirmwareInv'
<1>1. /\ UNCHANGED <<side, loaded, procfile, fw_device, fw_result, alone, request, script, lost>>
      /\ heap' = [heap EXCEPT ![fw_address[c]] = Nothing]
      /\ fw_address' = [fw_address EXCEPT ![c] = Nothing]
      /\ fw_size' = [fw_size EXCEPT ![c] = FALSE]
  BY DEF Firmware!Free, Firmware!driverVars, Firmware!askVars
<1>2. Held' /\ Firmware!Allocated' \subseteq Firmware!Allocated /\ Firmware!FirmwareIsWhole'
  BY FreeHeld, FreeWhole
<1>3. Firmware!TypeOK'
  BY <1>1 DEF FirmwareInv, Firmware!TypeOK
<1>4. Asked'
  <2>1. Firmware!Allocated \subseteq Buffers
    BY DEF Firmware!Allocated
  <2> QED
    BY <1>1, <1>2, <2>1 DEF FirmwareInv, Asked
<1>5. Whole'
  BY <1>1, <1>2 DEF FirmwareInv, Whole, Alone
<1>6. Firmware!UnloadLeavesNothing'
  BY <1>1 DEF FirmwareInv, Firmware!UnloadLeavesNothing
<1> QED
  BY <1>2, <1>3, <1>4, <1>5, <1>6 DEF FirmwareInv

(* A step of a script that answers nothing: it goes from one place to the next, and
   what it writes belongs to its own request if that is the only one. *)
LEMMA ScriptMoves ==
    ASSUME FirmwareInv, NEW s \in Scripts,
           UNCHANGED <<side, loaded, procfile, fw_device, fw_address, fw_size, heap, lost,
                       fw_result, alone>>,
           NEW step \in {"copy", "copying", "copied", "failed"}, script[s].step # "off",
           script' = [script EXCEPT ![s].step = step],
           NEW data \in SUBSET Firmware!Images, NEW loading \in BOOLEAN,
           IF request = Firmware!NoRequest
           THEN request' = request /\ step # "copying"
           ELSE request' = [request EXCEPT !.loading = loading, !.data = data],
           request # Firmware!NoRequest /\ alone[request.driver] =>
               /\ step \in {"copy", "copying"} => data = {}
               /\ step = "copied" => data = {ImageOf[request.driver]}
    PROVE  FirmwareInv'
<1>1. /\ script \in [Scripts -> [step : {"off", "start", "copy", "copying", "copied", "failed"},
                                 image : Firmware!Images \cup {Nothing}]]
      /\ request \in [driver : Drivers \cup {Nothing}, loading : BOOLEAN,
                      data : SUBSET Firmware!Images]
  BY DEF FirmwareInv, Firmware!TypeOK
<1>2. /\ script'[s].step = step /\ script'[s].image = script[s].image
      /\ \A t \in Scripts : t # s => script'[t] = script[t]
      /\ script' \in [Scripts -> [step : {"off", "start", "copy", "copying", "copied", "failed"},
                                  image : Firmware!Images \cup {Nothing}]]
  BY <1>1
<1>3. /\ request' \in [driver : Drivers \cup {Nothing}, loading : BOOLEAN,
                       data : SUBSET Firmware!Images]
      /\ request'.driver = request.driver
      /\ request' = Firmware!NoRequest <=> request = Firmware!NoRequest
      /\ request # Firmware!NoRequest => request'.data = data /\ request.driver \in Drivers
  <2>1. CASE request = Firmware!NoRequest
    BY <1>1, <2>1
  <2>2. CASE request # Firmware!NoRequest
    <3>1. request.driver \in Drivers /\ request.driver # Nothing
      BY <2>2, NothingAssumption DEF FirmwareInv, Asked
    <3>2. request' = [request EXCEPT !.loading = loading, !.data = data]
      BY <2>2
    <3>3. /\ request' \in [driver : Drivers \cup {Nothing}, loading : BOOLEAN,
                           data : SUBSET Firmware!Images]
          /\ request'.driver = request.driver /\ request'.data = data
      BY <1>1, <3>2
    <3> QED
      BY <2>2, <3>1, <3>3 DEF Firmware!NoRequest
  <2> QED
    BY <2>1, <2>2
<1>4. Firmware!TypeOK'
  BY <1>2, <1>3 DEF FirmwareInv, Firmware!TypeOK
<1>5. Held' /\ Firmware!UnloadLeavesNothing' /\ Firmware!FirmwareIsWhole'
  BY DEF FirmwareInv, Held, Firmware!FirmwareHeld, Firmware!Allocated,
         Firmware!UnloadLeavesNothing, Whole, Firmware!FirmwareIsWhole
<1>6. Asked'
  BY <1>2, <1>3 DEF FirmwareInv, Asked, Firmware!Allocated
<1>7. Whole'
  <2> SUFFICES ASSUME request # Firmware!NoRequest, alone[request.driver]
               PROVE  Alone(request.driver)'
    BY <1>3, <1>5 DEF Whole
  <2>1. Alone(request.driver)
    BY DEF FirmwareInv, Whole
  <2>2. \A t \in Scripts : script[t].step # "off" => t = s
    BY <2>1 DEF Alone
  <2>3. \A t \in Scripts : script'[t].step # "off" => t = s
    BY <1>2, <2>2
  <2>4. script'[s].image = ImageOf[request.driver]
    BY <1>2, <2>1 DEF Alone
  <2> QED
    BY <1>2, <1>3, <2>3, <2>4 DEF Alone
<1> QED
  BY <1>4, <1>5, <1>6, <1>7 DEF FirmwareInv

LEMMA ScriptStep ==
    ASSUME FirmwareInv, NEW s \in Scripts, Firmware!Script(s)
    PROVE  FirmwareInv'
<1> USE DEF Firmware!driverVars, Firmware!ctxtVars, Firmware!askVars
<1>1. /\ script \in [Scripts -> [step : {"off", "start", "copy", "copying", "copied", "failed"},
                                 image : Firmware!Images \cup {Nothing}]]
      /\ request \in [driver : Drivers \cup {Nothing}, loading : BOOLEAN,
                      data : SUBSET Firmware!Images]
  BY DEF FirmwareInv, Firmware!TypeOK
<1>2. CASE Firmware!Start(s)
  BY <1>2, ScriptMoves DEF Firmware!Start
<1>3. ASSUME NEW step \in {"copying", "failed"}, script[s].step = "copy",
             step = "copying" => request # Firmware!NoRequest,
             script' = [script EXCEPT ![s].step = step],
             UNCHANGED <<side, loaded, procfile, fw_device, fw_address, fw_size, heap, lost,
                         fw_result, alone, request>>
      PROVE  FirmwareInv'
  <2>1. request' = [request EXCEPT !.loading = request.loading, !.data = request.data]
    BY <1>1, <1>3
  <2>2. request # Firmware!NoRequest /\ alone[request.driver] => request.data = {}
    BY <1>3 DEF FirmwareInv, Whole, Alone
  <2>3. request.data \in SUBSET Firmware!Images /\ request.loading \in BOOLEAN
    BY <1>1
  <2>4. /\ step # "copied" /\ step \in {"copy", "copying", "copied", "failed"}
        /\ script[s].step # "off"
    BY <1>3
  <2> QED
    BY <1>3, <2>1, <2>2, <2>3, <2>4, ScriptMoves
<1>4. CASE Firmware!Copy(s)
  BY <1>3, <1>4 DEF Firmware!Copy
<1>5. CASE Firmware!CopyAll(s)
  <2>1. /\ script[s].step = "copying" /\ script' = [script EXCEPT ![s].step = "copied"]
        /\ request' = [request EXCEPT !.loading = request.loading,
                                      !.data = request.data \cup {script[s].image}]
        /\ request # Firmware!NoRequest
    BY <1>1, <1>5 DEF Firmware!CopyAll, FirmwareInv, Asked
  <2>2. alone[request.driver] =>
           request.data = {} /\ script[s].image = ImageOf[request.driver]
    BY <2>1 DEF FirmwareInv, Whole, Alone
  <2>3. script[s].image \in Firmware!Images
    BY <1>1, <2>1 DEF FirmwareInv, Asked
  <2>4. /\ request.data \cup {script[s].image} \in SUBSET Firmware!Images
        /\ request.loading \in BOOLEAN
    BY <1>1, <2>3
  <2>5. UNCHANGED <<side, loaded, procfile, fw_device, fw_address, fw_size, heap, lost,
                    fw_result, alone>>
    BY <1>5 DEF Firmware!CopyAll
  <2>6. alone[request.driver] =>
           request.data \cup {script[s].image} = {ImageOf[request.driver]}
    BY <2>2
  <2> QED
    BY <2>1, <2>4, <2>5, <2>6, ScriptMoves
<1>6. CASE Firmware!Report(s)
  <2>1. CASE request # Firmware!NoRequest
    BY <1>6, <2>1, AnswerStep DEF Firmware!Report
  <2>2. CASE request = Firmware!NoRequest
    <3>1. /\ script' = [script EXCEPT ![s] = Firmware!Off]
          /\ UNCHANGED <<side, loaded, procfile, fw_device, fw_address, fw_size, heap, lost,
                         fw_result, alone, request>>
      BY <1>6, <2>2 DEF Firmware!Report
    <3>2. script' \in [Scripts -> [step : {"off", "start", "copy", "copying", "copied", "failed"},
                                  image : Firmware!Images \cup {Nothing}]]
      BY <1>1, <3>1 DEF Firmware!Off
    <3>3. Firmware!TypeOK'
      BY <3>1, <3>2 DEF FirmwareInv, Firmware!TypeOK
    <3>4. Held' /\ Firmware!UnloadLeavesNothing' /\ Whole'
      BY <2>2, <3>1
      DEF FirmwareInv, Held, Firmware!FirmwareHeld, Firmware!Allocated,
          Firmware!UnloadLeavesNothing, Whole, Firmware!FirmwareIsWhole
    <3>5. Asked'
      BY <1>1, <2>2, <3>1 DEF FirmwareInv, Asked, Firmware!Off
    <3> QED
      BY <3>3, <3>4, <3>5 DEF FirmwareInv
  <2> QED
    BY <2>1, <2>2
<1> QED
  BY <1>2, <1>4, <1>5, <1>6 DEF Firmware!Script

LEMMA UserStep ==
    ASSUME FirmwareInv, NEW c \in Drivers, Firmware!UserRequest(c)
    PROVE  FirmwareInv'
<1>1. /\ UNCHANGED <<side, loaded, procfile, fw_device, alone, request, script>>
      /\ side = "user" /\ request = Firmware!NoRequest
      /\ Firmware!UnloadLeavesNothing'
  BY DEF Firmware!UserRequest, Firmware!driverVars, FirmwareInv, Asked,
         Firmware!UnloadLeavesNothing
<1>2. Asked'
  BY <1>1 DEF FirmwareInv, Asked
<1>3. CASE fw_result' = [fw_result EXCEPT ![c] = "OSAL_ERROR"] /\ UNCHANGED Firmware!ctxtVars
  <2>1. Firmware!TypeOK'
    BY <1>1, <1>3 DEF FirmwareInv, Firmware!TypeOK, Firmware!ctxtVars
  <2>2. Held'
    BY <1>3 DEF FirmwareInv, Held, Firmware!FirmwareHeld, Firmware!Allocated, Firmware!ctxtVars
  <2>3. Whole'
    BY <1>1, <1>3
    DEF FirmwareInv, Whole, Firmware!FirmwareIsWhole, Firmware!TypeOK, Firmware!ctxtVars
  <2> QED
    BY <1>1, <1>2, <2>1, <2>2, <2>3 DEF FirmwareInv
<1>4. ASSUME fw_result' = [fw_result EXCEPT ![c] = "OSAL_ERROR"],
             fw_size' = [fw_size EXCEPT ![c] = TRUE],
             fw_address' = [fw_address EXCEPT ![c] = Nothing],
             lost' = lost \cup ({fw_address[c]} \ {Nothing}), heap' = heap
      PROVE  FirmwareInv'
  <2>1. /\ fw_address \in [Drivers -> Buffers \cup {Nothing}] /\ lost \subseteq Buffers
        /\ Firmware!Allocated' = Firmware!Allocated
    BY <1>4 DEF FirmwareInv, Firmware!TypeOK, Firmware!Allocated
  <2>2. Firmware!TypeOK'
    BY <1>1, <1>4 DEF FirmwareInv, Firmware!TypeOK
  <2>3. Held'
    BY <1>4, <2>1 DEF FirmwareInv, Held, Firmware!FirmwareHeld
  <2>4. Whole'
    BY <1>1, <1>4
    DEF FirmwareInv, Whole, Firmware!FirmwareIsWhole, Firmware!TypeOK
  <2> QED
    BY <1>1, <1>2, <2>2, <2>3, <2>4 DEF FirmwareInv
<1>5. ASSUME NEW content \in {{ImageOf[c]}, {}}, Firmware!Allocated # Buffers,
             NEW r \in {"OSAL_SUCCESS", "OSAL_ERROR"}, Firmware!Store(c, content),
             r = "OSAL_SUCCESS" => content = {ImageOf[c]},
             fw_result' = [fw_result EXCEPT ![c] = r]
      PROVE  FirmwareInv'
  <2>1. content \in SUBSET Firmware!Images
    BY DEF Firmware!Images
  <2>2. Held'
    BY <1>5, <2>1, StoreHeld
  <2>3. Firmware!FirmwareIsWhole'
    BY <1>1, <1>5, <2>1, StoreWhole
  <2>4. PICK b \in Buffers :
          /\ heap' = [heap EXCEPT ![b] = content]
          /\ fw_address' = [fw_address EXCEPT ![c] = b]
          /\ fw_size' = [fw_size EXCEPT ![c] = TRUE]
          /\ lost' = lost \cup ({fw_address[c]} \ {Nothing})
    BY <1>5, <2>1, Stored
  <2>5. Firmware!TypeOK'
    BY <1>1, <1>5, <2>1, <2>4 DEF FirmwareInv, Firmware!TypeOK
  <2> QED
    BY <1>1, <1>2, <2>2, <2>3, <2>5 DEF FirmwareInv, Whole
<1> QED
  BY <1>3, <1>4, <1>5 DEF Firmware!UserRequest, Firmware!Returns

LEMMA FirmwareStep == FirmwareInv /\ [Next]_vars => FirmwareInv'
<1> SUFFICES ASSUME FirmwareInv, [Next]_vars PROVE FirmwareInv'
  OBVIOUS
<1>1. CASE Firmware!OsalInitModule \/ Firmware!OsalCleanupModule
  BY <1>1, ModuleStep
<1>2. ASSUME NEW c \in Drivers, Firmware!OsFirmwareRequest(c) PROVE FirmwareInv'
  BY <1>2, RequestStep
<1>3. ASSUME NEW c \in Drivers, Firmware!UserRequest(c) PROVE FirmwareInv'
  BY <1>3, UserStep
<1>4. ASSUME NEW c \in Drivers, Firmware!OsFirmwareRelease(c) \/ Firmware!UserRelease(c)
      PROVE  FirmwareInv'
  BY <1>4, FreeStep DEF Firmware!OsFirmwareRelease, Firmware!UserRelease
<1>5. CASE Firmware!LoadingTimeout
  BY <1>5, AnswerStep DEF Firmware!LoadingTimeout, Firmware!driverVars
<1>6. ASSUME NEW s \in Scripts, Firmware!Script(s) PROVE FirmwareInv'
  BY <1>6, ScriptStep
<1>7. CASE UNCHANGED firmwareVars
  BY <1>7
  DEF firmwareVars, FirmwareInv, Firmware!TypeOK, Asked, Held, Whole, Alone,
      Firmware!FirmwareHeld, Firmware!FirmwareIsWhole, Firmware!UnloadLeavesNothing,
      Firmware!Allocated
<1> QED
  BY <1>1, <1>2, <1>3, <1>4, <1>5, <1>6, <1>7
  DEF Next, vars, PciFrame, SharedFrame, Firmware!Next

-----------------------------------------------------------------------------
LEMMA Invariance == Spec => []IInv
<1>1. Init => IInv
  BY SharedInit, FirmwareInit DEF IInv
<1>2. IInv /\ [Next]_vars => IInv'
  BY SharedStep, FirmwareStep DEF IInv
<1> QED
  BY <1>1, <1>2, PTL DEF Spec

(* os_release_shared_interrupt frees the os_irq_t when no top handler and no
   thread is with it any more, whatever the other drivers on the line do. *)
THEOREM ReleaseWaits == Spec => []HandlersAreAlive
<1>1. IInv => HandlersAreAlive
  BY DEF IInv, SharedInv, Owned, HandlersAreAlive, Shared!HandlersAreAlive
<1> QED
  BY <1>1, Invariance, PTL

(* A request that succeeds has the whole of its image, however requests, scripts
   and timeouts interleave, if no script was left from before; each firmware buffer
   is held by one context or was lost by a second request on it; and unloading the
   module leaves nothing. *)
THEOREM ImagesAreKept == Spec => []FirmwareIsKept
<1>1. IInv => FirmwareIsKept
  BY DEF IInv, FirmwareInv, Held, Whole, FirmwareIsKept
<1> QED
  BY <1>1, Invariance, PTL
=============================================================================
