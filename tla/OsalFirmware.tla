---------------------------- MODULE OsalFirmware ----------------------------
(***************************************************************************)
(* Firmware images.  In the kernel, linux_kernel/src/osal_firmware.c with  *)
(* the driver's entry and exit, a request is answered by a script,         *)
(* scripts/osal_fw_hotplug.sh, that writes the image to sysfs, or ends     *)
(* when Linux loses patience; in user space, linux_user/src/               *)
(* osal_firmware.c, the image is read from its file.                       *)
(*                                                                         *)
(* From Linux (not under src/): a request appears in sysfs under the name  *)
(* of fw_device, always the same, and while it is there another is         *)
(* refused; writing 1 to its loading empties the buffer, 0 completes it if *)
(* 1 came before, anything else gives it up.  The driver is not unloaded   *)
(* while others use it.                                                    *)
(***************************************************************************)
EXTENDS Integers, FiniteSets

CONSTANTS
    Drivers,    \* the owners of one firmware context each
    ImageOf,    \* the image file each asks for
    Scripts,    \* bound: as many scripts run at a time
    Buffers,    \* bound: as many buffers are allocated at a time
    Nothing     \* NULL; no driver, no image

VARIABLES
    side,       \* "kernel" or "user"
    loaded,     \* osal_linux.ko is loaded
    procfile,   \* /proc/osal_irqproxy exists
    fw_device,  \* "none", "registered", "failed" or "oops"
    fw_address, \* each context's buffer
    fw_size,    \* it has a size
    heap,       \* what is in each buffer that is allocated: the images
    request,    \* what is in sysfs: for whom, whether 1 was written, the data
    script,     \* the scripts
    \* history
    fw_result,  \* the result of each context's last request
    alone,      \* no script of an earlier request was left when it was made
    lost        \* the buffers that were overwritten in their context

driverVars == <<side, loaded, procfile, fw_device>>
ctxtVars == <<fw_address, fw_size, heap, lost>>
askVars == <<fw_result, alone>>
fwVars == <<driverVars, ctxtVars, askVars, request, script>>

NoRequest == [driver |-> Nothing, loading |-> FALSE, data |-> {}]
Off == [step |-> "off", image |-> Nothing]
Images == {ImageOf[c] : c \in Drivers}
Allocated == {b \in Buffers : heap[b] # Nothing}

TypeOK ==
    /\ side \in {"kernel", "user"} /\ loaded \in BOOLEAN /\ procfile \in BOOLEAN
    /\ fw_device \in {"none", "registered", "failed", "oops"}
    /\ fw_address \in [Drivers -> Buffers \cup {Nothing}]
    /\ fw_size \in [Drivers -> BOOLEAN]
    /\ heap \in [Buffers -> (SUBSET Images) \cup {Nothing}]
    /\ request \in [driver : Drivers \cup {Nothing}, loading : BOOLEAN, data : SUBSET Images]
    /\ script \in [Scripts -> [step : {"off", "start", "copy", "copying", "copied", "failed"},
                               image : Images \cup {Nothing}]]
    /\ fw_result \in [Drivers -> {"none", "pending", "OSAL_SUCCESS", "OSAL_ERROR"}]
    /\ alone \in [Drivers -> BOOLEAN] /\ lost \subseteq Buffers

Init ==
    /\ side \in {"kernel", "user"}
    /\ loaded = FALSE /\ procfile = FALSE /\ fw_device = "none"
    /\ fw_address = [c \in Drivers |-> Nothing] /\ fw_size = [c \in Drivers |-> FALSE]
    /\ heap = [b \in Buffers |-> Nothing] /\ lost = {}
    /\ request = NoRequest
    /\ script = [s \in Scripts |-> Off]
    /\ fw_result = [c \in Drivers |-> "none"]
    /\ alone = [c \in Drivers |-> TRUE]

-----------------------------------------------------------------------------
(* The driver's entry and exit; the entry reports success whatever the two parts
   report.  The exit unregisters the device also if its registration failed, and
   comes no further then. *)
OsalIrqproxyInit == procfile' \in BOOLEAN
OsalIrqproxyExit == procfile' = FALSE

OsalFirmwareInit == fw_device' \in {"registered", "failed"}
OsalFirmwareExit == fw_device' = IF fw_device = "registered" THEN "none" ELSE "oops"

OsalInitModule ==
    /\ side = "kernel" /\ ~loaded
    /\ OsalIrqproxyInit /\ OsalFirmwareInit
    /\ loaded' = TRUE
    /\ UNCHANGED <<side, ctxtVars, askVars, request, script>>

OsalCleanupModule ==
    /\ loaded /\ fw_device # "oops"
    /\ request = NoRequest /\ \A c \in Drivers : fw_address[c] = Nothing
    /\ OsalFirmwareExit
    /\ IF fw_device' = "oops" THEN UNCHANGED <<loaded, procfile>>
       ELSE OsalIrqproxyExit /\ loaded' = FALSE
    /\ UNCHANGED <<side, ctxtVars, askVars, request, script>>

-----------------------------------------------------------------------------
AnyOf(S) == CHOOSE x \in S : TRUE

(* A context gets a buffer, and forgets the one it had. *)
Store(c, content) ==
    LET b == AnyOf(Buffers \ Allocated)
    IN  /\ heap' = [heap EXCEPT ![b] = content]
        /\ fw_address' = [fw_address EXCEPT ![c] = b]
        /\ fw_size' = [fw_size EXCEPT ![c] = TRUE]
        /\ lost' = lost \cup ({fw_address[c]} \ {Nothing})

Returns(c, result) == fw_result' = [fw_result EXCEPT ![c] = result]

(* os_firmware_request up to its sleep in request_firmware; or it is refused. *)
OsFirmwareRequest(c) ==
    /\ side = "kernel" /\ loaded /\ fw_result[c] # "pending"
    /\ \/ /\ fw_device = "registered" /\ request = NoRequest
          /\ Allocated # Buffers /\ \E s \in Scripts : script[s] = Off
          /\ request' = [driver |-> c, loading |-> FALSE, data |-> {}]
          /\ script' = [script EXCEPT ![AnyOf({s \in Scripts : script[s] = Off})] =
                           [step |-> "start", image |-> ImageOf[c]]]
          /\ alone' = [alone EXCEPT ![c] = \A s \in Scripts : script[s] = Off]
          /\ Returns(c, "pending")
       \/ Returns(c, "OSAL_ERROR") /\ UNCHANGED <<alone, request, script>>
    /\ UNCHANGED <<driverVars, ctxtVars>>

(* The request leaves sysfs, and the file a script still writes to with it. *)
Withdraw(s, step) ==
    /\ request' = NoRequest
    /\ script' = [t \in Scripts |->
                     IF t = s THEN (IF step = "off" THEN Off ELSE [script[t] EXCEPT !.step = step])
                     ELSE IF script[t].step = "copying"
                     THEN [script[t] EXCEPT !.step = "failed"] ELSE script[t]]

Completed(s, step) ==
    /\ Withdraw(s, step)
    /\ Store(request.driver, request.data)
    /\ Returns(request.driver, "OSAL_SUCCESS")
    /\ UNCHANGED alone

GivenUp(s, step) ==
    /\ Withdraw(s, step)
    /\ Returns(request.driver, "OSAL_ERROR")
    /\ UNCHANGED <<ctxtVars, alone>>

LoadingTimeout ==
    /\ request # NoRequest
    /\ GivenUp(Nothing, "off")
    /\ UNCHANGED driverVars

(* Free and reset: the same in the kernel and in user space. *)
Free(c) ==
    /\ fw_address[c] # Nothing
    /\ heap' = [heap EXCEPT ![fw_address[c]] = Nothing]
    /\ fw_address' = [fw_address EXCEPT ![c] = Nothing]
    /\ fw_size' = [fw_size EXCEPT ![c] = FALSE]
    /\ UNCHANGED <<driverVars, askVars, request, script, lost>>

OsFirmwareRelease(c) == side = "kernel" /\ fw_result[c] # "pending" /\ Free(c)

-----------------------------------------------------------------------------
(* The script: echo 1 > loading, cat image > data, echo 0 or -1 > loading.  What
   it writes reaches the request that is there then, if any. *)

Start(s) ==
    /\ script[s].step = "start"
    /\ script' = [script EXCEPT ![s].step = "copy"]
    /\ request' = IF request = NoRequest THEN request
                  ELSE [request EXCEPT !.loading = TRUE, !.data = {}]
    /\ UNCHANGED <<driverVars, ctxtVars, askVars>>

(* The shell opens data, or cannot, or cat cannot read the image. *)
Copy(s) ==
    /\ script[s].step = "copy"
    /\ \/ request # NoRequest /\ script' = [script EXCEPT ![s].step = "copying"]
       \/ script' = [script EXCEPT ![s].step = "failed"]
    /\ UNCHANGED <<driverVars, ctxtVars, askVars, request>>

CopyAll(s) ==
    /\ script[s].step = "copying"
    /\ script' = [script EXCEPT ![s].step = "copied"]
    /\ request' = [request EXCEPT !.data = @ \cup {script[s].image}]
    /\ UNCHANGED <<driverVars, ctxtVars, askVars>>

(* Mutated: cat's result is not looked at. *)
ReportBlind(s) ==
    /\ script[s].step \in {"copied", "failed"}
    /\ IF request = NoRequest
       THEN script' = [script EXCEPT ![s] = Off] /\ UNCHANGED <<request, ctxtVars, askVars>>
       ELSE IF request.loading THEN Completed(s, "off") ELSE GivenUp(s, "off")
    /\ UNCHANGED driverVars

(* Mutated: a failure is not reported. *)
ReportSuccess(s) ==
    /\ script[s].step \in {"copied", "failed"}
    /\ IF request = NoRequest \/ script[s].step = "failed"
       THEN script' = [script EXCEPT ![s] = Off] /\ UNCHANGED <<request, ctxtVars, askVars>>
       ELSE IF request.loading THEN Completed(s, "off") ELSE GivenUp(s, "off")
    /\ UNCHANGED driverVars

Report(s) ==
    /\ script[s].step \in {"copied", "failed"}
    /\ IF request = NoRequest
       THEN script' = [script EXCEPT ![s] = Off] /\ UNCHANGED <<request, ctxtVars, askVars>>
       ELSE IF script[s].step = "copied" /\ request.loading
       THEN Completed(s, "off") ELSE GivenUp(s, "off")
    /\ UNCHANGED driverVars

Script(s) == Start(s) \/ Copy(s) \/ CopyAll(s) \/ Report(s)

-----------------------------------------------------------------------------
(* User space.  The size is stored before the allocation, and the buffer before
   the read, which gets less if the file is cut meanwhile. *)
UserRequest(c) ==
    /\ side = "user"
    /\ \/ Returns(c, "OSAL_ERROR") /\ UNCHANGED ctxtVars           \* fopen fails
       \/ /\ Returns(c, "OSAL_ERROR")                              \* OS_ALLOC fails
          /\ fw_size' = [fw_size EXCEPT ![c] = TRUE]
          /\ fw_address' = [fw_address EXCEPT ![c] = Nothing]
          /\ lost' = lost \cup ({fw_address[c]} \ {Nothing})
          /\ UNCHANGED heap
       \/ /\ Allocated # Buffers
          /\ \/ Store(c, {ImageOf[c]}) /\ Returns(c, "OSAL_SUCCESS")
             \/ Store(c, {}) /\ Returns(c, "OSAL_ERROR")             \* fread gets less
    /\ UNCHANGED <<driverVars, alone, request, script>>

UserRelease(c) == side = "user" /\ Free(c)

-----------------------------------------------------------------------------
Next ==
    \/ OsalInitModule \/ OsalCleanupModule
    \/ \E c \in Drivers :
          \/ OsFirmwareRequest(c) \/ UserRequest(c)
          \/ OsFirmwareRelease(c) \/ UserRelease(c)
    \/ LoadingTimeout
    \/ \E s \in Scripts : Script(s)

-----------------------------------------------------------------------------
(* A buffer a context points to is allocated and no other's; one that no context
   points to was forgotten by a second request on its context, and no other way:
   neither a failed request nor a release leaves one behind. *)
FirmwareHeld ==
    /\ \A c, d \in Drivers :
          fw_address[c] # Nothing => /\ fw_address[c] \in Allocated
                                     /\ fw_address[d] = fw_address[c] => d = c
    /\ Allocated = lost \cup ({fw_address[c] : c \in Drivers} \ {Nothing})

(* include/osal_firmware.h, "got access to requested fw image": a request that
   succeeded has the whole of its image and nothing else, unless a script of an
   earlier request, which timed out, was still running when it was made. *)
FirmwareIsWhole ==
    \A c \in Drivers :
        fw_result[c] = "OSAL_SUCCESS" /\ alone[c] /\ fw_address[c] # Nothing =>
            heap[fw_address[c]] = {ImageOf[c]}

(* Nothing of the driver is left when it is unloaded, however often it was loaded. *)
UnloadLeavesNothing == side = "kernel" /\ ~loaded => ~procfile /\ fw_device = "none"

(* Every request is answered, without Linux losing patience, if the scripts run. *)
RequestEnds == \A c \in Drivers : fw_result[c] = "pending" ~> fw_result[c] # "pending"
=============================================================================
