------------------------------- MODULE OsalTrace -------------------------------
(***************************************************************************)
(* Trace messages: the filter by level of linux_user/src/osal_trace.c and  *)
(* the severity its messages reach syslog with, a static variable that     *)
(* every thread reads, adds bits to and writes, and nobody ever clears;    *)
(* and the printing functions of user space and the kernel with their      *)
(* thresholds.                                                             *)
(*                                                                         *)
(* Bits are sets.  The race on the variable is undefined in C: the value   *)
(* that reaches syslog is the one that was written or is read again.       *)
(***************************************************************************)
EXTENDS Integers

CONSTANTS
    Tracers,    \* the threads, each with a subsystem of its own
    LevelOf,    \* the level each was initialised with
    Debugs      \* what osal_debug may be

VARIABLES
    parms,      \* the level in a subsystem's TRACE_PARMS, or NoParms
    priority,   \* the bits of priority; LOG_USER's are left out
    tpc,        \* where a thread is: "idle", "write", "syslog"
    read,       \* the value it has read
    message,    \* the level of its message, or Verify
    osal_debug, \* the threshold
    \* history
    used,       \* the levels whose bits were added
    mixed,      \* a thread in trace was overtaken by another
    logged      \* what reached syslog last

traceVars == <<parms, priority, tpc, read, message, osal_debug, used, mixed, logged>>

Levels == 0..3      \* T_NONE, T_ERROR, T_WARNING, T_INFO
Verify == 4         \* verify_trace's message
NoParms == 4        \* NULL

(* syslog_trace_level: LOG_DEBUG, LOG_ERR, LOG_WARNING, LOG_INFO. *)
SyslogTraceLevel(level) ==
    CASE level = 0 -> {0, 1, 2} [] level = 1 -> {0, 1} [] level = 2 -> {2} [] level = 3 -> {1, 2}

NoMessage ==
    [tracer |-> 0, level |-> -1, severity |-> {}, own |-> {}, alone |-> TRUE]

TypeOK ==
    /\ parms \in [Tracers -> Levels \cup {NoParms}]
    /\ priority \subseteq 0..2
    /\ tpc \in [Tracers -> {"idle", "write", "syslog"}]
    /\ read \in [Tracers -> SUBSET (0..2)]
    /\ message \in [Tracers -> Levels \cup {Verify}]
    /\ osal_debug \in Debugs
    /\ used \subseteq Levels
    /\ mixed \subseteq Tracers
    /\ logged.severity \subseteq 0..2

Init ==
    /\ parms = [t \in Tracers |-> NoParms]
    /\ priority = {}
    /\ tpc = [t \in Tracers |-> "idle"]
    /\ read = [t \in Tracers |-> {}]
    /\ message = [t \in Tracers |-> 0]
    /\ osal_debug \in Debugs
    /\ used = {} /\ mixed = {}
    /\ logged = NoMessage

(* Mutated: the severity is the message's, which may be of another level. *)
BitsOfMessage(t) == SyslogTraceLevel(IF message[t] = Verify THEN 1 ELSE message[t])

Bits(t) == SyslogTraceLevel(IF message[t] = Verify THEN 1 ELSE parms[t])

-----------------------------------------------------------------------------
(* malloc may fail. *)
TraceInit(t) ==
    /\ tpc[t] = "idle" /\ parms[t] = NoParms
    /\ parms' = [parms EXCEPT ![t] = LevelOf[t]]
    /\ UNCHANGED <<priority, tpc, read, message, osal_debug, used, mixed, logged>>

TraceDeinit(t) ==
    /\ tpc[t] = "idle" /\ parms[t] # NoParms
    /\ parms' = [parms EXCEPT ![t] = NoParms]
    /\ UNCHANGED <<priority, tpc, read, message, osal_debug, used, mixed, logged>>

(* The message is dropped without a subsystem, or if its level is above it; with
   verify_trace it never is.  A message of another thread is in between if one
   is on its way when this begins, or begins before this has ended. *)
Go(t, level) ==
    /\ message' = [message EXCEPT ![t] = level]
    /\ tpc' = [tpc EXCEPT ![t] = "write"]
    /\ read' = [read EXCEPT ![t] = priority]
    /\ mixed' = LET others == {u \in Tracers \ {t} : tpc[u] # "idle"}
                IN  (mixed \ {t}) \cup others \cup (IF others = {} THEN {} ELSE {t})
    /\ UNCHANGED <<parms, priority, osal_debug, used, logged>>

Trace(t, level) == tpc[t] = "idle" /\ parms[t] # NoParms /\ parms[t] >= level /\ Go(t, level)

VerifyTrace(t) == tpc[t] = "idle" /\ Go(t, Verify)

Write(t) ==
    /\ tpc[t] = "write"
    /\ tpc' = [tpc EXCEPT ![t] = "syslog"]
    /\ read' = [read EXCEPT ![t] = @ \cup Bits(t)]
    /\ priority' = read'[t]
    /\ used' = used \cup {IF message[t] = Verify THEN 1 ELSE parms[t]}
    /\ UNCHANGED <<parms, message, osal_debug, mixed, logged>>

Syslog(t) ==
    /\ tpc[t] = "syslog"
    /\ \E severity \in {read[t], priority} :
          logged' = [tracer |-> t, level |-> message[t], severity |-> severity,
                     own |-> SyslogTraceLevel(IF message[t] = Verify THEN 1 ELSE parms[t]),
                     alone |-> t \notin mixed]
    /\ tpc' = [tpc EXCEPT ![t] = "idle"]
    /\ read' = [read EXCEPT ![t] = {}]
    /\ message' = [message EXCEPT ![t] = 0]
    /\ UNCHANGED <<parms, priority, osal_debug, used, mixed>>

-----------------------------------------------------------------------------
(* The print functions, from osal_debug 3, 2 and 1 on; _os_info is user space's
   only and prints always.  What they print is no message to syslog. *)
PrintFrom(threshold) ==
    /\ osal_debug >= threshold
    /\ logged' = NoMessage
    /\ UNCHANGED <<parms, priority, tpc, read, message, osal_debug, used, mixed>>

OsDebug == PrintFrom(3)
OsPrint == PrintFrom(2)
OsError == PrintFrom(1)
OsInfo == PrintFrom(0)

KernelDebug == PrintFrom(3)
KernelPrint == PrintFrom(2)
KernelError == PrintFrom(1)

Next ==
    \/ \E t \in Tracers :
          \/ TraceInit(t) \/ TraceDeinit(t)
          \/ \E level \in Levels : Trace(t, level)
          \/ VerifyTrace(t)
          \/ Write(t) \/ Syslog(t)
    \/ OsDebug \/ OsPrint \/ OsError \/ OsInfo
    \/ KernelDebug \/ KernelPrint \/ KernelError

-----------------------------------------------------------------------------
(* No message of a level above its subsystem's reaches syslog, and none carries a
   severity that no subsystem's level has asked for; one that no other thread's
   message has overlapped carries the bits of its own subsystem's level.  That it
   may carry those of any message before it as well is what the code does. *)
SeverityFromUse ==
    logged.level >= 0 =>
        /\ logged.level # Verify => logged.level <= LevelOf[logged.tracer]
        /\ logged.severity \subseteq UNION {SyslogTraceLevel(l) : l \in used}
        /\ logged.alone => logged.own \subseteq logged.severity
=============================================================================
