--------------------------- MODULE MCLibrary_proofs ---------------------------
(***************************************************************************)
(* Proofs about the components of MCLibrary: tracing by every set of       *)
(* threads with every level, lists of every set of nodes, buses of every   *)
(* set of devices, configuration accesses at every offset, memory of every *)
(* page size wherever it is mapped, and clocks of every word and tick.     *)
(***************************************************************************)
EXTENDS MCLibrary, SequenceTheorems, TLAPS

-----------------------------------------------------------------------------
(* The severities of the levels in a set. *)
Severities(levels) == UNION {Trace!SyslogTraceLevel(l) : l \in levels}

(* The level whose bits a message has. *)
Own(t) == IF message[t] = Trace!Verify THEN 1 ELSE parms[t]

TraceTypes ==
    /\ parms \in [Tracers -> 0..4]
    /\ tpc \in [Tracers -> {"idle", "write", "syslog"}]
    /\ message \in [Tracers -> 0..4]
    /\ read \in [Tracers -> SUBSET Severities(used)]
    /\ priority \subseteq Severities(used)

(* A message that is on its way is one of a subsystem that has a level, at least
   as high: os_trace_deinit is not called during a trace of its own. *)
Filtered ==
    \A t \in Tracers :
        /\ parms[t] \in {Trace!NoParms, LevelOf[t]}
        /\ tpc[t] # "idle" /\ message[t] # Trace!Verify =>
              parms[t] = LevelOf[t] /\ message[t] <= LevelOf[t]

(* A message that nobody has overlapped is the only one, and the bits it added
   are in the variable and in the value that was read. *)
Apart ==
    \A t \in Tracers :
        tpc[t] # "idle" /\ t \notin mixed =>
            /\ \A u \in Tracers \ {t} : tpc[u] = "idle"
            /\ tpc[t] = "syslog" =>
                   Trace!Bits(t) \subseteq priority /\ Trace!Bits(t) \subseteq read[t]

TraceInv == TraceTypes /\ Filtered /\ Apart /\ SeverityFromUse

-----------------------------------------------------------------------------
(* More levels used, more severities. *)
LEMMA SeveritiesGrow ==
    ASSUME NEW S, NEW T, S \subseteq T
    PROVE  Severities(S) \subseteq Severities(T)
BY DEF Severities

LEMMA SeverityOfMember ==
    ASSUME NEW S, NEW l \in S
    PROVE  Trace!SyslogTraceLevel(l) \subseteq Severities(S)
BY DEF Severities

LEMMA TraceStarts == Init => TraceInv
<1> SUFFICES ASSUME Init PROVE TraceInv
  OBVIOUS
<1> USE DEF Trace!NoParms, Trace!Verify
<1>1. Trace!Init
  BY DEF Init
<1>2. TraceTypes
  BY <1>1 DEF Trace!Init, TraceTypes
<1>3. Filtered /\ Apart
  BY <1>1 DEF Trace!Init, Filtered, Apart
<1>4. SeverityFromUse
  BY <1>1 DEF Trace!Init, Trace!NoMessage, SeverityFromUse, Trace!SeverityFromUse
<1> QED
  BY <1>2, <1>3, <1>4 DEF TraceInv

(* A step that leaves the messages on their way alone keeps what is said of them. *)
LEMMA TraceStutters ==
    ASSUME TraceInv, UNCHANGED traceVars
    PROVE  TraceInv'
BY DEF TraceInv, TraceTypes, Filtered, Apart, SeverityFromUse, Trace!SeverityFromUse, traceVars,
       Trace!Bits, Severities

LEMMA LevelStep ==
    ASSUME TraceInv, NEW t \in Tracers, Trace!TraceInit(t) \/ Trace!TraceDeinit(t)
    PROVE  TraceInv'
<1> USE LevelOfAssumption DEF Trace!NoParms, Trace!Verify
<1>0. /\ tpc[t] = "idle"
      /\ \E level \in {4, LevelOf[t]} : parms' = [parms EXCEPT ![t] = level]
      /\ UNCHANGED <<priority, tpc, read, message, used, mixed, logged>>
  BY DEF Trace!TraceInit, Trace!TraceDeinit
<1>1. PICK level \in {4, LevelOf[t]} : parms' = [parms EXCEPT ![t] = level]
  BY <1>0
<1>2. TraceTypes'
  BY <1>0, <1>1 DEF TraceInv, TraceTypes
<1>3. Filtered'
  BY <1>0, <1>1 DEF TraceInv, TraceTypes, Filtered
<1>4. Apart'
  BY <1>0, <1>1 DEF TraceInv, TraceTypes, Apart, Trace!Bits
<1>5. SeverityFromUse'
  BY <1>0 DEF TraceInv, SeverityFromUse, Trace!SeverityFromUse
<1> QED
  BY <1>2, <1>3, <1>4, <1>5 DEF TraceInv

LEMMA GoStep ==
    ASSUME TraceInv, NEW t \in Tracers, NEW level \in 0..4, tpc[t] = "idle", Trace!Go(t, level),
           level # Trace!Verify => parms[t] # Trace!NoParms /\ parms[t] >= level
    PROVE  TraceInv'
<1> USE LevelOfAssumption DEF Trace!NoParms, Trace!Verify
<1>0. /\ message' = [message EXCEPT ![t] = level]
      /\ tpc' = [tpc EXCEPT ![t] = "write"]
      /\ read' = [read EXCEPT ![t] = priority]
      /\ UNCHANGED <<parms, priority, used, logged>>
  BY DEF Trace!Go
<1>1. TraceTypes'
  BY <1>0 DEF TraceInv, TraceTypes
<1>2. Filtered'
  BY <1>0 DEF TraceInv, TraceTypes, Filtered
<1>3. Apart'
  <2> DEFINE others == {u \in Tracers \ {t} : tpc[u] # "idle"}
  <2>1. mixed' = (mixed \ {t}) \cup others \cup (IF others = {} THEN {} ELSE {t})
    BY DEF Trace!Go
  <2> SUFFICES ASSUME NEW u \in Tracers, tpc'[u] # "idle", u \notin mixed'
               PROVE  /\ \A v \in Tracers \ {u} : tpc'[v] = "idle"
                      /\ tpc'[u] = "syslog" => /\ (Trace!Bits(u) \subseteq priority)'
                                               /\ (Trace!Bits(u) \subseteq read[u])'
    BY DEF Apart
  <2>2. u = t
    BY <1>0, <2>1 DEF TraceInv, TraceTypes
  <2>3. others = {}
    BY <2>1, <2>2
  <2>4. \A v \in Tracers \ {u} : tpc'[v] = "idle"
    BY <1>0, <2>2, <2>3 DEF TraceInv, TraceTypes
  <2>5. tpc'[u] = "write"
    BY <1>0, <2>2 DEF TraceInv, TraceTypes
  <2> QED
    BY <2>4, <2>5
<1>4. SeverityFromUse'
  BY <1>0 DEF TraceInv, SeverityFromUse, Trace!SeverityFromUse
<1> QED
  BY <1>1, <1>2, <1>3, <1>4 DEF TraceInv

LEMMA WriteStep ==
    ASSUME TraceInv, NEW t \in Tracers, Trace!Write(t)
    PROVE  TraceInv'
<1> USE DEF Trace!NoParms, Trace!Verify
<1>0. /\ tpc[t] = "write"
      /\ tpc' = [tpc EXCEPT ![t] = "syslog"]
      /\ read' = [read EXCEPT ![t] = @ \cup Trace!Bits(t)]
      /\ priority' = read'[t]
      /\ used' = used \cup {Own(t)}
      /\ UNCHANGED <<parms, message, mixed, logged>>
  BY DEF Trace!Write, Own
<1>1. Severities(used) \subseteq Severities(used')
  BY <1>0, SeveritiesGrow
<1>2. Trace!Bits(t) \subseteq Severities(used')
  <2>1. Trace!Bits(t) = Trace!SyslogTraceLevel(Own(t))
    BY DEF Trace!Bits, Own
  <2>2. Own(t) \in used'
    BY <1>0
  <2> QED
    BY <2>1, <2>2, SeverityOfMember
<1>3. /\ read[t] \subseteq Severities(used)
      /\ read'[t] = read[t] \cup Trace!Bits(t)
  BY <1>0 DEF TraceInv, TraceTypes
<1>4. TraceTypes'
  BY <1>0, <1>1, <1>2, <1>3 DEF TraceInv, TraceTypes
<1>5. Filtered'
  BY <1>0 DEF TraceInv, TraceTypes, Filtered
<1>6. Apart'
  <2> SUFFICES ASSUME NEW u \in Tracers, tpc'[u] # "idle", u \notin mixed'
               PROVE  /\ \A v \in Tracers \ {u} : tpc'[v] = "idle"
                      /\ tpc'[u] = "syslog" => /\ (Trace!Bits(u) \subseteq priority)'
                                               /\ (Trace!Bits(u) \subseteq read[u])'
    BY DEF Apart
  <2>1. tpc[u] # "idle" /\ u \notin mixed
    BY <1>0 DEF TraceInv, TraceTypes
  <2>2. \A v \in Tracers \ {u} : tpc[v] = "idle"
    BY <2>1 DEF TraceInv, Apart
  <2>3. u = t
    BY <1>0, <2>2
  <2>4. \A v \in Tracers \ {u} : tpc'[v] = "idle"
    BY <1>0, <2>2, <2>3 DEF TraceInv, TraceTypes
  <2>5. Trace!Bits(u)' = Trace!Bits(u)
    BY <1>0 DEF Trace!Bits
  <2> QED
    BY <1>0, <1>3, <2>3, <2>4, <2>5
<1>7. SeverityFromUse'
  BY <1>0, <1>1 DEF TraceInv, SeverityFromUse, Trace!SeverityFromUse, Severities
<1> QED
  BY <1>4, <1>5, <1>6, <1>7 DEF TraceInv

LEMMA SyslogStep ==
    ASSUME TraceInv, NEW t \in Tracers, Trace!Syslog(t)
    PROVE  TraceInv'
<1> USE DEF Trace!NoParms, Trace!Verify
<1>0. /\ tpc[t] = "syslog"
      /\ tpc' = [tpc EXCEPT ![t] = "idle"]
      /\ read' = [read EXCEPT ![t] = {}]
      /\ message' = [message EXCEPT ![t] = 0]
      /\ UNCHANGED <<parms, priority, used, mixed>>
  BY DEF Trace!Syslog
<1>1. PICK severity \in {read[t], priority} :
          logged' = [tracer |-> t, level |-> message[t], severity |-> severity,
                     own |-> Trace!SyslogTraceLevel(Own(t)), alone |-> t \notin mixed]
  BY DEF Trace!Syslog, Own
<1>2. TraceTypes'
  BY <1>0 DEF TraceInv, TraceTypes
<1>3. Filtered'
  BY <1>0 DEF TraceInv, TraceTypes, Filtered
<1>4. Apart'
  <2>1. \A u \in Tracers : tpc'[u] # "idle" => u # t /\ tpc[u] # "idle"
    BY <1>0 DEF TraceInv, TraceTypes
  <2> SUFFICES ASSUME NEW u \in Tracers, tpc'[u] # "idle", u \notin mixed'
               PROVE  FALSE
    BY DEF Apart
  <2>2. tpc[t] = "idle"
    BY <1>0, <2>1 DEF TraceInv, Apart
  <2> QED
    BY <1>0, <2>2
<1>5. SeverityFromUse'
  <2>1. message[t] # 4 => message[t] <= LevelOf[t]
    BY <1>0 DEF TraceInv, Filtered
  <2>2. severity \subseteq Severities(used)
    BY DEF TraceInv, TraceTypes
  <2>3. t \notin mixed => Trace!SyslogTraceLevel(Own(t)) \subseteq severity
    BY <1>0 DEF TraceInv, Apart, Trace!Bits, Own
  <2> QED
    BY <1>0, <1>1, <2>1, <2>2, <2>3 DEF SeverityFromUse, Trace!SeverityFromUse, Severities
<1> QED
  BY <1>2, <1>3, <1>4, <1>5 DEF TraceInv

LEMMA PrintStep ==
    ASSUME TraceInv, NEW threshold, Trace!PrintFrom(threshold)
    PROVE  TraceInv'
<1>1. /\ logged' = Trace!NoMessage
      /\ UNCHANGED <<parms, priority, tpc, read, message, used, mixed>>
  BY DEF Trace!PrintFrom
<1>2. TraceTypes' /\ Filtered' /\ Apart'
  BY <1>1 DEF TraceInv, TraceTypes, Filtered, Apart, Trace!Bits, Severities
<1>3. SeverityFromUse'
  BY <1>1 DEF Trace!NoMessage, SeverityFromUse, Trace!SeverityFromUse
<1> QED
  BY <1>2, <1>3 DEF TraceInv

LEMMA TraceStep ==
    ASSUME TraceInv, Trace!Next
    PROVE  TraceInv'
<1>1. ASSUME NEW t \in Tracers, Trace!TraceInit(t) \/ Trace!TraceDeinit(t) PROVE TraceInv'
  BY <1>1, LevelStep
<1>2. ASSUME NEW t \in Tracers, NEW level \in Trace!Levels, Trace!Trace(t, level) PROVE TraceInv'
  BY <1>2, GoStep DEF Trace!Trace, Trace!Levels
<1>3. ASSUME NEW t \in Tracers, Trace!VerifyTrace(t) PROVE TraceInv'
  BY <1>3, GoStep DEF Trace!VerifyTrace, Trace!Verify
<1>4. ASSUME NEW t \in Tracers, Trace!Write(t) PROVE TraceInv'
  BY <1>4, WriteStep
<1>5. ASSUME NEW t \in Tracers, Trace!Syslog(t) PROVE TraceInv'
  BY <1>5, SyslogStep
<1>6. CASE \/ Trace!OsDebug \/ Trace!OsPrint \/ Trace!OsError \/ Trace!OsInfo
           \/ Trace!KernelDebug \/ Trace!KernelPrint \/ Trace!KernelError
  BY <1>6, PrintStep DEF Trace!OsDebug, Trace!OsPrint, Trace!OsError, Trace!OsInfo,
                         Trace!KernelDebug, Trace!KernelPrint, Trace!KernelError
<1> QED
  BY <1>1, <1>2, <1>3, <1>4, <1>5, <1>6 DEF Trace!Next

(* No message of a level above its subsystem's reaches syslog, none carries a
   severity that no subsystem's level has asked for, and one that no other
   overlaps carries its own subsystem's, however many threads trace at once: the
   read and write of priority in os_trace. *)
THEOREM MessagesAreFiltered == Spec => []SeverityFromUse
<1>1. TraceInv /\ [Next]_vars => TraceInv'
  <2> SUFFICES ASSUME TraceInv, [Next]_vars PROVE TraceInv'
    OBVIOUS
  <2>1. CASE Trace!Next
    BY <2>1, TraceStep
  <2>2. CASE UNCHANGED traceVars
    BY <2>2, TraceStutters
  <2>3. [Next]_vars => Trace!Next \/ UNCHANGED traceVars
    BY DEF Next, vars, PciUserFrame, PciKernelFrame, ConfigFrame, ListFrame, MemmapFrame,
           ClockFrame
  <2> QED
    BY <2>1, <2>2, <2>3
<1>2. TraceInv => SeverityFromUse
  BY DEF TraceInv
<1> QED
  BY TraceStarts, <1>1, <1>2, PTL DEF Spec

-----------------------------------------------------------------------------
(* Sequences without duplicates, and without the one at position k. *)
Distinct(s) == \A i, j \in DOMAIN s : s[i] = s[j] => i = j

Without(s, k) == SubSeq(s, 1, k - 1) \o SubSeq(s, k + 1, Len(s))

(* What is behind position k moves by one. *)
LEMMA Removal ==
    ASSUME NEW T, NEW s \in Seq(T), Distinct(s), NEW k \in DOMAIN s
    PROVE  LET r == Without(s, k)
           IN  /\ r \in Seq(T) /\ Len(r) = Len(s) - 1 /\ DOMAIN r = 1..Len(r) /\ Distinct(r)
               /\ \A i \in DOMAIN r :
                     r[i] = s[IF i < k THEN i ELSE i + 1] /\ r[i] # s[k]
               /\ \A i \in DOMAIN s : i # k => \E j \in DOMAIN r : r[j] = s[i]
<1> DEFINE from(i) == IF i < k THEN i ELSE i + 1
           a == SubSeq(s, 1, k - 1)
           b == SubSeq(s, k + 1, Len(s))
           r == Without(s, k)
<1>1. a \in Seq(T) /\ Len(a) = k - 1 /\ \A i \in 1..(k - 1) : a[i] = s[i]
  OBVIOUS
<1>2. b \in Seq(T) /\ Len(b) = Len(s) - k /\ \A i \in 1..(Len(s) - k) : b[i] = s[i + k]
  OBVIOUS
<1>3. r = a \o b
  BY DEF Without
<1> HIDE DEF a, b, r
<1>4. /\ r \in Seq(T) /\ Len(r) = Len(s) - 1
      /\ \A i \in 1..(Len(a) + Len(b)) : r[i] = IF i <= Len(a) THEN a[i] ELSE b[i - Len(a)]
  BY <1>1, <1>2, <1>3, ConcatProperties
<1>5. \A i \in DOMAIN r : r[i] = s[from(i)]
  <2> SUFFICES ASSUME NEW i \in 1..Len(r) PROVE r[i] = s[from(i)]
    BY <1>4
  <2>1. CASE i < k
    <3>1. i \in 1..(Len(a) + Len(b)) /\ i <= Len(a)
      BY <1>1, <1>2, <1>4, <2>1
    <3>2. r[i] = a[i]
      BY <1>4, <3>1
    <3> QED
      BY <1>1, <2>1, <3>2
  <2>2. CASE i >= k
    <3>1. i - (k - 1) \in 1..(Len(s) - k)
      BY <1>4, <2>2
    <3>2. i \in 1..(Len(a) + Len(b)) /\ ~(i <= Len(a))
      BY <1>1, <1>2, <1>4, <2>2
    <3>3. r[i] = b[i - Len(a)]
      BY <1>4, <3>2
    <3> QED
      BY <1>1, <1>2, <2>2, <3>1, <3>3
  <2> QED
    BY <2>1, <2>2
<1>6. DOMAIN r = 1..Len(r) /\ \A i \in DOMAIN r : from(i) \in DOMAIN s /\ from(i) # k
  BY <1>4
<1>7. Distinct(r)
  <2> SUFFICES ASSUME NEW i \in DOMAIN r, NEW j \in DOMAIN r, r[i] = r[j] PROVE i = j
    BY DEF Distinct
  <2>1. from(i) \in DOMAIN s /\ from(j) \in DOMAIN s /\ s[from(i)] = s[from(j)]
    BY <1>5, <1>6
  <2>2. from(i) = from(j)
    BY <2>1 DEF Distinct
  <2> QED
    BY <1>6, <2>2
<1>8. \A i \in DOMAIN r : r[i] # s[k]
  <2> SUFFICES ASSUME NEW i \in DOMAIN r, r[i] = s[k] PROVE FALSE
    OBVIOUS
  <2> QED
    BY <1>5, <1>6 DEF Distinct
<1>9. ASSUME NEW i \in DOMAIN s, i # k PROVE \E j \in DOMAIN r : r[j] = s[i]
  <2> DEFINE j == IF i < k THEN i ELSE i - 1
  <2>1. j \in DOMAIN r /\ from(j) = i
    BY <1>4, <1>6, <1>9
  <2> QED
    BY <1>5, <2>1
<1> QED
  BY <1>4, <1>5, <1>6, <1>7, <1>8, <1>9 DEF r

(* RemoveFirst, where there is one to remove. *)
LEMMA FirstRemoved ==
    ASSUME NEW T, NEW s \in Seq(T), Distinct(s), NEW k \in DOMAIN s
    PROVE  /\ List!RemoveFirst(s, s[k]) = Without(s, k)
           /\ PciKernel!RemoveFirst(s, s[k]) = Without(s, k)
           /\ PciUser!RemoveFirst(s, s[k]) = Without(s, k)
<1> DEFINE I == {i \in 1..Len(s) : s[i] = s[k]}
<1>1. I = {k}
  BY DEF Distinct
<1>2. List!Min(I) = k /\ PciKernel!Min(I) = k /\ PciUser!Min(I) = k
  BY <1>1 DEF List!Min, PciKernel!Min, PciUser!Min
<1>3. List!RemoveFirst(s, s[k]) = Without(s, k)
  BY <1>1, <1>2 DEF List!RemoveFirst, List!RemoveAt, List!SelectInSeq, Without
<1>4. PciKernel!RemoveFirst(s, s[k]) = Without(s, k)
  BY <1>1, <1>2 DEF PciKernel!RemoveFirst, PciKernel!RemoveAt, PciKernel!SelectInSeq, Without
<1>5. PciUser!RemoveFirst(s, s[k]) = Without(s, k)
  BY <1>1, <1>2 DEF PciUser!RemoveFirst, PciUser!RemoveAt, PciUser!SelectInSeq, Without
<1> QED
  BY <1>3, <1>4, <1>5

-----------------------------------------------------------------------------
(* What is at position i of the list s, whose head is before the first node and
   behind the last. *)
RingOf(s, i) == IF i \in DOMAIN s THEN s[i] ELSE Head0

Links ==
    /\ members \in Seq(Nodes) /\ Distinct(members)
    /\ next \in [Nodes \cup {Head0} -> List!Pointers]
    /\ last \in [Nodes \cup {Head0} -> List!Pointers]

(* The nodes' pointers, all around the list. *)
Ring ==
    \A i \in 0..Len(members) :
        /\ next[RingOf(members, i)] = RingOf(members, i + 1)
        /\ last[RingOf(members, i + 1)] = RingOf(members, i)

(* Of the nodes that are due, the loop has been at those before position q. *)
Reached(q) == \A i \in DOMAIN members : members[i] \in due => (members[i] \in visited <=> i < q)

(* The loop goes on at the node behind entry, or, if it is the safe one, at n,
   which is not the node that it may delete. *)
Walking ==
    /\ walk \in {"none", "plain", "safe"}
    /\ due \subseteq {members[i] : i \in DOMAIN members}
    /\ again \cap due = {}
    /\ walk = "none" => due \subseteq visited
    /\ walk = "plain" => \E p \in DOMAIN members : entry = members[p] /\ Reached(p + 1)
    /\ walk = "safe" => /\ entry \in Nodes /\ entry # n
                        /\ \E q \in 1..(Len(members) + 1) : n = RingOf(members, q) /\ Reached(q)

ListInv == Links /\ Ring /\ Walking

(* The head is once in the ring, between two rounds of it, and so is each node. *)
LEMMA RingInjective ==
    ASSUME NEW s \in Seq(Nodes), Distinct(s)
    PROVE  /\ RingOf(s, 0) = Head0 /\ RingOf(s, Len(s) + 1) = Head0
           /\ \A i \in 0..(Len(s) + 1) : RingOf(s, i) \in Nodes \cup {Head0}
           /\ \A i, j \in 0..Len(s) : RingOf(s, i) = RingOf(s, j) => i = j
           /\ \A i, j \in 1..(Len(s) + 1) : RingOf(s, i) = RingOf(s, j) => i = j
BY HeadAssumption DEF RingOf, Distinct

(* And so it does in the ring. *)
LEMMA RingRemoval ==
    ASSUME NEW s \in Seq(Nodes), Distinct(s), NEW k \in DOMAIN s
    PROVE  LET r == Without(s, k)
               from(i) == IF i < k THEN i ELSE i + 1
           IN  /\ r \in Seq(Nodes) /\ Len(r) = Len(s) - 1 /\ DOMAIN r = 1..Len(r) /\ Distinct(r)
               /\ \A i \in DOMAIN r : r[i] = s[from(i)]
               /\ \A i \in 0..Len(s) : RingOf(r, i) = RingOf(s, from(i))
<1> DEFINE r == Without(s, k)
           from(i) == IF i < k THEN i ELSE i + 1
<1>1. /\ r \in Seq(Nodes) /\ Len(r) = Len(s) - 1 /\ DOMAIN r = 1..Len(r) /\ Distinct(r)
      /\ \A i \in DOMAIN r : r[i] = s[from(i)]
  BY Removal
<1>2. k \in 1..Len(s) /\ Len(s) \in Nat /\ DOMAIN s = 1..Len(s)
  OBVIOUS
<1> HIDE DEF r
<1> SUFFICES ASSUME NEW i \in 0..Len(s) PROVE RingOf(r, i) = RingOf(s, from(i))
  BY <1>1 DEF r
<1>3. CASE i \in DOMAIN r
  <2>1. from(i) \in DOMAIN s
    BY <1>1, <1>2, <1>3
  <2> QED
    BY <1>1, <1>3, <2>1 DEF RingOf
<1>4. CASE i \notin DOMAIN r
  <2>1. from(i) \notin DOMAIN s
    BY <1>1, <1>2, <1>4
  <2> QED
    BY <1>4, <2>1 DEF RingOf
<1> QED
  BY <1>3, <1>4

LEMMA Appending ==
    ASSUME NEW s \in Seq(Nodes), Distinct(s), NEW x \in Nodes, x \notin {s[i] : i \in DOMAIN s}
    PROVE  LET r == Append(s, x)
           IN  /\ r \in Seq(Nodes) /\ Len(r) = Len(s) + 1 /\ Distinct(r)
               /\ \A i \in 0..Len(s) : RingOf(r, i) = RingOf(s, i)
               /\ RingOf(r, Len(s) + 1) = x /\ RingOf(r, Len(s) + 2) = Head0
BY DEF RingOf, Distinct

LEMMA ListStarts == Init => ListInv
<1> SUFFICES ASSUME Init PROVE ListInv
  OBVIOUS
<1>1. List!Init
  BY DEF Init
<1>2. Links
  BY <1>1 DEF List!Init, Links, Distinct, List!Pointers
<1>3. Ring
  BY <1>1, HeadAssumption DEF List!Init, Ring, RingOf
<1>4. Walking
  BY <1>1 DEF List!Init, Walking
<1> QED
  BY <1>2, <1>3, <1>4 DEF ListInv

LEMMA ListStutters ==
    ASSUME ListInv, UNCHANGED listVars
    PROVE  ListInv'
BY DEF ListInv, Links, Ring, Walking, Reached, listVars

LEMMA AddStep ==
    ASSUME ListInv, NEW x \in Nodes, List!OsListAddTail(x)
    PROVE  ListInv'
<1> DEFINE L == Len(members)
<1>0. /\ next' = [next EXCEPT ![x] = Head0, ![last[Head0]] = x]
      /\ last' = [last EXCEPT ![x] = last[Head0], ![Head0] = x]
      /\ members' = Append(members, x)
      /\ x \notin {members[i] : i \in DOMAIN members}
      /\ UNCHANGED <<walk, entry, n, due, visited, again>>
  BY DEF List!OsListAddTail, List!walkVars, List!ToSet
<1>1. members \in Seq(Nodes) /\ Distinct(members)
  BY DEF ListInv, Links
<1>2. /\ RingOf(members, 0) = Head0 /\ RingOf(members, L + 1) = Head0
      /\ \A i \in 0..(L + 1) : RingOf(members, i) \in Nodes \cup {Head0}
      /\ \A i, j \in 0..L : RingOf(members, i) = RingOf(members, j) => i = j
      /\ \A i, j \in 1..(L + 1) : RingOf(members, i) = RingOf(members, j) => i = j
  BY <1>1, RingInjective
<1>3. /\ members' \in Seq(Nodes) /\ Len(members') = L + 1 /\ Distinct(members')
      /\ \A i \in 0..L : RingOf(members', i) = RingOf(members, i)
      /\ RingOf(members', L + 1) = x /\ RingOf(members', L + 2) = Head0
  BY <1>0, <1>1, Appending
<1>4. L \in Nat /\ \A i \in 0..L : RingOf(members, i) # x
  BY <1>0, <1>1, HeadAssumption DEF RingOf
<1>5. last[Head0] = RingOf(members, L)
  BY <1>2, <1>4 DEF ListInv, Ring
<1>6. Links'
  BY <1>0, <1>2, <1>3, <1>4, <1>5 DEF ListInv, Links, List!Pointers
<1>7. Ring'
  <2> SUFFICES ASSUME NEW i \in 0..(L + 1)
               PROVE  /\ next'[RingOf(members', i)] = RingOf(members', i + 1)
                      /\ last'[RingOf(members', i + 1)] = RingOf(members', i)
    BY <1>3 DEF Ring
  <2>1. CASE i < L
    <3>1. /\ RingOf(members', i) = RingOf(members, i) /\ RingOf(members, i) # x
          /\ RingOf(members, i) # RingOf(members, L)
          /\ RingOf(members', i + 1) = RingOf(members, i + 1) /\ RingOf(members, i + 1) # x
          /\ RingOf(members, i + 1) # RingOf(members, L + 1)
      BY <1>2, <1>3, <1>4, <2>1
    <3>2. /\ next[RingOf(members, i)] = RingOf(members, i + 1)
          /\ last[RingOf(members, i + 1)] = RingOf(members, i)
      BY <1>4, <2>1 DEF ListInv, Ring
    <3> QED
      BY <1>0, <1>2, <1>4, <1>5, <2>1, <3>1, <3>2 DEF ListInv, Links
  <2>2. CASE i = L
    BY <1>0, <1>2, <1>3, <1>4, <1>5, <2>2, HeadAssumption DEF ListInv, Links
  <2>3. CASE i = L + 1
    BY <1>0, <1>2, <1>3, <1>4, <1>5, <2>3 DEF ListInv, Links
  <2> QED
    BY <1>4, <2>1, <2>2, <2>3
<1>8. DOMAIN members = 1..L /\ DOMAIN members' = 1..(L + 1)
  BY <1>1, <1>3
<1>9. /\ \A i \in 1..L : members'[i] = members[i]
      /\ members'[L + 1] = x
  BY <1>0, <1>1
<1>10. x \notin due
  BY <1>0 DEF ListInv, Walking
<1>11. \A q \in 1..(L + 2) : Reached(q) => Reached(q)'
  BY <1>0, <1>4, <1>8, <1>9, <1>10 DEF Reached
<1>12. \A q \in 1..(L + 2) : q = L + 2 /\ Reached(L + 1) => Reached(q)'
  BY <1>0, <1>4, <1>8, <1>9, <1>10 DEF Reached
<1>13. Walking'
  <2>1. due \subseteq {members'[i] : i \in DOMAIN members'}
    BY <1>4, <1>8, <1>9 DEF ListInv, Walking
  <2>2. ASSUME walk = "plain"
        PROVE \E p \in DOMAIN members' : entry = members'[p] /\ Reached(p + 1)'
    BY <1>4, <1>8, <1>9, <1>11, <2>2 DEF ListInv, Walking
  <2>3. ASSUME walk = "safe"
        PROVE  \E q \in 1..(L + 2) : n = RingOf(members', q) /\ Reached(q)'
    <3>1. PICK q \in 1..(L + 1) : n = RingOf(members, q) /\ Reached(q)
      BY <2>3 DEF ListInv, Walking
    <3>2. CASE q <= L
      BY <1>3, <1>4, <1>11, <3>1, <3>2
    <3>3. CASE q = L + 1
      <4>1. PICK e \in 1..(L + 2) : e = L + 2
        BY <1>4
      <4>2. n = RingOf(members', e) /\ Reached(e)'
        BY <1>2, <1>3, <1>4, <1>12, <3>1, <3>3, <4>1
      <4> QED
        BY <4>2
    <3> QED
      BY <1>4, <3>2, <3>3
  <2> QED
    BY <1>0, <1>3, <2>1, <2>2, <2>3 DEF ListInv, Walking
<1> QED
  BY <1>6, <1>7, <1>13 DEF ListInv

LEMMA DeleteStep ==
    ASSUME ListInv, NEW x \in Nodes, List!OsListDel(x)
    PROVE  ListInv'
<1> DEFINE L == Len(members)
<1>0. /\ x \in {members[i] : i \in DOMAIN members}
      /\ walk # "none" => walk = "safe" /\ x = entry
      /\ next' = [next EXCEPT ![last[x]] = next[x], ![x] = List!Unlinked(@)]
      /\ last' = [last EXCEPT ![next[x]] = last[x], ![x] = List!Unlinked(@)]
      /\ members' = List!RemoveFirst(members, x)
      /\ due' = due \ {x}
      /\ UNCHANGED <<walk, entry, n, visited, again>>
  BY DEF List!OsListDel, List!ToSet
<1>1. members \in Seq(Nodes) /\ Distinct(members) /\ L \in Nat /\ DOMAIN members = 1..L
  BY DEF ListInv, Links
<1>2. /\ RingOf(members, 0) = Head0 /\ RingOf(members, L + 1) = Head0
      /\ \A i \in 0..(L + 1) : RingOf(members, i) \in Nodes \cup {Head0}
      /\ \A i, j \in 0..L : RingOf(members, i) = RingOf(members, j) => i = j
      /\ \A i, j \in 1..(L + 1) : RingOf(members, i) = RingOf(members, j) => i = j
  BY <1>1, RingInjective
<1>3. PICK k \in 1..L : x = members[k]
  BY <1>0, <1>1
<1> DEFINE from(i) == IF i < k THEN i ELSE i + 1
<1>4. /\ members' \in Seq(Nodes) /\ Len(members') = L - 1 /\ Distinct(members')
      /\ DOMAIN members' = 1..(L - 1)
      /\ \A i \in 1..(L - 1) : members'[i] = members[from(i)]
      /\ \A i \in 0..L : RingOf(members', i) = RingOf(members, from(i))
  <2> DEFINE r == Without(members, k)
  <2>0. k \in DOMAIN members
    BY <1>1
  <2>1. /\ r \in Seq(Nodes) /\ Len(r) = L - 1 /\ DOMAIN r = 1..Len(r) /\ Distinct(r)
        /\ \A i \in DOMAIN r : r[i] = members[from(i)]
    BY <1>1, <2>0, RingRemoval
  <2>2. \A i \in 0..L : RingOf(r, i) = RingOf(members, from(i))
    BY <1>1, RingRemoval
  <2>3. members' = r
    BY <1>0, <1>1, <1>3, FirstRemoved
  <2> HIDE DEF r, from
  <2> QED
    BY <2>1, <2>2, <2>3
<1>5. x = RingOf(members, k)
  BY <1>1, <1>3 DEF RingOf
<1>6. last[x] = RingOf(members, k - 1) /\ next[x] = RingOf(members, k + 1)
  BY <1>1, <1>5 DEF ListInv, Ring
<1>7. /\ next' \in [Nodes \cup {Head0} -> List!Pointers]
      /\ last' \in [Nodes \cup {Head0} -> List!Pointers]
  BY <1>0 DEF ListInv, Links, List!Unlinked, List!Pointers
<1>8. Ring'
  <2> SUFFICES ASSUME NEW i \in 0..(L - 1)
               PROVE  /\ next'[RingOf(members', i)] = RingOf(members', i + 1)
                      /\ last'[RingOf(members', i + 1)] = RingOf(members', i)
    BY <1>4 DEF Ring
  <2>1. CASE i = k - 1
    <3>1. /\ RingOf(members', i) = RingOf(members, k - 1)
          /\ RingOf(members', i + 1) = RingOf(members, k + 1)
      BY <1>4, <2>1
    <3>2. RingOf(members, k - 1) # x /\ RingOf(members, k + 1) # x
      BY <1>2, <1>5
    <3> QED
      BY <1>0, <1>2, <1>6, <3>1, <3>2 DEF ListInv, Links
  <2>2. CASE i # k - 1
    <3>1. /\ from(i) \in 0..L /\ from(i) # k - 1 /\ from(i) # k
          /\ from(i) + 1 = from(i + 1) /\ from(i + 1) # k /\ from(i + 1) # k + 1
      BY <1>1, <2>2
    <3>2. /\ RingOf(members', i) = RingOf(members, from(i))
          /\ RingOf(members', i + 1) = RingOf(members, from(i) + 1)
      BY <1>4, <3>1
    <3>3. /\ RingOf(members, from(i)) # x
          /\ RingOf(members, from(i)) # RingOf(members, k - 1)
          /\ RingOf(members, from(i) + 1) # x
          /\ RingOf(members, from(i) + 1) # RingOf(members, k + 1)
      BY <1>1, <1>2, <1>5, <3>1
    <3>4. /\ next[RingOf(members, from(i))] = RingOf(members, from(i) + 1)
          /\ last[RingOf(members, from(i) + 1)] = RingOf(members, from(i))
      BY <3>1 DEF ListInv, Ring
    <3>5. RingOf(members, from(i)) \in Nodes \cup {Head0}
      BY <1>2, <3>1
    <3>6. RingOf(members, from(i) + 1) \in Nodes \cup {Head0}
      BY <1>1, <1>2, <3>1
    <3> HIDE DEF from
    <3> QED
      BY <1>0, <1>6, <3>2, <3>3, <3>4, <3>5, <3>6 DEF ListInv, Links
  <2> QED
    BY <2>1, <2>2
<1>9. Walking'
  <2>1. /\ due' \subseteq {members'[i] : i \in DOMAIN members'}
    <3> SUFFICES ASSUME NEW d \in due, d # x
                 PROVE  \E i \in 1..(L - 1) : d = members'[i]
      BY <1>0, <1>4
    <3>1. PICK j \in 1..L : d = members[j]
      BY <1>1 DEF ListInv, Walking
    <3>2. j # k
      BY <1>3, <3>1
    <3>3. CASE j < k
      BY <1>1, <1>4, <3>1, <3>3
    <3>4. CASE j > k
      <4>1. j - 1 \in 1..(L - 1) /\ from(j - 1) = j
        BY <1>1, <3>4
      <4> QED
        BY <1>4, <3>1, <4>1
    <3> QED
      BY <3>2, <3>3, <3>4
  <2>2. again \cap due' = {} /\ (walk = "none" => due' \subseteq visited)
    BY <1>0 DEF ListInv, Walking
  <2>3. walk # "plain"
    BY <1>0
  <2>4. ASSUME walk = "safe" PROVE \E q \in 1..L : n = RingOf(members', q) /\ Reached(q)'
    <3>1. PICK q \in 1..(L + 1) : n = RingOf(members, q) /\ Reached(q)
      BY <2>4 DEF ListInv, Walking
    <3>2. q # k
      BY <1>0, <1>5, <2>4, <3>1 DEF ListInv, Walking
    <3> DEFINE to == IF q < k THEN q ELSE q - 1
    <3>3. to \in 1..L /\ from(to) = q
      BY <1>1, <3>2
    <3>4. n = RingOf(members', to)
      BY <1>4, <3>1, <3>3
    <3>5. \A i \in 1..(L - 1) : from(i) \in 1..L /\ (i < to <=> from(i) < q)
      BY <1>1, <3>2
    <3>6. Reached(to)'
      <4> SUFFICES ASSUME NEW i \in 1..(L - 1), members'[i] \in due'
                   PROVE  members'[i] \in visited' <=> i < to
        BY <1>4 DEF Reached
      <4>1. members'[i] = members[from(i)] /\ members[from(i)] \in due
        BY <1>0, <1>4
      <4> HIDE DEF from, to
      <4> QED
        BY <1>0, <1>1, <3>1, <3>5, <4>1 DEF Reached
    <3> QED
      BY <3>3, <3>4, <3>6
  <2> QED
    BY <1>0, <1>4, <2>1, <2>2, <2>3, <2>4 DEF ListInv, Walking
<1> QED
  BY <1>4, <1>7, <1>8, <1>9 DEF ListInv, Links

LEMMA ForEachStep ==
    ASSUME ListInv, List!OsListForEach
    PROVE  ListInv'
<1> DEFINE L == Len(members)
<1>0. /\ next[Head0] # Head0
      /\ walk' \in {"plain", "safe"}
      /\ entry' = next[Head0] /\ n' = next[next[Head0]]
      /\ visited' = {entry'} /\ again' = {} /\ due' = {members[i] : i \in DOMAIN members}
      /\ UNCHANGED <<next, last, members>>
  BY DEF List!OsListForEach, List!OsListEmpty, List!ToSet, List!linkVars
<1>1. members \in Seq(Nodes) /\ Distinct(members) /\ L \in Nat /\ DOMAIN members = 1..L
  BY DEF ListInv, Links
<1>2. next[Head0] = RingOf(members, 1)
  BY <1>1, RingInjective DEF ListInv, Ring
<1>3. L >= 1
  BY <1>0, <1>1, <1>2 DEF RingOf
<1>4. entry' = members[1] /\ n' = RingOf(members, 2)
  BY <1>0, <1>1, <1>2, <1>3 DEF ListInv, Ring, RingOf
<1>5. entry' \in Nodes /\ entry' # n'
  BY <1>1, <1>3, <1>4, HeadAssumption DEF RingOf, Distinct
<1>6. Reached(2)'
  BY <1>0, <1>1, <1>3, <1>4 DEF Reached, Distinct
<1>7. Walking'
  BY <1>0, <1>1, <1>3, <1>4, <1>5, <1>6 DEF Walking
<1> QED
  BY <1>0, <1>7 DEF ListInv, Links, Ring

(* A loop gets to the next node of the ring, or to its head. *)
LEMMA Arrival ==
    ASSUME ListInv, walk # "none", NEW q \in 1..(Len(members) + 1), Reached(q),
           List!At(RingOf(members, q)), UNCHANGED <<members, due>>
    PROVE  /\ due' \subseteq {members[i] : i \in DOMAIN members}
           /\ again' \cap due' = {}
           /\ entry' = RingOf(members, q)
           /\ q = Len(members) + 1 => walk' = "none" /\ due' \subseteq visited'
           /\ q # Len(members) + 1 => /\ walk' = walk /\ q \in DOMAIN members
                                      /\ entry' = members[q] /\ Reached(q + 1)'
<1> DEFINE L == Len(members)
<1>1. members \in Seq(Nodes) /\ Distinct(members) /\ L \in Nat /\ DOMAIN members = 1..L
  BY DEF ListInv, Links
<1>2. /\ due' \subseteq {members[i] : i \in DOMAIN members}
      /\ again \cap due' = {}
      /\ entry' = RingOf(members, q)
  BY DEF ListInv, Walking, List!At
<1>3. ASSUME q = L + 1
      PROVE  walk' = "none" /\ due' \subseteq visited' /\ again' \cap due' = {}
  <2>1. RingOf(members, q) = Head0
    BY <1>1, <1>3 DEF RingOf
  <2>2. walk' = "none" /\ UNCHANGED <<visited, again>>
    BY <2>1 DEF List!At
  <2>3. due \subseteq visited
    BY <1>1, <1>2, <1>3 DEF Reached
  <2> QED
    BY <1>2, <2>2, <2>3
<1>4. ASSUME q # L + 1
      PROVE  /\ walk' = walk /\ q \in DOMAIN members /\ entry' = members[q]
             /\ Reached(q + 1)' /\ again' \cap due' = {}
  <2>1. q \in 1..L /\ RingOf(members, q) = members[q] /\ members[q] # Head0
    BY <1>1, <1>4, HeadAssumption DEF RingOf
  <2>2. /\ walk' = walk
        /\ visited' = visited \cup {members[q]}
        /\ again' = again \cup (visited \cap due \cap {members[q]})
    BY <2>1 DEF List!At
  <2>3. Reached(q + 1)'
    BY <1>1, <2>1, <2>2 DEF Reached, Distinct
  <2>4. members[q] \in due => members[q] \notin visited
    BY <1>1, <2>1 DEF Reached
  <2> QED
    BY <1>1, <1>2, <2>1, <2>2, <2>3, <2>4
<1> QED
  BY <1>2, <1>3, <1>4

LEMMA LoopStep ==
    ASSUME ListInv, List!ForEachNext \/ List!ForEachSafeNext
    PROVE  ListInv'
<1> DEFINE L == Len(members)
<1>0. UNCHANGED <<next, last, members, due>>
  BY DEF List!ForEachNext, List!ForEachSafeNext, List!linkVars
<1>1. members \in Seq(Nodes) /\ Distinct(members) /\ L \in Nat /\ DOMAIN members = 1..L
  BY DEF ListInv, Links
<1>2. Links' /\ Ring'
  BY <1>0 DEF ListInv, Links, Ring
<1>3. CASE List!ForEachNext
  <2>1. walk = "plain" /\ List!At(next[entry])
    BY <1>3 DEF List!ForEachNext
  <2>2. PICK p \in DOMAIN members : entry = members[p] /\ Reached(p + 1)
    BY <2>1 DEF ListInv, Walking
  <2>3. next[entry] = RingOf(members, p + 1)
    BY <1>1, <2>2 DEF ListInv, Ring, RingOf
  <2>4. p + 1 \in 1..(L + 1)
    BY <1>1
  <2>5. Walking'
    BY <1>0, <2>1, <2>2, <2>3, <2>4, Arrival DEF Walking
  <2> QED
    BY <1>2, <2>5 DEF ListInv
<1>4. CASE List!ForEachSafeNext
  <2>1. walk = "safe" /\ List!At(n) /\ n' = next[n]
    BY <1>4 DEF List!ForEachSafeNext
  <2>2. PICK q \in 1..(L + 1) : n = RingOf(members, q) /\ Reached(q)
    BY <2>1 DEF ListInv, Walking
  <2>3. CASE q = L + 1
    <3>1. Walking'
      BY <1>0, <2>1, <2>2, <2>3, Arrival DEF Walking
    <3> QED
      BY <1>2, <3>1 DEF ListInv
  <2>4. CASE q # L + 1
    <3>1. n = members[q] /\ n' = RingOf(members, q + 1)
      BY <1>1, <2>1, <2>2, <2>4 DEF ListInv, Ring, RingOf
    <3>2. n \in Nodes /\ n' # n
      BY <1>1, <2>4, <3>1, HeadAssumption DEF RingOf, Distinct
    <3>3. /\ due' \subseteq {members[i] : i \in DOMAIN members} /\ again' \cap due' = {}
          /\ walk' = "safe" /\ entry' = n /\ Reached(q + 1)'
      BY <1>0, <2>1, <2>2, <2>4, <3>1, Arrival
    <3>4. q + 1 \in 1..(L + 1) /\ L = Len(members')
      BY <1>0, <1>1, <2>4
    <3>5. n' = RingOf(members', q + 1)
      BY <1>0, <3>1
    <3>6. Walking'
      BY <1>0, <3>2, <3>3, <3>4, <3>5 DEF Walking
    <3> QED
      BY <1>2, <3>6 DEF ListInv
  <2> QED
    BY <2>3, <2>4
<1> QED
  BY <1>3, <1>4

(* The sequence that the property puts the head around is the ring. *)
LEMMA RingIsWalked ==
    ASSUME ListInv
    PROVE  ListIsWalked
<1> DEFINE L == Len(members)
           ring == <<Head0>> \o members \o <<Head0>>
<1>1. members \in Seq(Nodes) /\ L \in Nat /\ DOMAIN members = 1..L
  BY DEF ListInv, Links
<1>2. Len(ring) = L + 2 /\ \A i \in 1..(L + 2) : ring[i] = RingOf(members, i - 1)
  BY <1>1 DEF RingOf
<1>3. \A i \in 1..(Len(ring) - 1) :
          next[ring[i]] = ring[i + 1] /\ last[ring[i + 1]] = ring[i]
  <2> HIDE DEF ring
  <2> SUFFICES ASSUME NEW i \in 1..(L + 1)
               PROVE  next[ring[i]] = ring[i + 1] /\ last[ring[i + 1]] = ring[i]
    BY <1>1, <1>2
  <2>1. ring[i] = RingOf(members, i - 1) /\ ring[i + 1] = RingOf(members, i)
    BY <1>1, <1>2
  <2> QED
    BY <1>1, <2>1 DEF ListInv, Ring
<1>4. List!OsListEmpty <=> members = <<>>
  <2>1. next[Head0] = RingOf(members, 1)
    BY <1>1 DEF ListInv, Ring, RingOf
  <2> QED
    BY <1>1, <2>1, HeadAssumption DEF List!OsListEmpty, RingOf
<1>5. walk # "none" => entry \in Nodes
  BY <1>1 DEF ListInv, Walking
<1>6. (walk = "none" => due \subseteq visited) /\ again \cap due = {}
  BY DEF ListInv, Walking
<1> QED
  BY <1>3, <1>4, <1>5, <1>6 DEF ListIsWalked, List!ListIsWalked

(* The pointers of the nodes are the list, and a loop gets to each of its nodes
   and to none twice although it deletes them on its way and others are added:
   os_list_add_tail, os_list_del and the loops of osal_list.h, whether list_del
   poisons or not. *)
THEOREM ListsAreWalked == Spec => []ListIsWalked
<1>1. ListInv /\ [Next]_vars => ListInv'
  <2> SUFFICES ASSUME ListInv, [Next]_vars PROVE ListInv'
    OBVIOUS
  <2>1. CASE List!Next
    BY <2>1, AddStep, DeleteStep, ForEachStep, LoopStep DEF List!Next
  <2>2. CASE UNCHANGED listVars
    BY <2>2, ListStutters
  <2>3. [Next]_vars => List!Next \/ UNCHANGED listVars
    BY DEF Next, vars, PciUserFrame, PciKernelFrame, ConfigFrame, MemmapFrame, ClockFrame,
           TraceFrame
  <2> QED
    BY <2>1, <2>2, <2>3
<1>2. ListInv => ListIsWalked
  BY RingIsWalked
<1> QED
  BY ListStarts, <1>1, <1>2, PTL DEF Spec

-----------------------------------------------------------------------------
(* A device is in Linux's list once, and not after it has been removed. *)
KernelTypes ==
    /\ listed \in Seq(Devs) /\ Distinct(listed)
    /\ \A i \in DOMAIN listed : listed[i] \notin gone
    /\ refs \in [Devs -> Nat] /\ handles \in [Devs -> Nat] /\ forgotten \in [Devs -> Nat]
    /\ cursor \in [PciKernel!Tasks -> Devs \cup {NoDev}]
    /\ sought \in [PciKernel!Tasks -> SUBSET Devs]
    /\ seen \in [PciKernel!Tasks -> SUBSET Devs]
    /\ present \in [PciKernel!Tasks -> SUBSET Devs]
    /\ ended \in [PciKernel!Tasks -> BOOLEAN] /\ strayed \in [PciKernel!Tasks -> BOOLEAN]

(* Each handle, forgotten ones included, has a reference, and so has the loop of
   os_pci_enable_device. *)
Counted ==
    \A d \in Devs :
        /\ refs[d] = handles[d] + forgotten[d] + (IF cursor["enable"] = d THEN 1 ELSE 0)
        /\ cursor["program"] = d => handles[d] > 0

Alike(S) == \A d, e \in S : IdOf[d] = IdOf[e] \/ ClassOf[d] = ClassOf[e]

(* An enumeration keeps to what it was begun for; os_pci_enable_device's, which
   takes it from the device it is at, because all of them have that device's id. *)
Sought ==
    /\ \A a \in PciKernel!Tasks :
          /\ seen[a] \subseteq sought[a] /\ present[a] \subseteq sought[a] /\ Alike(sought[a])
          /\ cursor[a] # NoDev => cursor[a] \in sought[a]
    /\ \A d \in sought["enable"] : sought["enable"] = PciKernel!WithId(IdOf[d])

(* It has seen the devices up to the one it is at, which may have been removed, and all
   of them when it has ended, unless Linux lost its place;
   os_pci_enable_device has been at all of these but the last. *)
Seen ==
    /\ \A a \in PciKernel!Tasks :
          /\ \A d \in present[a] : \E i \in DOMAIN listed : d = listed[i]
          /\ cursor[a] # NoDev =>
                cursor[a] \in gone \/ \E i \in DOMAIN listed : cursor[a] = listed[i]
          /\ \A i, j \in DOMAIN listed :
                i <= j /\ listed[j] = cursor[a] /\ listed[i] \in present[a] => listed[i] \in seen[a]
          /\ ended[a] /\ ~strayed[a] => present[a] \subseteq seen[a]
    /\ seen["enable"] \ {cursor["enable"]} \subseteq enabled
    /\ ended["enable"] => seen["enable"] \subseteq enabled

KernelInv == KernelTypes /\ Counted /\ Sought /\ Seen

LEMMA KernelStarts == Init => KernelInv
<1> SUFFICES ASSUME Init PROVE KernelInv
  OBVIOUS
<1> USE DEF PciKernel!Init, PciKernel!Tasks, PciKernel!None
<1>1. PciKernel!Init
  BY DEF Init
<1>2. KernelTypes
  BY <1>1 DEF KernelTypes, Distinct
<1>3. Counted
  BY <1>1, NoDevAssumption DEF Counted
<1>4. Sought
  BY <1>1 DEF Sought, Alike
<1>5. Seen
  BY <1>1 DEF Seen
<1> QED
  BY <1>2, <1>3, <1>4, <1>5 DEF KernelInv

LEMMA KernelStutters ==
    ASSUME KernelInv, UNCHANGED pciKernelVars
    PROVE  KernelInv'
BY DEF KernelInv, KernelTypes, Counted, Sought, Seen, pciKernelVars

(* What a search finds is behind a place in the list, and nothing that it looks for
   is between them: behind the device that it goes on from, or behind the beginning. *)
LEMMA FirstIsFound ==
    ASSUME NEW S, NEW at, NEW got, PciKernel!FirstBehind(S, at, got)
    PROVE  \/ got = NoDev /\ \A i \in DOMAIN listed : i > at => listed[i] \notin S
           \/ \E k \in DOMAIN listed :
                 /\ k > at /\ got = listed[k] /\ got \in S
                 /\ \A i \in DOMAIN listed : i > at /\ listed[i] \in S => k <= i
<1> DEFINE behind == {i \in DOMAIN listed : i > at /\ listed[i] \in S}
<1>1. IF behind = {} THEN got = NoDev
      ELSE \E i \in behind : got = listed[i] /\ \A j \in behind : i <= j
  BY DEF PciKernel!FirstBehind
<1>2. CASE behind = {}
  BY <1>1, <1>2
<1>3. CASE behind # {}
  BY <1>1, <1>3
<1> QED
  BY <1>2, <1>3

LEMMA PciGetFinds ==
    ASSUME KernelTypes, NEW S, NEW from, NEW got, PciKernel!PciGet(S, from, got)
    PROVE  \E at \in 0..Len(listed) :
               /\ at \in DOMAIN listed => listed[at] = from
               /\ \/ got = NoDev /\ from \in gone
                  \/ got = NoDev /\ \A i \in DOMAIN listed : i > at => listed[i] \notin S
                  \/ \E k \in DOMAIN listed :
                        /\ k > at /\ got = listed[k] /\ got \in S
                        /\ \A i \in DOMAIN listed : i > at /\ i < k => listed[i] \notin S
<1>1. listed \in Seq(Devs) /\ Len(listed) \in Nat /\ DOMAIN listed = 1..Len(listed)
  BY DEF KernelTypes
<1>2. ASSUME NEW at \in 0..Len(listed), PciKernel!FirstBehind(S, at, got)
      PROVE  \/ got = NoDev /\ \A i \in DOMAIN listed : i > at => listed[i] \notin S
             \/ \E k \in DOMAIN listed :
                   /\ k > at /\ got = listed[k] /\ got \in S
                   /\ \A i \in DOMAIN listed : i > at /\ i < k => listed[i] \notin S
  <2>1. ASSUME NEW k \in DOMAIN listed,
               \A i \in DOMAIN listed : i > at /\ listed[i] \in S => k <= i
        PROVE  \A i \in DOMAIN listed : i > at /\ i < k => listed[i] \notin S
    BY <1>1, <2>1
  <2> QED
    BY <1>2, <2>1, FirstIsFound
<1>3. 0 \in 0..Len(listed) /\ 0 \notin DOMAIN listed
  BY <1>1
<1>4. CASE from = NoDev /\ PciKernel!FirstBehind(S, 0, got)
  BY <1>2, <1>3, <1>4
<1>5. CASE /\ from \in PciKernel!Plugged
           /\ PciKernel!FirstBehind(S, PciKernel!SelectInSeq(listed, LAMBDA e : e = from), got)
  <2>1. PICK k \in DOMAIN listed : from = listed[k]
    BY <1>5 DEF PciKernel!Plugged, PciKernel!ToSet
  <2>2. {i \in 1..Len(listed) : listed[i] = from} = {k}
    BY <1>1, <2>1 DEF KernelTypes, Distinct
  <2>3. PciKernel!SelectInSeq(listed, LAMBDA e : e = from) = k
    BY <2>2 DEF PciKernel!SelectInSeq, PciKernel!Min
  <2>4. PciKernel!FirstBehind(S, k, got) /\ k \in 0..Len(listed)
    BY <1>1, <1>5, <2>3
  <2> QED
    BY <1>2, <2>1, <2>4
<1>6. CASE from \in gone /\ (got = NoDev \/ PciKernel!FirstBehind(S, 0, got))
  BY <1>2, <1>3, <1>6
<1> QED
  BY <1>4, <1>5, <1>6 DEF PciKernel!PciGet

(* A search by task a, as the program's calls and os_pci_enable_device make it. *)
LEMMA KernelSearch ==
    ASSUME KernelInv, NEW a \in PciKernel!Tasks, NEW S \in SUBSET Devs, Alike(S),
           NEW from, NEW got \in Devs \cup {NoDev}, PciKernel!Search(a, S, from, got),
           from = NoDev \/ (from = cursor[a] /\ S = sought[a]),
           IF a = "program" THEN PciKernel!Give(from, got)
           ELSE /\ \A d \in S : S = PciKernel!WithId(IdOf[d])
                /\ enabled' = IF from = NoDev THEN {} ELSE enabled \cup {from}
                /\ UNCHANGED <<handles, forgotten>>,
           a = "enable" /\ from = NoDev => cursor[a] = NoDev
    PROVE  KernelInv'
<1> USE NoDevAssumption DEF PciKernel!Tasks
<1>0. /\ PciKernel!PciGet(S, from, got)
      /\ refs' = PciKernel!Moved(refs, from, got)
      /\ cursor' = [cursor EXCEPT ![a] = got]
      /\ sought' = [sought EXCEPT ![a] = S]
      /\ seen' = [seen EXCEPT ![a] = (IF from = NoDev THEN {} ELSE @) \cup ({got} \ {NoDev})]
      /\ present' = [present EXCEPT ![a] = IF from = NoDev THEN S \cap PciKernel!Plugged ELSE @]
      /\ ended' = [ended EXCEPT ![a] = got = NoDev]
      /\ strayed' = [strayed EXCEPT ![a] = got = NoDev /\ from \in gone]
      /\ UNCHANGED <<listed, gone>>
  BY DEF PciKernel!Search, PciKernel!Hold, PciKernel!busVars
<1>1. KernelTypes /\ Counted /\ Sought /\ Seen
  BY DEF KernelInv
<1>3. PICK at \in 0..Len(listed) :
          /\ at \in DOMAIN listed => listed[at] = from
          /\ \/ got = NoDev /\ from \in gone
             \/ got = NoDev /\ \A i \in DOMAIN listed : i > at => listed[i] \notin S
             \/ \E k \in DOMAIN listed :
                   /\ k > at /\ got = listed[k] /\ got \in S
                   /\ \A i \in DOMAIN listed : i > at /\ i < k => listed[i] \notin S
  BY <1>0, <1>1, PciGetFinds
<1>4. from \in Devs \cup {NoDev} /\ DOMAIN listed = 1..Len(listed) /\ Len(listed) \in Nat
  BY <1>1 DEF KernelTypes
<1>2. at \in DOMAIN listed => listed[at] = from /\ from # NoDev
  <2>1. at \in DOMAIN listed => listed[at] \in Devs
    BY <1>1 DEF KernelTypes
  <2>2. at \in DOMAIN listed => listed[at] = from
    BY <1>3
  <2> QED
    BY <2>1, <2>2
<1>5. \A d \in Devs : refs'[d] = refs[d] + (IF d = got THEN 1 ELSE 0)
                                    - (IF d = from THEN 1 ELSE 0)
  BY <1>0 DEF PciKernel!Moved
<1>6. \A d \in Devs :
          handles'[d] = IF a = "program"
                        THEN handles[d] + (IF d = got THEN 1 ELSE 0) - (IF d = from THEN 1 ELSE 0)
                        ELSE handles[d]
  BY DEF PciKernel!Give, PciKernel!Moved
<1>7. UNCHANGED forgotten
  BY DEF PciKernel!Give
<1>8. KernelTypes'
  <2>1. refs' \in [Devs -> Nat]
    <3>1. DOMAIN refs' = Devs /\ refs' = [d \in Devs |-> refs'[d]]
      BY <1>0 DEF PciKernel!Moved
    <3>2. ASSUME NEW d \in Devs PROVE refs'[d] \in Nat
      <4>1. refs[d] \in Nat /\ handles[d] \in Nat /\ forgotten[d] \in Nat
        BY <1>1 DEF KernelTypes
      <4>2. d = from => refs[d] > 0
        BY <1>1, <4>1 DEF Counted
      <4> QED
        BY <1>5, <4>1, <4>2
    <3> QED
      BY <3>1, <3>2
  <2>2. handles' \in [Devs -> Nat]
    <3>1. handles' = [d \in Devs |-> handles'[d]]
      BY <1>1 DEF PciKernel!Give, PciKernel!Moved, KernelTypes
    <3>2. ASSUME NEW d \in Devs PROVE handles'[d] \in Nat
      <4>1. handles[d] \in Nat /\ (a = "program" /\ d = from => handles[d] > 0)
        BY <1>1 DEF KernelTypes, Counted
      <4> QED
        BY <1>6, <4>1
    <3> QED
      BY <3>1, <3>2
  <2>3. seen' \in [PciKernel!Tasks -> SUBSET Devs] /\ present' \in [PciKernel!Tasks -> SUBSET Devs]
    BY <1>0, <1>1 DEF KernelTypes
  <2>4. ended' \in [PciKernel!Tasks -> BOOLEAN]
    <3>1. (got = NoDev) \in BOOLEAN
      OBVIOUS
    <3> QED
      BY <1>0, <1>1, <3>1, Zenon DEF KernelTypes
  <2>5. strayed' \in [PciKernel!Tasks -> BOOLEAN]
    <3>1. (got = NoDev /\ from \in gone) \in BOOLEAN
      OBVIOUS
    <3> QED
      BY <1>0, <1>1, <3>1, Zenon DEF KernelTypes
  <2> QED
    BY <1>0, <1>1, <1>7, <2>1, <2>2, <2>3, <2>4, <2>5 DEF KernelTypes
<1>9. Counted'
  <2> SUFFICES ASSUME NEW d \in Devs
               PROVE  /\ refs'[d] = handles'[d] + forgotten'[d]
                                      + (IF cursor'["enable"] = d THEN 1 ELSE 0)
                      /\ cursor'["program"] = d => handles'[d] > 0
    BY DEF Counted
  <2>1. /\ refs[d] \in Nat /\ handles[d] \in Nat /\ forgotten[d] \in Nat
        /\ refs[d] = handles[d] + forgotten[d] + (IF cursor["enable"] = d THEN 1 ELSE 0)
        /\ cursor["program"] = d => handles[d] > 0
    BY <1>1 DEF Counted, KernelTypes
  <2>2. CASE a = "program"
    <3>1. cursor'["enable"] = cursor["enable"] /\ cursor'["program"] = got
      BY <1>0, <1>1, <2>2 DEF KernelTypes
    <3>2. d = from => handles[d] > 0
      BY <2>1, <2>2
    <3>3. /\ forgotten'[d] = forgotten[d]
          /\ refs'[d] = refs[d] + (IF d = got THEN 1 ELSE 0) - (IF d = from THEN 1 ELSE 0)
          /\ handles'[d] = handles[d] + (IF d = got THEN 1 ELSE 0) - (IF d = from THEN 1 ELSE 0)
      BY <1>5, <1>6, <1>7, <2>2
    <3>4. refs'[d] = handles'[d] + forgotten'[d] + (IF cursor'["enable"] = d THEN 1 ELSE 0)
      BY <2>1, <3>1, <3>3
    <3>5. d = got => handles'[d] > 0
      BY <2>1, <3>2, <3>3
    <3> QED
      BY <3>1, <3>4, <3>5
  <2>3. CASE a = "enable"
    <3>1. /\ cursor'["program"] = cursor["program"]
          /\ cursor'["enable"] = got /\ cursor["enable"] = from
      BY <1>0, <1>1, <2>3 DEF KernelTypes
    <3> QED
      BY <1>5, <1>6, <1>7, <2>1, <2>3, <3>1
  <2> QED
    BY <2>2, <2>3
<1>10. \A b \in PciKernel!Tasks :
          b # a => /\ cursor'[b] = cursor[b] /\ sought'[b] = sought[b] /\ seen'[b] = seen[b]
                   /\ present'[b] = present[b]
  BY <1>0, <1>1 DEF KernelTypes
<1>11. \A b \in PciKernel!Tasks : b # a => ended'[b] = ended[b] /\ strayed'[b] = strayed[b]
  BY <1>0, <1>1, Zenon DEF KernelTypes
<1>12. /\ cursor'[a] = got /\ sought'[a] = S
       /\ seen'[a] = (IF from = NoDev THEN {} ELSE seen[a]) \cup ({got} \ {NoDev})
       /\ present'[a] = IF from = NoDev THEN S \cap PciKernel!Plugged ELSE present[a]
  BY <1>0, <1>1 DEF KernelTypes
<1>13. ended'[a] => got = NoDev
  BY <1>0, <1>1, Zenon DEF KernelTypes
<1>18. got = NoDev /\ from \in gone => strayed'[a]
  BY <1>0, <1>1, Zenon DEF KernelTypes
<1>14. got # NoDev => got \in S /\ \E i \in DOMAIN listed : got = listed[i]
  BY <1>3
<1>15. PciKernel!Plugged = {listed[i] : i \in DOMAIN listed}
  BY DEF PciKernel!Plugged, PciKernel!ToSet
<1>16. Sought'
  <2>1. /\ seen'[a] \subseteq sought'[a] /\ present'[a] \subseteq sought'[a] /\ Alike(sought'[a])
        /\ cursor'[a] # NoDev => cursor'[a] \in sought'[a]
    BY <1>1, <1>12, <1>14 DEF Sought
  <2>2. \A d \in sought'["enable"] : sought'["enable"] = PciKernel!WithId(IdOf[d])
    BY <1>1, <1>10, <1>12 DEF Sought
  <2> QED
    BY <1>1, <1>10, <2>1, <2>2 DEF Sought
<1>17. Seen'
  <2>1. \A d \in present'[a] : \E i \in DOMAIN listed : d = listed[i]
    BY <1>1, <1>12, <1>15 DEF Seen
  <2>2. ASSUME NEW i \in DOMAIN listed, NEW j \in DOMAIN listed, i <= j, listed[j] = got,
               listed[i] \in present'[a]
        PROVE  listed[i] \in seen'[a]
    <3>1. listed[i] \in S
      BY <1>1, <1>12, <2>2 DEF Sought
    <3>2. got # NoDev
      BY <1>1, <1>4, <2>2 DEF KernelTypes
    <3>3. PICK k \in DOMAIN listed :
              /\ k > at /\ got = listed[k] /\ got \in S
              /\ \A h \in DOMAIN listed : h > at /\ h < k => listed[h] \notin S
      BY <1>3, <3>2
    <3>4. k = j
      BY <1>1, <2>2, <3>3 DEF KernelTypes, Distinct
    <3>5. CASE i = k
      BY <1>12, <3>2, <3>3, <3>5
    <3>6. CASE i # k
      <4>1. i <= at
        BY <1>4, <2>2, <3>1, <3>3, <3>4, <3>6
      <4>2. from # NoDev /\ at \in DOMAIN listed /\ listed[at] = from
        <5>1. at \in DOMAIN listed
          BY <1>4, <4>1
        <5> QED
          BY <1>2, <5>1
      <4>3. listed[i] \in seen[a]
        BY <1>1, <1>12, <2>2, <4>1, <4>2 DEF Seen
      <4> QED
        BY <1>12, <4>2, <4>3
    <3> QED
      BY <3>5, <3>6
  <2>3. ASSUME got = NoDev, ~strayed'[a] PROVE present'[a] \subseteq seen'[a]
    <3> SUFFICES ASSUME NEW d \in present'[a] PROVE d \in seen'[a]
      OBVIOUS
    <3>1. PICK i \in DOMAIN listed : d = listed[i]
      BY <2>1
    <3>2. d \in S
      BY <1>1, <1>12 DEF Sought
    <3>3. i <= at
      BY <1>1, <1>3, <1>4, <1>18, <2>3, <3>1, <3>2 DEF KernelTypes
    <3>4. from # NoDev /\ at \in DOMAIN listed /\ listed[at] = from
      <4>1. at \in DOMAIN listed
        BY <1>4, <3>1, <3>3
      <4> QED
        BY <1>2, <4>1
    <3>5. d \in seen[a]
      BY <1>1, <1>12, <3>1, <3>3, <3>4 DEF Seen
    <3> QED
      BY <1>12, <3>4, <3>5
  <2>4. /\ seen'["enable"] \ {cursor'["enable"]} \subseteq enabled'
        /\ ended'["enable"] => seen'["enable"] \subseteq enabled'
    <3>1. CASE a = "program"
      <4>1. enabled' = enabled
        BY <3>1 DEF PciKernel!Give
      <4> QED
        BY <1>1, <1>10, <1>11, <3>1, <4>1 DEF Seen
    <3>2. CASE a = "enable"
      <4>1. enabled' = IF from = NoDev THEN {} ELSE enabled \cup {from}
        BY <3>2
      <4>2. from = NoDev \/ from = cursor["enable"]
        BY <3>2
      <4> QED
        BY <1>1, <1>12, <1>13, <3>2, <4>1, <4>2 DEF Seen
    <3> QED
      BY <3>1, <3>2
  <2> DEFINE SeenBy(b) ==
        /\ \A d \in present[b] : \E i \in DOMAIN listed : d = listed[i]
        /\ cursor[b] # NoDev =>
              cursor[b] \in gone \/ \E i \in DOMAIN listed : cursor[b] = listed[i]
        /\ \A i, j \in DOMAIN listed :
              i <= j /\ listed[j] = cursor[b] /\ listed[i] \in present[b] => listed[i] \in seen[b]
        /\ ended[b] /\ ~strayed[b] => present[b] \subseteq seen[b]
  <2>5. SeenBy(a)'
    BY <1>0, <1>12, <1>13, <1>14, <2>1, <2>2, <2>3
  <2>6. \A b \in PciKernel!Tasks : b # a => SeenBy(b)'
    BY <1>0, <1>1, <1>10, <1>11 DEF Seen
  <2> QED
    BY <2>4, <2>5, <2>6 DEF Seen
<1> QED
  BY <1>8, <1>9, <1>16, <1>17 DEF KernelInv

LEMMA PlugStep ==
    ASSUME KernelInv, NEW d \in Devs, PciKernel!Plug(d)
    PROVE  KernelInv'
<1> USE DEF PciKernel!Tasks
<1>0. /\ d \notin gone /\ \A i \in DOMAIN listed : d # listed[i]
      /\ listed' = Append(listed, d)
      /\ UNCHANGED <<gone, refs, handles, forgotten, cursor, sought, seen, present, ended, strayed,
                     enabled>>
  BY DEF PciKernel!Plug, PciKernel!Plugged, PciKernel!ToSet, PciKernel!enumVars
<1>1. /\ listed \in Seq(Devs) /\ Len(listed) \in Nat /\ DOMAIN listed = 1..Len(listed)
      /\ listed' \in Seq(Devs) /\ DOMAIN listed' = 1..(Len(listed) + 1)
      /\ \A i \in 1..Len(listed) : listed'[i] = listed[i]
      /\ listed'[Len(listed) + 1] = d
  BY <1>0 DEF KernelInv, KernelTypes
<1>2. KernelTypes'
  <2>1. Distinct(listed)'
    BY <1>0, <1>1 DEF KernelInv, KernelTypes, Distinct
  <2>2. \A i \in DOMAIN listed' : listed'[i] \notin gone
    BY <1>0, <1>1 DEF KernelInv, KernelTypes
  <2> QED
    BY <1>0, <1>1, <2>1, <2>2 DEF KernelInv, KernelTypes
<1>3. Counted' /\ Sought'
  BY <1>0 DEF KernelInv, Counted, Sought, PciKernel!WithId
<1>4. Seen'
  <2>1. \A a \in PciKernel!Tasks : d \notin present[a] /\ cursor[a] # d
    BY <1>0, NoDevAssumption DEF KernelInv, Seen
  <2>2. ASSUME NEW a \in PciKernel!Tasks
        PROVE  /\ \A e \in present[a] : \E i \in DOMAIN listed' : e = listed'[i]
               /\ cursor[a] # NoDev =>
                     cursor[a] \in gone \/ \E i \in DOMAIN listed' : cursor[a] = listed'[i]
               /\ ended[a] /\ ~strayed[a] => present[a] \subseteq seen[a]
    BY <1>1 DEF KernelInv, Seen
  <2>3. ASSUME NEW a \in PciKernel!Tasks, NEW i \in DOMAIN listed', NEW j \in DOMAIN listed',
               i <= j, listed'[j] = cursor[a], listed'[i] \in present[a]
        PROVE  listed'[i] \in seen[a]
    <3>1. i \in 1..Len(listed) /\ j \in 1..Len(listed)
      BY <1>1, <2>1, <2>3
    <3> QED
      BY <1>1, <2>3, <3>1 DEF KernelInv, Seen
  <2> QED
    BY <1>0, <2>2, <2>3 DEF KernelInv, Seen
<1> QED
  BY <1>2, <1>3, <1>4 DEF KernelInv

LEMMA DevRemoval ==
    ASSUME NEW s \in Seq(Devs), Distinct(s), NEW k \in DOMAIN s
    PROVE  LET r == Without(s, k)
           IN  /\ r \in Seq(Devs) /\ Len(r) = Len(s) - 1 /\ DOMAIN r = 1..Len(r) /\ Distinct(r)
               /\ \A i \in DOMAIN r :
                     r[i] = s[IF i < k THEN i ELSE i + 1] /\ r[i] # s[k]
               /\ \A i \in DOMAIN s : i # k => \E j \in DOMAIN r : r[j] = s[i]
BY Removal

LEMMA UnplugStep ==
    ASSUME KernelInv, NEW d \in Devs, PciKernel!Unplug(d)
    PROVE  KernelInv'
<1> USE DEF PciKernel!Tasks
<1>0. /\ \E k \in DOMAIN listed : d = listed[k]
      /\ listed' = PciKernel!RemoveFirst(listed, d)
      /\ gone' = gone \cup {d}
      /\ present' = [a \in PciKernel!Tasks |-> present[a] \ {d}]
      /\ UNCHANGED <<refs, handles, forgotten, cursor, sought, seen, ended, strayed, enabled>>
  BY DEF PciKernel!Unplug, PciKernel!Plugged, PciKernel!ToSet
<1>1. listed \in Seq(Devs) /\ Distinct(listed)
      /\ Len(listed) \in Nat /\ DOMAIN listed = 1..Len(listed)
  BY DEF KernelInv, KernelTypes
<1>2. PICK k \in DOMAIN listed : d = listed[k]
  BY <1>0
<1> DEFINE from(i) == IF i < k THEN i ELSE i + 1
<1>3. listed' = Without(listed, k)
  BY <1>0, <1>1, <1>2, FirstRemoved
<1>4. /\ Without(listed, k) \in Seq(Devs) /\ Len(Without(listed, k)) = Len(listed) - 1
      /\ DOMAIN Without(listed, k) = 1..Len(Without(listed, k)) /\ Distinct(Without(listed, k))
      /\ \A i \in DOMAIN Without(listed, k) :
            Without(listed, k)[i] = listed[from(i)] /\ Without(listed, k)[i] # listed[k]
      /\ \A i \in DOMAIN listed : i # k =>
             \E j \in DOMAIN Without(listed, k) : Without(listed, k)[j] = listed[i]
  BY <1>1, DevRemoval
<1>5. /\ listed' \in Seq(Devs) /\ DOMAIN listed' = 1..(Len(listed) - 1) /\ Distinct(listed')
      /\ \A i \in DOMAIN listed' : listed'[i] = listed[from(i)] /\ listed'[i] # d
      /\ \A i \in DOMAIN listed : listed[i] # d => \E j \in DOMAIN listed' : listed'[j] = listed[i]
  BY <1>2, <1>3, <1>4
<1>6. \A i \in DOMAIN listed' : from(i) \in DOMAIN listed
  BY <1>1, <1>5
<1>7. \A i, j \in DOMAIN listed' : i <= j => from(i) <= from(j)
  BY <1>1, <1>5
<1>8. \A a \in PciKernel!Tasks : present'[a] = present[a] \ {d}
  BY <1>0
<1> HIDE DEF from
<1>9. KernelTypes'
  <2>1. \A i \in DOMAIN listed' : listed'[i] \notin gone'
    BY <1>0, <1>5, <1>6 DEF KernelInv, KernelTypes
  <2> QED
    BY <1>0, <1>5, <2>1 DEF KernelInv, KernelTypes
<1>10. Counted' /\ Sought'
  BY <1>0, <1>8 DEF KernelInv, Counted, Sought, PciKernel!WithId
<1>11. Seen'
  <2>1. ASSUME NEW a \in PciKernel!Tasks
        PROVE  /\ \A e \in present'[a] : \E i \in DOMAIN listed' : e = listed'[i]
               /\ cursor[a] # NoDev =>
                     cursor[a] \in gone' \/ \E i \in DOMAIN listed' : cursor[a] = listed'[i]
               /\ ended[a] /\ ~strayed[a] => present'[a] \subseteq seen[a]
    BY <1>0, <1>5, <1>8 DEF KernelInv, Seen
  <2>2. ASSUME NEW a \in PciKernel!Tasks, NEW i \in DOMAIN listed', NEW j \in DOMAIN listed',
               i <= j, listed'[j] = cursor[a], listed'[i] \in present'[a]
        PROVE  listed'[i] \in seen[a]
    <3>1. /\ from(i) \in DOMAIN listed /\ from(j) \in DOMAIN listed /\ from(i) <= from(j)
          /\ listed[from(j)] = cursor[a] /\ listed[from(i)] \in present[a]
      BY <1>5, <1>6, <1>7, <1>8, <2>2
    <3> QED
      BY <1>5, <2>2, <3>1 DEF KernelInv, Seen
  <2> QED
    BY <1>0, <2>1, <2>2 DEF KernelInv, Seen
<1> QED
  BY <1>9, <1>10, <1>11 DEF KernelInv

LEMMA MovedIs ==
    ASSUME NEW f \in [Devs -> Nat], NEW from \in Devs \cup {NoDev}, NEW to \in Devs \cup {NoDev},
           from \in Devs => f[from] > 0
    PROVE  /\ PciKernel!Moved(f, from, to) \in [Devs -> Nat]
           /\ \A d \in Devs : PciKernel!Moved(f, from, to)[d]
                              = f[d] + (IF d = to THEN 1 ELSE 0) - (IF d = from THEN 1 ELSE 0)
BY DEF PciKernel!Moved

LEMMA FreeStep ==
    ASSUME KernelInv, NEW d \in Devs, PciKernel!OsPciFreeDevice(d)
    PROVE  KernelInv'
<1> USE NoDevAssumption DEF PciKernel!Tasks
<1>0. /\ handles[d] > 0
      /\ handles' = PciKernel!Moved(handles, d, NoDev)
      /\ forgotten' = [forgotten EXCEPT ![d] = @ + 1]
      /\ cursor' = [cursor EXCEPT !["program"] = IF @ = d THEN NoDev ELSE @]
      /\ UNCHANGED <<listed, gone, refs, sought, seen, present, ended, strayed, enabled>>
  BY DEF PciKernel!OsPciFreeDevice, PciKernel!busVars
<1>1. /\ handles' \in [Devs -> Nat]
      /\ \A e \in Devs : handles'[e] = handles[e] - (IF e = d THEN 1 ELSE 0)
  <2>1. handles \in [Devs -> Nat]
    BY DEF KernelInv, KernelTypes
  <2>2. /\ handles' \in [Devs -> Nat]
        /\ \A e \in Devs : handles'[e] = handles[e] + (IF e = NoDev THEN 1 ELSE 0)
                                                   - (IF e = d THEN 1 ELSE 0)
    BY <1>0, <2>1, MovedIs
  <2> QED
    BY <2>1, <2>2
<1>2. KernelTypes'
  <2>1. cursor' \in [PciKernel!Tasks -> Devs \cup {NoDev}]
    BY <1>0 DEF KernelInv, KernelTypes
  <2>2. forgotten' \in [Devs -> Nat]
    BY <1>0 DEF KernelInv, KernelTypes
  <2> QED
    BY <1>0, <1>1, <2>1, <2>2 DEF KernelInv, KernelTypes
<1>3. /\ cursor'["enable"] = cursor["enable"]
      /\ cursor'["program"] = IF cursor["program"] = d THEN NoDev ELSE cursor["program"]
  BY <1>0 DEF KernelInv, KernelTypes
<1>4. Counted'
  <2> SUFFICES ASSUME NEW e \in Devs
               PROVE  /\ refs[e] = handles'[e] + forgotten'[e]
                                   + (IF cursor["enable"] = e THEN 1 ELSE 0)
                      /\ cursor'["program"] = e => handles'[e] > 0
    BY <1>0, <1>3 DEF Counted
  <2>1. /\ handles[e] \in Nat /\ forgotten[e] \in Nat
        /\ refs[e] = handles[e] + forgotten[e] + (IF cursor["enable"] = e THEN 1 ELSE 0)
        /\ cursor["program"] = e => handles[e] > 0
    BY DEF KernelInv, KernelTypes, Counted
  <2>2. forgotten'[e] = forgotten[e] + (IF e = d THEN 1 ELSE 0)
    BY <1>0, <2>1 DEF KernelInv, KernelTypes
  <2> QED
    BY <1>1, <1>3, <2>1, <2>2
<1>5. Sought'
  BY <1>0, <1>3 DEF KernelInv, Sought, PciKernel!WithId
<1>6. Seen'
  <2>1. \A a \in PciKernel!Tasks : cursor'[a] = cursor[a] \/ cursor'[a] = NoDev
    BY <1>3
  <2>2. \A i \in DOMAIN listed : listed[i] # NoDev
    BY DEF KernelInv, KernelTypes
  <2> QED
    BY <1>0, <1>3, <2>1, <2>2 DEF KernelInv, Seen
<1> QED
  BY <1>2, <1>4, <1>5, <1>6 DEF KernelInv

(* A handle by its address. *)
LEMMA AddressStep ==
    ASSUME KernelInv, PciKernel!OsPciDeviceFromAddress
    PROVE  KernelInv'
<1> USE NoDevAssumption DEF PciKernel!Tasks
<1>0. PICK p \in {PlaceOf[d] : d \in Devs}, got \in Devs \cup {NoDev} :
          PciKernel!OsPciDeviceFromSlot(PciKernel!SlotNumber(p), got)
  BY DEF PciKernel!OsPciDeviceFromAddress
<1>1. /\ refs' = PciKernel!Moved(refs, NoDev, got)
      /\ handles' = PciKernel!Moved(handles, NoDev, got)
      /\ UNCHANGED <<listed, gone, cursor, sought, seen, present, ended, strayed, forgotten,
                     enabled>>
  BY <1>0 DEF PciKernel!OsPciDeviceFromSlot, PciKernel!Give, PciKernel!Hold, PciKernel!busVars, PciKernel!enumVars
<1>2. /\ refs' \in [Devs -> Nat] /\ handles' \in [Devs -> Nat]
      /\ \A d \in Devs : /\ refs'[d] = refs[d] + (IF d = got THEN 1 ELSE 0)
                         /\ handles'[d] = handles[d] + (IF d = got THEN 1 ELSE 0)
  <2>1. refs \in [Devs -> Nat] /\ handles \in [Devs -> Nat]
    BY DEF KernelInv, KernelTypes
  <2>2. /\ refs' \in [Devs -> Nat]
        /\ \A d \in Devs : refs'[d] = refs[d] + (IF d = got THEN 1 ELSE 0)
                                             - (IF d = NoDev THEN 1 ELSE 0)
    BY <1>1, <2>1, MovedIs
  <2>3. /\ handles' \in [Devs -> Nat]
        /\ \A d \in Devs : handles'[d] = handles[d] + (IF d = got THEN 1 ELSE 0)
                                                   - (IF d = NoDev THEN 1 ELSE 0)
    BY <1>1, <2>1, MovedIs
  <2> QED
    BY <2>1, <2>2, <2>3
<1>3. KernelTypes'
  BY <1>1, <1>2 DEF KernelInv, KernelTypes
<1>4. Counted'
  <2> SUFFICES ASSUME NEW d \in Devs
               PROVE  /\ refs'[d] = handles'[d] + forgotten[d]
                                    + (IF cursor["enable"] = d THEN 1 ELSE 0)
                      /\ cursor["program"] = d => handles'[d] > 0
    BY <1>1 DEF Counted
  <2>1. /\ handles[d] \in Nat /\ forgotten[d] \in Nat
        /\ refs[d] = handles[d] + forgotten[d] + (IF cursor["enable"] = d THEN 1 ELSE 0)
        /\ cursor["program"] = d => handles[d] > 0
    BY DEF KernelInv, KernelTypes, Counted
  <2> QED
    BY <1>2, <2>1
<1>5. Sought' /\ Seen'
  BY <1>1 DEF KernelInv, Sought, Seen, PciKernel!WithId
<1> QED
  BY <1>3, <1>4, <1>5 DEF KernelInv

-----------------------------------------------------------------------------
(* A search for an id, or for a class in its three parts, is for devices that
   have it in common: the parts do not run into each other. *)
LEMMA IdsAreAlike ==
    ASSUME NEW id
    PROVE  PciKernel!WithId(id) \in SUBSET Devs /\ Alike(PciKernel!WithId(id))
BY DEF PciKernel!WithId, Alike

LEMMA ClassesAreAlike ==
    ASSUME NEW c
    PROVE  PciKernel!WithClass(c) \in SUBSET Devs /\ Alike(PciKernel!WithClass(c))
<1>1. \A d \in Devs : \E b, s, p \in 0..255 : ClassOf[d] = <<b, s, p>>
  <2> DEFINE Byte == 0..255
  <2>1. \A d \in Devs : ClassOf[d] \in Byte \X Byte \X Byte
    BY ClassOfAssumption
  <2> HIDE DEF Byte
  <2>2. \A d \in Devs : \E b, s, p \in Byte : ClassOf[d] = <<b, s, p>>
    BY <2>1
  <2> QED
    BY <2>2 DEF Byte
<1>2. ASSUME NEW d \in PciKernel!WithClass(c), NEW e \in PciKernel!WithClass(c)
      PROVE  ClassOf[d] = ClassOf[e]
  <2>1. /\ d \in Devs /\ e \in Devs
        /\ PciKernel!ClassNumber(d) = PciKernel!ClassNumber(e)
    BY DEF PciKernel!WithClass
  <2>2. PICK b1 \in 0..255, s1 \in 0..255, p1 \in 0..255 : ClassOf[d] = <<b1, s1, p1>>
    BY <1>1, <2>1
  <2>3. PICK b2 \in 0..255, s2 \in 0..255, p2 \in 0..255 : ClassOf[e] = <<b2, s2, p2>>
    BY <1>1, <2>1
  <2>4. b1 * 65536 + s1 * 256 + p1 = b2 * 65536 + s2 * 256 + p2
    BY <2>1, <2>2, <2>3 DEF PciKernel!ClassNumber, PciKernel!Class
  <2>5. b1 = b2 /\ s1 = s2 /\ p1 = p2
    BY <2>4
  <2> QED
    BY <2>2, <2>3, <2>5
<1> QED
  BY <1>2 DEF PciKernel!WithClass, Alike

LEMMA KernelStep ==
    ASSUME KernelInv, PciKernel!Next
    PROVE  KernelInv'
<1> USE DEF PciKernel!Tasks
<1>1. ASSUME NEW d \in Devs,
             PciKernel!Plug(d) \/ PciKernel!Unplug(d) \/ PciKernel!OsPciFreeDevice(d)
      PROVE  KernelInv'
  BY <1>1, PlugStep, UnplugStep, FreeStep
<1>2. CASE PciKernel!OsPciFindFirstDevice \/ PciKernel!OsPciFindFirstDeviceByClass
  <2>1. PICK S \in SUBSET Devs, got \in Devs \cup {NoDev} :
            Alike(S) /\ PciKernel!Search("program", S, NoDev, got) /\ PciKernel!Give(NoDev, got)
    BY <1>2, IdsAreAlike, ClassesAreAlike
       DEF PciKernel!OsPciFindFirstDevice, PciKernel!OsPciFindFirstDeviceByClass
  <2> QED
    BY <2>1, KernelSearch
<1>3. CASE PciKernel!OsPciFindNextDevice \/ PciKernel!OsPciFindNextDeviceByClass
  <2> DEFINE S == sought["program"]
  <2>1. PciKernel!GoOn(S)
    BY <1>3 DEF PciKernel!OsPciFindNextDevice, PciKernel!OsPciFindNextDeviceByClass, PciKernel!GoOn
  <2>2. PICK got \in Devs \cup {NoDev} :
            /\ PciKernel!Search("program", S, cursor["program"], got)
            /\ PciKernel!Give(cursor["program"], got)
    BY <2>1 DEF PciKernel!GoOn
  <2>3. S \in SUBSET Devs /\ Alike(S)
    BY DEF KernelInv, KernelTypes, Sought
  <2> QED
    BY <2>2, <2>3, KernelSearch
<1>4. CASE PciKernel!OsPciDeviceFromAddress
  BY <1>4, AddressStep
<1>5. CASE PciKernel!EnableFirst
  <2>1. PICK id \in {IdOf[d] : d \in Devs}, got \in Devs \cup {NoDev} :
            PciKernel!Search("enable", PciKernel!WithId(id), NoDev, got)
    BY <1>5 DEF PciKernel!EnableFirst
  <2>2. cursor["enable"] = NoDev /\ enabled' = {} /\ UNCHANGED <<handles, forgotten>>
    BY <1>5 DEF PciKernel!EnableFirst
  <2>3. \A d \in PciKernel!WithId(id) : PciKernel!WithId(id) = PciKernel!WithId(IdOf[d])
    BY DEF PciKernel!WithId
  <2> QED
    BY <2>1, <2>2, <2>3, IdsAreAlike, KernelSearch
<1>6. CASE PciKernel!EnableNext
  <2> DEFINE d == cursor["enable"]
             S == PciKernel!WithId(IdOf[d])
  <2>1. d # NoDev /\ enabled' = enabled \cup {d} /\ UNCHANGED <<handles, forgotten>>
    BY <1>6 DEF PciKernel!EnableNext
  <2>2. PICK got \in Devs \cup {NoDev} : PciKernel!Search("enable", S, d, got)
    BY <1>6 DEF PciKernel!EnableNext
  <2>3. S = sought["enable"]
    BY <2>1 DEF KernelInv, Sought
  <2>4. \A e \in S : S = PciKernel!WithId(IdOf[e])
    BY DEF PciKernel!WithId
  <2> HIDE DEF S
  <2>5. S \in SUBSET Devs /\ Alike(S)
    BY IdsAreAlike DEF S
  <2> QED
    BY <2>1, <2>2, <2>3, <2>4, <2>5, KernelSearch
<1> QED
  BY <1>1, <1>2, <1>3, <1>4, <1>5, <1>6 DEF PciKernel!Next

LEMMA KernelIsExact ==
    ASSUME KernelInv
    PROVE  PciKernel!EnumerationComplete /\ PciKernel!FoundMatches
<1> USE DEF PciKernel!Tasks
<1>1. PciKernel!EnumerationComplete
  BY DEF KernelInv, Seen, PciKernel!EnumerationComplete
<1>2. PciKernel!FoundMatches
  BY DEF KernelInv, Sought, Alike, PciKernel!FoundMatches
<1> QED
  BY <1>1, <1>2

LEMMA KernelHolds ==
    ASSUME KernelInv
    PROVE  HandlesAreAlive
<1> USE DEF PciKernel!Tasks
<1>0. ASSUME NEW d \in Devs
      PROVE  /\ handles[d] \in Nat /\ forgotten[d] \in Nat
             /\ refs[d] = handles[d] + forgotten[d] + (IF cursor["enable"] = d THEN 1 ELSE 0)
  BY DEF KernelInv, KernelTypes, Counted
<1>1. \A d \in Devs : handles[d] > 0 => ~PciKernel!Freed(d)
  BY <1>0 DEF PciKernel!Freed
<1>2. \A d \in Devs : cursor["enable"] = d => ~PciKernel!Freed(d)
  BY <1>0 DEF PciKernel!Freed
<1>3. \A d \in Devs : cursor["program"] = d => ~PciKernel!Freed(d)
  BY <1>1 DEF KernelInv, Counted
<1>4. \A a \in PciKernel!Tasks : cursor[a] # NoDev => ~PciKernel!Freed(cursor[a])
  BY <1>2, <1>3 DEF KernelInv, KernelTypes
<1> QED
  BY <1>1, <1>4 DEF HandlesAreAlive, PciKernel!HandlesAreAlive, PciKernel!OsPciGetInterrupt

-----------------------------------------------------------------------------
(* The types of the bus and of what a search knows of it: a slot is listed exactly
   while it holds a device, and every listing is one of slots and kinds. *)
BusTypes ==
    /\ device \in [Slots -> Kinds \cup {NoKind}]
    /\ listing \in Seq(Slots) /\ Distinct(listing)
    /\ \A s \in Slots : device[s] # NoKind <=> \E i \in DOMAIN listing : s = listing[i]
    /\ lines \in Seq([slot : Slots, kind : Kinds])
    /\ matching \subseteq {s \in Slots : device[s] = wanted}
    /\ wanted \in Kinds

Enumerating == by # "slot" /\ ~disturbed

(* A slot that is still to come is behind what the search goes past. *)
Behind(s, addresses) == \A a \in addresses : PciUser!SlotAddress(PciUser!DevAddr(s)) > a

(* While an undisturbed enumeration reads the file, what it looks for is what it
   was begun for, the slots it reads are in order, and of those that have held
   such a device all along it has found each that it does not come to any more. *)
Searching ==
    pc = "search" /\ Enumerating =>
        /\ key = wanted /\ PciUser!Ascending(listing)
        /\ \A i, j \in DOMAIN lines :
              i < j => PciUser!DevAddr(lines[i].slot) < PciUser!DevAddr(lines[j].slot)
        /\ \A s \in matching \ found :
              Behind(s, after) /\ \E i \in DOMAIN lines : lines[i] = [slot |-> s, kind |-> wanted]
        /\ \A i \in DOMAIN lines :
              /\ lines[i].kind = wanted => device[lines[i].slot] \in {wanted, NoKind}
              /\ by = "class" => device[lines[i].slot] # NoKind

Holding ==
    pc = "held" /\ Enumerating =>
        /\ PciUser!Ascending(listing)
        /\ \E s \in Slots :
              /\ pci_dev.slot_address = PciUser!SlotAddress(PciUser!DevAddr(s))
              /\ s \in found /\ device[s] \in {wanted, NoKind}
        /\ \A s \in matching \ found : Behind(s, {pci_dev.slot_address})

UserInv ==
    /\ BusTypes /\ Searching /\ Holding /\ PciUser!EnumerationComplete
    /\ pc \in {"idle", "search", "held", "ended"} /\ by \in {"id", "class", "slot"}

(* An address that is made of a slot and taken apart again is that slot. *)
LEMMA AddressOfSlot ==
    ASSUME NEW s \in Slots
    PROVE  /\ PciUser!DevAddr(s) \in Nat /\ PciUser!SlotAddress(PciUser!DevAddr(s)) \in Nat
           /\ PciUser!DeviceAddress(PciUser!SlotAddress(PciUser!DevAddr(s))) = s
<1> DEFINE Buses == 0..255
           Devices == 0..31
           Functions == 0..7
<1>1. s \in Buses \X Devices \X Functions
  BY SlotsAssumption
<1> HIDE DEF Buses, Devices, Functions
<1>2. PICK b \in Buses, d \in Devices, f \in Functions : s = <<b, d, f>>
  BY <1>1
<1>3. b \in 0..255 /\ d \in 0..31 /\ f \in 0..7
  BY DEF Buses, Devices, Functions
<1>4. PciUser!DevAddr(s) = b * 256 + d * 8 + f
  BY <1>2 DEF PciUser!DevAddr
<1> DEFINE a == (b * 256 + d * 8 + f) * 256
<1>5. a = b * 65536 + d * 2048 + f * 256
  BY <1>3
<1>6. a \div 65536 = b /\ a \div 2048 = b * 32 + d /\ a \div 256 = b * 256 + d * 8 + f
  BY <1>3, <1>5
<1>7. b % 32768 = b /\ (b * 32 + d) % 32 = d /\ (b * 256 + d * 8 + f) % 8 = f
  BY <1>3
<1> QED
  BY <1>2, <1>3, <1>4, <1>6, <1>7
     DEF PciUser!SlotAddress, PciUser!DeviceAddress, PciUser!PCI_BUS, PciUser!PCI_DEV,
         PciUser!PCI_FUNC

LEMMA LinesAreLines ==
    ASSUME BusTypes
    PROVE  /\ lines \in Seq([slot : Slots, kind : Kinds])
           /\ Len(lines) \in Nat /\ DOMAIN lines = 1..Len(lines)
           /\ \A i \in DOMAIN lines :
                 /\ lines[i].slot \in Slots /\ lines[i].kind \in Kinds
                 /\ lines[i] = [slot |-> lines[i].slot, kind |-> lines[i].kind]
<1> DEFINE R == [slot : Slots, kind : Kinds]
<1>1. lines \in Seq(R)
  BY DEF BusTypes
<1> HIDE DEF R
<1>2. \A i \in DOMAIN lines : lines[i] \in R
  BY <1>1
<1> QED
  BY <1>1, <1>2 DEF R

LEMMA UserStarts == Init => UserInv
<1> SUFFICES ASSUME Init PROVE UserInv
  OBVIOUS
<1>1. PciUser!Init
  BY DEF Init
<1>2. PciUser!AnyKind \in Kinds
  BY KindsAssumption DEF PciUser!AnyKind
<1>3. BusTypes
  BY <1>1, <1>2 DEF PciUser!Init, BusTypes, Distinct
<1> QED
  BY <1>1, <1>3 DEF PciUser!Init, UserInv, Searching, Holding, PciUser!EnumerationComplete

LEMMA UserStutters ==
    ASSUME UserInv, UNCHANGED pciUserVars
    PROVE  UserInv'
BY DEF UserInv, BusTypes, Enumerating, Behind, Searching, Holding, PciUser!EnumerationComplete,
       PciUser!Ascending, pciUserVars

-----------------------------------------------------------------------------
LEMMA SlotRemoval ==
    ASSUME NEW s \in Seq(Slots), Distinct(s), NEW k \in DOMAIN s
    PROVE  LET r == Without(s, k)
           IN  /\ r \in Seq(Slots) /\ Len(r) = Len(s) - 1 /\ DOMAIN r = 1..Len(r) /\ Distinct(r)
               /\ \A i \in DOMAIN r :
                     r[i] = s[IF i < k THEN i ELSE i + 1] /\ r[i] # s[k]
               /\ \A i \in DOMAIN s : i # k => \E j \in DOMAIN r : r[j] = s[i]
BY Removal

LEMMA UserPlug ==
    ASSUME UserInv, NEW s \in Slots, NEW k \in Kinds, PciUser!Plug(s, k)
    PROVE  UserInv'
<1>0. /\ device[s] = NoKind
      /\ device' = [device EXCEPT ![s] = k]
      /\ listing' = Append(listing, s)
      /\ disturbed' = \/ disturbed
                      \/ ~PciUser!Ascending(listing')
                      \/ k # wanted /\ s \in PciUser!Relied
      /\ UNCHANGED <<pc, by, key, after, lines, pci_dev, result, irq, wanted, found, matching>>
  BY DEF PciUser!Plug, PciUser!searchVars
<1>1. /\ listing \in Seq(Slots) /\ Len(listing) \in Nat /\ DOMAIN listing = 1..Len(listing)
      /\ listing' \in Seq(Slots) /\ DOMAIN listing' = 1..(Len(listing) + 1)
      /\ \A i \in 1..Len(listing) : listing'[i] = listing[i]
      /\ listing'[Len(listing) + 1] = s
  BY <1>0 DEF UserInv, BusTypes
<1>2. s \notin matching /\ \A t \in Slots : t # s => device'[t] = device[t]
  BY <1>0, KindsAssumption DEF UserInv, BusTypes
<1>3. device'[s] = k /\ k # NoKind /\ device' \in [Slots -> Kinds \cup {NoKind}]
  BY <1>0, KindsAssumption DEF UserInv, BusTypes
<1>4. BusTypes'
  <2>1. \A i \in DOMAIN listing : listing[i] # s
    BY <1>0 DEF UserInv, BusTypes
  <2>2. Distinct(listing')
    BY <1>1, <2>1 DEF UserInv, BusTypes, Distinct
  <2>3. \A t \in Slots : device'[t] # NoKind <=> \E i \in DOMAIN listing' : t = listing'[i]
    <3> SUFFICES ASSUME NEW t \in Slots
                 PROVE  device'[t] # NoKind <=> \E i \in DOMAIN listing' : t = listing'[i]
      OBVIOUS
    <3>1. CASE t = s
      BY <1>1, <1>3, <3>1
    <3>2. CASE t # s
      <4>1. device'[t] # NoKind <=> \E i \in DOMAIN listing : t = listing[i]
        BY <1>2, <3>2 DEF UserInv, BusTypes
      <4> QED
        BY <1>1, <3>2, <4>1
    <3> QED
      BY <3>1, <3>2
  <2>4. matching \subseteq {t \in Slots : device'[t] = wanted}
    BY <1>2 DEF UserInv, BusTypes
  <2>5. lines \in Seq([slot : Slots, kind : Kinds]) /\ wanted \in Kinds
    BY DEF UserInv, BusTypes
  <2> QED
    BY <1>0, <1>1, <1>3, <2>2, <2>3, <2>4, <2>5 DEF BusTypes
<1>5. Enumerating' =>
          Enumerating /\ PciUser!Ascending(listing)' /\ (s \in PciUser!Relied => k = wanted)
  BY <1>0 DEF Enumerating, PciUser!Ascending
<1>6. Searching'
  <2> SUFFICES ASSUME pc = "search", Enumerating'
               PROVE  \A i \in DOMAIN lines :
                          /\ lines[i].kind = wanted => device'[lines[i].slot] \in {wanted, NoKind}
                          /\ by = "class" => device'[lines[i].slot] # NoKind
    BY <1>0, <1>5 DEF UserInv, Searching, Behind
  <2> TAKE i \in DOMAIN lines
  <2>1. /\ lines[i].kind = wanted => device[lines[i].slot] \in {wanted, NoKind}
        /\ by = "class" => device[lines[i].slot] # NoKind
    BY <1>5 DEF UserInv, Searching
  <2>2. lines[i].slot \in Slots
    BY LinesAreLines DEF UserInv
  <2>3. lines[i].slot = s => k = wanted
    BY <1>5 DEF PciUser!Relied, PciUser!Listed
  <2> QED
    BY <1>2, <1>3, <2>1, <2>2, <2>3
<1>7. Holding'
  <2> SUFFICES ASSUME pc = "held", Enumerating'
               PROVE  \E t \in Slots :
                          /\ pci_dev.slot_address = PciUser!SlotAddress(PciUser!DevAddr(t))
                          /\ t \in found /\ device'[t] \in {wanted, NoKind}
    BY <1>0, <1>5 DEF UserInv, Holding, Behind
  <2>1. PICK t \in Slots :
            /\ pci_dev.slot_address = PciUser!SlotAddress(PciUser!DevAddr(t))
            /\ t \in found /\ device[t] \in {wanted, NoKind}
    BY <1>5 DEF UserInv, Holding
  <2>2. t = s => k = wanted
    BY <1>5, <2>1, AddressOfSlot DEF PciUser!Relied
  <2> QED
    BY <1>2, <1>3, <2>1, <2>2
<1>8. PciUser!EnumerationComplete'
  BY <1>0, <1>5 DEF UserInv, PciUser!EnumerationComplete, Enumerating
<1> QED
  BY <1>0, <1>4, <1>6, <1>7, <1>8 DEF UserInv

LEMMA UserUnplug ==
    ASSUME UserInv, NEW s \in Slots, PciUser!Unplug(s)
    PROVE  UserInv'
<1>0. /\ device[s] # NoKind
      /\ device' = [device EXCEPT ![s] = NoKind]
      /\ listing' = PciUser!RemoveFirst(listing, s)
      /\ matching' = matching \ {s}
      /\ disturbed' = (disturbed \/ (by = "class" /\ s \in PciUser!Listed))
      /\ UNCHANGED <<pc, by, key, after, lines, pci_dev, result, irq, wanted, found>>
  BY DEF PciUser!Unplug, PciUser!searchVars
<1>1. listing \in Seq(Slots) /\ Distinct(listing)
      /\ Len(listing) \in Nat /\ DOMAIN listing = 1..Len(listing)
  BY DEF UserInv, BusTypes
<1>2. PICK k \in DOMAIN listing : s = listing[k]
  BY <1>0 DEF UserInv, BusTypes
<1> DEFINE from(i) == IF i < k THEN i ELSE i + 1
<1>3. listing' = Without(listing, k)
  BY <1>0, <1>1, <1>2, FirstRemoved
<1>4. /\ Without(listing, k) \in Seq(Slots) /\ Len(Without(listing, k)) = Len(listing) - 1
      /\ DOMAIN Without(listing, k) = 1..Len(Without(listing, k)) /\ Distinct(Without(listing, k))
      /\ \A i \in DOMAIN Without(listing, k) :
            Without(listing, k)[i] = listing[from(i)] /\ Without(listing, k)[i] # listing[k]
      /\ \A i \in DOMAIN listing : i # k =>
             \E j \in DOMAIN Without(listing, k) : Without(listing, k)[j] = listing[i]
  BY <1>1, SlotRemoval
<1>5. /\ listing' \in Seq(Slots) /\ DOMAIN listing' = 1..(Len(listing) - 1) /\ Distinct(listing')
      /\ \A i \in DOMAIN listing' : listing'[i] = listing[from(i)] /\ listing'[i] # s
      /\ \A i \in DOMAIN listing : listing[i] # s =>
             \E j \in DOMAIN listing' : listing'[j] = listing[i]
  BY <1>2, <1>3, <1>4
<1>6. /\ \A i \in DOMAIN listing' : from(i) \in DOMAIN listing
      /\ \A i, j \in DOMAIN listing' : i < j => from(i) < from(j)
  BY <1>1, <1>5
<1> HIDE DEF from
<1>7. /\ device' \in [Slots -> Kinds \cup {NoKind}] /\ device'[s] = NoKind
      /\ \A t \in Slots : t # s => device'[t] = device[t]
  BY <1>0 DEF UserInv, BusTypes
<1>8. BusTypes'
  <2>1. \A t \in Slots : device'[t] # NoKind <=> \E i \in DOMAIN listing' : t = listing'[i]
    <3> SUFFICES ASSUME NEW t \in Slots
                 PROVE  device'[t] # NoKind <=> \E i \in DOMAIN listing' : t = listing'[i]
      OBVIOUS
    <3>1. CASE t = s
      BY <1>5, <1>7, <3>1
    <3>2. CASE t # s
      <4>1. device'[t] # NoKind <=> \E i \in DOMAIN listing : t = listing[i]
        BY <1>7, <3>2 DEF UserInv, BusTypes
      <4>2. (\E i \in DOMAIN listing : t = listing[i]) => \E i \in DOMAIN listing' : t = listing'[i]
        BY <1>5, <3>2
      <4>3. (\E i \in DOMAIN listing' : t = listing'[i]) => \E i \in DOMAIN listing : t = listing[i]
        BY <1>5, <1>6
      <4> QED
        BY <4>1, <4>2, <4>3
    <3> QED
      BY <3>1, <3>2
  <2>2. matching' \subseteq {t \in Slots : device'[t] = wanted}
    BY <1>0, <1>7 DEF UserInv, BusTypes
  <2>3. lines \in Seq([slot : Slots, kind : Kinds]) /\ wanted \in Kinds
    BY DEF UserInv, BusTypes
  <2> QED
    BY <1>0, <1>5, <1>7, <2>1, <2>2, <2>3 DEF BusTypes
<1>9. Enumerating' => Enumerating /\ (by = "class" => s \notin PciUser!Listed)
  BY <1>0 DEF Enumerating
<1>10. PciUser!Ascending(listing) => PciUser!Ascending(listing')
  BY <1>5, <1>6 DEF PciUser!Ascending
<1>11. PciUser!Ascending(listing)' <=> PciUser!Ascending(listing')
  BY DEF PciUser!Ascending
<1>12. Searching'
  <2> SUFFICES ASSUME pc = "search", Enumerating'
               PROVE  \A i \in DOMAIN lines :
                          /\ lines[i].kind = wanted => device'[lines[i].slot] \in {wanted, NoKind}
                          /\ by = "class" => device'[lines[i].slot] # NoKind
    BY <1>0, <1>9, <1>10, <1>11 DEF UserInv, Searching, Behind
  <2> TAKE i \in DOMAIN lines
  <2>1. /\ lines[i].kind = wanted => device[lines[i].slot] \in {wanted, NoKind}
        /\ by = "class" => device[lines[i].slot] # NoKind
    BY <1>9 DEF UserInv, Searching
  <2>2. lines[i].slot \in Slots
    BY LinesAreLines DEF UserInv
  <2>3. by = "class" => lines[i].slot # s
    BY <1>9 DEF PciUser!Listed
  <2> QED
    BY <1>7, <2>1, <2>2, <2>3
<1>13. Holding'
  <2> SUFFICES ASSUME pc = "held", Enumerating'
               PROVE  \E t \in Slots :
                          /\ pci_dev.slot_address = PciUser!SlotAddress(PciUser!DevAddr(t))
                          /\ t \in found /\ device'[t] \in {wanted, NoKind}
    BY <1>0, <1>9, <1>10, <1>11 DEF UserInv, Holding, Behind
  <2>1. PICK t \in Slots :
            /\ pci_dev.slot_address = PciUser!SlotAddress(PciUser!DevAddr(t))
            /\ t \in found /\ device[t] \in {wanted, NoKind}
    BY <1>9 DEF UserInv, Holding
  <2> QED
    BY <1>7, <2>1
<1>14. PciUser!EnumerationComplete'
  BY <1>0, <1>9 DEF UserInv, PciUser!EnumerationComplete, Enumerating
<1> QED
  BY <1>0, <1>8, <1>12, <1>13, <1>14 DEF UserInv

-----------------------------------------------------------------------------
(* A call that opens the file, with what it goes past. *)
LEMMA OpenStep ==
    ASSUME UserInv, pc' = "search", lines' = PciUser!FileLines, UNCHANGED <<device, listing>>,
           by' \in {"id", "class", "slot"}, wanted' \in Kinds,
           matching' \subseteq {s \in Slots : device[s] = wanted'},
           Enumerating' => /\ PciUser!Ascending(listing) /\ key' = wanted'
                           /\ \A s \in matching' \ found' : Behind(s, after')
    PROVE  UserInv'
<1>1. /\ listing \in Seq(Slots) /\ Len(listing) \in Nat /\ DOMAIN listing = 1..Len(listing)
      /\ \A i \in DOMAIN listing : listing[i] \in Slots
      /\ device \in [Slots -> Kinds \cup {NoKind}]
  BY DEF UserInv, BusTypes
<1>2. \A i \in DOMAIN listing : device[listing[i]] # NoKind /\ device[listing[i]] \in Kinds
  BY <1>1 DEF UserInv, BusTypes
<1>3. /\ DOMAIN lines' = DOMAIN listing
      /\ \A i \in DOMAIN listing : lines'[i] = [slot |-> listing[i], kind |-> device[listing[i]]]
  BY DEF PciUser!FileLines
<1>4. lines' \in Seq([slot : Slots, kind : Kinds])
  <2> DEFINE R == [slot : Slots, kind : Kinds]
  <2>1. \A i \in DOMAIN listing : [slot |-> listing[i], kind |-> device[listing[i]]] \in R
    BY <1>1, <1>2
  <2> HIDE DEF R
  <2>2. lines' = [i \in 1..Len(listing) |-> [slot |-> listing[i], kind |-> device[listing[i]]]]
    BY <1>1 DEF PciUser!FileLines
  <2>3. lines' \in [1..Len(listing) -> R]
    BY <1>1, <2>1, <2>2
  <2>4. lines' \in Seq(R)
    BY <1>1, <2>3
  <2> QED
    BY <2>4 DEF R
<1>5. BusTypes'
  BY <1>4 DEF UserInv, BusTypes, Distinct
<1>6. Searching'
  <2> SUFFICES ASSUME Enumerating'
               PROVE  /\ \A i, j \in DOMAIN lines' :
                            i < j => PciUser!DevAddr(lines'[i].slot) <
                                         PciUser!DevAddr(lines'[j].slot)
                      /\ \A s \in matching' \ found' :
                            \E i \in DOMAIN lines' : lines'[i] = [slot |-> s, kind |-> wanted']
                      /\ \A i \in DOMAIN lines' :
                            /\ lines'[i].kind = wanted'
                                   => device[lines'[i].slot] \in {wanted', NoKind}
                            /\ by' = "class" => device[lines'[i].slot] # NoKind
    BY DEF Searching, PciUser!Ascending, Behind
  <2>1. \A i, j \in DOMAIN lines' :
            i < j => PciUser!DevAddr(lines'[i].slot) < PciUser!DevAddr(lines'[j].slot)
    BY <1>3 DEF PciUser!Ascending
  <2>2. ASSUME NEW s \in matching' \ found'
        PROVE  \E i \in DOMAIN lines' : lines'[i] = [slot |-> s, kind |-> wanted']
    <3>1. s \in Slots /\ device[s] = wanted' /\ device[s] # NoKind
      BY KindsAssumption
    <3>2. PICK i \in DOMAIN listing : s = listing[i]
      BY <3>1 DEF UserInv, BusTypes
    <3> QED
      BY <1>3, <3>1, <3>2
  <2>3. ASSUME NEW i \in DOMAIN lines'
        PROVE  /\ lines'[i].kind = wanted' => device[lines'[i].slot] \in {wanted', NoKind}
               /\ by' = "class" => device[lines'[i].slot] # NoKind
    BY <1>2, <1>3
  <2> QED
    BY <2>1, <2>2, <2>3
<1> QED
  BY <1>5, <1>6 DEF UserInv, Holding, PciUser!EnumerationComplete

(* A call that ends without a device. *)
LEMMA EndStep ==
    ASSUME UserInv, pc' \in {"idle", "ended"}, lines' = <<>>, UNCHANGED <<device, listing>>,
           by' \in {"id", "class", "slot"}, wanted' \in Kinds,
           matching' \subseteq {s \in Slots : device[s] = wanted'},
           PciUser!EnumerationComplete'
    PROVE  UserInv'
<1>1. <<>> \in Seq([slot : Slots, kind : Kinds])
  OBVIOUS
<1>2. BusTypes'
  BY <1>1 DEF UserInv, BusTypes, Distinct
<1> QED
  BY <1>2 DEF UserInv, Searching, Holding

LEMMA FindFirstStep ==
    ASSUME UserInv, NEW b \in {"id", "class"}, NEW k \in Kinds, PciUser!FindFirst(b, k)
    PROVE  UserInv'
<1>1. /\ by' = b /\ key' = k /\ wanted' = k
      /\ matching' = {s \in Slots : device[s] = k}
      /\ UNCHANGED <<device, listing>>
  BY DEF PciUser!FindFirst, PciUser!busVars
<1>2. CASE /\ pc' = "search" /\ lines' = PciUser!FileLines /\ after' = {}
           /\ disturbed' = ~PciUser!Ascending(listing)
  <2>1. Enumerating' => PciUser!Ascending(listing)
    BY <1>2 DEF Enumerating
  <2>2. \A s : Behind(s, after')
    BY <1>2 DEF Behind
  <2> QED
    BY <1>1, <1>2, <2>1, <2>2, OpenStep
<1>3. CASE PciUser!Fails("OSAL_NOT_FOUND") /\ disturbed' = TRUE
  <2>1. PciUser!EnumerationComplete'
    BY <1>3 DEF PciUser!EnumerationComplete
  <2>2. pc' = "ended" /\ lines' = <<>>
    BY <1>3 DEF PciUser!Fails
  <2> QED
    BY <1>1, <2>1, <2>2, EndStep
<1> QED
  BY <1>2, <1>3 DEF PciUser!FindFirst

LEMMA FindNextStep ==
    ASSUME UserInv, PciUser!FindNext
    PROVE  UserInv'
<1>1. /\ pc = "held" /\ by # "slot"
      /\ UNCHANGED <<device, listing, by, wanted, found, matching>>
  BY DEF PciUser!FindNext, PciUser!busVars
<1>2. /\ by' \in {"id", "class", "slot"} /\ wanted' \in Kinds
      /\ matching' \subseteq {s \in Slots : device[s] = wanted'}
  BY <1>1 DEF UserInv, BusTypes
<1>3. CASE /\ PciUser!Plugged(pci_dev.slot_address)
           /\ key' = device[PciUser!DeviceAddress(pci_dev.slot_address)]
           /\ pc' = "search" /\ lines' = PciUser!FileLines /\ after' = {pci_dev.slot_address}
           /\ UNCHANGED disturbed
  <2>1. ASSUME Enumerating'
        PROVE  /\ PciUser!Ascending(listing) /\ key' = wanted
               /\ \A s \in matching \ found : Behind(s, after')
    <3>1. Enumerating
      BY <1>1, <1>3, <2>1 DEF Enumerating
    <3>2. PICK s \in Slots :
              /\ pci_dev.slot_address = PciUser!SlotAddress(PciUser!DevAddr(s))
              /\ device[s] \in {wanted, NoKind}
      BY <1>1, <3>1 DEF UserInv, Holding
    <3>3. PciUser!DeviceAddress(pci_dev.slot_address) = s
      BY <3>2, AddressOfSlot
    <3> QED
      BY <1>1, <1>3, <3>1, <3>2, <3>3 DEF UserInv, Holding, PciUser!Plugged
  <2> QED
    BY <1>1, <1>2, <1>3, <2>1, OpenStep
<1>4. ASSUME NEW r, PciUser!Fails(r), r = "OSAL_ERROR" \/ disturbed' = TRUE
      PROVE  UserInv'
  <2>1. pc' = "ended" /\ lines' = <<>> /\ result' = r
    BY <1>4 DEF PciUser!Fails
  <2>2. PciUser!EnumerationComplete'
    BY <1>4, <2>1 DEF PciUser!EnumerationComplete
  <2> QED
    BY <1>1, <1>2, <2>1, <2>2, EndStep
<1> QED
  BY <1>3, <1>4 DEF PciUser!FindNext, PciUser!OpenDevices

-----------------------------------------------------------------------------
(* A line is left that is of no device the search still looks for. *)
LEMMA NextLineStep ==
    ASSUME UserInv, pc = "search", lines # <<>>, PciUser!NextLine,
           Enumerating /\ lines[1].kind = wanted => lines[1].slot \notin matching \ found
    PROVE  UserInv'
<1>1. /\ lines' = Tail(lines)
      /\ UNCHANGED <<device, listing, pc, by, key, after, pci_dev, result, irq, wanted, found,
                     matching, disturbed>>
  BY DEF PciUser!NextLine, PciUser!busVars, PciUser!historyVars
<1>2. /\ lines \in Seq([slot : Slots, kind : Kinds])
      /\ Len(lines) \in Nat /\ DOMAIN lines = 1..Len(lines) /\ Len(lines) > 0
  BY LinesAreLines DEF UserInv
<1>3. /\ lines' \in Seq([slot : Slots, kind : Kinds])
      /\ DOMAIN lines' = 1..(Len(lines) - 1)
      /\ \A i \in 1..(Len(lines) - 1) : lines'[i] = lines[i + 1]
  <2> DEFINE R == [slot : Slots, kind : Kinds]
  <2>1. lines \in Seq(R)
    BY <1>2
  <2> HIDE DEF R
  <2>2. lines' \in Seq(R) /\ DOMAIN lines' = 1..(Len(lines) - 1)
    BY <1>1, <2>1
  <2>3. \A i \in 1..(Len(lines) - 1) : lines'[i] = lines[i + 1]
    BY <1>1, <2>1
  <2> QED
    BY <2>2, <2>3 DEF R
<1>4. BusTypes'
  BY <1>1, <1>3 DEF UserInv, BusTypes, Distinct
<1>5. Searching'
  <2> SUFFICES ASSUME Enumerating
               PROVE  /\ \A i, j \in DOMAIN lines' :
                            i < j => PciUser!DevAddr(lines'[i].slot) <
                                         PciUser!DevAddr(lines'[j].slot)
                      /\ \A s \in matching \ found :
                            \E i \in DOMAIN lines' : lines'[i] = [slot |-> s, kind |-> wanted]
                      /\ \A i \in DOMAIN lines' :
                            /\ lines'[i].kind = wanted
                                   => device[lines'[i].slot] \in {wanted, NoKind}
                            /\ by = "class" => device[lines'[i].slot] # NoKind
    BY <1>1 DEF UserInv, Searching, PciUser!Ascending, Behind, Enumerating
  <2>1. \A i \in DOMAIN lines' : i + 1 \in DOMAIN lines /\ lines'[i] = lines[i + 1]
    BY <1>2, <1>3
  <2>2. ASSUME NEW i \in DOMAIN lines', NEW j \in DOMAIN lines', i < j
        PROVE  PciUser!DevAddr(lines'[i].slot) < PciUser!DevAddr(lines'[j].slot)
    <3>1. i + 1 < j + 1
      BY <1>3, <2>2
    <3> QED
      BY <2>1, <3>1 DEF UserInv, Searching
  <2>3. ASSUME NEW s \in matching \ found
        PROVE  \E i \in DOMAIN lines' : lines'[i] = [slot |-> s, kind |-> wanted]
    <3>1. PICK i \in DOMAIN lines : lines[i] = [slot |-> s, kind |-> wanted]
      BY DEF UserInv, Searching
    <3>2. i # 1
      BY <3>1
    <3>3. i - 1 \in DOMAIN lines' /\ lines'[i - 1] = lines[i]
      BY <1>2, <1>3, <3>2
    <3> QED
      BY <3>1, <3>3
  <2>4. ASSUME NEW i \in DOMAIN lines'
        PROVE  /\ lines'[i].kind = wanted => device[lines'[i].slot] \in {wanted, NoKind}
               /\ by = "class" => device[lines'[i].slot] # NoKind
    BY <2>1 DEF UserInv, Searching
  <2> QED
    BY <2>2, <2>3, <2>4
<1> QED
  BY <1>1, <1>4, <1>5 DEF UserInv, Holding, PciUser!EnumerationComplete

(* What the search knows of the line it has come to. *)
LEMMA LineFacts ==
    ASSUME UserInv, pc = "search", lines # <<>>
    PROVE  /\ 1 \in DOMAIN lines /\ PciUser!Line = lines[1]
           /\ lines[1].slot \in Slots /\ lines[1].kind \in Kinds
           /\ PciUser!LineAddress = PciUser!SlotAddress(PciUser!DevAddr(lines[1].slot))
           /\ PciUser!KindNow = IF by = "id" THEN lines[1].kind ELSE device[lines[1].slot]
<1>1. 1 \in DOMAIN lines /\ PciUser!Line = lines[1]
  BY LinesAreLines DEF UserInv, PciUser!Line
<1>2. lines[1].slot \in Slots /\ lines[1].kind \in Kinds
  BY <1>1, LinesAreLines DEF UserInv
<1>3. PciUser!LineAddress = PciUser!SlotAddress(PciUser!DevAddr(lines[1].slot))
  BY <1>1 DEF PciUser!LineAddress
<1>4. PciUser!DeviceAddress(PciUser!LineAddress) = lines[1].slot
  BY <1>2, <1>3, AddressOfSlot
<1> QED
  BY <1>1, <1>2, <1>3, <1>4 DEF PciUser!KindNow

LEMMA SearchStep ==
    ASSUME UserInv, PciUser!Search
    PROVE  UserInv'
<1>0. /\ wanted \in Kinds /\ by \in {"id", "class", "slot"}
      /\ matching \subseteq {s \in Slots : device[s] = wanted}
  BY DEF UserInv, BusTypes
<1>1. CASE PciUser!SkipLine
  <2>1. pc = "search" /\ lines # <<>> /\ ~PciUser!Past /\ PciUser!NextLine
    BY <1>1 DEF PciUser!SkipLine
  <2>2. Enumerating => lines[1].slot \notin matching \ found
    BY <2>1, LineFacts DEF UserInv, Searching, Behind, PciUser!Past
  <2> QED
    BY <2>1, <2>2, NextLineStep
<1>2. CASE PciUser!NoMatch
  <2>1. pc = "search" /\ lines # <<>> /\ PciUser!KindNow \notin {key, NoKind} /\ PciUser!NextLine
    BY <1>2 DEF PciUser!NoMatch
  <2>2. Enumerating /\ lines[1].kind = wanted => lines[1].slot \notin matching \ found
    BY <1>0, <2>1, LineFacts DEF UserInv, Searching
  <2> QED
    BY <2>1, <2>2, NextLineStep
<1>3. CASE PciUser!DeviceGone
  <2>1. /\ pc = "search" /\ lines # <<>> /\ PciUser!KindNow = NoKind
        /\ pc' = "ended" /\ lines' = <<>>
        /\ UNCHANGED <<device, listing, by, wanted, matching, found, disturbed>>
    BY <1>3 DEF PciUser!DeviceGone, PciUser!Fails, PciUser!busVars, PciUser!historyVars
  <2>2. ~Enumerating
    <3> SUFFICES ASSUME Enumerating PROVE FALSE
      OBVIOUS
    <3>1. CASE by = "id"
      BY <2>1, <3>1, LineFacts, KindsAssumption
    <3>2. CASE by = "class"
      BY <2>1, <3>2, LineFacts DEF UserInv, Searching
    <3> QED
      BY <1>0, <3>1, <3>2 DEF Enumerating
  <2>3. PciUser!EnumerationComplete'
    BY <2>1, <2>2 DEF PciUser!EnumerationComplete, Enumerating
  <2> QED
    BY <1>0, <2>1, <2>3, EndStep
<1>4. CASE PciUser!Match
  <2> DEFINE s == lines[1].slot
  <2>1. /\ pc = "search" /\ lines # <<>> /\ PciUser!KindNow = key
        /\ pc' = "held" /\ lines' = <<>>
        /\ pci_dev'.slot_address = PciUser!LineAddress
        /\ found' = found \cup {PciUser!Line.slot}
        /\ UNCHANGED <<device, listing, by, wanted, matching, disturbed>>
    BY <1>4 DEF PciUser!Match, PciUser!busVars
  <2>2. <<>> \in Seq([slot : Slots, kind : Kinds])
    OBVIOUS
  <2>3. BusTypes'
    BY <2>1, <2>2 DEF UserInv, BusTypes, Distinct
  <2>4. Enumerating' => Enumerating
    BY <2>1 DEF Enumerating
  <2>5. /\ s \in Slots /\ found' = found \cup {s}
        /\ pci_dev'.slot_address = PciUser!SlotAddress(PciUser!DevAddr(s))
    BY <2>1, LineFacts
  <2>6. Enumerating => PciUser!Ascending(listing) /\ device[s] \in {wanted, NoKind}
    BY <2>1, LineFacts DEF UserInv, Searching
  <2>7. ASSUME Enumerating, NEW t \in matching \ found'
        PROVE  PciUser!SlotAddress(PciUser!DevAddr(t)) > PciUser!SlotAddress(PciUser!DevAddr(s))
    <3>1. PICK i \in DOMAIN lines : lines[i] = [slot |-> t, kind |-> wanted]
      BY <2>1, <2>5, <2>7 DEF UserInv, Searching
    <3>2. i # 1 /\ lines[i].slot = t
      BY <2>5, <3>1
    <3>3. 1 < i /\ 1 \in DOMAIN lines
      BY <2>1, <3>2, LineFacts, LinesAreLines DEF UserInv
    <3>4. PciUser!DevAddr(s) < PciUser!DevAddr(t)
      BY <2>1, <2>7, <3>2, <3>3 DEF UserInv, Searching
    <3>5. t \in Slots /\ PciUser!DevAddr(s) \in Nat /\ PciUser!DevAddr(t) \in Nat
      BY <1>0, <2>5, AddressOfSlot
    <3> QED
      BY <3>4, <3>5 DEF PciUser!SlotAddress
  <2> HIDE DEF s
  <2>8. Holding'
    BY <2>1, <2>4, <2>5, <2>6, <2>7 DEF Holding, PciUser!Ascending, Behind
  <2> QED
    BY <1>0, <2>1, <2>3, <2>8 DEF UserInv, Searching, PciUser!EnumerationComplete
<1>5. CASE PciUser!NoMemory
  <2>1. /\ pc' = "ended" /\ lines' = <<>> /\ disturbed' = TRUE
        /\ UNCHANGED <<device, listing, by, wanted, matching>>
    BY <1>5 DEF PciUser!NoMemory, PciUser!Fails, PciUser!busVars
  <2>2. PciUser!EnumerationComplete'
    BY <2>1 DEF PciUser!EnumerationComplete
  <2> QED
    BY <1>0, <2>1, <2>2, EndStep
<1>6. CASE PciUser!EndOfFile
  <2>1. /\ pc = "search" /\ lines = <<>> /\ pc' = "ended" /\ lines' = <<>>
        /\ UNCHANGED <<device, listing, by, wanted, matching, found, disturbed>>
    BY <1>6 DEF PciUser!EndOfFile, PciUser!Fails, PciUser!busVars, PciUser!historyVars
  <2>2. Enumerating => matching \subseteq found
    BY <2>1 DEF UserInv, Searching
  <2>3. PciUser!EnumerationComplete'
    BY <2>1, <2>2 DEF PciUser!EnumerationComplete, Enumerating
  <2> QED
    BY <1>0, <2>1, <2>3, EndStep
<1> QED
  BY <1>1, <1>2, <1>3, <1>4, <1>5, <1>6 DEF PciUser!Search

(* The calls that do not search. *)
LEMMA OtherCallStep ==
    ASSUME UserInv,
           \/ \E s \in Slots : PciUser!DeviceFromAddress(s)
           \/ PciUser!GetInterrupt \/ PciUser!OsPciEnableDevice \/ PciUser!FreeDevice
    PROVE  UserInv'
<1>1. ASSUME NEW s \in Slots, PciUser!DeviceFromAddress(s) PROVE UserInv'
  <2>1. /\ by' = "slot" /\ pc' \in {"held", "ended"} /\ (lines' = lines \/ lines' = <<>>)
        /\ UNCHANGED <<device, listing, wanted, found, matching>>
    BY <1>1 DEF PciUser!DeviceFromAddress, PciUser!Fails, PciUser!busVars, PciUser!historyVars
  <2>2. <<>> \in Seq([slot : Slots, kind : Kinds])
    OBVIOUS
  <2>3. BusTypes'
    BY <2>1, <2>2 DEF UserInv, BusTypes, Distinct
  <2> QED
    BY <2>1, <2>3 DEF UserInv, Enumerating, Searching, Holding, PciUser!EnumerationComplete
<1>2. CASE PciUser!GetInterrupt
  <2>1. UNCHANGED <<device, listing, pc, by, key, after, lines, pci_dev, result, wanted, found,
                    matching, disturbed>>
    BY <1>2 DEF PciUser!GetInterrupt, PciUser!busVars, PciUser!searchVars, PciUser!historyVars
  <2> QED
    BY <2>1 DEF UserInv, BusTypes, Distinct, Enumerating, Behind, Searching, Holding,
                PciUser!EnumerationComplete, PciUser!Ascending
<1>3. CASE PciUser!OsPciEnableDevice
  <2>1. /\ pc = "idle"
        /\ UNCHANGED <<device, listing, pc, by, lines, wanted, matching>>
    BY <1>3 DEF PciUser!OsPciEnableDevice, PciUser!busVars, PciUser!searchVars, PciUser!historyVars
  <2>2. BusTypes'
    BY <2>1 DEF UserInv, BusTypes, Distinct
  <2> QED
    BY <2>1, <2>2 DEF UserInv, Searching, Holding, PciUser!EnumerationComplete
<1>4. CASE PciUser!FreeDevice
  <2>1. /\ pc' = "idle" /\ by' = "id" /\ wanted' = PciUser!AnyKind /\ matching' = {}
        /\ UNCHANGED <<device, listing, lines>>
    BY <1>4 DEF PciUser!FreeDevice, PciUser!busVars
  <2>2. BusTypes'
    BY <2>1, KindsAssumption DEF UserInv, BusTypes, Distinct, PciUser!AnyKind
  <2> QED
    BY <2>1, <2>2 DEF UserInv, Searching, Holding, PciUser!EnumerationComplete
<1> QED
  BY <1>1, <1>2, <1>3, <1>4

LEMMA UserStep ==
    ASSUME UserInv, PciUser!Next
    PROVE  UserInv'
BY UserPlug, UserUnplug, FindFirstStep, FindNextStep, SearchStep, OtherCallStep DEF PciUser!Next

LEMMA UserIsExact ==
    ASSUME UserInv
    PROVE  PciUser!EnumerationComplete /\ PciUser!FoundMatches
<1>1. ASSUME pc = "held", Enumerating
      PROVE  LET s == PciUser!DeviceAddress(pci_dev.slot_address)
             IN  s \in found /\ device[s] \in {wanted, NoKind}
  BY <1>1, AddressOfSlot DEF UserInv, Holding
<1> QED
  BY <1>1 DEF UserInv, Enumerating, PciUser!FoundMatches

-----------------------------------------------------------------------------
LEMMA DevicesAreKept == Spec => [](KernelInv /\ UserInv)
<1> DEFINE I == KernelInv /\ UserInv
<1>1. Init => I
  BY KernelStarts, UserStarts
<1>2. I /\ [Next]_vars => I'
  <2> SUFFICES ASSUME I, [Next]_vars PROVE I'
    OBVIOUS
  <2>1. PciKernel!Next \/ UNCHANGED pciKernelVars
    BY DEF Next, vars, PciUserFrame, ConfigFrame, ListFrame, MemmapFrame, ClockFrame, TraceFrame
  <2>2. PciUser!Next \/ UNCHANGED pciUserVars
    BY DEF Next, vars, PciKernelFrame, ConfigFrame, ListFrame, MemmapFrame, ClockFrame, TraceFrame
  <2> QED
    BY <2>1, <2>2, KernelStep, KernelStutters, UserStep, UserStutters
<1> QED
  BY <1>1, <1>2, PTL DEF Spec

(* A search of PCI devices that says there are no more has returned every device
   that was there all along, and returns only what was asked for, for any number of
   devices that come and go, in linux_user/src/osal_pci.c and in
   linux_kernel/src/osal_pci.c; but in the kernel if Linux says so of a device that has
   been removed while the search stood at it. *)
THEOREM DevicesAreEnumerated == Spec => []EnumerationExact
<1>1. KernelInv /\ UserInv => EnumerationExact
  BY KernelIsExact, UserIsExact DEF EnumerationExact
<1> QED
  BY <1>1, DevicesAreKept, PTL

(* Whichever devices are removed, those that linux_kernel/src/osal_pci.c's searches and
   the loop of os_pci_enable_device stand at included: what a handle of the program's or
   the loop leads to is not freed, because each has a reference of its own. *)
THEOREM HandlesStayAlive == Spec => []HandlesAreAlive
<1>1. KernelInv /\ UserInv => HandlesAreAlive
  BY KernelHolds
<1> QED
  BY <1>1, DevicesAreKept, PTL

-----------------------------------------------------------------------------
(* The types of the accesses; and as long as a call is in progress the space is
   what it was when it began, nothing is stored, and the file that is open is that
   of the device, if it has not gone away.  A call that has succeeded on a device
   that has not gone away finds it still there. *)
Byte == 0..255

ConfigTypes ==
    /\ config \in [Byte -> Byte] /\ before \in [Byte -> Byte]
    /\ there \in BOOLEAN /\ swapped \in BOOLEAN
    /\ shown \in {64, 256}
    /\ cpc \in {"idle", "open", "seek", "transfer"}
    /\ access \in [op : {"read", "write", "header"}, offset : Nat, width : {1, 2, 4, 256}]
    /\ access.op = "header" => access.offset = 0 /\ access.width = 256

Transferring ==
    /\ cpc # "idle" => config = before /\ val = <<>>
    /\ cpc \in {"seek", "transfer"} /\ ~swapped => there
    /\ cpc = "idle" /\ ~swapped /\ cresult = "OSAL_SUCCESS" => there

AccessInv == ConfigTypes /\ Transferring /\ Config!ConfigAccessExact
ConfigInv == part = "config" => AccessInv

LEMMA FreshIsBytes == Config!Fresh \in [Byte -> Byte]
BY DEF Config!Fresh, Config!Length, Byte

LEMMA ConfigStarts == Init => ConfigInv
<1> SUFFICES ASSUME Init, part = "config" PROVE AccessInv
  BY DEF ConfigInv
<1>1. Config!Init
  BY DEF Init
<1> QED
  BY <1>1, FreshIsBytes DEF Config!Init, Config!Length, AccessInv, ConfigTypes, Transferring,
                            Config!ConfigAccessExact, Byte

LEMMA SlotStep ==
    ASSUME AccessInv, Config!Unplug \/ Config!Plug
    PROVE  AccessInv'
<1>1. CASE Config!Unplug
  <2>1. /\ UNCHANGED <<config, shown, cpc, access, files, val, cresult, before>>
        /\ there' = FALSE /\ swapped' = TRUE
    BY <1>1 DEF Config!Unplug
  <2>2. ConfigTypes'
    <3>1. there' \in BOOLEAN /\ swapped' \in BOOLEAN
      BY <2>1
    <3> QED
      BY <2>1, <3>1 DEF AccessInv, ConfigTypes
  <2>3. Transferring'
    BY <2>1 DEF AccessInv, Transferring
  <2>4. Config!ConfigAccessExact'
    BY <2>1 DEF Config!ConfigAccessExact
  <2> QED
    BY <2>2, <2>3, <2>4 DEF AccessInv
<1>2. CASE Config!Plug
  <2>1. ConfigTypes'
    BY <1>2, FreshIsBytes DEF Config!Plug, AccessInv, ConfigTypes
  <2>2. Transferring'
    BY <1>2 DEF Config!Plug, AccessInv, Transferring
  <2>3. ASSUME cpc = "idle", ~swapped PROVE cresult # "OSAL_SUCCESS"
    BY <1>2, <2>3 DEF Config!Plug, AccessInv, Transferring
  <2>4. Config!ConfigAccessExact'
    BY <1>2, <2>3 DEF Config!Plug, AccessInv, Config!ConfigAccessExact
  <2> QED
    BY <2>1, <2>2, <2>4 DEF AccessInv
<1> QED
  BY <1>1, <1>2

(* A call that is refused at once has done nothing. *)
LEMMA CallStep ==
    ASSUME AccessInv,
           NEW a, NEW null, Config!Call(a, null),
           a \in [op : {"read", "write", "header"}, offset : Nat, width : {1, 2, 4, 256}],
           a.op = "header" => a.offset = 0 /\ a.width = 256
    PROVE  AccessInv'
<1>1. /\ cpc = "idle" /\ access' = a /\ val' = <<>> /\ before' = config /\ config' = config
      /\ swapped' = FALSE /\ there' = there /\ shown' = shown
      /\ cpc' \in {"open", "idle"} /\ cresult' # "OSAL_SUCCESS"
  BY DEF Config!Call
<1>2. ConfigTypes'
  <2>1. /\ config' \in [Byte -> Byte] /\ before' \in [Byte -> Byte]
        /\ there' \in BOOLEAN /\ shown' \in {64, 256}
    BY <1>1 DEF AccessInv, ConfigTypes
  <2>2. cpc' \in {"idle", "open", "seek", "transfer"} /\ swapped' \in BOOLEAN
    BY <1>1
  <2> QED
    BY <1>1, <2>1, <2>2 DEF ConfigTypes
<1>3. Transferring'
  BY <1>1 DEF Transferring
<1>4. Config!ConfigAccessExact'
  BY <1>1 DEF Config!ConfigAccessExact
<1> QED
  BY <1>2, <1>3, <1>4 DEF AccessInv

LEMMA FileStep ==
    ASSUME AccessInv, Config!OpenConfig \/ Config!SeekConfig
    PROVE  AccessInv'
<1>1. /\ cpc \in {"open", "seek"} /\ cpc' \in {"seek", "transfer", "idle"}
      /\ UNCHANGED <<config, there, shown, access, val>>
      /\ before' = config \/ before' = before
      /\ swapped' = FALSE \/ swapped' = swapped
  BY DEF Config!OpenConfig, Config!SeekConfig, Config!Return
<1>2. config = before /\ val = <<>>
  BY <1>1 DEF AccessInv, Transferring
<1>3. ConfigTypes'
  <2>1. before' \in [Byte -> Byte]
    BY <1>1 DEF AccessInv, ConfigTypes
  <2>3. swapped' \in BOOLEAN
    BY <1>1 DEF AccessInv, ConfigTypes
  <2>2. cpc' \in {"idle", "open", "seek", "transfer"}
    BY <1>1
  <2> QED
    BY <1>1, <2>1, <2>2, <2>3 DEF AccessInv, ConfigTypes
<1>4. cpc' \in {"seek", "transfer"} /\ ~swapped' => there'
  BY <1>1 DEF AccessInv, Transferring, Config!OpenConfig, Config!SeekConfig, Config!Return
<1>5. cpc' = "idle" => cresult' \notin {"OSAL_SUCCESS"}
  BY DEF Config!OpenConfig, Config!SeekConfig, Config!Return
<1>6. Transferring'
  BY <1>1, <1>2, <1>4, <1>5 DEF Transferring
<1>7. Config!ConfigAccessExact'
  BY <1>1, <1>2, <1>5 DEF Config!ConfigAccessExact
<1> QED
  BY <1>3, <1>6, <1>7 DEF AccessInv

(* A transfer of all bytes that were asked for ends before the end. *)
LEMMA MovedAll ==
    ASSUME ConfigTypes, NEW limit \in 0..256, Config!Moved(limit) = access.width
    PROVE  /\ ~swapped /\ access.offset + access.width <= 256
           /\ access.offset \in Byte /\ access.width \in 1..256
<1>1. access.width \in {1, 2, 4, 256} /\ access.offset \in Nat
  BY DEF ConfigTypes
<1> QED
  BY <1>1 DEF Config!Moved, Byte

(* The cast of the unsigned long leaves the bytes that were read. *)
LEMMA ReadAll ==
    ASSUME ConfigTypes, Config!Moved(shown) = access.width
    PROVE  SubSeq(Config!Hosemonky(access.width), 1, access.width)
             = Config!Bytes(config, access.offset, access.width)
<1> DEFINE w == access.width
           o == access.offset
           size == IF UnsignedLong > w THEN UnsignedLong ELSE w
           H == Config!Hosemonky(w)
<1>1. shown \in 0..256
  BY DEF ConfigTypes
<1>2. w \in 1..256 /\ o \in Byte /\ o + w <= 256
  <2>1. /\ access.offset + access.width <= 256
        /\ access.offset \in Byte /\ access.width \in 1..256
    BY <1>1, MovedAll
  <2> QED
    BY <2>1
<1>3. size \in Nat /\ w <= size
  BY <1>2, OffsetsAssumption
<1>4. H = [i \in 1..size |-> IF i <= w THEN config[o + i - 1] ELSE -1]
  BY DEF Config!Hosemonky, Config!Junk
<1> HIDE DEF w, o, size, H
<1>5. \A i \in 1..size : i <= w => config[o + i - 1] \in Byte
  <2>1. \A i \in 1..size : i <= w => o + i - 1 \in Byte
    BY <1>2, <1>3 DEF Byte
  <2> QED
    BY <2>1 DEF ConfigTypes
<1>6. H \in Seq(Byte \cup {-1}) /\ Len(H) = size
  BY <1>3, <1>4, <1>5
<1>7. /\ Len(SubSeq(H, 1, w)) = w /\ SubSeq(H, 1, w) \in Seq(Byte \cup {-1})
      /\ \A i \in 1..w : SubSeq(H, 1, w)[i] = H[i]
  BY <1>2, <1>3, <1>6, SubSeqProperties
<1>8. \A i \in 1..w : H[i] = config[o + i - 1]
  BY <1>2, <1>3, <1>4
<1>9. SubSeq(H, 1, w) = [i \in 1..w |-> config[o + i - 1]]
  BY <1>7, <1>8
<1> QED
  BY <1>9 DEF w, o, H, Config!Bytes

LEMMA ReadStep ==
    ASSUME AccessInv, Config!ReadTransfer
    PROVE  AccessInv'
<1>1. /\ cpc = "transfer" /\ access.op # "write" /\ cpc' = "idle"
      /\ UNCHANGED <<config, there, shown, access, before, swapped>>
  BY DEF Config!ReadTransfer, Config!Return
<1>2. config = before /\ val = <<>> /\ (~swapped => there)
  BY <1>1 DEF AccessInv, Transferring
<1>3. ConfigTypes'
  BY <1>1 DEF AccessInv, ConfigTypes
<1>4. Transferring'
  BY <1>1, <1>2 DEF Transferring
<1>5. cresult' = "OSAL_SUCCESS" => val' = Config!Bytes(config, access.offset, access.width)
  BY <1>1, ReadAll DEF AccessInv, Config!ReadTransfer, Config!Return
<1>6. cresult' # "OSAL_SUCCESS" /\ access.op # "header" => val' = <<>>
  BY <1>1, <1>2 DEF Config!ReadTransfer, Config!Return
<1>7. Config!ConfigAccessExact'
  <2>1. Config!Bytes(config, access.offset, access.width)'
            = Config!Bytes(config, access.offset, access.width)
    BY <1>1
  <2> QED
    BY <1>1, <1>2, <1>5, <1>6, <2>1 DEF Config!ConfigAccessExact
<1> QED
  BY <1>3, <1>4, <1>7 DEF AccessInv

(* The bytes of an access, if they are all there. *)
LEMMA OursAre ==
    ASSUME NEW o \in Nat, NEW w \in Nat
    PROVE  \A i : i \in {o + j - 1 : j \in 1..w} \cap Byte <=> i \in Byte /\ i \in o..(o + w - 1)
<1>1. \A i \in Byte : i \in o..(o + w - 1) => \E j \in 1..w : i = o + j - 1
  <2> SUFFICES ASSUME NEW i \in Byte, i \in o..(o + w - 1)
               PROVE  \E j \in 1..w : i = o + j - 1
    OBVIOUS
  <2>1. i - o + 1 \in 1..w /\ i = o + (i - o + 1) - 1
    BY DEF Byte
  <2> QED
    BY <2>1
<1>2. \A j \in 1..w : o + j - 1 \in o..(o + w - 1)
  OBVIOUS
<1> QED
  BY <1>1, <1>2

LEMMA WriteConfigStep ==
    ASSUME AccessInv, Config!WriteTransfer
    PROVE  AccessInv'
<1>1. /\ cpc = "transfer" /\ access.op = "write" /\ cpc' = "idle"
      /\ UNCHANGED <<there, shown, access, val, before, swapped>>
  BY DEF Config!WriteTransfer, Config!Return
<1>2. config = before /\ val = <<>> /\ (~swapped => there)
  BY <1>1 DEF AccessInv, Transferring
<1>3. config' = [i \in Byte |-> IF i \in access.offset..(access.offset + Config!Moved(256) - 1)
                                THEN 0 ELSE config[i]]
  BY DEF Config!WriteTransfer, Config!Length, Config!Written, Byte
<1>4. ConfigTypes'
  <2>1. 0 \in Byte
    BY DEF Byte
  <2>2. config' \in [Byte -> Byte]
    BY <1>3, <2>1 DEF AccessInv, ConfigTypes
  <2> QED
    BY <1>1, <2>2 DEF AccessInv, ConfigTypes
<1>5. Transferring'
  BY <1>1, <1>2 DEF Transferring
<1>6. /\ access.offset \in Nat /\ access.width \in Nat
      /\ Config!Moved(256) \in 0..access.width
  <2>1. access.offset \in Nat /\ access.width \in {1, 2, 4, 256}
    BY DEF AccessInv, ConfigTypes
  <2> QED
    BY <2>1 DEF Config!Moved
<1>7. \A i : i \in Config!Ours <=>
          i \in Byte /\ i \in access.offset..(access.offset + access.width - 1)
  <2>1. Config!Ours = {access.offset + j - 1 : j \in 1..access.width} \cap Byte
    BY DEF Config!Ours, Config!Length, Byte
  <2> QED
    BY <1>6, <2>1, OursAre
<1>8. \A i \in Byte : config'[i] # config[i] => i \in Config!Ours
  <2>1. \A i \in Byte : i \in access.offset..(access.offset + Config!Moved(256) - 1)
                          => i \in access.offset..(access.offset + access.width - 1)
    BY <1>6 DEF Byte
  <2> QED
    BY <1>3, <1>7, <2>1
<1>9. cresult' = "OSAL_SUCCESS" => \A i \in Config!Ours : config'[i] = 0
  <2>1. cresult' = "OSAL_SUCCESS" => Config!Moved(256) = access.width
    BY DEF Config!WriteTransfer, Config!Return, Config!Length
  <2> QED
    BY <1>3, <1>7, <2>1
<1>10. Config!Ours' = Config!Ours
  BY <1>1 DEF Config!Ours
<1>11. Config!ConfigAccessExact'
  BY <1>1, <1>2, <1>8, <1>9, <1>10 DEF Config!ConfigAccessExact, Config!Length, Config!Written, Byte
<1> QED
  BY <1>4, <1>5, <1>11 DEF AccessInv

(* What Linux's accessors leave for the caller is that of the bytes they were asked
   for, or they have refused the offset. *)
LEMMA KernelCallTypes ==
    ASSUME AccessInv, NEW op \in {"read", "write"}, NEW w \in {1, 2, 4}, Config!KernelCall(op, w)
    PROVE  /\ cpc = "idle" /\ cpc' = "idle" /\ before' = config
           /\ access'.op = op /\ access'.width = w /\ access'.offset \in Byte
           /\ access' \in [op : {"read", "write", "header"}, offset : Nat, width : {1, 2, 4, 256}]
           /\ there' = there /\ shown' = shown /\ swapped' = ~there
           /\ cresult' = "OSAL_SUCCESS" <=> access'.offset % w = 0
<1>1. PICK o \in Offsets \cap Byte : access' = [op |-> op, offset |-> o, width |-> w]
  BY DEF Config!KernelCall, Config!Length, Byte
<1>2. o \in Nat
  BY DEF Byte
<1>3. access'.op = op /\ access'.width = w /\ access'.offset \in Byte
  BY <1>1
<1>4. access' \in [op : {"read", "write", "header"}, offset : Nat, width : {1, 2, 4, 256}]
  BY <1>1, <1>2
<1> QED
  BY <1>3, <1>4 DEF Config!KernelCall

LEMMA KernelReadStep ==
    ASSUME AccessInv, NEW w \in {1, 2, 4}, Config!KernelRead(w)
    PROVE  AccessInv'
<1>1. Config!KernelCall("read", w) /\ config' = config
  BY DEF Config!KernelRead
<1>2. /\ cpc = "idle" /\ cpc' = "idle" /\ before' = config
      /\ access'.op = "read" /\ access'.width = w /\ access'.offset \in Byte
      /\ access' \in [op : {"read", "write", "header"}, offset : Nat, width : {1, 2, 4, 256}]
      /\ there' = there /\ shown' = shown /\ swapped' = ~there
      /\ cresult' = "OSAL_SUCCESS" <=> access'.offset % w = 0
  BY <1>1, KernelCallTypes
<1>3. ConfigTypes'
  <2>1. there' \in BOOLEAN /\ swapped' \in BOOLEAN
    BY <1>2 DEF AccessInv, ConfigTypes
  <2> QED
    BY <1>1, <1>2, <2>1 DEF AccessInv, ConfigTypes
<1>4. Transferring'
  BY <1>2 DEF Transferring
<1>5. cresult' # "OSAL_SUCCESS" => val' = <<>>
  BY <1>2 DEF Config!KernelRead
<1>6. cresult' = "OSAL_SUCCESS" /\ there => val' = Config!Bytes(config', access'.offset, w)
  BY <1>1, <1>2 DEF Config!KernelRead, Config!Bytes
<1>7. Config!ConfigAccessExact'
  BY <1>1, <1>2, <1>5, <1>6 DEF Config!ConfigAccessExact, Config!Bytes
<1> QED
  BY <1>3, <1>4, <1>7 DEF AccessInv

LEMMA KernelWriteStep ==
    ASSUME AccessInv, NEW w \in {1, 2, 4}, Config!KernelWrite(w)
    PROVE  AccessInv'
<1>1. Config!KernelCall("write", w) /\ val' = <<>>
  BY DEF Config!KernelWrite
<1>2. /\ cpc = "idle" /\ cpc' = "idle" /\ before' = config
      /\ access'.op = "write" /\ access'.width = w /\ access'.offset \in Byte
      /\ access' \in [op : {"read", "write", "header"}, offset : Nat, width : {1, 2, 4, 256}]
      /\ there' = there /\ shown' = shown /\ swapped' = ~there
      /\ cresult' = "OSAL_SUCCESS" <=> access'.offset % w = 0
  BY <1>1, KernelCallTypes
<1>3. config' = [i \in Byte |-> IF /\ there /\ access'.offset % w = 0
                                   /\ i \in access'.offset..(access'.offset + w - 1)
                                THEN 0 ELSE config[i]]
  BY DEF Config!KernelWrite, Config!Length, Config!Written, Byte
<1>4. ConfigTypes'
  <2>1. there' \in BOOLEAN /\ swapped' \in BOOLEAN
    BY <1>2 DEF AccessInv, ConfigTypes
  <2>2. 0 \in Byte
    BY DEF Byte
  <2>3. config' \in [Byte -> Byte]
    BY <1>3, <2>2 DEF AccessInv, ConfigTypes
  <2> QED
    BY <1>2, <2>1, <2>3 DEF AccessInv, ConfigTypes
<1>5. Transferring'
  BY <1>2 DEF Transferring
<1>6. \A i : i \in Config!Ours' <=>
               i \in Byte /\ i \in access'.offset..(access'.offset + access'.width - 1)
  <2>1. access'.offset \in Nat /\ access'.width \in Nat
    BY <1>2 DEF Byte
  <2>2. Config!Ours' = {access'.offset + j - 1 : j \in 1..access'.width} \cap Byte
    BY DEF Config!Ours, Config!Length, Byte
  <2> QED
    BY <2>1, <2>2, OursAre
<1>7. \A i \in Byte : config'[i] # config[i] => i \in Config!Ours'
  BY <1>2, <1>3, <1>6
<1>8. cresult' = "OSAL_SUCCESS" /\ there => \A i \in Config!Ours' : config'[i] = 0
  BY <1>2, <1>3, <1>6
<1>9. Config!ConfigAccessExact'
  <2>1. \A i \in Byte : config'[i] # before'[i] => access'.op = "write" /\ i \in Config!Ours'
    BY <1>2, <1>7
  <2>2. ~swapped' /\ cresult' = "OSAL_SUCCESS" => \A i \in Config!Ours' : config'[i] = 0
    BY <1>2, <1>8
  <2> QED
    BY <1>1, <1>2, <2>1, <2>2 DEF Config!ConfigAccessExact, Config!Length, Config!Written, Byte
<1> QED
  BY <1>4, <1>5, <1>9 DEF AccessInv

LEMMA ConfigStep ==
    ASSUME AccessInv, Config!Next
    PROVE  AccessInv'
<1>1. CASE Config!Unplug \/ Config!Plug
  BY <1>1, SlotStep
<1>2. ASSUME NEW w \in {1, 2, 4}, Config!KernelRead(w) \/ Config!KernelWrite(w)
      PROVE  AccessInv'
  BY <1>2, KernelReadStep, KernelWriteStep
<1>3. ASSUME NEW w \in {1, 2, 4}, Config!ReadConfig(w) \/ Config!WriteConfig(w)
      PROVE  AccessInv'
  <2>1. PICK op \in {"read", "write"}, o \in Offsets, null \in {"none", "pci_dev", "val"} :
            Config!Call([op |-> op, offset |-> o, width |-> w], null)
    BY <1>3 DEF Config!ReadConfig, Config!WriteConfig
  <2> DEFINE a == [op |-> op, offset |-> o, width |-> w]
  <2>2. a \in [op : {"read", "write", "header"}, offset : Nat, width : {1, 2, 4, 256}]
    BY OffsetsAssumption
  <2>3. a.op # "header"
    OBVIOUS
  <2> HIDE DEF a
  <2>4. Config!Call(a, null)
    BY <2>1 DEF a
  <2> QED
    BY <2>2, <2>3, <2>4, CallStep
<1>4. CASE Config!OsPciReadConfigHeader
  <2> DEFINE a == [op |-> "header", offset |-> 0, width |-> 256]
  <2>1. PICK null \in {"none", "pci_dev", "val"} : Config!Call(a, null)
    BY <1>4 DEF Config!OsPciReadConfigHeader, Config!Length
  <2>2. a \in [op : {"read", "write", "header"}, offset : Nat, width : {1, 2, 4, 256}]
    OBVIOUS
  <2>3. a.offset = 0 /\ a.width = 256
    OBVIOUS
  <2> HIDE DEF a
  <2> QED
    BY <2>1, <2>2, <2>3, CallStep
<1> QED
  BY <1>1, <1>2, <1>3, <1>4, FileStep, ReadStep, WriteConfigStep
  DEF Config!Next, Config!KernelReadConfig8, Config!KernelReadConfig16,
      Config!KernelReadConfig32, Config!KernelWriteConfig8, Config!KernelWriteConfig16,
      Config!KernelWriteConfig32, Config!OsPciReadConfig8, Config!OsPciReadConfig16,
      Config!OsPciReadConfig32, Config!OsPciWriteConfig8, Config!OsPciWriteConfig16,
      Config!OsPciWriteConfig32

LEMMA ConfigStutters ==
    ASSUME AccessInv, UNCHANGED configVars
    PROVE  AccessInv'
<1>1. ConfigTypes'
  BY DEF configVars, AccessInv, ConfigTypes
<1>2. Transferring'
  BY DEF configVars, AccessInv, Transferring
<1>3. Config!Ours' = Config!Ours
  BY DEF configVars, Config!Ours
<1>4. Config!ConfigAccessExact'
  BY <1>3 DEF configVars, AccessInv, Config!ConfigAccessExact, Config!Bytes
<1> QED
  BY <1>1, <1>2, <1>4 DEF AccessInv

LEMMA BelowIsByte == \A j \in 1..256 : j - 1 \in Byte
BY DEF Byte

(* A part of the space that has been read whole. *)
LEMMA PartOfBytes ==
    ASSUME NEW space, \A b \in Byte : space[b] \in Byte,
           NEW s, \A j \in 1..256 : s[j] = space[j - 1],
           NEW at \in 0..256, NEW width \in 0..(256 - at)
    PROVE  SubSeq(s, at + 1, at + width) = Config!Bytes(space, at, width)
<1> DEFINE p == SubSeq(s, at + 1, at + width)
<1>1. at \in Nat /\ width \in Nat /\ at + width <= 256
  OBVIOUS
<1>2. \A j \in 1..256 : s[j] = space[j - 1] /\ s[j] \in Byte
  BY BelowIsByte
<1>3. \A j \in (at + 1)..(at + width) : s[j] \in Byte
  BY <1>1, <1>2
<1>4. at + 1 \in Int /\ at + width \in Int
  BY <1>1
<1>5. /\ p \in Seq(Byte)
      /\ Len(p) = IF at + 1 <= at + width THEN at + width - (at + 1) + 1 ELSE 0
      /\ \A j \in 1..(at + width - (at + 1) + 1) : p[j] = s[at + 1 + j - 1]
  BY <1>3, <1>4, SubSeqProperties
<1>6. at + width - (at + 1) + 1 = width /\ \A j \in 1..width : at + 1 + j - 1 = at + j
  BY <1>1
<1> HIDE DEF p
<1>7. Len(p) = width /\ \A j \in 1..width : p[j] = s[at + j]
  BY <1>1, <1>5, <1>6
<1>8. \A j \in 1..width : s[at + j] = space[at + j - 1]
  BY <1>1, <1>2
<1>9. p = [j \in 1..width |-> space[at + j - 1]]
  <2>1. p \in Seq(Byte) /\ DOMAIN p = 1..width
    BY <1>5, <1>7
  <2>2. \A j \in 1..width : p[j] = space[at + j - 1]
    BY <1>7, <1>8
  <2> QED
    BY <2>1, <2>2
<1> QED
  BY <1>9 DEF p, Config!Bytes

(* What is read into the structure is a register's where the compiler has put the
   member of that name. *)
LEMMA HeaderIsRead ==
    ASSUME AccessInv
    PROVE  Config!HeaderMatchesRegisters
<1> SUFFICES ASSUME cpc = "idle", ~swapped, access.op = "header", cresult = "OSAL_SUCCESS"
             PROVE  /\ Config!SizeOfHeader = Len(val)
                    /\ \A header \in Config!Headers : \A i \in Config!Registers(header) :
                          SubSeq(val, Config!At(header, i) + 1,
                                 Config!At(header, i) + Config!Width(header, i))
                            = Config!Bytes(config, Config!Register[header[i][1]],
                                           Config!Width(header, i))
  BY DEF Config!HeaderMatchesRegisters
<1>1. /\ val = Config!Bytes(config, access.offset, access.width)
      /\ access.offset = 0 /\ access.width = 256
  BY DEF AccessInv, ConfigTypes, Config!ConfigAccessExact
<1>2. val = [j \in 1..256 |-> config[j - 1]]
  <2>1. \A j \in 1..256 : 0 + j - 1 = j - 1
    OBVIOUS
  <2> QED
    BY <1>1, <2>1 DEF Config!Bytes
<1>5. Len(val) = 256
  BY <1>2
<1>6. Config!SizeOfHeader = 256
  BY LayoutAssumption DEF Config!HeaderIsLaidOut, Config!Length
<1>7. ASSUME NEW header \in Config!Headers, NEW i \in Config!Registers(header)
      PROVE  SubSeq(val, Config!At(header, i) + 1,
                    Config!At(header, i) + Config!Width(header, i))
               = Config!Bytes(config, Config!Register[header[i][1]], Config!Width(header, i))
  <2>1. /\ Config!At(header, i) = Config!Register[header[i][1]]
        /\ Config!At(header, i) \in 0..256
        /\ Config!Width(header, i) \in 0..(256 - Config!At(header, i))
    BY LayoutAssumption DEF Config!HeaderIsLaidOut, Config!Length
  <2> DEFINE at == Config!At(header, i)
             width == Config!Width(header, i)
  <2>2. \A b \in Byte : config[b] \in Byte
    BY DEF AccessInv, ConfigTypes
  <2> HIDE DEF at, width
  <2>3. at \in 0..256 /\ width \in 0..(256 - at)
    BY <2>1 DEF at, width
  <2> SUFFICES SubSeq(val, at + 1, at + width) = Config!Bytes(config, at, width)
    BY <2>1 DEF at, width
  <2>4. \A j \in 1..256 : val[j] = config[j - 1]
    BY <1>2
  <2> QED
    BY <2>2, <2>3, <2>4, PartOfBytes
<1> QED
  BY <1>5, <1>6, <1>7

(* An access that succeeds, on a device that has not gone away since, has moved
   exactly the bytes that were asked for, and one that fails has at most written
   some of them, for any offset; and a header that is read is laid out as the
   registers are: the accesses of linux_user/src/osal_pci.c and of Linux, while
   the device goes and another comes between any two steps. *)
THEOREM AccessesAreExact == Spec => []ConfigAccessExact
<1>1. ConfigInv /\ [Next]_vars => ConfigInv'
  <2> SUFFICES ASSUME ConfigInv, [Next]_vars, part' = "config" PROVE AccessInv'
    BY DEF ConfigInv
  <2>1. part = "config" /\ (Config!Next \/ UNCHANGED configVars)
    BY DEF Next, vars, PciUserFrame, PciKernelFrame, ConfigFrame, ListFrame, MemmapFrame,
           ClockFrame, TraceFrame
  <2>2. AccessInv
    BY <2>1 DEF ConfigInv
  <2> QED
    BY <2>1, <2>2, ConfigStep, ConfigStutters
<1>2. ConfigInv => ConfigAccessExact
  BY HeaderIsRead DEF ConfigInv, ConfigAccessExact, AccessInv
<1> QED
  BY <1>1, <1>2, ConfigStarts, PTL DEF Spec

-----------------------------------------------------------------------------
(* Division with remainder. *)
LEMMA Division ==
    ASSUME NEW a \in Int, NEW b \in Nat \ {0}
    PROVE  /\ a \div b \in Int /\ a % b \in 0..(b - 1)
           /\ a = (a \div b) * b + (a % b)
OBVIOUS

(* The quotient and the remainder are unique. *)
LEMMA Quotient ==
    ASSUME NEW b \in Nat \ {0}, NEW q \in Int, NEW r \in 0..(b - 1)
    PROVE  (q * b + r) \div b = q /\ (q * b + r) % b = r
OBVIOUS

(* The order of products does not matter. *)
LEMMA Regroup ==
    ASSUME NEW a \in Int, NEW b \in Int, NEW c \in Int
    PROVE  (a * b) * c = a * (b * c) /\ (a * b) * c = (a * c) * b
OBVIOUS

(* A sum may wrap around twice. *)
LEMMA WrappedSum ==
    ASSUME NEW b \in Nat \ {0}, NEW x \in Int, NEW y \in Int
    PROVE  ((x % b) + y) % b = (x + y) % b
<1> DEFINE q == x \div b
           r == x % b
<1>1. q \in Int /\ r \in Int /\ x = q * b + r
  BY Division
<1> HIDE DEF q, r
<1> DEFINE p == (r + y) \div b
           m == (r + y) % b
<1>2. p \in Int /\ m \in 0..(b - 1) /\ r + y = p * b + m
  <2>1. r + y \in Int
    BY <1>1
  <2> QED
    BY <2>1, Division
<1> HIDE DEF p, m
<1>3. x + y = (q + p) * b + m /\ q + p \in Int
  BY <1>1, <1>2
<1>4. (x + y) % b = m
  BY <1>2, <1>3, Quotient
<1> QED
  BY <1>4 DEF m, r

LEMMA Small ==
    ASSUME NEW b \in Nat \ {0}, NEW a \in 0..(b - 1)
    PROVE  a % b = a
OBVIOUS

(* Of a product that both have as a factor. *)
LEMMA Cancel ==
    ASSUME NEW k \in Nat \ {0}, NEW a \in Int, NEW b \in Int
    PROVE  /\ a * k <= b * k => a <= b
           /\ a * k < b * k => a < b
           /\ a <= b => a * k <= b * k
           /\ a < b => a * k < b * k
OBVIOUS

(* Between two times there are as many ticks as between the ticks they are of, but
   for less than one. *)
LEMMA TicksBetween ==
    ASSUME NEW tick \in Nat \ {0}, NEW a \in Int, NEW b \in Int, a <= b,
           NEW d, d = (b \div tick) - (a \div tick)
    PROVE  /\ d \in Nat
           /\ d * tick - tick < b - a /\ b - a < d * tick + tick
           /\ d <= (b - a) \div tick + 1
<1>1. /\ a \div tick \in Int /\ a % tick \in 0..(tick - 1) /\ a = (a \div tick) * tick + (a % tick)
      /\ b \div tick \in Int /\ b % tick \in 0..(tick - 1) /\ b = (b \div tick) * tick + (b % tick)
  BY Division
<1>2. d \in Int /\ b - a = d * tick + ((b % tick) - (a % tick))
  BY <1>1
<1>3. d * tick - tick < b - a /\ b - a < d * tick + tick
  <2>1. d * tick \in Int
    BY <1>2
  <2> QED
    BY <1>1, <1>2, <2>1
<1>4. d \in Nat
  <2>1. 0 * tick < (d + 1) * tick
    BY <1>2, <1>3
  <2>2. 0 < d + 1
    BY <1>2, <2>1, Cancel
  <2> QED
    BY <1>2, <2>2
<1>5. d <= (b - a) \div tick + 1
  <2> DEFINE q == (b - a) \div tick
  <2>1. q \in Int /\ b - a < (q + 1) * tick
    BY Division
  <2> HIDE DEF q
  <2>2. (d - 1) * tick < (q + 1) * tick
    BY <1>2, <1>3, <2>1
  <2>3. d - 1 < q + 1
    BY <1>2, <2>1, <2>2, Cancel
  <2> QED
    BY <1>2, <2>1, <2>3 DEF q
<1> QED
  BY <1>3, <1>4, <1>5

(* The difference of two counts is right although they have wrapped. *)
LEMMA WrappedDifference ==
    ASSUME NEW word \in Nat \ {0}, NEW a \in Int, NEW b \in Int, a - b \in 0..(word - 1)
    PROVE  ((a % word) - (b % word)) % word = a - b
<1>1. /\ a \div word \in Int /\ a % word \in 0..(word - 1)
      /\ a = (a \div word) * word + (a % word)
      /\ b \div word \in Int /\ b % word \in 0..(word - 1)
      /\ b = (b \div word) * word + (b % word)
  BY Division
<1> DEFINE q == (b \div word) - (a \div word)
<1>2. q \in Int /\ (a % word) - (b % word) = q * word + (a - b)
  BY <1>1
<1> HIDE DEF q
<1>3. (q * word + (a - b)) % word = a - b
  BY <1>2, Quotient
<1> QED
  BY <1>2, <1>3

-----------------------------------------------------------------------------
(* The seconds that ticks make. *)
LEMMA SecondsOfTicks ==
    ASSUME NEW tick \in Nat \ {0}, NEW hz \in Nat \ {0}, NEW second, second = hz * tick,
           NEW d \in Nat, NEW e \in Int, d * tick - tick < e, e < d * tick + tick,
           NEW s, s = d \div hz
    PROVE  s * second - tick < e /\ e < s * second + second
<1>1. s \in Int /\ s * hz <= d /\ d + 1 <= (s + 1) * hz
  <2>1. s \in Int /\ d % hz \in 0..(hz - 1) /\ d = s * hz + (d % hz)
    BY Division
  <2>2. s * hz \in Int /\ (s + 1) * hz = s * hz + hz
    BY <2>1
  <2> QED
    BY <2>1, <2>2
<1>2. (s * hz) * tick <= d * tick /\ (d + 1) * tick <= ((s + 1) * hz) * tick
  BY <1>1, Cancel
<1>3. /\ (s * hz) * tick = s * second /\ ((s + 1) * hz) * tick = s * second + second
      /\ s * second \in Int /\ second \in Int
  <2>1. (s * hz) * tick = s * second /\ ((s + 1) * hz) * tick = (s + 1) * second
    <3>1. (s * hz) * tick = s * (hz * tick)
      BY <1>1, Regroup
    <3>2. s + 1 \in Int
      BY <1>1
    <3>3. ((s + 1) * hz) * tick = (s + 1) * (hz * tick)
      BY <3>2, Regroup
    <3> QED
      BY <3>1, <3>3
  <2>2. second \in Int
    OBVIOUS
  <2> QED
    BY <1>1, <2>1, <2>2
<1>4. d * tick \in Int /\ (d + 1) * tick = d * tick + tick
  OBVIOUS
<1> QED
  BY <1>2, <1>3, <1>4

(* The milliseconds that ticks make. *)
LEMMA MillisecondsOfTicks ==
    ASSUME NEW tick \in Nat \ {0}, NEW hz \in Nat \ {0}, NEW kilo \in Nat \ {0},
           kilo * kilo = hz * tick,
           NEW d \in Nat, NEW e \in Int, d * tick - tick < e, e < d * tick + tick,
           NEW m, m = (d * kilo) \div hz
    PROVE  m * kilo - tick < e /\ e < m * kilo + (kilo + tick)
<1>1. m \in Int /\ m * hz <= d * kilo /\ d * kilo < (m + 1) * hz
  <2>1. d * kilo \in Int
    OBVIOUS
  <2> QED
    BY <2>1, Division
<1>2. (m * hz) * kilo <= (d * kilo) * kilo /\ (d * kilo) * kilo < ((m + 1) * hz) * kilo
  BY <1>1, Cancel
<1>3. /\ (d * kilo) * kilo = (d * tick) * hz /\ (m * hz) * kilo = (m * kilo) * hz
      /\ ((m + 1) * hz) * kilo = (m * kilo + kilo) * hz
  <2>1. (d * kilo) * kilo = d * (kilo * kilo) /\ d * (hz * tick) = (d * tick) * hz
    OBVIOUS
  <2>2. (m * hz) * kilo = (m * kilo) * hz /\ ((m + 1) * hz) * kilo = (m * kilo + kilo) * hz
    BY <1>1
  <2> QED
    BY <2>1, <2>2
<1>4. d * tick \in Int /\ m * kilo \in Int
  BY <1>1
<1>5. m * kilo <= d * tick /\ d * tick < m * kilo + kilo
  BY <1>2, <1>3, <1>4, Cancel
<1> QED
  BY <1>4, <1>5

(* Milliseconds that are rounded up to ticks. *)
LEMMA TicksOfMilliseconds ==
    ASSUME NEW tick \in Nat \ {0}, NEW hz \in Nat \ {0}, NEW kilo \in Nat \ {0},
           kilo * kilo = hz * tick, NEW t \in Nat,
           NEW j, j = (t * hz + kilo - 1) \div kilo
    PROVE  j \in Nat /\ t * kilo <= j * tick /\ j * tick < t * kilo + tick
<1>1. t * hz \in Nat /\ t * hz + kilo - 1 \in Int
  OBVIOUS
<1>2. /\ j \in Int /\ t * hz + kilo - 1 < (j + 1) * kilo
      /\ j * kilo <= t * hz + kilo - 1
  BY <1>1, Division
<1>3. t * hz <= j * kilo /\ j * kilo < t * hz + kilo
  BY <1>1, <1>2
<1>4. /\ (t * hz) * tick <= (j * kilo) * tick
      /\ (j * kilo) * tick < (t * hz + kilo) * tick
  BY <1>1, <1>2, <1>3, Cancel
<1>5. /\ (t * hz) * tick = (t * kilo) * kilo /\ (j * kilo) * tick = (j * tick) * kilo
      /\ (t * hz + kilo) * tick = (t * kilo + tick) * kilo
  <2>1. (t * hz) * tick = t * (hz * tick) /\ t * (kilo * kilo) = (t * kilo) * kilo
    OBVIOUS
  <2>2. (j * kilo) * tick = (j * tick) * kilo
    BY <1>2
  <2>3. (t * hz + kilo) * tick = (t * hz) * tick + kilo * tick
    OBVIOUS
  <2>4. (t * kilo + tick) * kilo = (t * kilo) * kilo + tick * kilo
    OBVIOUS
  <2>5. kilo * tick = tick * kilo
    OBVIOUS
  <2> QED
    BY <2>1, <2>2, <2>3, <2>4, <2>5
<1>6. t * kilo \in Nat /\ j * tick \in Int /\ t * kilo + tick \in Int
  BY <1>2
<1>7. t * kilo <= j * tick /\ j * tick < t * kilo + tick
  BY <1>4, <1>5, <1>6, Cancel
<1>8. 0 * tick <= j * tick
  BY <1>6, <1>7
<1>9. 0 <= j
  BY <1>2, <1>8, Cancel
<1> QED
  BY <1>2, <1>7, <1>9

(* A time that is earlier by a microsecond or by a length of time is earlier. *)
LEMMA LessByOne == ASSUME NEW a \in Nat, NEW b \in Int, a + 1 <= b PROVE a <= b
OBVIOUS

LEMMA AddedTime == ASSUME NEW a \in Nat, NEW b \in Nat PROVE a + b \in Int /\ a <= a + b
OBVIOUS

(* Before a tick there is room for another microsecond. *)
LEMMA BeforeTick ==
    ASSUME NEW tick \in Nat \ {0}, NEW u \in Nat, NEW k \in Int, u \div tick < k
    PROVE  u + 1 <= k * tick
<1> DEFINE q == u \div tick
<1>1. q \in Int /\ u < (q + 1) * tick
  BY Division
<1>2. q + 1 <= k
  BY <1>1
<1> HIDE DEF q
<1>3. (q + 1) * tick <= k * tick
  <2>1. q + 1 \in Int
    BY <1>1
  <2> QED
    BY <1>2, <2>1, Cancel
<1>4. (q + 1) * tick \in Int /\ k * tick \in Int
  BY <1>1
<1> QED
  BY <1>1, <1>3, <1>4

-----------------------------------------------------------------------------
(* What a stamp, an alarm and a sleep remember of the time at which they were begun. *)
StampedAt ==
    doing = "stamp" => /\ kernel = (FirstTick + began \div Clock!Tick) % ClockWord
                       /\ ~set => user = (began + wall) \div Clock!Second

AlarmSet ==
    LET length == (time * Kilo) % ClockWord
    IN  doing = "alarm" /\ ~set =>
            /\ kernel = (began + wall + length) % Wide
            /\ user = ((((began + wall) - Epoch * Clock!Second) % Wide) + length) % Wide

SleepsUntil ==
    /\ doing = "kernel sleep" =>
           kernel = began \div Clock!Tick + Clock!MsToJiffies(time) + 1
    /\ doing = "user sleep" => user = began + time

(* No sleep has gone on after it was due. *)
NotOverslept ==
    /\ doing = "kernel sleep" => kernel \in Int /\ uptime <= kernel * Clock!Tick
    /\ doing = "user sleep" => user \in Int /\ uptime <= user

ClockTypes ==
    /\ uptime \in Nat /\ uptime <= MaxTime /\ wall \in Int
    /\ began \in Nat /\ began <= uptime /\ time \in Nat
    /\ slept.took \in Nat /\ slept.time \in Nat

(* The clock is set only after a stamp or an alarm, which nothing comes after. *)
ClockSet ==
    /\ ~set => \E s \in Starts : wall = s * Clock!Second
    /\ set => doing \in {"stamp", "alarm"}

ClockInv ==
    /\ ClockTypes /\ ClockSet /\ StampedAt /\ AlarmSet /\ SleepsUntil /\ NotOverslept
    /\ Clock!SleepsAreOnTime

LEMMA ClockConstants ==
    /\ ClockWord \in Nat \ {0} /\ Wide \in Nat \ {0} /\ Kilo \in Nat \ {0} /\ Hz \in Nat \ {0}
    /\ Clock!Tick \in Nat \ {0} /\ Clock!Second \in Nat \ {0}
    /\ Clock!Second = Hz * Clock!Tick /\ Clock!Second = Kilo * Kilo
    /\ Epoch \in Nat /\ FirstTick \in Nat /\ MaxBegin \in Nat /\ MaxTime \in Nat
    /\ 0 \in Starts /\ Starts \subseteq Nat /\ Steps \subseteq Int /\ Times \subseteq Nat
BY TickAssumption DEF Clock!Second

(* The clock's microseconds, of its seconds and the rest. *)
LEMMA Microseconds ==
    ASSUME uptime \in Int, wall \in Int
    PROVE  /\ Clock!TvSec \in Int /\ Clock!TvUsec \in 0..(Clock!Second - 1)
           /\ Clock!KernelNow = (uptime + wall) % Wide
           /\ Clock!UserNow = ((uptime + wall) - Epoch * Clock!Second) % Wide
<1>1. /\ Clock!TvSec \in Int /\ Clock!TvUsec \in 0..(Clock!Second - 1)
      /\ uptime + wall = Clock!TvSec * Clock!Second + Clock!TvUsec
  <2>1. uptime + wall \in Int /\ Clock!Second \in Nat \ {0}
    BY ClockConstants
  <2> QED
    BY <2>1, Division DEF Clock!TvSec, Clock!TvUsec
<1>2. (Clock!TvSec - Epoch) * Clock!Second + Clock!TvUsec
         = (uptime + wall) - Epoch * Clock!Second
  <2> DEFINE now == uptime + wall
  <2>1. /\ Clock!Second \in Int /\ Epoch \in Int
        /\ now = Clock!TvSec * Clock!Second + Clock!TvUsec
    BY <1>1, ClockConstants
  <2> HIDE DEF now
  <2>2. (Clock!TvSec - Epoch) * Clock!Second + Clock!TvUsec = now - Epoch * Clock!Second
    BY <1>1, <2>1
  <2> QED
    BY <2>2 DEF now
<1>3. Clock!KernelNow = (uptime + wall) % Wide
  BY <1>1 DEF Clock!KernelNow
<1>4. Clock!UserNow = ((uptime + wall) - Epoch * Clock!Second) % Wide
  BY <1>2 DEF Clock!UserNow
<1> QED
  BY <1>1, <1>3, <1>4

LEMMA ClockStarts == Init => ClockInv
<1> SUFFICES ASSUME Init PROVE ClockInv
  OBVIOUS
<1>1. /\ uptime = 0 /\ wall \in {s * Clock!Second : s \in Starts}
      /\ doing = "none" /\ time = 0 /\ began = 0 /\ set = FALSE
      /\ slept.by = "none" /\ slept.took = 0 /\ slept.time = 0
  BY DEF Init, Clock!Init, Clock!Awake
<1>2. PICK s \in Starts : wall = s * Clock!Second
  BY <1>1
<1>3. ClockTypes
  <2>1. s \in Int /\ Clock!Second \in Int /\ MaxTime \in Nat
    BY ClockConstants
  <2>2. wall \in Int
    BY <1>2, <2>1
  <2> QED
    BY <1>1, <2>1, <2>2 DEF ClockTypes
<1>4. ClockSet
  BY <1>1, <1>2 DEF ClockSet
<1>5. StampedAt /\ AlarmSet /\ SleepsUntil /\ NotOverslept
  BY <1>1 DEF StampedAt, AlarmSet, SleepsUntil, NotOverslept
<1>6. Clock!SleepsAreOnTime
  BY <1>1 DEF Clock!SleepsAreOnTime
<1> QED
  BY <1>3, <1>4, <1>5, <1>6 DEF ClockInv

LEMMA ClockStutters ==
    ASSUME ClockInv, UNCHANGED clockVars
    PROVE  ClockInv'
BY DEF ClockInv, ClockTypes, ClockSet, StampedAt, AlarmSet, SleepsUntil, NotOverslept,
       Clock!SleepsAreOnTime, clockVars

(* Time goes on, and what is remembered stays. *)
LEMMA PassStep ==
    ASSUME ClockInv, Clock!Pass
    PROVE  ClockInv'
<1>1. /\ uptime' = uptime + 1 /\ uptime < MaxTime
      /\ slept'.by = "none" /\ slept'.took = 0 /\ slept'.time = 0
      /\ UNCHANGED <<wall, doing, kernel, user, time, began, set>>
  BY DEF Clock!Pass, Clock!Awake
<1>2. ClockTypes'
  BY <1>1, ClockConstants DEF ClockInv, ClockTypes
<1>3. ClockSet' /\ StampedAt' /\ AlarmSet' /\ SleepsUntil'
  BY <1>1 DEF ClockInv, ClockSet, StampedAt, AlarmSet, SleepsUntil
<1>4. NotOverslept'
  <2>1. uptime \in Nat /\ Clock!Tick \in Nat \ {0}
    BY ClockConstants DEF ClockInv, ClockTypes
  <2>2. ASSUME doing = "kernel sleep" PROVE kernel \in Int /\ uptime + 1 <= kernel * Clock!Tick
    <3>1. kernel \in Int /\ ~(uptime \div Clock!Tick >= kernel)
      BY <2>2 DEF ClockInv, NotOverslept, Clock!Pass, Clock!Over
    <3>2. uptime \div Clock!Tick < kernel
      BY <2>1, <3>1, Division
    <3> QED
      BY <2>1, <3>1, <3>2, BeforeTick
  <2>3. ASSUME doing = "user sleep" PROVE user \in Int /\ uptime + 1 <= user
    <3>1. user \in Int /\ ~(uptime >= user)
      BY <2>3 DEF ClockInv, NotOverslept, Clock!Pass, Clock!Over
    <3> QED
      BY <2>1, <3>1
  <2> QED
    BY <1>1, <2>2, <2>3 DEF NotOverslept
<1>5. Clock!SleepsAreOnTime'
  BY <1>1 DEF Clock!SleepsAreOnTime
<1> QED
  BY <1>2, <1>3, <1>4, <1>5 DEF ClockInv

LEMMA SetClockStep ==
    ASSUME ClockInv, NEW step \in Steps, Clock!SetClock(step)
    PROVE  ClockInv'
<1>1. /\ doing \in {"stamp", "alarm"} /\ set'
      /\ wall' = wall + step * Clock!Second
      /\ UNCHANGED <<uptime, doing, kernel, user, time, began, slept>>
  BY DEF Clock!SetClock
<1>2. wall' \in Int
  <2>1. wall \in Int /\ step \in Int /\ Clock!Second \in Int
    BY ClockConstants DEF ClockInv, ClockTypes
  <2> QED
    BY <1>1, <2>1
<1> QED
  BY <1>1, <1>2
  DEF ClockInv, ClockTypes, ClockSet, StampedAt, AlarmSet, SleepsUntil, NotOverslept,
      Clock!SleepsAreOnTime, Clock!SetClock

(* What is common to the beginnings. *)
LEMMA Begun ==
    ASSUME ClockInv, NEW what, NEW k, NEW u, NEW t \in Nat,
           Clock!Begin(what, k, u, t)
    PROVE  /\ ClockTypes' /\ ClockSet' /\ ~set' /\ began' = uptime
           /\ doing' = what /\ kernel' = k /\ user' = u /\ time' = t
           /\ Clock!SleepsAreOnTime' /\ wall' = wall /\ uptime' = began'
           /\ uptime \in Nat /\ wall \in Int
<1>1. /\ doing = "none" /\ doing' = what /\ kernel' = k /\ user' = u /\ time' = t
      /\ began' = uptime /\ ~set'
      /\ slept'.by = "none" /\ slept'.took = 0 /\ slept'.time = 0
      /\ UNCHANGED <<uptime, wall>>
  BY DEF Clock!Begin, Clock!Awake
<1>2. ~set
  BY <1>1 DEF ClockInv, ClockSet
<1>3. uptime \in Nat /\ wall \in Int
  BY DEF ClockInv, ClockTypes
<1>4. ClockTypes'
  BY <1>1 DEF ClockInv, ClockTypes
<1>5. ClockSet'
  BY <1>1, <1>2 DEF ClockInv, ClockSet
<1>6. Clock!SleepsAreOnTime'
  BY <1>1 DEF Clock!SleepsAreOnTime
<1> QED
  BY <1>1, <1>3, <1>4, <1>5, <1>6

LEMMA StampStep ==
    ASSUME ClockInv, Clock!OsClockGetTime
    PROVE  ClockInv'
<1>1. Clock!Begin("stamp", Clock!Jiffies, Clock!TvSec, 0)
  BY DEF Clock!OsClockGetTime
<1>2. /\ ClockTypes' /\ ClockSet' /\ began' = uptime /\ wall' = wall
      /\ doing' = "stamp" /\ kernel' = Clock!Jiffies /\ user' = Clock!TvSec
      /\ Clock!SleepsAreOnTime'
  BY <1>1, Begun
<1>3. StampedAt'
  BY <1>2 DEF StampedAt, Clock!Jiffies, Clock!TvSec
<1> QED
  BY <1>2, <1>3 DEF ClockInv, AlarmSet, SleepsUntil, NotOverslept

LEMMA SetAlarmStep ==
    ASSUME ClockInv, NEW t \in Times, Clock!OsSetAlarm(t)
    PROVE  ClockInv'
<1>1. Clock!Begin("alarm", Clock!KernelSetAlarm(t), Clock!UserSetAlarm(t), t)
  BY DEF Clock!OsSetAlarm
<1>2. /\ ClockTypes' /\ ClockSet' /\ began' = uptime /\ wall' = wall /\ time' = t
      /\ doing' = "alarm" /\ kernel' = Clock!KernelSetAlarm(t)
      /\ user' = Clock!UserSetAlarm(t)
      /\ Clock!SleepsAreOnTime' /\ uptime \in Int /\ wall \in Int
  BY <1>1, Begun, ClockConstants
<1> DEFINE length == (t * Kilo) % ClockWord
<1>3. length \in Int
  BY ClockConstants
<1>4. (((uptime + wall) % Wide) + length) % Wide = (uptime + wall + length) % Wide
  <2> HIDE DEF length
  <2>1. uptime + wall \in Int /\ Wide \in Nat \ {0}
    BY <1>2, ClockConstants
  <2> QED
    BY <1>3, <2>1, WrappedSum
<1>5. AlarmSet'
  <2>1. /\ kernel' = (((uptime + wall) % Wide) + length) % Wide
        /\ user' = ((((uptime + wall) - Epoch * Clock!Second) % Wide) + length) % Wide
    BY <1>2, Microseconds DEF Clock!KernelSetAlarm, Clock!UserSetAlarm
  <2> QED
    BY <1>2, <1>4, <2>1 DEF AlarmSet
<1> QED
  BY <1>2, <1>5 DEF ClockInv, StampedAt, SleepsUntil, NotOverslept

LEMMA KernelSleepStep ==
    ASSUME ClockInv, NEW t \in Times, Clock!KernelSleep(t)
    PROVE  ClockInv'
<1>1. Clock!Begin("kernel sleep", uptime \div Clock!Tick + Clock!MsToJiffies(t) + 1, 0, t)
  BY DEF Clock!KernelSleep
<1>2. /\ ClockTypes' /\ ClockSet' /\ began' = uptime /\ time' = t
      /\ doing' = "kernel sleep"
      /\ kernel' = uptime \div Clock!Tick + Clock!MsToJiffies(t) + 1
      /\ Clock!SleepsAreOnTime'
  BY <1>1, Begun, ClockConstants
<1>3. uptime' = began' /\ uptime' \in Nat
  BY <1>1, Begun, ClockConstants DEF ClockTypes
<1>4. SleepsUntil'
  BY <1>2 DEF SleepsUntil, Clock!MsToJiffies
<1>5. NotOverslept'
  <2> DEFINE j == (time' * Hz + Kilo - 1) \div Kilo
             q == began' \div Clock!Tick
  <2>1. j \in Nat
    <3>1. /\ time' \in Nat /\ Clock!Tick \in Nat \ {0} /\ Hz \in Nat \ {0} /\ Kilo \in Nat \ {0}
          /\ Kilo * Kilo = Hz * Clock!Tick
      BY <1>2, ClockConstants
    <3> QED
      BY <3>1, TicksOfMilliseconds
  <2>2. q \in Int /\ Clock!Tick \in Nat \ {0}
    BY <1>3, ClockConstants, Division
  <2>3. kernel' = q + j + 1
    BY <1>2, <1>4 DEF SleepsUntil, Clock!MsToJiffies
  <2> HIDE DEF j, q
  <2>4. kernel' \in Int /\ q < kernel'
    BY <2>1, <2>2, <2>3
  <2>5. uptime' + 1 <= kernel' * Clock!Tick
    BY <1>3, <2>2, <2>4, BeforeTick DEF q
  <2>6. kernel' * Clock!Tick \in Int
    BY <2>2, <2>4
  <2>7. uptime' <= kernel' * Clock!Tick
    BY <1>3, <2>5, <2>6, LessByOne
  <2> QED
    BY <1>2, <2>4, <2>7 DEF NotOverslept
<1> QED
  BY <1>2, <1>4, <1>5 DEF ClockInv, StampedAt, AlarmSet

LEMMA UserSleepStep ==
    ASSUME ClockInv, NEW t \in Times, Clock!UserSleep(t)
    PROVE  ClockInv'
<1>1. (t \div Clock!Second) * Clock!Second + (((t % Clock!Second) * Kilo) \div Kilo) = t
  <2>1. t = (t \div Clock!Second) * Clock!Second + (t % Clock!Second)
        /\ t % Clock!Second \in Int
    <3>1. t \in Int /\ Clock!Second \in Nat \ {0}
      BY ClockConstants
    <3>2. t % Clock!Second \in 0..(Clock!Second - 1)
      BY <3>1, Division
    <3> QED
      BY <3>1, <3>2, Division
  <2>2. ((t % Clock!Second) * Kilo + 0) \div Kilo = t % Clock!Second
    <3>1. Kilo \in Nat \ {0} /\ 0 \in 0..(Kilo - 1)
      BY ClockConstants
    <3> QED
      BY <2>1, <3>1, Quotient
  <2>3. (t % Clock!Second) * Kilo \in Int
    BY <2>1, ClockConstants
  <2> QED
    BY <2>1, <2>2, <2>3
<1> DEFINE seconds == t \div Clock!Second
           rest == ((t % Clock!Second) * Kilo) \div Kilo
<1>2. Clock!Begin("user sleep", 0, uptime + t, t)
  <2>1. uptime \in Int /\ seconds * Clock!Second \in Int /\ rest \in Int
    <3>1. t \in Int /\ Clock!Second \in Nat \ {0} /\ Kilo \in Nat \ {0}
      BY ClockConstants
    <3>2. seconds \in Int /\ t % Clock!Second \in Int
      BY <3>1, Division
    <3>3. (t % Clock!Second) * Kilo \in Int
      BY <3>1, <3>2
    <3> QED
      BY <3>1, <3>2, <3>3, Division DEF ClockInv, ClockTypes
  <2>2. uptime + seconds * Clock!Second + rest = uptime + t
    <3> HIDE DEF seconds, rest
    <3>1. seconds * Clock!Second + rest = t
      BY <1>1 DEF seconds, rest
    <3> QED
      BY <2>1, <3>1
  <2> QED
    BY <2>2 DEF Clock!UserSleep
<1>3. /\ ClockTypes' /\ ClockSet' /\ began' = uptime /\ time' = t
      /\ doing' = "user sleep" /\ user' = uptime + t
      /\ Clock!SleepsAreOnTime'
  BY <1>2, Begun, ClockConstants
<1>4. uptime' = began' /\ uptime' \in Nat /\ time' \in Nat
  BY <1>2, Begun, ClockConstants DEF ClockTypes
<1>5. SleepsUntil'
  BY <1>3 DEF SleepsUntil
<1>6. NotOverslept'
  <2>1. user' = began' + time'
    BY <1>3, <1>5 DEF SleepsUntil
  <2>2. began' \in Nat /\ time' \in Nat
    BY <1>4
  <2>3. began' + time' \in Int /\ began' <= began' + time'
    BY <2>2, AddedTime
  <2>4. user' \in Int /\ uptime' <= user'
    BY <1>4, <2>1, <2>3, Zenon
  <2> QED
    BY <1>3, <2>4 DEF NotOverslept
<1> QED
  BY <1>3, <1>5, <1>6 DEF ClockInv, StampedAt, AlarmSet

(* The tick that ends a sleep in the kernel is late enough, and not a tick later. *)
LEMMA TicksAreEnough ==
    ASSUME NEW tick \in Nat \ {0}, NEW hz \in Nat \ {0}, NEW kilo \in Nat \ {0},
           kilo * kilo = hz * tick, NEW t \in Nat, NEW a \in Nat, NEW b \in Nat, a <= b,
           NEW final, final = a \div tick + ((t * hz + kilo - 1) \div kilo) + 1,
           b \div tick >= final, b <= final * tick
    PROVE  t * kilo < b - a /\ b - a < t * kilo + 2 * tick
<1> DEFINE j == (t * hz + kilo - 1) \div kilo
           q == a \div tick
           d == (b \div tick) - q
<1>1. j \in Nat /\ t * kilo <= j * tick /\ j * tick < t * kilo + tick
  BY TicksOfMilliseconds
<1>2. d \in Nat /\ d * tick - tick < b - a
  BY TicksBetween
<1>3. q \in Int /\ b \div tick \in Int /\ q * tick <= a
  BY Division
<1>4. final = q + j + 1
  OBVIOUS
<1> HIDE DEF j, q
<1>5. j + 1 <= d
  BY <1>1, <1>3, <1>4
<1> HIDE DEF d
<1>6. (j + 1) * tick <= d * tick /\ (j + 1) * tick = j * tick + tick
  <2>1. j + 1 \in Int /\ d \in Int
    BY <1>1, <1>2
  <2> QED
    BY <1>1, <1>5, <2>1, Cancel
<1>7. final * tick = q * tick + j * tick + tick
  <2>1. (q + j + 1) * tick = q * tick + j * tick + tick
    BY <1>1, <1>3
  <2> QED
    BY <1>4, <2>1
<1>8. /\ j * tick \in Int /\ d * tick \in Int /\ t * kilo \in Nat /\ q * tick \in Int
      /\ (j + 1) * tick \in Int
  BY <1>1, <1>2, <1>3
<1>9. t * kilo < b - a
  BY <1>1, <1>2, <1>6, <1>8
<1>10. b - a < t * kilo + 2 * tick
  BY <1>1, <1>3, <1>7, <1>8
<1> QED
  BY <1>9, <1>10

(* A sleep that no signal ends is as long as it was asked to be. *)
LEMMA SleepIsOver ==
    ASSUME ClockInv, Clock!Over
    PROVE  /\ doing = "kernel sleep" => /\ time * Kilo < uptime - began
                                        /\ uptime - began < time * Kilo + 2 * Clock!Tick
           /\ doing = "user sleep" => uptime - began = time
           /\ doing = "kernel sleep" \/ doing = "user sleep"
<1>1. /\ uptime \in Nat /\ began \in Nat /\ began <= uptime /\ time \in Nat
  BY DEF ClockInv, ClockTypes
<1>2. ASSUME doing = "kernel sleep"
      PROVE  /\ time * Kilo < uptime - began
             /\ uptime - began < time * Kilo + 2 * Clock!Tick
  <2>1. /\ kernel = began \div Clock!Tick + ((time * Hz + Kilo - 1) \div Kilo) + 1
        /\ uptime \div Clock!Tick >= kernel /\ uptime <= kernel * Clock!Tick
    BY <1>2 DEF ClockInv, SleepsUntil, NotOverslept, Clock!Over, Clock!MsToJiffies
  <2>2. /\ Clock!Tick \in Nat \ {0} /\ Hz \in Nat \ {0} /\ Kilo \in Nat \ {0}
        /\ Kilo * Kilo = Hz * Clock!Tick
    BY ClockConstants
  <2> QED
    BY <1>1, <2>1, <2>2, TicksAreEnough
<1>3. ASSUME doing = "user sleep" PROVE uptime - began = time
  <2>1. uptime >= began + time /\ uptime <= began + time
    BY <1>3 DEF ClockInv, SleepsUntil, NotOverslept, Clock!Over
  <2> QED
    BY <1>1, <2>1
<1> QED
  BY <1>2, <1>3 DEF Clock!Over

LEMMA Ages ==
    ASSUME ClockInv
    PROVE  uptime \in Nat /\ began \in Nat /\ began <= uptime /\ uptime - began \in Nat
BY DEF ClockInv, ClockTypes

LEMMA WakeStep ==
    ASSUME ClockInv, NEW signal \in BOOLEAN, Clock!Wake(signal)
    PROVE  ClockInv'
<1>0. ~set
  BY DEF ClockInv, ClockSet, Clock!Wake
<1>1. doing' = "none" /\ time' = 0 /\ began' = 0 /\ UNCHANGED <<uptime, wall, set>>
  BY DEF Clock!Wake
<1>2. slept'.took \in Nat /\ slept'.time \in Nat /\ Clock!SleepsAreOnTime'
  <2>1. CASE signal
    <3>1. slept'.by = "none" /\ slept'.took = 0 /\ slept'.time = 0
      BY <2>1 DEF Clock!Wake, Clock!Awake
    <3> QED
      BY <3>1 DEF Clock!SleepsAreOnTime
  <2>2. CASE ~signal
    <3>1. Clock!Over /\ slept' = [by |-> doing, took |-> uptime - began, time |-> time]
      BY <2>2 DEF Clock!Wake
    <3>2. slept'.by = doing /\ slept'.took = uptime - began /\ slept'.time = time
      BY <3>1
    <3>3. slept'.took \in Nat /\ slept'.time \in Nat
      BY <3>2 DEF ClockInv, ClockTypes
    <3>4. /\ doing = "kernel sleep" => /\ time * Kilo < uptime - began
                                       /\ uptime - began < time * Kilo + 2 * Clock!Tick
          /\ doing = "user sleep" => uptime - began = time
      BY <3>1, SleepIsOver
    <3>5. Clock!SleepsAreOnTime'
      BY <3>2, <3>4 DEF Clock!SleepsAreOnTime
    <3> QED
      BY <3>3, <3>5
  <2> QED
    BY <2>1, <2>2
<1>3. ClockTypes'
  <2>1. uptime' \in Nat /\ uptime' <= MaxTime /\ wall' \in Int
    BY <1>1 DEF ClockInv, ClockTypes
  <2> QED
    BY <1>1, <1>2, <2>1 DEF ClockTypes
<1>4. ClockSet' /\ StampedAt' /\ AlarmSet' /\ SleepsUntil' /\ NotOverslept'
  BY <1>0, <1>1 DEF ClockInv, ClockSet, StampedAt, AlarmSet, SleepsUntil, NotOverslept
<1> QED
  BY <1>2, <1>3, <1>4 DEF ClockInv

LEMMA ClockStep ==
    ASSUME ClockInv, Clock!Next
    PROVE  ClockInv'
<1>1. CASE Clock!Pass
  BY <1>1, PassStep
<1>2. CASE \E s \in Steps : Clock!SetClock(s)
  BY <1>2, SetClockStep
<1>3. CASE Clock!OsClockGetTime
  BY <1>3, StampStep
<1>4. CASE \E t \in Times : Clock!OsSetAlarm(t) \/ Clock!KernelSleep(t) \/ Clock!UserSleep(t)
  BY <1>4, SetAlarmStep, KernelSleepStep, UserSleepStep
<1>5. CASE \E signal \in BOOLEAN : Clock!Wake(signal)
  BY <1>5, WakeStep
<1> QED
  BY <1>1, <1>2, <1>3, <1>4, <1>5 DEF Clock!Next

-----------------------------------------------------------------------------
(* The kernel's differences, across the wrap of the ticks. *)
LEMMA KernelElapsed ==
    ASSUME ClockInv, doing = "stamp", NEW d,
           d = (uptime \div Clock!Tick) - (began \div Clock!Tick)
    PROVE  /\ d \in Nat /\ d <= (uptime - began) \div Clock!Tick + 1
           /\ d * Clock!Tick - Clock!Tick < uptime - began
           /\ uptime - began < d * Clock!Tick + Clock!Tick
           /\ d < ClockWord => (Clock!Jiffies - kernel) % ClockWord = d
<1>1. /\ uptime \in Nat /\ began \in Nat /\ began <= uptime
      /\ kernel = (FirstTick + began \div Clock!Tick) % ClockWord
  BY DEF ClockInv, ClockTypes, StampedAt
<1>2. Clock!Tick \in Nat \ {0} /\ ClockWord \in Nat \ {0} /\ FirstTick \in Int
  BY ClockConstants
<1>3. /\ d \in Nat /\ d <= (uptime - began) \div Clock!Tick + 1
      /\ d * Clock!Tick - Clock!Tick < uptime - began
      /\ uptime - began < d * Clock!Tick + Clock!Tick
  BY <1>1, <1>2, TicksBetween
<1>4. ASSUME d < ClockWord PROVE (Clock!Jiffies - kernel) % ClockWord = d
  <2> DEFINE a == FirstTick + uptime \div Clock!Tick
             b == FirstTick + began \div Clock!Tick
  <2>1. a \in Int /\ b \in Int /\ a - b = d
    <3>1. uptime \div Clock!Tick \in Int /\ began \div Clock!Tick \in Int
      BY <1>1, <1>2, Division
    <3> QED
      BY <1>2, <3>1
  <2>2. Clock!Jiffies = a % ClockWord /\ kernel = b % ClockWord
    BY <1>1 DEF Clock!Jiffies
  <2> HIDE DEF a, b
  <2>3. a - b \in 0..(ClockWord - 1)
    BY <1>2, <1>3, <1>4, <2>1
  <2> QED
    BY <1>2, <2>1, <2>2, <2>3, WrappedDifference
<1> QED
  BY <1>3, <1>4

LEMMA UserElapsed ==
    ASSUME ClockInv, doing = "stamp", ~set, NEW d, d = Clock!TvSec - user
    PROVE  /\ d \in Nat /\ d <= (uptime - began) \div Clock!Second + 1
           /\ d * Clock!Second - Clock!Second < uptime - began
           /\ uptime - began < d * Clock!Second + Clock!Second
<1>1. /\ uptime \in Nat /\ began \in Nat /\ began <= uptime /\ wall \in Int
      /\ user = (began + wall) \div Clock!Second
  BY DEF ClockInv, ClockTypes, StampedAt
<1> DEFINE a == began + wall
           b == uptime + wall
<1>2. /\ a \in Int /\ b \in Int /\ a <= b /\ b - a = uptime - began
      /\ Clock!Second \in Nat \ {0}
  BY <1>1, ClockConstants
<1>3. d = (b \div Clock!Second) - (a \div Clock!Second)
  BY <1>1 DEF Clock!TvSec
<1> HIDE DEF a, b
<1> QED
  BY <1>2, <1>3, TicksBetween

(* As long as nobody sets it the clock shows the time since an origin: in the kernel
   its start, and in user space what the epoch leaves of it. *)
LEMMA ClockDoesNotWrap ==
    ASSUME ClockInv, ~set
    PROVE  \E e \in Int : \A x \in 0..(MaxTime + ClockWord - 1) :
              /\ (x + wall) % Wide = x + wall
              /\ ((x + wall) - Epoch * Clock!Second) % Wide = x + e
<1>1. PICK s \in Starts : wall = s * Clock!Second
  BY DEF ClockInv, ClockSet
<1> DEFINE epoch == Epoch * Clock!Second
           top == MaxTime + ClockWord
<1>2. /\ s \in Nat /\ Epoch \in Nat /\ Clock!Second \in Nat \ {0} /\ Wide \in Nat \ {0}
      /\ top \in Nat
  BY ClockConstants
<1>3. wall \in Nat /\ epoch \in Nat
  BY <1>1, <1>2
<1>4. epoch <= Wide
  BY EpochAssumption
<1>5. wall + top <= Wide /\ (wall >= epoch \/ wall + top <= epoch)
  <2>1. s >= Epoch => wall >= epoch
    BY <1>1, <1>2, Cancel
  <2>2. /\ s * Clock!Second + MaxTime + ClockWord <= Wide
        /\ s >= Epoch \/ s * Clock!Second + MaxTime + ClockWord <= epoch
    BY WideAssumption
  <2>3. s * Clock!Second + MaxTime + ClockWord = wall + top
    BY <1>1, <1>3, ClockConstants
  <2> QED
    BY <2>1, <2>2, <2>3
<1>6. \A x \in 0..(MaxTime + ClockWord - 1) : x \in Nat /\ x < top
  BY ClockConstants
<1> HIDE DEF epoch, top
<1>7. \A x \in 0..(MaxTime + ClockWord - 1) : (x + wall) % Wide = x + wall
  <2> SUFFICES ASSUME NEW x \in 0..(MaxTime + ClockWord - 1)
               PROVE  (x + wall) % Wide = x + wall
    OBVIOUS
  <2>1. x + wall \in 0..(Wide - 1)
    BY <1>2, <1>3, <1>5, <1>6
  <2> QED
    BY <1>2, <2>1, Small
<1>8. CASE wall >= epoch
  <2>1. ASSUME NEW x \in 0..(MaxTime + ClockWord - 1)
        PROVE  ((x + wall) - epoch) % Wide = x + (wall - epoch)
    <3>1. /\ (x + wall) - epoch \in 0..(Wide - 1)
          /\ (x + wall) - epoch = x + (wall - epoch)
      BY <1>2, <1>3, <1>5, <1>6, <1>8
    <3> QED
      BY <1>2, <3>1, Small
  <2>2. wall - epoch \in Int
    BY <1>3
  <2> QED
    BY <1>7, <2>1, <2>2 DEF epoch
<1>9. CASE wall + top <= epoch
  <2> DEFINE e == (wall - epoch) + Wide
  <2>1. ASSUME NEW x \in 0..(MaxTime + ClockWord - 1)
        PROVE  ((x + wall) - epoch) % Wide = x + e
    <3>1. /\ x + e \in 0..(Wide - 1)
          /\ (x + wall) - epoch = (-1) * Wide + (x + e)
      BY <1>2, <1>3, <1>4, <1>6, <1>9
    <3> HIDE DEF e
    <3>2. -1 \in Int
      OBVIOUS
    <3> QED
      BY <1>2, <3>1, <3>2, Quotient
  <2>2. e \in Int
    BY <1>2, <1>3
  <2> QED
    BY <1>7, <2>1, <2>2 DEF epoch
<1> QED
  BY <1>5, <1>8, <1>9

LEMMA AlarmIsOver ==
    ASSUME ClockInv, doing = "alarm", ~set, time * Kilo < ClockWord
    PROVE  /\ Clock!KernelTestAlarm(kernel) <=> uptime - began >= time * Kilo
           /\ Clock!UserTestAlarm(user) <=> uptime - began >= time * Kilo
<1>1. PICK e \in Int : \A x \in 0..(MaxTime + ClockWord - 1) :
              /\ (x + wall) % Wide = x + wall
              /\ ((x + wall) - Epoch * Clock!Second) % Wide = x + e
  BY ClockDoesNotWrap
<1> DEFINE length == time * Kilo
           end == began + length
<1>2. /\ uptime \in Nat /\ uptime <= MaxTime /\ began \in Nat /\ began <= uptime
      /\ time \in Nat /\ wall \in Int
  BY DEF ClockInv, ClockTypes
<1>3. length \in Nat /\ length % ClockWord = length
  <2>1. length \in Nat
    BY <1>2, ClockConstants
  <2>2. length \in 0..(ClockWord - 1)
    BY <2>1, ClockConstants
  <2> HIDE DEF length
  <2> QED
    BY <2>1, <2>2, ClockConstants, Small
<1>4. /\ kernel = (began + wall + length) % Wide
      /\ user = ((((began + wall) - Epoch * Clock!Second) % Wide) + length) % Wide
  BY <1>3 DEF ClockInv, AlarmSet
<1>5. length < ClockWord
  OBVIOUS
<1>6. Epoch * Clock!Second \in Int /\ Wide \in Nat \ {0}
  BY ClockConstants
<1> DEFINE epoch == Epoch * Clock!Second
<1> HIDE DEF length, epoch
<1>7. /\ uptime \in 0..(MaxTime + ClockWord - 1) /\ end \in 0..(MaxTime + ClockWord - 1)
      /\ began + wall + length = end + wall
      /\ ((began + wall) - epoch) + length = (end + wall) - epoch
      /\ (began + wall) - epoch \in Int
  BY <1>2, <1>3, <1>5, <1>6, ClockConstants DEF epoch
<1>8. user = ((end + wall) - epoch) % Wide
  <2>1. ((((began + wall) - epoch) % Wide) + length) % Wide
          = (((began + wall) - epoch) + length) % Wide
    <3>1. /\ (began + wall) - epoch \in Int /\ length \in Int
          /\ Wide \in Nat \ {0}
      BY <1>3, <1>6, <1>7
    <3> QED
      BY <3>1, WrappedSum
  <2> QED
    BY <1>4, <1>7, <2>1 DEF epoch
<1>9. uptime - began >= length <=> uptime >= end
  BY <1>2, <1>3
<1> HIDE DEF end
<1>10. kernel = end + wall /\ user = end + e
  BY <1>1, <1>4, <1>7, <1>8 DEF epoch
<1>11. Clock!KernelNow = uptime + wall /\ Clock!UserNow = uptime + e
  BY <1>1, <1>2, <1>7, Microseconds
<1>12. end \in Int
  BY <1>7
<1>13. Clock!KernelTestAlarm(kernel) <=> uptime >= end
  BY <1>2, <1>10, <1>11, <1>12 DEF Clock!KernelTestAlarm
<1>14. Clock!UserTestAlarm(user) <=> uptime >= end
  BY <1>2, <1>10, <1>11, <1>12 DEF Clock!UserTestAlarm
<1> QED
  BY <1>9, <1>13, <1>14 DEF length

LEMMA KernelTimesAreRight ==
    ASSUME ClockInv, doing = "stamp", NEW e, e = uptime - began,
           NEW s, s = Clock!KernelSecs(kernel), NEW m, m = Clock!KernelMsecs(kernel)
    PROVE  /\ e \div Clock!Tick + 1 < ClockWord =>
                 /\ s * Clock!Second - Clock!Tick < e
                 /\ e < s * Clock!Second + Clock!Second
           /\ (e \div Clock!Tick + 1) * Kilo < ClockWord =>
                 /\ m * Kilo - Clock!Tick < e /\ e < m * Kilo + (Kilo + Clock!Tick)
<1> DEFINE d == (uptime \div Clock!Tick) - (began \div Clock!Tick)
<1>1. /\ d \in Nat /\ d <= e \div Clock!Tick + 1
      /\ d * Clock!Tick - Clock!Tick < e /\ e < d * Clock!Tick + Clock!Tick
      /\ d < ClockWord => (Clock!Jiffies - kernel) % ClockWord = d
  BY KernelElapsed
<1>2. /\ e \in Int /\ e \div Clock!Tick \in Int
      /\ Clock!Tick \in Nat \ {0} /\ Hz \in Nat \ {0} /\ Kilo \in Nat \ {0}
      /\ ClockWord \in Nat \ {0}
      /\ Clock!Second = Hz * Clock!Tick /\ Kilo * Kilo = Hz * Clock!Tick
  BY Ages, ClockConstants, Division
<1> HIDE DEF d
<1>3. ASSUME e \div Clock!Tick + 1 < ClockWord
      PROVE  s * Clock!Second - Clock!Tick < e /\ e < s * Clock!Second + Clock!Second
  <2>1. d < ClockWord
    BY <1>1, <1>2, <1>3
  <2>2. s = d \div Hz
    BY <1>1, <2>1 DEF Clock!KernelSecs
  <2> QED
    BY <1>1, <1>2, <2>2, SecondsOfTicks
<1>4. ASSUME (e \div Clock!Tick + 1) * Kilo < ClockWord
      PROVE  m * Kilo - Clock!Tick < e /\ e < m * Kilo + (Kilo + Clock!Tick)
  <2>1. d * Kilo <= (e \div Clock!Tick + 1) * Kilo
    <3>1. e \div Clock!Tick + 1 \in Int
      BY <1>2
    <3> QED
      BY <1>1, <1>2, <3>1, Cancel
  <2>2. d <= d * Kilo /\ d * Kilo \in Nat
    BY <1>1, <1>2
  <2>3. (e \div Clock!Tick + 1) * Kilo \in Int
    BY <1>2
  <2>4. d < ClockWord /\ d * Kilo \in 0..(ClockWord - 1)
    BY <1>1, <1>2, <1>4, <2>1, <2>2, <2>3
  <2>5. (d * Kilo) % ClockWord = d * Kilo
    BY <1>2, <2>4, Small
  <2>6. m = (d * Kilo) \div Hz
    BY <1>1, <2>4, <2>5 DEF Clock!KernelMsecs
  <2> QED
    BY <1>1, <1>2, <2>6, MillisecondsOfTicks
<1> QED
  BY <1>3, <1>4

LEMMA UserTimesAreRight ==
    ASSUME ClockInv, doing = "stamp", ~set, NEW e, e = uptime - began,
           NEW s, s = Clock!UserSecs(user), NEW m, m = Clock!UserMsecs(user)
    PROVE  /\ e \div Clock!Second + 1 < ClockWord =>
                 /\ s * Clock!Second - Clock!Second < e
                 /\ e < s * Clock!Second + Clock!Second
           /\ (e \div Clock!Second + 1) * Kilo < ClockWord =>
                 m * Kilo - Clock!Second < e /\ e < m * Kilo + Clock!Second
<1> DEFINE d == Clock!TvSec - user
<1>1. /\ d \in Nat /\ d <= e \div Clock!Second + 1
      /\ d * Clock!Second - Clock!Second < e /\ e < d * Clock!Second + Clock!Second
  BY UserElapsed
<1>2. /\ e \in Int /\ e \div Clock!Second \in Int
      /\ Clock!Second \in Nat \ {0} /\ Kilo \in Nat \ {0}
      /\ ClockWord \in Nat \ {0} /\ Clock!Second = Kilo * Kilo
  BY Ages, ClockConstants, Division
<1>3. s = d % ClockWord /\ m = (d * Kilo) % ClockWord
  BY DEF Clock!UserSecs, Clock!UserMsecs
<1> HIDE DEF d
<1>4. ASSUME e \div Clock!Second + 1 < ClockWord
      PROVE  s * Clock!Second - Clock!Second < e /\ e < s * Clock!Second + Clock!Second
  <2>1. d \in 0..(ClockWord - 1)
    BY <1>1, <1>2, <1>4
  <2>2. s = d
    BY <1>2, <1>3, <2>1, Small
  <2> QED
    BY <1>1, <2>2
<1>5. ASSUME (e \div Clock!Second + 1) * Kilo < ClockWord
      PROVE  m * Kilo - Clock!Second < e /\ e < m * Kilo + Clock!Second
  <2>1. d * Kilo <= (e \div Clock!Second + 1) * Kilo
    <3>1. e \div Clock!Second + 1 \in Int
      BY <1>2
    <3> QED
      BY <1>1, <1>2, <3>1, Cancel
  <2>2. d * Kilo \in Nat /\ (e \div Clock!Second + 1) * Kilo \in Int
    BY <1>1, <1>2
  <2>3. d * Kilo \in 0..(ClockWord - 1)
    BY <1>2, <1>5, <2>1, <2>2
  <2>4. m = d * Kilo
    BY <1>2, <1>3, <2>3, Small
  <2>5. (d * Kilo) * Kilo = d * Clock!Second
    BY <1>1, <1>2, Regroup
  <2> QED
    BY <1>1, <2>4, <2>5
<1> QED
  BY <1>4, <1>5

LEMMA ClockKeepsTime == Spec => []ClockInv
<1>1. ClockInv /\ [Next]_vars => ClockInv'
  <2> SUFFICES ASSUME ClockInv, [Next]_vars PROVE ClockInv'
    OBVIOUS
  <2>1. Clock!Next \/ UNCHANGED clockVars
    BY DEF Next, vars, PciUserFrame, PciKernelFrame, ConfigFrame, ListFrame, MemmapFrame,
           ClockFrame, TraceFrame
  <2> QED
    BY <2>1, ClockStep, ClockStutters
<1> QED
  BY <1>1, ClockStarts, PTL DEF Spec

(* Elapsed times of linux_kernel/include/os/osal_clock.h and linux_user/src/osal_clock.c,
   across every wrap of the ticks, and the alarms of both os/osal_sched.h are right; and
   a sleep that no signal ends is due neither early nor late: in user space after the
   microseconds of linux_user/include/os/osal_sched.h, in the kernel within two ticks
   after the milliseconds of linux_kernel/include/os/osal_sched.h.  So for words,
   seconds and ticks of every size. *)
THEOREM TimesAreKept == Spec => []TimesAreRight
<1>1. ClockInv => TimesAreRight
  <2> SUFFICES ASSUME ClockInv PROVE TimesAreRight
    OBVIOUS
  <2>1. Clock!ElapsedIsRight
    BY KernelTimesAreRight, UserTimesAreRight DEF Clock!ElapsedIsRight
  <2>2. Clock!AlarmsAreOnTime
    BY AlarmIsOver DEF Clock!AlarmsAreOnTime
  <2>3. Clock!SleepsAreOnTime
    BY DEF ClockInv
  <2> QED
    BY <2>1, <2>2, <2>3 DEF TimesAreRight
<1> QED
  BY <1>1, ClockKeepsTime, PTL

-----------------------------------------------------------------------------
(* The frames of physical memory. *)
Frames == Word \div Page

(* The mappings, their pages and the frame that the first of them leads to. *)
Real == {r \in regions : r.pages > 0}
FirstPage(r) == r.virt \div Page
PagesAt(r) == FirstPage(r)..(FirstPage(r) + r.pages - 1)
Frame(r) == ((Memmap!PgAligned(r.base) + r.shift) % Word) \div Page

RegionShapes ==
    \A r \in regions :
        /\ r.base \in Bases /\ r.size \in Sizes /\ r.pages \in Nat
        /\ r.shift \in Nat /\ r.shift % Page = 0
        /\ r.virt \in Nat /\ r.virt % Page = Memmap!Offset(r.base)
        /\ r.pages > 0 => r.pages = Memmap!Pages(r.size + Memmap!Offset(r.base))

(* Only the kernel returns what is not a mapping. *)
OnlyKernelFails == \A r \in regions : r.pages = 0 => where = "kernel"

(* The pages of a mapping lead to consecutive frames, no page has two mappings, and
   what is mapped is a mapping's. *)
Entered ==
    \A r \in Real : \A p \in PagesAt(r) :
        p \in Memmap!Places /\ table[p] = (Frame(r) + (p - FirstPage(r))) % Frames

PagesApart == \A r, s \in Real : r # s => PagesAt(r) \cap PagesAt(s) = {}

Covered ==
    \A p \in Memmap!Places :
        table[p] # Memmap!Unmapped => \E r \in Real : p \in PagesAt(r)

TableTypes ==
    /\ cards \subseteq DOMAIN BarOf
    /\ table = [p \in Memmap!Places |-> table[p]]

MapInv ==
    RegionShapes /\ OnlyKernelFails /\ Entered /\ PagesApart /\ Covered /\ TableTypes

-----------------------------------------------------------------------------
LEMMA PageConstants ==
    /\ Page \in Nat \ {0} /\ Word \in Nat \ {0} /\ Frames \in Nat \ {0}
    /\ Word = Frames * Page /\ Page <= Word \div 2 /\ (Word \div 2) * 2 = Word
    /\ \A b \in Bases : b \in 0..(Word - 1)
    /\ \A size \in Sizes : size \in Nat \ {0}
<1>1. Page \in Nat \ {0} /\ Word \in Nat \ {0} /\ Word % (2 * Page) = 0
  BY PageAssumption
<1> DEFINE k == Word \div (2 * Page)
<1>2. k \in Int /\ Word = k * (2 * Page)
  <2>1. 2 * Page \in Nat \ {0}
    BY <1>1
  <2> HIDE DEF k
  <2>2. Word \div (2 * Page) \in Int
        /\ Word = (Word \div (2 * Page)) * (2 * Page) + (Word % (2 * Page))
    <3>1. \A b \in Nat \ {0} : Word \div b \in Int /\ Word = (Word \div b) * b + (Word % b)
      BY <1>1, Division
    <3> QED
      BY <2>1, <3>1, Zenon
  <2>3. k \in Int /\ Word = k * (2 * Page) + 0
    BY <1>1, <2>2 DEF k
  <2>4. k * (2 * Page) \in Int
    BY <1>1, <2>3
  <2> QED
    BY <2>3, <2>4
<1> HIDE DEF k
<1>3. k > 0
  <2>1. 0 * (2 * Page) < k * (2 * Page) /\ 2 * Page \in Nat \ {0}
    BY <1>1, <1>2
  <2> QED
    BY <1>2, <2>1, Cancel
<1>4. k * (2 * Page) = (2 * k) * Page + 0 /\ k * (2 * Page) = (k * Page) * 2 + 0
  BY <1>1, <1>2
<1>5. Frames = 2 * k
  <2>1. 2 * k \in Int /\ 0 \in 0..(Page - 1)
    BY <1>1, <1>2
  <2> QED
    BY <1>1, <1>2, <1>4, <2>1, Quotient DEF Frames
<1>6. Word \div 2 = k * Page
  <2>1. k * Page \in Int /\ 0 \in 0..(2 - 1) /\ 2 \in Nat \ {0}
    BY <1>1, <1>2
  <2> QED
    BY <1>2, <1>4, <2>1, Quotient
<1>7. Page <= k * Page /\ k * Page \in Int
  BY <1>1, <1>2, <1>3
<1>8. Word = Frames * Page /\ (Word \div 2) * 2 = Word
  <2>1. (2 * k) * Page + 0 = (2 * k) * Page /\ (k * Page) * 2 + 0 = (k * Page) * 2
    BY <1>1, <1>2
  <2> QED
    BY <1>2, <1>4, <1>5, <1>6, <2>1
<1>9. /\ \A b \in Bases : b \in 0..(Word - 1)
      /\ \A size \in Sizes : size \in Nat \ {0}
  BY <1>1, PageAssumption
<1>10. Frames \in Nat \ {0}
  BY <1>2, <1>3, <1>5
<1> QED
  BY <1>1, <1>6, <1>7, <1>8, <1>9, <1>10

(* An address is its page and its offset. *)
LEMMA Addresses ==
    ASSUME NEW v \in Int
    PROVE  /\ v \div Page \in Int /\ v % Page \in 0..(Page - 1)
           /\ v = (v \div Page) * Page + (v % Page)
           /\ Memmap!PgAligned(v) = (v \div Page) * Page
           /\ Memmap!PgAligned(v) \in Int
           /\ Memmap!Offset(v) = v % Page
<1>1. /\ v \div Page \in Int /\ v % Page \in 0..(Page - 1)
      /\ v = (v \div Page) * Page + (v % Page) /\ Page \in Nat \ {0}
  BY PageConstants, Division
<1>2. (v \div Page) * Page \in Int
  BY <1>1
<1>3. Memmap!PgAligned(v) = (v \div Page) * Page
  BY DEF Memmap!PgAligned
<1> QED
  BY <1>1, <1>2, <1>3 DEF Memmap!Offset

(* An int has the width of an unsigned long: nothing is lost. *)
LEMMA IntIsWide ==
    ASSUME NEW x \in 0..(Word - 1)
    PROVE  /\ Memmap!ToInt(x) \in Int
           /\ Memmap!ToUnsigned(Memmap!ToInt(x)) = x
           /\ \A v \in x..(Word - 1) : (v - Memmap!ToInt(x)) % Word = v - x
<1>1. Word \in Nat \ {0} /\ Word \div 2 \in Int
  BY PageConstants
<1>2. CASE x < Word \div 2
  <2>1. Memmap!ToInt(x) = x
    BY <1>2 DEF Memmap!ToInt
  <2>2. x % Word = x
    BY <1>1, Small
  <2>3. ASSUME NEW v \in x..(Word - 1) PROVE (v - x) % Word = v - x
    <3>1. v - x \in 0..(Word - 1)
      BY <1>1
    <3> QED
      BY <1>1, <3>1, Small
  <2> QED
    BY <2>1, <2>2, <2>3 DEF Memmap!ToUnsigned
<1>3. CASE ~(x < Word \div 2)
  <2>1. Memmap!ToInt(x) = x - Word
    BY <1>3 DEF Memmap!ToInt
  <2>2. (x - Word) % Word = x
    <3>1. x - Word = (-1) * Word + x /\ -1 \in Int
      BY <1>1
    <3> QED
      BY <1>1, <3>1, Quotient
  <2>3. ASSUME NEW v \in x..(Word - 1) PROVE (v - (x - Word)) % Word = v - x
    <3>1. /\ v - x \in 0..(Word - 1) /\ v - (x - Word) = 1 * Word + (v - x)
          /\ 1 \in Int
      BY <1>1
    <3> QED
      BY <1>1, <3>1, Quotient
  <2>4. x - Word \in Int
    BY <1>1
  <2> QED
    BY <2>1, <2>2, <2>3, <2>4 DEF Memmap!ToUnsigned
<1> QED
  BY <1>2, <1>3

(* User space takes an address apart with ints, and rightly. *)
LEMMA AddressApart ==
    ASSUME NEW v \in 0..(Word - 1)
    PROVE  LET aligned == Memmap!ToInt(Memmap!PgAligned(v))
           IN  /\ Memmap!ToUnsigned(aligned) \div Page = v \div Page
               /\ Memmap!ToInt((v - aligned) % Word) = Memmap!Offset(v)
<1> DEFINE x == Memmap!PgAligned(v)
<1>1. /\ v \div Page \in Int /\ v % Page \in 0..(Page - 1)
      /\ v = (v \div Page) * Page + (v % Page)
      /\ x = (v \div Page) * Page /\ x \in Int /\ Memmap!Offset(v) = v % Page
  BY Addresses
<1>2. /\ Page \in Nat \ {0} /\ Word \in Nat \ {0} /\ Page <= Word \div 2 /\ Word \div 2 \in Int
  BY PageConstants
<1>3. x \div Page = v \div Page
  <2>1. (v \div Page) * Page + 0 = x /\ 0 \in 0..(Page - 1)
    BY <1>1, <1>2
  <2> QED
    BY <1>1, <1>2, <2>1, Quotient
<1>4. x \in 0..(Word - 1) /\ v \in x..(Word - 1) /\ v - x = v % Page
  <2>1. v \div Page >= 0
    <3>1. (0 - 1) * Page < (v \div Page) * Page /\ 0 - 1 \in Int
      BY <1>1, <1>2
    <3>2. 0 - 1 < v \div Page
      BY <1>1, <1>2, <3>1, Cancel
    <3> QED
      BY <1>1, <3>2
  <2>2. x >= 0
    BY <1>1, <1>2, <2>1
  <2> HIDE DEF x
  <2> QED
    BY <1>1, <1>2, <2>2
<1> HIDE DEF x
<1>5. /\ Memmap!ToUnsigned(Memmap!ToInt(x)) = x
      /\ (v - Memmap!ToInt(x)) % Word = v % Page
  BY <1>4, IntIsWide
<1>6. Memmap!ToInt(v % Page) = v % Page
  BY <1>1, <1>2 DEF Memmap!ToInt
<1> QED
  BY <1>1, <1>3, <1>5, <1>6 DEF x

(* The remainder of an address is that of its page, at the same offset. *)
LEMMA PageRemainder ==
    ASSUME NEW page \in Nat \ {0}, NEW frames \in Nat \ {0}, NEW x \in Int,
           NEW r \in 0..(page - 1)
    PROVE  (x * page + r) % (frames * page) = (x % frames) * page + r
<1> DEFINE k == x \div frames
           y == x % frames
           word == frames * page
<1>1. k \in Int /\ y \in 0..(frames - 1) /\ x = k * frames + y
  BY Division
<1> HIDE DEF k, y
<1>2. word \in Nat \ {0}
  OBVIOUS
<1>3. y * page + r \in 0..(word - 1)
  <2>1. (y + 1) * page <= frames * page /\ y * page \in Nat
    <3>1. y + 1 \in Int /\ y + 1 <= frames /\ y \in Nat
      BY <1>1
    <3> QED
      BY <3>1, Cancel
  <2>2. (y + 1) * page = y * page + page
    BY <1>1
  <2>3. y * page + page <= word
    BY <2>1, <2>2
  <2> HIDE DEF word
  <2> QED
    BY <1>2, <2>1, <2>3
<1>4. x * page + r = k * word + (y * page + r)
  <2>1. (k * frames) * page = k * word
    BY <1>1, Regroup
  <2>2. (k * frames + y) * page = (k * frames) * page + y * page
    BY <1>1
  <2>3. (k * frames) * page \in Int /\ y * page \in Int
    BY <1>1
  <2>4. x * page + r = ((k * frames) * page + y * page) + r
    BY <1>1, <2>2
  <2>5. ((k * frames) * page + y * page) + r = (k * frames) * page + (y * page + r)
    BY <2>3
  <2> QED
    BY <2>1, <2>4, <2>5
<1> HIDE DEF word
<1>5. (x * page + r) % word = y * page + r
  BY <1>1, <1>2, <1>3, <1>4, Quotient
<1> QED
  BY <1>5 DEF word, y

(* The length of a mapping, in pages, and the page of its last byte. *)
LEMMA PagesOfLength ==
    ASSUME NEW page \in Nat \ {0}, NEW a \in Int, NEW offset \in 0..(page - 1),
           NEW size \in Nat \ {0},
           NEW count, count = (size + offset + page - 1) \div page
    PROVE  /\ count \in Nat \ {0}
           /\ (a * page + offset + size - 1) \div page = a + count - 1
           /\ \A i \in 0..(size - 1) : (offset + i) \div page \in 0..(count - 1)
<1> DEFINE q == (offset + size - 1) \div page
           r == (offset + size - 1) % page
<1>1. q \in Int /\ r \in 0..(page - 1) /\ offset + size - 1 = q * page + r
  <2>1. offset + size - 1 \in Int
    OBVIOUS
  <2> QED
    BY <2>1, Division
<1> HIDE DEF q, r
<1>2. size + offset + page - 1 = (q + 1) * page + r
  <2>1. (q + 1) * page = q * page + page /\ q * page \in Int
    BY <1>1
  <2> QED
    BY <1>1, <2>1
<1>3. count = q + 1
  <2>1. q + 1 \in Int
    BY <1>1
  <2> QED
    BY <1>1, <1>2, <2>1, Quotient
<1>4. q >= 0
  <2>1. (0 - 1) * page < q * page
    <3>1. q * page \in Int
      BY <1>1
    <3> QED
      BY <1>1, <3>1
  <2>2. 0 - 1 < q
    BY <1>1, <2>1, Cancel
  <2> QED
    BY <1>1, <2>2
<1>5. a * page + offset + size - 1 = (a + q) * page + r
  <2>1. (a + q) * page = a * page + q * page /\ a * page \in Int /\ q * page \in Int
    BY <1>1
  <2> QED
    BY <1>1, <2>1
<1>6. (a * page + offset + size - 1) \div page = a + q
  <2>1. a + q \in Int
    BY <1>1
  <2> QED
    BY <1>1, <1>5, <2>1, Quotient
<1>7. ASSUME NEW i \in 0..(size - 1) PROVE (offset + i) \div page \in 0..q
  <2> DEFINE p == (offset + i) \div page
             s == (offset + i) % page
  <2>1. p \in Int /\ s \in 0..(page - 1) /\ offset + i = p * page + s
    <3>1. offset + i \in Int
      OBVIOUS
    <3> QED
      BY <3>1, Division
  <2> HIDE DEF p, s
  <2>2. p * page \in Int /\ q * page \in Int /\ (q + 1) * page = q * page + page
    BY <1>1, <2>1
  <2>3. (0 - 1) * page < p * page /\ p * page < (q + 1) * page
    BY <1>1, <2>1, <2>2
  <2>4. 0 - 1 < p /\ p < q + 1
    <3>1. q + 1 \in Int
      BY <1>1
    <3> QED
      BY <2>1, <2>3, <3>1, Cancel
  <2>5. p \in 0..q
    BY <1>1, <2>1, <2>4
  <2> QED
    BY <2>5 DEF p
<1> QED
  BY <1>1, <1>3, <1>4, <1>6, <1>7

LEMMA MapStarts == Init => MapInv
<1> SUFFICES ASSUME Init PROVE MapInv
  OBVIOUS
<1>1. /\ regions = {} /\ cards \in {{}, {"rambo", "host"}, {"hdmi"}}
      /\ table = [p \in Memmap!Places |-> Memmap!Unmapped]
  BY DEF Init, Memmap!Init
<1>2. cards \subseteq DOMAIN BarOf
  BY <1>1, PageAssumption
<1>3. table = [p \in Memmap!Places |-> table[p]]
  BY <1>1
<1>4. Covered
  BY <1>1 DEF Covered
<1>5. RegionShapes /\ OnlyKernelFails /\ Entered /\ PagesApart
  BY <1>1 DEF RegionShapes, OnlyKernelFails, Entered, PagesApart, Real
<1> QED
  BY <1>2, <1>3, <1>4, <1>5 DEF MapInv, TableTypes

LEMMA MapStutters ==
    ASSUME MapInv, UNCHANGED mapVars
    PROVE  MapInv'
BY DEF MapInv, RegionShapes, OnlyKernelFails, Entered, PagesApart, Covered, TableTypes, Real,
       mapVars

(* The pages of a mapping are mapped. *)
LEMMA MappedPages ==
    ASSUME MapInv
    PROVE  \A r \in Real : \A p \in PagesAt(r) : table[p] # Memmap!Unmapped
<1> SUFFICES ASSUME NEW r \in Real, NEW p \in PagesAt(r) PROVE table[p] # Memmap!Unmapped
  OBVIOUS
<1>1. Frame(r) + (p - FirstPage(r)) \in Int
  <2>1. r.base \in Int /\ r.shift \in Int /\ r.virt \in Int
    BY PageConstants DEF MapInv, RegionShapes, Real
  <2>2. Memmap!PgAligned(r.base) + r.shift \in Int /\ FirstPage(r) \in Int
    BY <2>1, Addresses DEF FirstPage
  <2>3. (Memmap!PgAligned(r.base) + r.shift) % Word \in Int
    BY <2>2, PageConstants, Division
  <2>4. Frame(r) \in Int
    BY <2>3, PageConstants, Division DEF Frame
  <2>5. p \in Int
    BY <2>2 DEF PagesAt
  <2> QED
    BY <2>2, <2>4, <2>5
<1> DEFINE x == (Frame(r) + (p - FirstPage(r))) % Frames
<1>2. x \in 0..(Frames - 1)
  BY <1>1, PageConstants, Division
<1>3. table[p] = x
  BY DEF MapInv, Entered
<1> HIDE DEF x
<1>4. x # -1
  BY <1>2, PageConstants
<1> QED
  BY <1>3, <1>4 DEF Memmap!Unmapped

(* Where pages that are not mapped are entered for a new mapping. *)
LEMMA RegionIsEntered ==
    ASSUME MapInv, NEW new, regions' = regions \cup {new}, new.pages > 0, new.pages \in Nat,
           \A p \in PagesAt(new) : p \in Memmap!Places /\ table[p] = Memmap!Unmapped,
           table' = [p \in Memmap!Places |->
                        IF p \in PagesAt(new) THEN (Frame(new) + (p - FirstPage(new))) % Frames
                        ELSE table[p]]
    PROVE  Entered' /\ PagesApart' /\ Covered'
<1> DEFINE F(r, p) == (Frame(r) + (p - FirstPage(r))) % Frames
<1>1. Real' = Real \cup {new}
  BY DEF Real
<1>2. \A p \in Memmap!Places : table'[p] = IF p \in PagesAt(new) THEN F(new, p) ELSE table[p]
  OBVIOUS
<1>3. \A r \in Real : \A p \in PagesAt(r) : p \in Memmap!Places /\ table[p] = F(r, p)
  BY DEF MapInv, Entered
<1>4. \A r \in Real : \A p \in PagesAt(r) : table[p] # Memmap!Unmapped
  BY MappedPages
<1>5. \A r \in Real : PagesAt(r) \cap PagesAt(new) = {}
  BY <1>4
<1> HIDE DEF F
<1>6. Entered'
  <2>1. \A r \in Real \cup {new} : \A p \in PagesAt(r) :
           p \in Memmap!Places /\ table'[p] = F(r, p)
    BY <1>2, <1>3, <1>5
  <2> QED
    BY <1>1, <2>1 DEF Entered, F
<1>7. PagesApart'
  <2>1. \A r, s \in Real \cup {new} : r # s => PagesAt(r) \cap PagesAt(s) = {}
    BY <1>5 DEF MapInv, PagesApart
  <2> QED
    BY <1>1, <2>1 DEF PagesApart
<1>8. Covered'
  <2>1. \A p \in Memmap!Places :
           table'[p] # Memmap!Unmapped => \E r \in Real \cup {new} : p \in PagesAt(r)
    BY <1>2 DEF MapInv, Covered
  <2> QED
    BY <1>1, <2>1 DEF Covered
<1> QED
  BY <1>6, <1>7, <1>8

(* What ioremap or mmap does, for a base that is shifted by whole pages. *)
LEMMA MapStep ==
    ASSUME MapInv, NEW base \in Bases, NEW size \in Sizes, NEW shift \in Nat,
           shift % Page = 0, Memmap!Map(base, size, shift), UNCHANGED <<where, cards>>
    PROVE  MapInv'
<1> DEFINE offset == Memmap!Offset(base)
           count == Memmap!Pages(size + offset)
<1>1. PICK place \in Memmap!Places :
          /\ Memmap!Fits(place, count)
          /\ Memmap!Enter(place, ((Memmap!PgAligned(base) + shift) % Word) \div Page, count)
          /\ regions' = regions \cup
                 {Memmap!Region(place * Page + offset, base, size, shift, count)}
  BY DEF Memmap!Map
<1> DEFINE new == Memmap!Region(place * Page + offset, base, size, shift, count)
<1>2. /\ base \in Int /\ size \in Nat \ {0} /\ Page \in Nat \ {0} /\ place \in Nat
      /\ offset \in 0..(Page - 1)
  <2>1. base \in Int /\ size \in Nat \ {0} /\ Page \in Nat \ {0}
    BY PageConstants
  <2>2. place \in Nat
    <3>1. Frames \in Nat /\ place \in 1..(Frames - 1)
      BY PageConstants DEF Memmap!Places, Frames
    <3> QED
      BY <3>1
  <2>3. offset \in 0..(Page - 1)
    BY <2>1, Addresses
  <2> QED
    BY <2>1, <2>2, <2>3
<1>3. count \in Nat \ {0}
  <2> HIDE DEF offset
  <2> QED
    BY <1>2, PagesOfLength DEF Memmap!Pages
<1>4. /\ new.virt = place * Page + offset /\ new.base = base /\ new.size = size
      /\ new.shift = shift /\ new.pages = count
  BY DEF Memmap!Region
<1> HIDE DEF new, offset, count
<1>5. new.virt \in Nat /\ new.virt % Page = offset /\ new.virt \div Page = place
  <2>1. place * Page + offset \in Nat
    <3>1. place * Page \in Nat
      BY <1>2
    <3> QED
      BY <1>2, <3>1
  <2>2. (place * Page + offset) % Page = offset /\ (place * Page + offset) \div Page = place
    BY <1>2, Quotient
  <2> QED
    BY <1>4, <2>1, <2>2
<1>6. PagesAt(new) = place..(place + count - 1) /\ FirstPage(new) = place
  BY <1>4, <1>5 DEF PagesAt, FirstPage
<1>7. regions' = regions \cup {new}
  BY <1>1 DEF new
<1>8. RegionShapes'
  <2>1. new.pages > 0 => new.pages = Memmap!Pages(new.size + Memmap!Offset(new.base))
    BY <1>4 DEF offset, count
  <2>2. new.virt % Page = Memmap!Offset(new.base)
    BY <1>4, <1>5 DEF offset
  <2>3. new.base \in Bases /\ new.size \in Sizes /\ new.pages \in Nat /\ new.shift \in Nat
        /\ new.shift % Page = 0 /\ new.virt \in Nat
    BY <1>3, <1>4, <1>5
  <2> QED
    BY <1>7, <2>1, <2>2, <2>3 DEF MapInv, RegionShapes
<1>9. OnlyKernelFails'
  <2>1. new.pages # 0
    BY <1>3, <1>4
  <2> QED
    BY <1>7, <2>1 DEF MapInv, OnlyKernelFails
<1>10. Entered' /\ PagesApart' /\ Covered'
  <2>1. \A p \in PagesAt(new) : p \in Memmap!Places /\ table[p] = Memmap!Unmapped
    BY <1>1, <1>6 DEF Memmap!Fits
  <2>2. Frame(new) = ((Memmap!PgAligned(base) + shift) % Word) \div Page
    BY <1>4 DEF Frame
  <2>3. table' = [p \in Memmap!Places |->
                    IF p \in PagesAt(new) THEN (Frame(new) + (p - FirstPage(new))) % Frames
                    ELSE table[p]]
    BY <1>1, <1>6, <2>2 DEF Memmap!Enter, Frames
  <2>4. new.pages > 0 /\ new.pages \in Nat
    BY <1>3, <1>4
  <2> QED
    BY <1>7, <2>1, <2>3, <2>4, RegionIsEntered
<1>11. TableTypes'
  <2>1. table' = [p \in Memmap!Places |-> table'[p]]
    BY <1>1 DEF Memmap!Enter
  <2> QED
    BY <2>1 DEF MapInv, TableTypes
<1> QED
  BY <1>8, <1>9, <1>10, <1>11 DEF MapInv

(* User space's cached mapping keeps its parts in ints, and is like the others. *)
LEMMA CacheIsMapped ==
    ASSUME NEW base \in Bases, NEW size \in Sizes, Memmap!OsMapIoToMemCache(base, size)
    PROVE  Memmap!Map(base, size, 0) \/ UNCHANGED <<table, regions>>
<1> DEFINE aligned == Memmap!ToInt(Memmap!PgAligned(base))
           offset == Memmap!ToInt((base - aligned) % Word)
           count == Memmap!Pages(size + offset)
<1>1. base \in 0..(Word - 1) /\ base \in Int /\ Page \in Nat \ {0} /\ Word \in Nat \ {0}
  BY PageConstants
<1>2. /\ Memmap!ToUnsigned(aligned) \div Page = base \div Page
      /\ offset = Memmap!Offset(base)
  BY <1>1, AddressApart
<1>3. ((Memmap!PgAligned(base) + 0) % Word) \div Page = base \div Page
  <2> DEFINE q == base \div Page
  <2>1. q \in Int /\ Memmap!PgAligned(base) = q * Page /\ base % Page \in 0..(Page - 1)
        /\ base = q * Page + (base % Page)
    BY <1>1, Addresses
  <2> HIDE DEF q
  <2>2. q * Page + 0 \in 0..(Word - 1)
    <3>1. q * Page \in Int /\ q * Page <= base
      BY <1>1, <2>1
    <3>2. (0 - 1) * Page < q * Page
      BY <1>1, <2>1, <3>1
    <3>3. 0 - 1 < q
      BY <1>1, <2>1, <3>2, Cancel
    <3>4. q * Page >= 0
      BY <1>1, <2>1, <3>3
    <3> QED
      BY <1>1, <3>1, <3>4
  <2>3. (q * Page + 0) % Word = q * Page + 0
    BY <1>1, <2>2, Small
  <2>4. (q * Page + 0) \div Page = q
    <3>1. 0 \in 0..(Page - 1)
      BY <1>1
    <3> QED
      BY <1>1, <2>1, <3>1, Quotient
  <2> QED
    BY <2>1, <2>3, <2>4 DEF q
<1>4. \/ \E place \in Memmap!Places :
             /\ Memmap!Fits(place, count)
             /\ Memmap!Enter(place, Memmap!ToUnsigned(aligned) \div Page, count)
             /\ regions' = regions \cup
                    {Memmap!Region(place * Page + offset, base, size, 0, count)}
      \/ UNCHANGED <<table, regions>>
  BY DEF Memmap!OsMapIoToMemCache
<1> HIDE DEF aligned, offset
<1> QED
  BY <1>2, <1>3, <1>4 DEF Memmap!Map

(* A shift is a bar's, and begins with a page. *)
LEMMA ShiftsArePages ==
    ASSUME MapInv, NEW base, NEW list, NEW shift \in Memmap!Shifts(base, Memmap!First(list))
    PROVE  shift \in Nat /\ shift % Page = 0
<1>1. CASE shift = 0
  <2>1. Page \in Nat \ {0} /\ 0 \in 0..(Page - 1)
    BY PageConstants
  <2> QED
    BY <1>1, <2>1, Small
<1>2. CASE shift # 0
  <2>1. PICK card \in Memmap!First(list) : shift = BarOf[card]
    BY <1>2 DEF Memmap!Shifts
  <2>2. card \in DOMAIN BarOf
    BY <2>1 DEF Memmap!First, MapInv, TableTypes
  <2>3. BarOf[card] \in 0..(Word - 1) /\ BarOf[card] % Page = 0
    BY <2>2, PageAssumption
  <2>4. Word \in Nat
    BY PageConstants
  <2> QED
    BY <2>1, <2>3, <2>4
<1> QED
  BY <1>1, <1>2

(* An ioremap that fails leaves a region without pages. *)
LEMMA FailureStep ==
    ASSUME MapInv, where = "kernel", NEW base \in Bases, NEW size \in Sizes,
           NEW shift \in Nat, shift % Page = 0,
           regions' = regions \cup
               (IF Memmap!Offset(base) = 0 THEN {}
                ELSE {Memmap!Region(Memmap!Offset(base), base, size, shift, 0)}),
           UNCHANGED <<where, cards, table>>
    PROVE  MapInv'
<1> DEFINE new == Memmap!Region(Memmap!Offset(base), base, size, shift, 0)
<1>1. /\ new.virt = Memmap!Offset(base) /\ new.base = base /\ new.size = size
      /\ new.shift = shift /\ new.pages = 0
  BY DEF Memmap!Region
<1> HIDE DEF new
<1>2. regions' \subseteq regions \cup {new} /\ regions \subseteq regions'
  BY DEF new
<1>3. ~(new.pages > 0)
  BY <1>1
<1>4. Real' = Real
  BY <1>2, <1>3 DEF Real
<1>5. RegionShapes'
  <2>1. /\ base \in Int /\ Page \in Nat \ {0}
        /\ Memmap!Offset(base) = base % Page /\ base % Page \in 0..(Page - 1)
    <3>1. base \in Int /\ Page \in Nat \ {0}
      BY PageConstants
    <3> QED
      BY <3>1, Addresses
  <2>2. (base % Page) % Page = base % Page
    BY <2>1, Small
  <2>3. new.virt \in Nat /\ new.virt % Page = Memmap!Offset(new.base)
    BY <1>1, <2>1, <2>2
  <2>4. new.base \in Bases /\ new.size \in Sizes /\ new.pages \in Nat /\ new.shift \in Nat
        /\ new.shift % Page = 0
    BY <1>1
  <2> QED
    BY <1>2, <1>3, <2>3, <2>4 DEF MapInv, RegionShapes
<1>6. OnlyKernelFails'
  BY DEF OnlyKernelFails
<1>7. Entered' /\ PagesApart' /\ Covered'
  BY <1>4 DEF MapInv, Entered, PagesApart, Covered
<1> QED
  BY <1>5, <1>6, <1>7 DEF MapInv, TableTypes

(* A region whose pages are cleared is gone. *)
LEMMA ClearStep ==
    ASSUME MapInv, NEW r \in regions, NEW P, Memmap!Clear(P), regions' = regions \ {r},
           r \in Real => P = PagesAt(r), r \notin Real => P = {},
           UNCHANGED <<where, cards>>
    PROVE  MapInv'
<1>1. Real' = Real \ {r}
  BY DEF Real
<1>2. /\ table' = [p \in Memmap!Places |-> IF p \in P THEN Memmap!Unmapped ELSE table[p]]
      /\ \A p \in Memmap!Places :
            table'[p] = IF p \in P THEN Memmap!Unmapped ELSE table[p]
  BY DEF Memmap!Clear
<1>3. \A s \in Real \ {r} : PagesAt(s) \cap P = {}
  BY DEF MapInv, PagesApart
<1>4. Entered'
  <2>1. \A s \in Real : \A p \in PagesAt(s) :
           p \in Memmap!Places /\ table[p] = (Frame(s) + (p - FirstPage(s))) % Frames
    BY DEF MapInv, Entered
  <2>2. \A s \in Real \ {r} : \A p \in PagesAt(s) :
           p \in Memmap!Places /\ table'[p] = (Frame(s) + (p - FirstPage(s))) % Frames
    BY <1>2, <1>3, <2>1
  <2> QED
    BY <1>1, <2>2 DEF Entered
<1>5. PagesApart'
  BY <1>1 DEF MapInv, PagesApart
<1>6. Covered'
  <2>1. \A p \in Memmap!Places :
           table'[p] # Memmap!Unmapped => p \notin P /\ table[p] # Memmap!Unmapped
    BY <1>2
  <2>2. \A p \in Memmap!Places :
           table'[p] # Memmap!Unmapped => \E s \in Real \ {r} : p \in PagesAt(s)
    BY <2>1 DEF MapInv, Covered
  <2> QED
    BY <1>1, <2>2 DEF Covered
<1>7. RegionShapes' /\ OnlyKernelFails'
  BY DEF MapInv, RegionShapes, OnlyKernelFails
<1>8. TableTypes'
  <2>1. table' = [p \in Memmap!Places |-> table'[p]]
    BY <1>2
  <2> QED
    BY <2>1 DEF MapInv, TableTypes
<1> QED
  BY <1>4, <1>5, <1>6, <1>7, <1>8 DEF MapInv

(* What is known of a region that is real. *)
LEMMA RealRegions ==
    ASSUME MapInv, NEW r \in Real
    PROVE  /\ r.base \in 0..(Word - 1) /\ r.size \in Nat \ {0} /\ r.shift \in Nat
           /\ r.shift % Page = 0 /\ Memmap!Offset(r.base) \in 0..(Page - 1)
           /\ FirstPage(r) \in 1..(Frames - 1)
           /\ r.virt = FirstPage(r) * Page + Memmap!Offset(r.base)
           /\ r.pages = (r.size + Memmap!Offset(r.base) + Page - 1) \div Page
           /\ r.pages \in Nat \ {0}
           /\ r.virt \in 0..(Word - 1) /\ Memmap!Offset(r.virt) = Memmap!Offset(r.base)
<1>1. /\ r.base \in Bases /\ r.size \in Sizes /\ r.pages \in Nat /\ r.pages > 0
      /\ r.shift \in Nat /\ r.shift % Page = 0
      /\ r.virt \in Nat /\ r.virt % Page = Memmap!Offset(r.base)
      /\ r.pages = Memmap!Pages(r.size + Memmap!Offset(r.base))
  BY DEF MapInv, RegionShapes, Real
<1>2. /\ Page \in Nat \ {0} /\ Word \in Nat \ {0} /\ Frames \in Nat \ {0}
      /\ Word = Frames * Page
      /\ r.base \in 0..(Word - 1) /\ r.size \in Nat \ {0}
  BY <1>1, PageConstants
<1>3. /\ Memmap!Offset(r.base) \in 0..(Page - 1)
      /\ r.virt = FirstPage(r) * Page + Memmap!Offset(r.base) /\ FirstPage(r) \in Int
      /\ Memmap!Offset(r.virt) = Memmap!Offset(r.base)
  <2> DEFINE v == r.virt
             b == r.base
  <2>1. v \in Int /\ b \in Int
    BY <1>1, <1>2
  <2> HIDE DEF v, b
  <2>2. /\ Memmap!Offset(b) = b % Page /\ b % Page \in 0..(Page - 1)
        /\ Memmap!Offset(v) = v % Page /\ v \div Page \in Int
        /\ v = (v \div Page) * Page + (v % Page)
    BY <2>1, Addresses
  <2>3. v % Page = Memmap!Offset(b)
    BY <1>1 DEF v, b
  <2> QED
    BY <2>2, <2>3 DEF v, b, FirstPage
<1>4. FirstPage(r) \in 1..(Frames - 1)
  <2>1. FirstPage(r) \in PagesAt(r)
    BY <1>1, <1>3 DEF PagesAt
  <2>2. FirstPage(r) \in Memmap!Places
    BY <2>1 DEF MapInv, Entered
  <2> QED
    BY <2>2 DEF Memmap!Places, Frames
<1>5. r.virt < Word
  <2>1. (FirstPage(r) + 1) * Page <= Frames * Page
    <3>1. FirstPage(r) + 1 \in Int /\ FirstPage(r) + 1 <= Frames
      BY <1>2, <1>4
    <3> QED
      BY <1>2, <3>1, Cancel
  <2>2. (FirstPage(r) + 1) * Page = FirstPage(r) * Page + Page /\ FirstPage(r) * Page \in Int
    BY <1>2, <1>3
  <2> QED
    BY <1>2, <1>3, <2>1, <2>2
<1>6. r.virt \in 0..(Word - 1)
  BY <1>1, <1>2, <1>5
<1>7. r.pages = (r.size + Memmap!Offset(r.base) + Page - 1) \div Page
  BY <1>1 DEF Memmap!Pages
<1> QED
  BY <1>1, <1>2, <1>3, <1>4, <1>6, <1>7

LEMMA UserUnmapStep ==
    ASSUME MapInv, NEW r \in regions, Memmap!OsUnmapIoFromMem(r), UNCHANGED <<where, cards>>
    PROVE  MapInv'
<1>1. r.pages # 0 /\ r.pages \in Nat
  BY DEF MapInv, OnlyKernelFails, RegionShapes, Memmap!OsUnmapIoFromMem
<1>2. r \in Real
  BY <1>1 DEF Real
<1> DEFINE aligned == Memmap!ToInt(Memmap!PgAligned(r.virt))
           offset == Memmap!ToInt((r.virt - aligned) % Word)
           P == (Memmap!ToUnsigned(aligned) \div Page)
                  ..(Memmap!ToUnsigned(aligned) \div Page + Memmap!Pages(r.size + offset) - 1)
<1>3. Memmap!Clear(P) /\ regions' = regions \ {r}
  BY DEF Memmap!OsUnmapIoFromMem
<1>4. /\ Memmap!ToUnsigned(aligned) \div Page = FirstPage(r)
      /\ offset = Memmap!Offset(r.base)
  <2>1. r.virt \in 0..(Word - 1) /\ Memmap!Offset(r.virt) = Memmap!Offset(r.base)
    BY <1>2, RealRegions
  <2> QED
    BY <2>1, AddressApart DEF FirstPage
<1> HIDE DEF aligned, offset
<1>5. P = PagesAt(r)
  <2>1. r.pages = Memmap!Pages(r.size + offset)
    BY <1>2, <1>4, RealRegions DEF Memmap!Pages
  <2> QED
    BY <1>4, <2>1 DEF PagesAt
<1> HIDE DEF P
<1> QED
  BY <1>2, <1>3, <1>5, ClearStep

LEMMA KernelUnmapStep ==
    ASSUME MapInv, NEW r \in regions, Memmap!KernelUnmap(r), UNCHANGED <<where, cards>>
    PROVE  MapInv'
<1>1. /\ Memmap!Clear((r.virt \div Page)..(r.virt \div Page + r.pages - 1))
      /\ regions' = regions \ {r}
  BY DEF Memmap!KernelUnmap
<1>2. (r.virt \div Page)..(r.virt \div Page + r.pages - 1) = PagesAt(r)
  BY DEF PagesAt, FirstPage
<1>3. r \notin Real => PagesAt(r) = {}
  <2>1. r.pages \in Nat /\ r.virt \in Int
    BY DEF MapInv, RegionShapes
  <2>2. FirstPage(r) \in Int
    BY <2>1, Addresses DEF FirstPage
  <2> QED
    BY <2>1, <2>2 DEF Real, PagesAt
<1> QED
  BY <1>1, <1>2, <1>3, ClearStep

LEMMA MemmapStep ==
    ASSUME MapInv, Memmap!Next
    PROVE  MapInv'
<1>1. UNCHANGED <<where, cards>>
  BY DEF Memmap!Next
<1>2. ASSUME UNCHANGED <<table, regions>> PROVE MapInv'
  BY <1>1, <1>2
  DEF MapInv, RegionShapes, OnlyKernelFails, Entered, PagesApart, Covered, TableTypes, Real
<1>3. ASSUME NEW base \in Bases, NEW size \in Sizes, Memmap!OsMapIoToMemCache(base, size)
      PROVE  MapInv'
  <2>1. 0 \in Nat /\ 0 % Page = 0
    <3>1. Page \in Nat \ {0} /\ 0 \in 0..(Page - 1)
      BY PageConstants
    <3> QED
      BY <3>1, Small
  <2> QED
    BY <1>1, <1>2, <1>3, <2>1, CacheIsMapped, MapStep
<1>4. ASSUME NEW base \in Bases, NEW size \in Sizes, Memmap!OsMapIoToMemNocache(base, size)
      PROVE  MapInv'
  <2>1. CASE UNCHANGED <<table, regions>>
    BY <1>2, <2>1
  <2>2. CASE \E shift \in Memmap!Shifts(base, Memmap!UserCard) : Memmap!Map(base, size, shift)
    <3>1. PICK shift \in Memmap!Shifts(base, Memmap!UserCard) : Memmap!Map(base, size, shift)
      BY <2>2
    <3>2. shift \in Nat /\ shift % Page = 0
      BY ShiftsArePages DEF Memmap!UserCard
    <3> QED
      BY <1>1, <3>1, <3>2, MapStep
  <2> QED
    BY <1>4, <2>1, <2>2 DEF Memmap!OsMapIoToMemNocache
<1>5. ASSUME NEW base \in Bases, NEW size \in Sizes, Memmap!KernelMapNocache(base, size)
      PROVE  MapInv'
  <2>1. PICK shift \in Memmap!Shifts(base, Memmap!KernelCard) :
            \/ Memmap!Map(base, size, shift)
            \/ /\ regions' = regions \cup
                     (IF Memmap!Offset(base) = 0 THEN {}
                      ELSE {Memmap!Region(Memmap!Offset(base), base, size, shift, 0)})
               /\ UNCHANGED table
    BY <1>5 DEF Memmap!KernelMapNocache
  <2>2. shift \in Nat /\ shift % Page = 0
    BY ShiftsArePages DEF Memmap!KernelCard
  <2>3. where = "kernel"
    BY <1>5 DEF Memmap!KernelMapNocache
  <2> QED
    BY <1>1, <2>1, <2>2, <2>3, MapStep, FailureStep
<1>6. ASSUME NEW r \in regions, Memmap!OsUnmapIoFromMem(r) \/ Memmap!KernelUnmap(r)
      PROVE  MapInv'
  BY <1>1, <1>6, UserUnmapStep, KernelUnmapStep
<1> QED
  BY <1>3, <1>4, <1>5, <1>6 DEF Memmap!Next

-----------------------------------------------------------------------------
(* The bytes of a region are on its pages. *)
LEMMA PagesOfRegion ==
    ASSUME MapInv, NEW r \in Real
    PROVE  /\ (r.virt \div Page)..((r.virt + r.size - 1) \div Page) = PagesAt(r)
           /\ PagesAt(r) \subseteq Memmap!Places
<1> DEFINE a == FirstPage(r)
           offset == Memmap!Offset(r.base)
           size == r.size
           v == r.virt
<1>1. /\ size \in Nat \ {0} /\ offset \in 0..(Page - 1) /\ a \in Int
      /\ v = a * Page + offset
      /\ r.pages = (size + offset + Page - 1) \div Page
  BY RealRegions, PageConstants
<1>2. Page \in Nat \ {0}
  BY PageConstants
<1>3. a = v \div Page
  BY DEF FirstPage
<1> HIDE DEF a, offset, size, v
<1>4. (a * Page + offset + size - 1) \div Page = a + r.pages - 1
  BY <1>1, <1>2, PagesOfLength
<1>5. v + size - 1 = a * Page + offset + size - 1
  <2>1. a * Page \in Int
    BY <1>1, <1>2
  <2> QED
    BY <1>1, <1>2, <2>1
<1>6. (v \div Page)..((v + size - 1) \div Page) = PagesAt(r)
  <2>1. (v \div Page)..((v + size - 1) \div Page) = a..(a + r.pages - 1)
    BY <1>3, <1>4, <1>5
  <2> QED
    BY <2>1 DEF PagesAt, a
<1> QED
  BY <1>6 DEF MapInv, Entered, v, size

LEMMA BytesAreRight ==
    ASSUME MapInv, NEW r \in Real, NEW i \in 0..(r.size - 1)
    PROVE  (table[(r.virt + i) \div Page] * Page) + ((r.virt + i) % Page)
              = (r.base + r.shift + i) % Word
<1> DEFINE a == FirstPage(r)
           offset == Memmap!Offset(r.base)
           size == r.size
           v == r.virt
           b == r.base
           k == r.shift
<1>1. /\ size \in Nat \ {0} /\ offset \in 0..(Page - 1) /\ a \in Int
      /\ v = a * Page + offset /\ b \in Int /\ k \in Int /\ k % Page = 0 /\ i \in Int
      /\ r.pages = (size + offset + Page - 1) \div Page
      /\ Page \in Nat \ {0} /\ Word \in Nat \ {0} /\ Frames \in Nat \ {0}
      /\ Word = Frames * Page
  BY RealRegions, PageConstants
<1> DEFINE q == (offset + i) \div Page
           rest == (offset + i) % Page
           m == (b \div Page) + (k \div Page)
<1>2. i \in 0..(size - 1)
  OBVIOUS
<1>3. Frame(r) = ((Memmap!PgAligned(b) + k) % Word) \div Page
  BY DEF Frame
<1>4. \A p \in PagesAt(r) : table[p] = (Frame(r) + (p - a)) % Frames
  BY DEF MapInv, Entered
<1>5. PagesAt(r) = a..(a + r.pages - 1)
  BY DEF PagesAt
<1>6. offset = Memmap!Offset(b)
  OBVIOUS
<1> HIDE DEF a, offset, size, v, b, k
<1>7. q \in Int /\ rest \in 0..(Page - 1) /\ offset + i = q * Page + rest
  <2>1. offset + i \in Int
    BY <1>1
  <2> QED
    BY <1>1, <2>1, Division
<1>8. /\ b \div Page \in Int /\ Memmap!PgAligned(b) = (b \div Page) * Page
      /\ b = (b \div Page) * Page + offset
  BY <1>1, <1>6, Addresses
<1>9. k \div Page \in Int /\ k = (k \div Page) * Page
  <2>1. k \div Page \in Int /\ k = (k \div Page) * Page + 0
    BY <1>1, Division
  <2>2. (k \div Page) * Page \in Int
    BY <1>1, <2>1
  <2> QED
    BY <2>1, <2>2
<1>10. r.pages \in Nat /\ q \in 0..(r.pages - 1)
  BY <1>1, <1>2, PagesOfLength
<1>11. m \in Int /\ Memmap!PgAligned(b) + k = m * Page /\ m * Page \in Int
  <2>1. ((b \div Page) + (k \div Page)) * Page
           = (b \div Page) * Page + (k \div Page) * Page
    BY <1>1, <1>8, <1>9
  <2> QED
    BY <1>1, <1>8, <1>9, <2>1
<1> HIDE DEF q, rest, m
<1>12. (v + i) \div Page = a + q /\ (v + i) % Page = rest
  <2>1. v + i = (a + q) * Page + rest /\ a + q \in Int
    <3>1. (a + q) * Page = a * Page + q * Page /\ a * Page \in Int /\ q * Page \in Int
      BY <1>1, <1>7
    <3> QED
      BY <1>1, <1>7, <3>1
  <2>2. ((a + q) * Page + rest) \div Page = a + q /\ ((a + q) * Page + rest) % Page = rest
    BY <1>1, <1>7, <2>1, Quotient
  <2> QED
    BY <2>1, <2>2
<1>13. Frame(r) = m % Frames
  <2>1. (m * Page + 0) % Word = (m % Frames) * Page + 0 /\ 0 \in 0..(Page - 1)
    <3>1. 0 \in 0..(Page - 1)
      BY <1>1
    <3>2. (m * Page + 0) % (Frames * Page) = (m % Frames) * Page + 0
      <4>1. Page \in Nat \ {0} /\ Frames \in Nat \ {0} /\ m \in Int
        BY <1>1, <1>11
      <4> QED
        BY <3>1, <4>1, PageRemainder
    <3> QED
      BY <1>1, <3>1, <3>2
  <2>2. m % Frames \in Int
    BY <1>1, <1>11, Division
  <2>3. ((m % Frames) * Page + 0) \div Page = m % Frames
    BY <1>1, <2>1, <2>2, Quotient
  <2>4. m * Page + 0 = m * Page
    BY <1>11
  <2> QED
    BY <1>3, <1>11, <2>1, <2>3, <2>4
<1>14. table[a + q] = (m + q) % Frames
  <2>1. a + q \in PagesAt(r) /\ (a + q) - a = q
    BY <1>1, <1>5, <1>10
  <2>2. table[a + q] = ((m % Frames) + q) % Frames
    BY <1>4, <1>13, <2>1
  <2> QED
    BY <1>1, <1>7, <1>11, <2>2, WrappedSum
<1>15. (b + k + i) % Word = ((m + q) % Frames) * Page + rest
  <2>1. b + k + i = (m + q) * Page + rest /\ m + q \in Int
    <3>1. (m + q) * Page = m * Page + q * Page /\ q * Page \in Int
      BY <1>1, <1>7, <1>11
    <3>2. (b \div Page) * Page \in Int
      BY <1>1, <1>8
    <3>3. b + k = m * Page + offset
      BY <1>1, <1>8, <1>11, <3>2
    <3> QED
      BY <1>1, <1>7, <1>11, <3>1, <3>3
  <2>2. ((m + q) * Page + rest) % (Frames * Page) = ((m + q) % Frames) * Page + rest
    <3>1. /\ Page \in Nat \ {0} /\ Frames \in Nat \ {0} /\ m + q \in Int
          /\ rest \in 0..(Page - 1)
      BY <1>1, <1>7, <2>1
    <3> QED
      BY <3>1, PageRemainder
  <2> QED
    BY <1>1, <2>1, <2>2
<1> QED
  BY <1>12, <1>14, <1>15 DEF v, b, k

(* Mappings of raw/memmap.c, in user space and in the kernel, lead to the device's
   bytes, share no page and are unmapped whole, wherever they begin and whatever
   their lengths, the pages and the width of an address are. *)
THEOREM MappingsLeadToDevices == Spec => []MappingsExact
<1>1. MapInv /\ [Next]_vars => MapInv'
  <2> SUFFICES ASSUME MapInv, [Next]_vars PROVE MapInv'
    OBVIOUS
  <2>1. Memmap!Next \/ UNCHANGED mapVars
    BY DEF Next, vars, PciUserFrame, PciKernelFrame, ConfigFrame, ListFrame, MemmapFrame,
           ClockFrame, TraceFrame
  <2> QED
    BY <2>1, MemmapStep, MapStutters
<1>2. MapInv => MappingsExact
  <2> SUFFICES ASSUME MapInv PROVE MappingsExact
    OBVIOUS
  <2> DEFINE PagesOf(r) == (r.virt \div Page)..((r.virt + r.size - 1) \div Page)
  <2>1. \A r \in Real : PagesOf(r) = PagesAt(r) /\ PagesAt(r) \subseteq Memmap!Places
    BY PagesOfRegion
  <2>2. \A r \in Real : \A i \in 0..(r.size - 1) :
           (table[(r.virt + i) \div Page] * Page) + ((r.virt + i) % Page)
              = (r.base + r.shift + i) % Word
    BY BytesAreRight
  <2>3. \A r, s \in Real : r # s => PagesOf(r) \cap PagesOf(s) = {}
    BY <2>1 DEF MapInv, PagesApart
  <2>4. {p \in Memmap!Places : table[p] # Memmap!Unmapped} = UNION {PagesOf(r) : r \in Real}
    <3>1. \A r \in Real : \A p \in PagesAt(r) : table[p] # Memmap!Unmapped
      BY MappedPages
    <3> QED
      BY <2>1, <3>1 DEF MapInv, Covered
  <2> QED
    BY <2>2, <2>3, <2>4 DEF MappingsExact, Memmap!MappingsExact, Real
<1> QED
  BY <1>1, <1>2, MapStarts, PTL DEF Spec
=============================================================================
