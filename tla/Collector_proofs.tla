-------------------------- MODULE Collector_proofs --------------------------
(***************************************************************************)
(* Proofs about Collector, for any number of connection objects, scans,    *)
(* drops of the link and hanging constructors.                             *)
(***************************************************************************)
EXTENDS Collector, FiniteSetTheorems, TLAPS

Starting  == main \in {"connect", "register"}
MonitorIn == mon \in {"swap", "verify", "open", "register"}

\* How far main, the monitor and a connection attempt have come.
PhaseInv ==
    /\ mon = "off" <=> Starting
    /\ ~stop => Starting \/ main = "up"
    /\ stop => ~Starting /\ main # "up"
    /\ att # None <=> main = "connect" \/ mon \in {"verify", "open"}
    /\ main = "connect" \/ mon \in {"verify", "open"} => ref = None

\* _dtc_lock is held by who works on the connection, and by nobody else.
LockInv ==
    /\ lock = "monitor" <=> MonitorIn
    /\ \A s \in Scans : scan[s] = "query" <=> lock = s
    /\ Starting => lock = None /\ \A s \in Scans : scan[s] = "idle"

\* One object polls at most: the current one, or, after a stop that came
\* between, one that is current no longer.  None polls while the lock is held,
\* but for the one that a reconnect is about to stop.
LoopInv ==
    /\ loop = {} \/ \E c \in Conns : loop = {c}
    /\ Starting => loop = {}
    /\ lock # None /\ mon # "swap" => loop = {}
    /\ ref # None \/ ~stop \/ mon = "swap" => loop \subseteq {ref}
    /\ main = "clear" /\ mon = "swap" => loop = {}

\* The current object has been constructed; a query is about it, unless a stop
\* has taken it away; and when nobody works on it, it polls or is Silent.
PollInv ==
    /\ ref # None => cs[ref] \in {"open", "dead"}
    /\ ref # None \/ ~stop => \A s \in Scans : scan[s] = "query" => snap[s] = ref
    /\ main = "up" /\ mon \in {"wait", "lock"} /\ lock = None /\ Connected(ref) => ref \in loop \/ Silent

CInv == TypeOK /\ PhaseInv /\ LockInv /\ LoopInv /\ PollInv

-----------------------------------------------------------------------------
(* Types.                                                                  *)

LEMMA Names ==
    /\ None \notin Conns /\ None \notin Scans
    /\ "monitor" \notin Scans /\ "monitor" # None
    /\ MaxDrops \in Nat /\ MaxHung \in Nat
BY CollectorAssumption

LEMMA UnusedType == Unused \subseteq Conns /\ \A c \in Unused : c # ref /\ c # att /\ c \notin loop
BY DEF Unused

LEMMA StartedType ==
    ASSUME TypeOK, NEW c \in Conns \cup {None}
    PROVE  Started(c) \in SUBSET Conns /\ (Connected(c) => c \in Conns)
BY DEF Started, Connected, TypeOK

LEMMA TypeInit == Init => TypeOK
<1> SUFFICES ASSUME Init
             PROVE  TypeOK
  OBVIOUS
<1>1. link \in BOOLEAN /\ stop \in BOOLEAN
  BY Zenon DEF Init
<1>2. /\ drops \in 0..MaxDrops
      /\ cs \in [Conns -> {"free", "opening", "failed", "open", "dead"}]
      /\ att \in Conns \cup {None}
  BY Names DEF Init
<1>3. /\ scan \in [Scans -> {"idle", "want", "query"}]
      /\ call \in [Scans -> {1, 2}]
      /\ snap \in [Scans -> Conns \cup {None}]
  BY DEF Init
<1> QED
  BY <1>1, <1>2, <1>3 DEF Init, TypeOK, MainStates, MonitorStates

LEMMA TypeStep == TypeOK /\ [Next]_vars => TypeOK'
<1> SUFFICES ASSUME TypeOK, [Next]_vars
             PROVE  TypeOK'
  OBVIOUS
<1> USE Names DEF TypeOK, MainStates, MonitorStates
<1>1. CASE UNCHANGED vars
  <2>1. link' \in BOOLEAN /\ stop' \in BOOLEAN
    BY <1>1, Zenon DEF vars, world, objects, scans
  <2> QED
    BY <1>1, <2>1 DEF vars, world, objects, scans
<1>2. CASE LinkUp \/ LinkDrop
  <2>1. link' \in BOOLEAN /\ stop' \in BOOLEAN
    BY <1>2, Zenon DEF LinkUp, LinkDrop
  <2> QED
    BY <1>2, <2>1 DEF LinkUp, LinkDrop, objects, scans
<1>3. ASSUME NEW c \in Conns, Constructed(c)
      PROVE  TypeOK'
  BY <1>3 DEF Constructed, world, scans
<1>4. CASE Start
  <2>1. CASE StartConnected
    BY <2>1 DEF StartConnected, Returned, world, scans
  <2>2. CASE StartFailed
    BY <2>2 DEF StartFailed, Raised, world, scans
  <2>3. CASE StartRegistered
    BY <2>3, StartedType DEF StartRegistered, world, scans
  <2> QED
    BY <1>4, <2>1, <2>2, <2>3 DEF Start
<1>5. CASE Monitor
  <2>1. CASE MonitorWake \/ MonitorExit
    BY <2>1 DEF MonitorWake, MonitorExit, world, objects, scans
  <2>2. CASE MonitorLock
    BY <2>2 DEF MonitorLock, world, objects, scans
  <2>3. CASE MonitorSwap
    BY <2>3, UnusedType DEF MonitorSwap, Construct, world, scans
  <2>4. CASE Verified
    BY <2>4, UnusedType DEF Verified, Returned, Construct, world, scans
  <2>5. CASE VerifyFailed
    BY <2>5, UnusedType DEF VerifyFailed, Returned, Raised, Construct, world, scans
  <2>6. CASE MonitorConnected
    BY <2>6 DEF MonitorConnected, Returned, world, scans
  <2>7. CASE MonitorFailed
    BY <2>7 DEF MonitorFailed, Raised, world, scans
  <2>8. CASE MonitorRegistered
    BY <2>8, StartedType DEF MonitorRegistered, world, scans
  <2> QED
    BY <1>5, <2>1, <2>2, <2>3, <2>4, <2>5, <2>6, <2>7, <2>8 DEF Monitor
<1>6. ASSUME NEW s \in Scans, Scan(s)
      PROVE  TypeOK'
  <2>1. CASE DispatchScan(s) \/ ScanSkipped(s) \/ ScanQuery(s)
    BY <2>1 DEF DispatchScan, ScanSkipped, ScanQuery, world, objects
  <2>2. CASE ScanAnswered(s)
    BY <2>2, StartedType DEF ScanAnswered, world
  <2>3. CASE ScanRaised(s)
    BY <2>3, StartedType DEF ScanRaised, Restart, world
  <2> QED
    BY <1>6, <2>1, <2>2, <2>3 DEF Scan
<1>7. CASE Stop
  <2>1. stop' \in BOOLEAN
    BY <1>7, Zenon DEF Stop, Sigterm, StopCheck, StopUse, StopClear, StopJoin, ScansJoin
  <2> QED
    BY <1>7, <2>1 DEF Stop, Sigterm, StopCheck, StopUse, StopClear, StopJoin, ScansJoin, world, objects, scans
<1> QED
  BY <1>1, <1>2, <1>3, <1>4, <1>5, <1>6, <1>7 DEF Next

-----------------------------------------------------------------------------
(* The inductive invariant.                                                *)

LEMMA PhaseStep == CInv /\ [Next]_vars => PhaseInv'
<1> SUFFICES ASSUME CInv, [Next]_vars
             PROVE  PhaseInv'
  OBVIOUS
<1> USE Names, UnusedType DEF CInv, TypeOK, MainStates, MonitorStates, PhaseInv, Starting
<1>1. CASE UNCHANGED vars
  BY <1>1 DEF vars, world, objects, scans
<1>2. CASE LinkUp \/ LinkDrop
  BY <1>2 DEF LinkUp, LinkDrop, objects, scans
<1>3. ASSUME NEW c \in Conns, Constructed(c)
      PROVE  PhaseInv'
  BY <1>3 DEF Constructed, world, scans
<1>4. CASE Start
  BY <1>4 DEF Start, StartConnected, StartFailed, StartRegistered, Returned, Raised, world, scans
<1>5. CASE Monitor
  <2>1. CASE MonitorWake \/ MonitorExit
    BY <2>1 DEF MonitorWake, MonitorExit, world, objects, scans
  <2>2. CASE MonitorLock
    BY <2>2 DEF MonitorLock, world, objects, scans
  <2>3. CASE MonitorSwap
    BY <2>3 DEF MonitorSwap, Construct, world, scans
  <2>4. CASE Verified \/ VerifyFailed
    BY <2>4 DEF Verified, VerifyFailed, Construct, world, scans
  <2>5. CASE MonitorConnected
    BY <2>5 DEF MonitorConnected, Returned, world, scans
  <2>6. CASE MonitorFailed
    BY <2>6 DEF MonitorFailed, Raised, world, scans
  <2>7. CASE MonitorRegistered
    BY <2>7 DEF MonitorRegistered, world, scans
  <2> QED
    BY <1>5, <2>1, <2>2, <2>3, <2>4, <2>5, <2>6, <2>7 DEF Monitor
<1>6. ASSUME NEW s \in Scans, Scan(s)
      PROVE  PhaseInv'
  <2>1. CASE DispatchScan(s) \/ ScanSkipped(s) \/ ScanQuery(s)
    BY <2>1 DEF DispatchScan, ScanSkipped, ScanQuery, world, objects
  <2>2. CASE ScanAnswered(s) \/ ScanRaised(s)
    BY <2>2 DEF ScanAnswered, ScanRaised, Restart, world
  <2> QED
    BY <1>6, <2>1, <2>2 DEF Scan
<1>7. CASE Stop
  BY <1>7 DEF Stop, Sigterm, StopCheck, StopUse, StopClear, StopJoin, ScansJoin, world, objects, scans
<1> QED
  BY <1>1, <1>2, <1>3, <1>4, <1>5, <1>6, <1>7 DEF Next

LEMMA LockStep == CInv /\ [Next]_vars => LockInv'
<1> SUFFICES ASSUME CInv, [Next]_vars
             PROVE  LockInv'
  OBVIOUS
<1> USE Names, UnusedType DEF CInv, TypeOK, MainStates, MonitorStates, PhaseInv, Starting, LockInv, MonitorIn
<1>1. CASE UNCHANGED vars
  BY <1>1 DEF vars, world, objects, scans
<1>2. CASE LinkUp \/ LinkDrop
  BY <1>2 DEF LinkUp, LinkDrop, objects, scans
<1>3. ASSUME NEW c \in Conns, Constructed(c)
      PROVE  LockInv'
  BY <1>3 DEF Constructed, world, scans
<1>4. CASE Start
  BY <1>4 DEF Start, StartConnected, StartFailed, StartRegistered, Returned, Raised, Started, world, scans
<1>5. CASE Monitor
  <2>1. CASE MonitorWake \/ MonitorExit
    BY <2>1 DEF MonitorWake, MonitorExit, world, objects, scans
  <2>2. CASE MonitorLock
    BY <2>2 DEF MonitorLock, world, objects, scans
  <2>3. CASE MonitorSwap
    BY <2>3 DEF MonitorSwap, Construct, world, scans
  <2>4. CASE Verified \/ VerifyFailed
    BY <2>4 DEF Verified, VerifyFailed, Construct, world, scans
  <2>5. CASE MonitorConnected
    BY <2>5 DEF MonitorConnected, Returned, world, scans
  <2>6. CASE MonitorFailed
    BY <2>6 DEF MonitorFailed, Raised, world, scans
  <2>7. CASE MonitorRegistered
    BY <2>7 DEF MonitorRegistered, Started, world, scans
  <2> QED
    BY <1>5, <2>1, <2>2, <2>3, <2>4, <2>5, <2>6, <2>7 DEF Monitor
<1>6. ASSUME NEW s \in Scans, Scan(s)
      PROVE  LockInv'
  <2>1. CASE DispatchScan(s) \/ ScanSkipped(s)
    <3>1. UNCHANGED <<lock, mon, main>>
      BY <2>1 DEF DispatchScan, ScanSkipped
    <3>2. \A u \in Scans : scan'[u] = "query" <=> scan[u] = "query"
      BY <2>1 DEF DispatchScan, ScanSkipped
    <3>3. Starting => scan' = scan
      <4>1. Starting => loop = {} /\ scan[s] # "want"
        BY DEF LoopInv
      <4> QED
        BY <2>1, <4>1 DEF DispatchScan, ScanSkipped
    <3> QED
      BY <3>1, <3>2, <3>3
  <2>2. CASE ScanQuery(s)
    BY <2>2 DEF ScanQuery, world
  <2>3. CASE ScanAnswered(s)
    BY <2>3 DEF ScanAnswered, Started, world
  <2>4. CASE ScanRaised(s)
    BY <2>4 DEF ScanRaised, Restart, Started, world
  <2> QED
    BY <1>6, <2>1, <2>2, <2>3, <2>4 DEF Scan
<1>7. CASE Stop
  BY <1>7 DEF Stop, Sigterm, StopCheck, StopUse, StopClear, StopJoin, ScansJoin, world, objects, scans
<1> QED
  BY <1>1, <1>2, <1>3, <1>4, <1>5, <1>6, <1>7 DEF Next

LEMMA LoopStep == CInv /\ [Next]_vars => LoopInv'
<1> SUFFICES ASSUME CInv, [Next]_vars
             PROVE  LoopInv'
  OBVIOUS
<1> USE Names, UnusedType DEF CInv, TypeOK, MainStates, MonitorStates, PhaseInv, Starting, LockInv, MonitorIn, LoopInv, PollInv, Connected
<1>1. CASE UNCHANGED vars
  BY <1>1 DEF vars, world, objects, scans
<1>2. CASE LinkUp \/ LinkDrop
  BY <1>2 DEF LinkUp, LinkDrop, objects, scans
<1>3. ASSUME NEW c \in Conns, Constructed(c)
      PROVE  LoopInv'
  BY <1>3 DEF Constructed, world, scans
<1>4. CASE Start
  BY <1>4 DEF Start, StartConnected, StartFailed, StartRegistered, Returned, Raised, Started, world, scans
<1>5. CASE Monitor
  <2>1. CASE MonitorWake \/ MonitorExit
    BY <2>1 DEF MonitorWake, MonitorExit, world, objects, scans
  <2>2. CASE MonitorLock
    BY <2>2 DEF MonitorLock, world, objects, scans
  <2>3. CASE MonitorSwap
    BY <2>3 DEF MonitorSwap, Construct, world, scans
  <2>4. CASE Verified \/ VerifyFailed
    BY <2>4 DEF Verified, VerifyFailed, Construct, world, scans
  <2>5. CASE MonitorConnected
    BY <2>5 DEF MonitorConnected, Returned, world, scans
  <2>6. CASE MonitorFailed
    BY <2>6 DEF MonitorFailed, Raised, world, scans
  <2>7. CASE MonitorRegistered
    BY <2>7 DEF MonitorRegistered, Started, world, scans
  <2> QED
    BY <1>5, <2>1, <2>2, <2>3, <2>4, <2>5, <2>6, <2>7 DEF Monitor
<1>6. ASSUME NEW s \in Scans, Scan(s)
      PROVE  LoopInv'
  <2>1. CASE DispatchScan(s) \/ ScanSkipped(s)
    BY <2>1 DEF DispatchScan, ScanSkipped, world, objects
  <2>2. CASE ScanQuery(s)
    BY <2>2 DEF ScanQuery, world
  <2>3. CASE ScanAnswered(s) \/ ScanRaised(s)
    <3>1. /\ lock = s /\ loop = {} /\ mon # "swap" /\ ~Starting
          /\ ref # None \/ ~stop => snap[s] = ref
      BY <2>3 DEF ScanAnswered, ScanRaised
    <3>2. ref' \in {ref, None} /\ (ref' = ref \/ loop' = {})
      BY <2>3, <3>1 DEF ScanAnswered, ScanRaised, Restart
    <3>3. loop' = {} \/ (loop' = {snap[s]} /\ snap[s] \in Conns)
      BY <2>3, <3>1 DEF ScanAnswered, ScanRaised, Restart, Started
    <3>4. lock' = None /\ UNCHANGED <<main, mon, stop>>
      BY <2>3 DEF ScanAnswered, ScanRaised
    <3> QED
      BY <3>1, <3>2, <3>3, <3>4
  <2> QED
    BY <1>6, <2>1, <2>2, <2>3 DEF Scan
<1>7. CASE Stop
  BY <1>7 DEF Stop, Sigterm, StopCheck, StopUse, StopClear, StopJoin, ScansJoin, world, objects, scans
<1> QED
  BY <1>1, <1>2, <1>3, <1>4, <1>5, <1>6, <1>7 DEF Next

LEMMA PollStep == CInv /\ [Next]_vars => PollInv'
<1> SUFFICES ASSUME CInv, [Next]_vars
             PROVE  PollInv'
  OBVIOUS
<1> USE Names, UnusedType DEF CInv, TypeOK, MainStates, MonitorStates, PhaseInv, Starting, LockInv, MonitorIn, LoopInv, PollInv, Connected, Silent
<1>1. CASE UNCHANGED vars
  BY <1>1 DEF vars, world, objects, scans
<1>2. CASE LinkUp \/ LinkDrop
  BY <1>2 DEF LinkUp, LinkDrop, objects, scans
<1>3. ASSUME NEW c \in Conns, Constructed(c)
      PROVE  PollInv'
  BY <1>3 DEF Constructed, world, scans
<1>4. CASE Start
  BY <1>4 DEF Start, StartConnected, StartFailed, StartRegistered, Returned, Raised, Started, world, scans
<1>5. CASE Monitor
  <2>1. CASE MonitorWake \/ MonitorExit
    BY <2>1 DEF MonitorWake, MonitorExit, world, objects, scans
  <2>2. CASE MonitorLock
    BY <2>2 DEF MonitorLock, world, objects, scans
  <2>3. CASE MonitorSwap
    BY <2>3 DEF MonitorSwap, Construct, world, scans
  <2>4. CASE Verified \/ VerifyFailed
    BY <2>4 DEF Verified, VerifyFailed, Construct, world, scans
  <2>5. CASE MonitorConnected
    BY <2>5 DEF MonitorConnected, Returned, world, scans
  <2>6. CASE MonitorFailed
    BY <2>6 DEF MonitorFailed, Raised, world, scans
  <2>7. CASE MonitorRegistered
    BY <2>7 DEF MonitorRegistered, Started, world, scans
  <2> QED
    BY <1>5, <2>1, <2>2, <2>3, <2>4, <2>5, <2>6, <2>7 DEF Monitor
<1>6. ASSUME NEW s \in Scans, Scan(s)
      PROVE  PollInv'
  <2>1. CASE DispatchScan(s) \/ ScanSkipped(s)
    BY <2>1 DEF DispatchScan, ScanSkipped, world, objects
  <2>2. CASE ScanQuery(s)
    BY <2>2 DEF ScanQuery, world
  <2>3. CASE ScanAnswered(s)
    BY <2>3 DEF ScanAnswered, Started, world
  <2>4. CASE ScanRaised(s)
    BY <2>4 DEF ScanRaised, Restart, Started, world
  <2> QED
    BY <1>6, <2>1, <2>2, <2>3, <2>4 DEF Scan
<1>7. CASE Stop
  BY <1>7 DEF Stop, Sigterm, StopCheck, StopUse, StopClear, StopJoin, ScansJoin, world, objects, scans
<1> QED
  BY <1>1, <1>2, <1>3, <1>4, <1>5, <1>6, <1>7 DEF Next

-----------------------------------------------------------------------------
(* The theorems.                                                           *)

LEMMA CInit == Init => CInv
<1> SUFFICES ASSUME Init
             PROVE  CInv
  OBVIOUS
<1>1. TypeOK
  BY TypeInit
<1>2. PhaseInv /\ LockInv /\ LoopInv /\ PollInv
  BY Names DEF Init, PhaseInv, LockInv, LoopInv, PollInv, Starting, MonitorIn, Connected
<1> QED
  BY <1>1, <1>2 DEF CInv

LEMMA CStep == CInv /\ [Next]_vars => CInv'
BY TypeStep, PhaseStep, LockStep, LoopStep, PollStep DEF CInv

\* The phases of the connection, the lock and the polling loop keep in step
\* under every order of main, the monitor, the scans and the constructors.
THEOREM CollectorInvariant == Spec => []CInv
BY CInit, CStep, PTL DEF Spec

\* Every variable keeps its type.
THEOREM CollectorTypeCorrect == Spec => []TypeOK
<1>1. CInv => TypeOK
  BY DEF CInv
<1> QED
  BY <1>1, CollectorInvariant, PTL

LEMMA RaceFree == CInv => NoByteRace
<1> SUFFICES ASSUME CInv
             PROVE  NoByteRace
  OBVIOUS
<1> USE Names DEF CInv, TypeOK
<1>1. Cardinality(loop) <= 1
  <2>1. CASE loop = {}
    BY <2>1, FS_EmptySet
  <2>2. ASSUME NEW c \in Conns, loop = {c}
        PROVE  Cardinality(loop) <= 1
    <3>1. Cardinality({c}) = 1
      BY FS_Singleton
    <3> QED
      BY <2>2, <3>1
  <2> QED
    BY <2>1, <2>2 DEF LoopInv
<1>2. ASSUME NEW s \in Scans, scan[s] = "query"
      PROVE  /\ loop = {} /\ att = None
             /\ \A u \in Scans : scan[u] = "query" => u = s
  <2>1. lock = s /\ ~MonitorIn /\ ~Starting
    BY <1>2 DEF LockInv
  <2> QED
    BY <1>2, <2>1 DEF LockInv, LoopInv, PhaseInv, MonitorIn, Starting
<1>3. att # None => loop = {}
  BY DEF LockInv, LoopInv, PhaseInv, MonitorIn, Starting
<1> QED
  BY <1>1, <1>2, <1>3 DEF NoByteRace

\* collector.py:179-182, 304-313: at most one polling loop, query or awaited
\* constructor is at the port, for any number of scans and of drops.
THEOREM CollectorNoByteRace == Spec => []NoByteRace
BY CollectorInvariant, RaceFree, PTL

\* collector.py:210-214: while nothing is under way, a connected _async_conn is
\* polling, unless the monitor itself could not start its loop.
THEOREM CollectorPollsWhenConnected == Spec => []PollsWhenConnected
<1>1. CInv => PollsWhenConnected
  BY DEF CInv, PollInv, PollsWhenConnected
<1> QED
  BY <1>1, CollectorInvariant, PTL
=============================================================================
