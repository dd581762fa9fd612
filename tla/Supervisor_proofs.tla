-------------------------- MODULE Supervisor_proofs --------------------------
(***************************************************************************)
(* Proofs about Supervisor, for every choice of the times of the unit file *)
(* with which the restarts of one interval cannot reach the burst.         *)
(***************************************************************************)
EXTENDS Supervisor, TLAPS

\* A sound file has no foreign sidecars beside it: when they are replayed into a
\* fresh file, it is not sound.
SoundInv ==
    /\ SoundWhenUsed
    /\ db = "sound" => ~wal

LEMMA SoundInit == Init => SoundInv
  BY DEF Init, SoundInv, SoundWhenUsed

LEMMA SoundStep == SoundInv /\ [Next]_vars => SoundInv'
<1> SUFFICES ASSUME SoundInv, [Next]_vars
             PROVE  SoundInv'
  OBVIOUS
<1> USE DEF SoundInv, SoundWhenUsed, Damage
<1>1. CASE UNCHANGED vars
  BY <1>1 DEF vars, files
<1>2. CASE World
  BY <1>2 DEF World, Mount, Unmount, PowerCut, Tick, Booting, files
<1>3. CASE Systemd
  BY <1>3 DEF Systemd, Restart, StartTimeout, Die, Exit, Booting, files
<1>4. CASE Boot
  <2>1. CASE MountSeen \/ MountTimeout
    BY <2>1 DEF MountSeen, MountTimeout, Exit, files
  <2>2. CASE OpenSound
    <3>1. ~wal
      BY <2>2 DEF OpenSound, Connect
    <3> QED
      BY <2>2, <3>1 DEF OpenSound
  <2>3. CASE OpenCorrupt
    BY <2>3 DEF OpenCorrupt, Connect
  <2>4. CASE OpenRaises
    BY <2>4 DEF OpenRaises, Connect, Exit
  <2>5. CASE QuarantineDb
    <3>1. pc' \notin {"connect", "loop"} /\ wal' = wal
      BY <2>5 DEF QuarantineDb
    <3>2. db' = "sound" => db = "sound"
      BY <2>5 DEF QuarantineDb
    <3> QED
      BY <3>1, <3>2
  <2>6. CASE QuarantineWal
    <3>1. pc' \notin {"connect", "loop"} /\ db' = db
      BY <2>6 DEF QuarantineWal
    <3>2. wal' => wal
      BY <2>6, Zenon DEF QuarantineWal
    <3> QED
      BY <3>1, <3>2
  <2>7. CASE Ready
    BY <2>7 DEF Ready, files
  <2> QED
    BY <1>4, <2>1, <2>2, <2>3, <2>4, <2>5, <2>6, <2>7 DEF Boot
<1>5. CASE Running
  BY <1>5 DEF Running, Fall, LeaveLoop, Exit, files
<1> QED
  BY <1>1, <1>2, <1>3, <1>4, <1>5 DEF Next

\* Rows are only ever written to a database that has passed the integrity check,
\* whatever interrupts its opening or its quarantine.
THEOREM SupervisorSoundWhenUsed == Spec => []SoundWhenUsed
<1>1. SoundInv => SoundWhenUsed
  BY DEF SoundInv
<1> QED
  BY <1>1, SoundInit, SoundStep, PTL DEF Spec

-----------------------------------------------------------------------------
\* Since the first start of the interval every further one has taken RestartSec.
Waited == IF unit = "auto-restart" THEN age ELSE 0

StartsInv ==
    /\ unit \in {"activating", "active", "auto-restart"}
    /\ age \in Nat /\ window \in Nat /\ starts \in Nat \ {0}
    /\ window <= StartLimitIntervalSec
          => (starts - 1) * RestartSec + Waited <= window

LEMMA OneMoreStart ==
  ASSUME NEW n \in Nat \ {0}
  PROVE  /\ n * RestartSec \in Nat /\ (n - 1) * RestartSec \in Nat
         /\ n * RestartSec = (n - 1) * RestartSec + RestartSec
  BY SupervisorAssumption

LEMMA StartsInit == Init => StartsInv
  BY SupervisorAssumption DEF Init, StartsInv, Waited

LEMMA StartsExit == StartsInv /\ Exit => StartsInv'
  BY SupervisorAssumption, OneMoreStart DEF StartsInv, Waited, Exit, limit

\* A restart is never refused: by then the interval is over.
LEMMA StartsRestart == StartsInv /\ Restart => StartsInv'
<1> SUFFICES ASSUME StartsInv, Restart
             PROVE  StartsInv'
  OBVIOUS
<1>1. window <= StartLimitIntervalSec => starts * RestartSec <= window
  <2>1. starts * RestartSec = (starts - 1) * RestartSec + RestartSec
    BY OneMoreStart DEF StartsInv
  <2>2. starts * RestartSec \in Nat /\ (starts - 1) * RestartSec \in Nat
    BY OneMoreStart DEF StartsInv
  <2> QED
    BY <2>1, <2>2, SupervisorAssumption DEF StartsInv, Waited, Restart
<1>2. ~StartRefused
  BY <1>1, SupervisorAssumption DEF StartRefused, StartsInv
<1>3. CountStart /\ Booting
  BY <1>2 DEF Restart
<1>4. CASE window > StartLimitIntervalSec
  BY <1>3, <1>4, SupervisorAssumption DEF StartsInv, Waited, CountStart, Booting
<1>5. CASE window <= StartLimitIntervalSec
  <2>1. starts' = starts + 1 /\ window' = window /\ unit' = "activating" /\ age' = 0
    BY <1>3, <1>5, SupervisorAssumption DEF StartsInv, CountStart, Booting
  <2>2. (starts' - 1) * RestartSec = starts * RestartSec
    BY <2>1 DEF StartsInv
  <2>3. starts * RestartSec \in Nat
    BY OneMoreStart DEF StartsInv
  <2> QED
    BY <2>1, <2>2, <2>3, <1>1, <1>5 DEF StartsInv, Waited
<1> QED
  BY <1>4, <1>5, SupervisorAssumption DEF StartsInv

LEMMA StartsTick == StartsInv /\ Tick => StartsInv'
<1> SUFFICES ASSUME StartsInv, Tick
             PROVE  StartsInv'
  OBVIOUS
<1>1. starts' = starts /\ unit' = unit
  BY DEF Tick
<1>2. window' \in Nat /\ age' \in Nat
  BY SupervisorAssumption DEF StartsInv, Tick, Older
<1>3. ASSUME window' <= StartLimitIntervalSec
      PROVE  window' = window + 1 /\ window <= StartLimitIntervalSec
  BY <1>3, SupervisorAssumption DEF StartsInv, Tick, Older
<1>4. Waited \in Nat /\ Waited' <= Waited + 1 /\ Waited' \in Nat
  BY <1>1 DEF StartsInv, Tick, Waited
<1>5. (starts - 1) * RestartSec \in Nat
  BY OneMoreStart DEF StartsInv
<1> QED
  BY <1>1, <1>2, <1>3, <1>4, <1>5 DEF StartsInv

LEMMA StartsStep == StartsInv /\ [Next]_vars => StartsInv'
<1> SUFFICES ASSUME StartsInv, [Next]_vars
             PROVE  StartsInv'
  OBVIOUS
<1>1. CASE UNCHANGED systemd
  BY <1>1 DEF StartsInv, Waited, systemd, limit
<1>2. CASE Exit
  BY <1>2, StartsExit
<1>3. CASE PowerCut
  BY <1>3, SupervisorAssumption DEF StartsInv, Waited, PowerCut, Booting
<1>4. CASE Tick
  BY <1>4, StartsTick
<1>5. CASE Restart
  BY <1>5, StartsRestart
<1>6. CASE Ready
  <2>1. (starts - 1) * RestartSec \in Nat
    BY OneMoreStart DEF StartsInv
  <2> QED
    BY <1>6, <2>1 DEF StartsInv, Waited, Ready, limit
<1>7. UNCHANGED systemd \/ Exit \/ PowerCut \/ Tick \/ Restart \/ Ready
  BY DEF Next, vars, World, Systemd, Boot, Running, Mount, Unmount, StartTimeout,
     Die, MountSeen, MountTimeout, OpenSound, OpenCorrupt, OpenRaises,
     QuarantineDb, QuarantineWal, Fall, LeaveLoop
<1> QED
  BY <1>1, <1>2, <1>3, <1>4, <1>5, <1>6, <1>7

\* No sequence of failing starts makes systemd give the service up, as long as the
\* burst times RestartSec exceeds the interval.
THEOREM SupervisorNeverGivesUp == Spec => []NeverGivesUp
<1>1. StartsInv => NeverGivesUp
  BY DEF StartsInv, NeverGivesUp
<1> QED
  BY <1>1, StartsInit, StartsStep, PTL DEF Spec

-----------------------------------------------------------------------------
\* A quarantine is entered below the bound of the recursion, so the one more that
\* follows it stays within it.
UnitInv ==
    /\ TypeOK
    /\ pc \in {"moveDb", "moveWal"} => depth < 2

\* An interval that the burst outlasts is one in which at least one start is allowed.
LEMMA SomeBurst ==
    /\ StartLimitBurst \in Nat \ {0}
    /\ RestartSec \in Nat \ {0} /\ RestartSec <= TimeoutStartSec
    /\ StartLimitIntervalSec \in Nat /\ TimeoutStartSec \in Nat
    /\ MaxCuts \in Nat
<1>1. ASSUME StartLimitBurst = 0
      PROVE  StartLimitBurst * RestartSec = 0
  BY <1>1, SupervisorAssumption
<1>2. 0 <= StartLimitIntervalSec /\ StartLimitIntervalSec < StartLimitBurst * RestartSec
  BY SupervisorAssumption
<1>3. StartLimitBurst # 0
  BY <1>1, <1>2, SupervisorAssumption
<1> QED
  BY <1>3, SupervisorAssumption

LEMMA UnitInit == Init => UnitInv
<1> SUFFICES ASSUME Init
             PROVE  UnitInv
  OBVIOUS
<1>1. mounted \in BOOLEAN /\ wal \in BOOLEAN
  BY Zenon DEF Init
<1> QED
  BY <1>1, SomeBurst DEF Init, UnitInv, TypeOK

\* What the end of a process does to the systemd unit.
LEMMA UnitExit ==
    ASSUME UnitInv, Exit, UNCHANGED <<mounted, wal, cuts>>,
           db' \in {"absent", "sound"} \cup Damage
    PROVE  UnitInv'
<1>1. mounted' \in BOOLEAN /\ wal' \in BOOLEAN
  BY Zenon DEF UnitInv, TypeOK
<1> QED
  BY <1>1, SomeBurst DEF UnitInv, TypeOK, Exit, limit

LEMMA UnitStep == UnitInv /\ [Next]_vars => UnitInv'
<1> SUFFICES ASSUME UnitInv, [Next]_vars
             PROVE  UnitInv'
  OBVIOUS
<1> USE SomeBurst DEF UnitInv, TypeOK
<1>1. CASE UNCHANGED vars
  <2>1. mounted' \in BOOLEAN /\ wal' \in BOOLEAN
    BY <1>1, Zenon DEF vars, files
  <2> QED
    BY <1>1, <2>1 DEF vars, files, systemd, limit
<1>2. CASE Mount \/ Unmount
  <2>1. mounted' \in BOOLEAN /\ wal' \in BOOLEAN
    BY <1>2, Zenon DEF Mount, Unmount, files
  <2> QED
    BY <1>2, <2>1 DEF Mount, Unmount, files, systemd, limit
<1>3. CASE PowerCut
  <2>1. mounted' \in BOOLEAN /\ wal' \in BOOLEAN
    BY <1>3, Zenon DEF PowerCut, files
  <2> QED
    BY <1>3, <2>1 DEF PowerCut, Booting, files
<1>4. CASE Tick
  <2>1. mounted' \in BOOLEAN /\ wal' \in BOOLEAN
    BY <1>4, Zenon DEF Tick, files
  <2> QED
    BY <1>4, <2>1 DEF Tick, Older, files
<1>5. CASE Restart
  <2>1. mounted' \in BOOLEAN /\ wal' \in BOOLEAN
    BY <1>5, Zenon DEF Restart, files
  <2>2. CASE StartRefused
    BY <1>5, <2>1, <2>2 DEF Restart, files, limit
  <2>3. CASE ~StartRefused
    BY <1>5, <2>1, <2>3 DEF Restart, StartRefused, CountStart, Booting, files
  <2> QED
    BY <2>2, <2>3
<1>6. CASE StartTimeout \/ Die \/ MountTimeout \/ LeaveLoop
  <2>1. Exit /\ UNCHANGED <<mounted, db, wal, cuts>>
    BY <1>6 DEF StartTimeout, Die, MountTimeout, LeaveLoop, files
  <2> QED
    BY <2>1, UnitExit
<1>7. CASE OpenRaises
  <2>1. Exit /\ UNCHANGED <<mounted, wal, cuts>> /\ db' \in {"absent", "sound"} \cup Damage
    BY <1>7 DEF OpenRaises, Damage
  <2> QED
    BY <2>1, UnitExit
<1>8. CASE MountSeen \/ OpenSound \/ OpenCorrupt \/ Ready \/ \E fault \in Faults : Fall(fault)
  <2>1. mounted' \in BOOLEAN /\ wal' \in BOOLEAN
    BY <1>8, Zenon DEF MountSeen, OpenSound, OpenCorrupt, Ready, Fall, files
  <2>2. CASE MountSeen \/ Ready
    BY <2>1, <2>2 DEF MountSeen, Ready, files, systemd, limit
  <2>3. CASE OpenSound \/ OpenCorrupt
    BY <2>1, <2>3 DEF OpenSound, OpenCorrupt, CanOpen, Damage, systemd, limit
  <2>4. CASE \E fault \in Faults : Fall(fault)
    BY <2>1, <2>4 DEF Fall, files, systemd, limit
  <2> QED
    BY <1>8, <2>2, <2>3, <2>4
<1>9. CASE QuarantineDb \/ QuarantineWal
  <2>1. mounted' \in BOOLEAN /\ wal' \in BOOLEAN
    BY <1>9, Zenon DEF QuarantineDb, QuarantineWal
  <2> QED
    BY <1>9, <2>1 DEF QuarantineDb, QuarantineWal, systemd, limit
<1> QED
  BY <1>1, <1>2, <1>3, <1>4, <1>5, <1>6, <1>7, <1>8, <1>9
     DEF Next, World, Systemd, Boot, Running

\* Every variable keeps its type; above all the recursion of get_connection is
\* never deeper than its bound, and systemd never counts more starts than the
\* burst.
THEOREM SupervisorTypeCorrect == Spec => []TypeOK
<1>1. UnitInv => TypeOK
  BY DEF UnitInv
<1> QED
  BY <1>1, UnitInit, UnitStep, PTL DEF Spec
=============================================================================
