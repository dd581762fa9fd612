----------------------------- MODULE Supervisor -----------------------------
(***************************************************************************)
(* The life of obd-collector.service: systemd (obd-collector.service), the *)
(* boot sequence and the watchdog loop of main.py, and the opening and     *)
(* quarantine of the database in storage.py.                               *)
(*                                                                         *)
(* Of the files on the USB drive obd.db and its sidecars matter.  The      *)
(* database is "absent", "sound", damaged so that the integrity check      *)
(* "reports" it, or so that SQLite "raises" while it opens or checks it.   *)
(* Time is counted in units of RestartSec or less; ages start at 0 when    *)
(* the unit enters its state.                                              *)
(***************************************************************************)
EXTENDS Naturals

CONSTANTS
    RestartSec,
    StartLimitIntervalSec, StartLimitBurst,
    USB_MOUNT_TIMEOUT_S,
    TimeoutStartSec,
    MaxCuts     \* bound: power cuts

ASSUME SupervisorAssumption ==
    /\ RestartSec \in Nat \ {0}
    /\ StartLimitIntervalSec \in Nat /\ StartLimitBurst \in Nat
    /\ USB_MOUNT_TIMEOUT_S \in Nat
    /\ TimeoutStartSec \in Nat
    /\ RestartSec <= TimeoutStartSec /\ USB_MOUNT_TIMEOUT_S < TimeoutStartSec
    /\ StartLimitIntervalSec < (StartLimitBurst) * RestartSec
    /\ MaxCuts \in Nat

VARIABLES
    mounted,  \* /mnt/usb is a mount point
    db,       \* obd.db
    wal,      \* sidecars of a corrupt database lie beside obd.db
    unit,     \* systemd: "activating", "active", "auto-restart" or "failed"
    age,      \* time since the unit entered this state
    starts, window, \* systemd's rate limit: starts, and the time since the first of them
    pc,       \* main: "none", "mount", "open", "moveDb", "moveWal", "connect" or "loop"
    depth,    \* _depth of get_connection
    sick,     \* what the watchdog loop looks for
    cuts

files   == <<db, wal>>
limit   == <<starts, window>>
systemd == <<unit, age, limit>>
vars    == <<mounted, files, systemd, pc, depth, sick, cuts>>

Damage == {"reports", "raises"}

Faults == {"writer dead", "writes failing", "monitor dead"}

TypeOK ==
    /\ mounted \in BOOLEAN
    /\ db \in {"absent", "sound"} \cup Damage /\ wal \in BOOLEAN
    /\ unit \in {"activating", "active", "auto-restart", "failed"}
    /\ age \in 0..TimeoutStartSec
    /\ starts \in 1..StartLimitBurst /\ window \in 0..StartLimitIntervalSec + 1
    /\ pc \in {"none", "mount", "open", "moveDb", "moveWal", "connect", "loop"}
    /\ depth \in 0..2
    /\ sick \in SUBSET Faults
    /\ cuts \in 0..MaxCuts

\* The state of a process that has just been started.
Booting ==
    /\ unit' = "activating" /\ age' = 0
    /\ pc' = "mount" /\ depth' = 0 /\ sick' = {}

Init ==
    /\ mounted \in BOOLEAN
    /\ db = "absent" /\ wal = FALSE
    /\ unit = "activating" /\ age = 0 /\ starts = 1 /\ window = 0
    /\ pc = "mount" /\ depth = 0 /\ sick = {}
    /\ cuts = 0

-----------------------------------------------------------------------------
(* The drive, the power and the clock.                                     *)

Mount ==
    /\ ~mounted /\ mounted' = TRUE
    /\ UNCHANGED <<files, systemd, pc, depth, sick, cuts>>

Unmount ==
    /\ mounted /\ mounted' = FALSE
    /\ UNCHANGED <<files, systemd, pc, depth, sick, cuts>>

\* A cut may leave a database that WAL recovery cannot repair.
PowerCut ==
    /\ cuts < MaxCuts /\ cuts' = cuts + 1
    /\ \/ UNCHANGED files
       \/ db # "absent" /\ db' \in Damage /\ wal' \in BOOLEAN
    /\ Booting
    /\ starts' = 1 /\ window' = 0
    /\ UNCHANGED mounted

Older(n, most) == IF n < most THEN n + 1 ELSE n

\* No deadline of main.py or systemd is overslept.
Tick ==
    /\ pc = "mount" => ~mounted /\ age < USB_MOUNT_TIMEOUT_S
    /\ unit = "activating" => age < TimeoutStartSec
    /\ unit = "auto-restart" => age < RestartSec
    /\ age' = IF unit \in {"activating", "auto-restart"} THEN age + 1 ELSE age
    /\ window' = Older(window, StartLimitIntervalSec + 1)
    /\ UNCHANGED <<mounted, files, unit, starts, pc, depth, sick, cuts>>

-----------------------------------------------------------------------------
(* systemd.                                                                *)

\* The process is gone, whatever the reason: Restart=always.
Exit ==
    /\ unit' = "auto-restart" /\ age' = 0
    /\ pc' = "none"
    /\ UNCHANGED <<limit, depth, sick>>

\* The rate limit: a start begins a new interval, or is counted into the current
\* one, or is refused: then the service stays down until somebody starts it.
StartRefused == window <= StartLimitIntervalSec /\ starts = StartLimitBurst

CountStart ==
    /\ starts' = IF window > StartLimitIntervalSec THEN 1 ELSE starts + 1
    /\ window' = IF window > StartLimitIntervalSec THEN 0 ELSE window

\* Mutant: no RestartSec.
RestartAtOnce ==
    /\ unit = "auto-restart"
    /\ IF StartRefused
       THEN unit' = "failed" /\ UNCHANGED <<age, limit, pc, depth, sick>>
       ELSE CountStart /\ Booting
    /\ UNCHANGED <<mounted, files, cuts>>

Restart ==
    /\ unit = "auto-restart" /\ age >= RestartSec
    /\ IF StartRefused
       THEN unit' = "failed" /\ UNCHANGED <<age, limit, pc, depth, sick>>
       ELSE CountStart /\ Booting
    /\ UNCHANGED <<mounted, files, cuts>>

\* TimeoutStartSec: no READY=1 in time.
StartTimeout ==
    /\ unit = "activating" /\ age = TimeoutStartSec
    /\ Exit
    /\ UNCHANGED <<mounted, files, cuts>>

\* An exception that leaves main, a kill by the watchdog, a stop request.
Die ==
    /\ pc # "none"
    /\ Exit
    /\ UNCHANGED <<mounted, files, cuts>>

-----------------------------------------------------------------------------
(* main.py and storage.py.                                                 *)

\* wait_for_usb_mount.
MountSeen ==
    /\ pc = "mount" /\ mounted
    /\ pc' = "open"
    /\ UNCHANGED <<mounted, files, systemd, depth, sick, cuts>>

MountTimeout ==
    /\ pc = "mount" /\ ~mounted
    /\ age >= USB_MOUNT_TIMEOUT_S
    /\ Exit
    /\ UNCHANGED <<mounted, files, cuts>>

\* sqlite3.connect creates a missing file; sidecars that lie beside it are
\* replayed into it, and a failing drive may spoil it at once.
Connect ==
    IF db = "absent"
    THEN db' \in Damage \cup (IF wal THEN {} ELSE {"sound"})
    ELSE UNCHANGED db

CanOpen == mounted /\ depth < 2

\* Mutant: the collector skips the integrity check, as sync.py does.
OpenUnchecked ==
    /\ pc = "open" /\ CanOpen
    /\ Connect /\ db' # "raises"
    /\ pc' = "connect"
    /\ UNCHANGED <<mounted, wal, systemd, depth, sick, cuts>>

\* get_connection, and the schema.
OpenSound ==
    /\ pc = "open" /\ CanOpen
    /\ Connect /\ db' = "sound"
    /\ pc' = "connect"
    /\ UNCHANGED <<mounted, wal, systemd, depth, sick, cuts>>

\* Mutant: nothing bounds the recursion of get_connection.
OpenCorruptAnyDepth ==
    /\ pc = "open" /\ mounted
    /\ Connect /\ db' = "reports"
    /\ pc' = "moveDb"
    /\ UNCHANGED <<mounted, wal, systemd, depth, sick, cuts>>

OpenCorrupt ==
    /\ pc = "open" /\ CanOpen
    /\ Connect /\ db' = "reports"
    /\ pc' = "moveDb"
    /\ UNCHANGED <<mounted, wal, systemd, depth, sick, cuts>>

\* The check has failed twice, or SQLite raises: get_connection catches nothing,
\* so main dies before the database is quarantined.
OpenRaises ==
    /\ pc = "open"
    /\ IF CanOpen THEN Connect /\ db' = "raises" ELSE UNCHANGED db
    /\ Exit
    /\ UNCHANGED <<mounted, wal, cuts>>

\* _quarantine_corrupt_db: os.replace of obd.db, then of its sidecars; what is
\* not there is skipped.
QuarantineDb ==
    /\ pc = "moveDb"
    /\ pc' = "moveWal"
    /\ db' = IF mounted THEN "absent" ELSE db
    /\ UNCHANGED <<mounted, wal, systemd, depth, sick, cuts>>

\* Mutant: only obd.db is moved.
QuarantineWithoutWal ==
    /\ pc = "moveWal"
    /\ depth' = depth + 1 /\ pc' = "open"
    /\ UNCHANGED <<mounted, files, systemd, sick, cuts>>

QuarantineWal ==
    /\ pc = "moveWal"
    /\ wal' = (wal /\ ~mounted)
    /\ depth' = depth + 1 /\ pc' = "open"
    /\ UNCHANGED <<mounted, db, systemd, sick, cuts>>

\* Collector.start does not wait for the car: READY=1.
Ready ==
    /\ pc = "connect"
    /\ pc' = "loop"
    /\ unit' = "active" /\ age' = 0
    /\ UNCHANGED <<mounted, files, limit, depth, sick, cuts>>

\* A thread dies, or every flush fails.
Fall(fault) ==
    /\ pc = "loop"
    /\ sick' = sick \cup {fault}
    /\ UNCHANGED <<mounted, files, systemd, pc, depth, cuts>>

\* Mutant: the reconnect monitor is not looked at.
LeaveLoopOnQueue ==
    /\ pc = "loop" /\ sick \cap {"writer dead", "writes failing"} # {}
    /\ Exit
    /\ UNCHANGED <<mounted, files, cuts>>

\* The 30 s loop of main finds a fault and leaves.
LeaveLoop ==
    /\ pc = "loop" /\ sick # {}
    /\ Exit
    /\ UNCHANGED <<mounted, files, cuts>>

-----------------------------------------------------------------------------
World == Mount \/ Unmount \/ PowerCut \/ Tick

Systemd == Restart \/ StartTimeout \/ Die

Boot ==
    \/ MountSeen \/ MountTimeout
    \/ OpenSound \/ OpenCorrupt \/ OpenRaises
    \/ QuarantineDb \/ QuarantineWal \/ Ready

Running == (\E fault \in Faults : Fall(fault)) \/ LeaveLoop

Next == World \/ Systemd \/ Boot \/ Running

Spec == Init /\ [][Next]_vars

\* Time passes, and a drive that is there lets the steps of the boot succeed
\* again and again.
Fairness ==
    /\ WF_vars(Tick) /\ WF_vars(Restart) /\ WF_vars(StartTimeout)
    /\ SF_vars(MountSeen) /\ WF_vars(MountTimeout)
    /\ SF_vars(OpenSound) /\ SF_vars(OpenCorrupt) /\ WF_vars(OpenRaises)
    /\ SF_vars(QuarantineDb) /\ SF_vars(QuarantineWal)
    /\ SF_vars(Ready)
    /\ WF_vars(LeaveLoop)

FairSpec == Spec /\ Fairness

-----------------------------------------------------------------------------
\* main.py:59-65: a slow drive, or anything else that makes main fail over and
\* over, never uses up the start limit, after which the service would stay down.
NeverGivesUp == unit # "failed"

\* Rows are only ever written to a database that has passed the check, with no
\* sidecars of a corrupt one beside it, also when the quarantine itself is
\* interrupted (storage.py _quarantine_corrupt_db).
SoundWhenUsed == pc \in {"connect", "loop"} => db = "sound" /\ ~wal

\* main.py:245-249: no zombie: a process that cannot collect any more is replaced.
ZombieExits == sick # {} /\ pc = "loop" ~> pc # "loop"

\* storage.py:69-71: corruption that the check reports, an interrupted quarantine, a
\* failing start: while the drive stays mounted the collector works again.
BackToWork == mounted ~> pc = "loop" \/ ~mounted \/ db = "raises"

\* storage.py:124-126: a corrupt database is renamed and a fresh one started "rather
\* than crash-looping on every boot with an unrecoverable OperationalError".
NoCrashLoop == mounted ~> pc = "loop" \/ ~mounted
=============================================================================
