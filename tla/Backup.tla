------------------------------- MODULE Backup -------------------------------
(***************************************************************************)
(* backend/scripts/backup.sh: the daily dump of the database.  Two         *)
(* processes run it: the loop of the backup container and the single dump  *)
(* of "make backup-now".  A dump is what the database held when pg_dump    *)
(* took its snapshot.  The script looks at the number of rows, so an       *)
(* UPDATE (the close of a trip) is told apart from an inserted row.  Time  *)
(* is counted in ticks, TICKS of them to a day.                            *)
(*                                                                         *)
(* A file is named after the second its dump began in: two processes that  *)
(* begin in one second write the same .partial, and the first to end takes *)
(* it away from the other.  (A dump that begins in the second another one  *)
(* ended in replaces it, by one that holds all that it held; here both are *)
(* kept.)  Nothing is fsynced: a dump may be lost, or cut off under its    *)
(* own name, when the host goes down soon after.                           *)
(***************************************************************************)
EXTENDS Integers, Sequences

CONSTANTS
    KEEP_DAILY, FORCE_AFTER_DAYS,
    TICKS,        \* ticks of a day; BACKUP_AT is the first
    MaxRows, MaxEdits, MaxOnce, MaxFaults   \* bounds

\* With one daily dump kept, a slow run that is overtaken by a single dump
\* replaces it by an older one.  compose.yaml keeps 7.
ASSUME BackupAssumption ==
    /\ KEEP_DAILY \in Nat \ {0, 1} /\ FORCE_AFTER_DAYS \in Nat \ {0}
    /\ TICKS \in Nat \ {0}
    /\ MaxRows \in Nat /\ MaxEdits \in Nat /\ MaxOnce \in Nat /\ MaxFaults \in Nat

Procs == {"loop", "once"}
None  == -1   \* no fingerprint
Dumps == [rows : 0..MaxRows, edits : 0..MaxEdits]
NoRun == [fp |-> None, snapshot |-> [rows |-> 0, edits |-> 0], begun |-> 0]
Damaged == [rows |-> 0, edits |-> 0]   \* nothing can be restored from it
Other(p) == IF p = "loop" THEN "once" ELSE "loop"
Old   == FORCE_AFTER_DAYS * TICKS     \* ages beyond are not told apart

\* An edit is in a dump after this time: the nights that are skipped, the one
\* that is not, and the time its pg_dump takes.
EditBound == (FORCE_AFTER_DAYS + 1) * TICKS + 1

VARIABLES
    db,         \* rows inserted and updates made
    daily,      \* the dumps in daily/, oldest first
    last,       \* .last_fingerprint
    partial,    \* the .partial of each process: "new" in this tick, its "own",
                \* "joint" with the other, or "gone": the other took it away
    cached,     \* how many of the newest dumps are not on the disk yet
    at,         \* where each process is
    run,        \* of each process: fingerprint, what pg_dump reads, rows at its start
    tod,        \* the time of day
    left,       \* ticks before the loop is late
    age,        \* ticks since the newest dump
    unsaved,    \* history: ticks each edit has waited for a dump, none once disturbed
    promised,   \* history: rows at the start of a run that ended well
    disturbed,  \* history: the loop was late, died in a run, or its dump failed
    spoiled,    \* history: a dump that counts was lost or damaged: its mv failed
                \* in the loop, two runs wrote one file, or the host went down
    onces, faults

disk    == <<daily, last, partial, cached>>
clock   == <<tod, left, age, unsaved>>
history == <<promised, disturbed, spoiled>>
backupVars == <<db, disk, at, run, clock, history, onces, faults>>

BackupTypeOK ==
    /\ db \in Dumps
    /\ daily \in Seq(Dumps) /\ Len(daily) <= KEEP_DAILY + 2 + 2 * MaxFaults
    /\ last \in 0..MaxRows \cup {None}
    /\ partial \in [Procs -> {"new", "own", "joint", "gone"}] /\ cached \in Nat
    /\ at \in [Procs -> {"down", "wait", "fp", "check", "dumping", "record", "promote", "prune"}]
    /\ run \in [Procs -> [fp : 0..MaxRows \cup {None}, snapshot : Dumps, begun : 0..MaxRows]]
    /\ tod \in 0..TICKS - 1 /\ left \in 0..TICKS /\ age \in 0..Old
    /\ unsaved \in [1..MaxEdits -> 0..EditBound + 1]
    /\ promised \in 0..MaxRows /\ disturbed \in BOOLEAN /\ spoiled \in BOOLEAN
    /\ onces \in 0..MaxOnce /\ faults \in 0..MaxFaults

BackupInit ==
    /\ db = [rows |-> 0, edits |-> 0]
    /\ daily = <<>> /\ last = None
    /\ partial = [p \in Procs |-> "own"] /\ cached = 0
    /\ at = [p \in Procs |-> "down"] /\ run = [p \in Procs |-> NoRun]
    /\ tod \in 0..TICKS - 1 /\ left = 0 /\ age = Old
    /\ unsaved = [k \in 1..MaxEdits |-> 0]
    /\ promised = 0 /\ disturbed = FALSE /\ spoiled = FALSE
    /\ onces = 0 /\ faults = 0

AtMost(n, bound) == IF n > bound THEN bound ELSE n

newest_dump_age_days == age \div TICKS

ForceAfter(p) == IF p = "loop" THEN FORCE_AFTER_DAYS ELSE 0

Goto(p, place) == at' = [at EXCEPT ![p] = place]

Fault == faults < MaxFaults /\ faults' = faults + 1

-----------------------------------------------------------------------------
(* The database, by way of the API server.                                 *)

Insert ==
    /\ db.rows < MaxRows
    /\ db' = [db EXCEPT !.rows = @ + 1]
    /\ UNCHANGED <<disk, at, run, clock, history, onces, faults>>

Edit ==
    /\ db.rows > 0 /\ db.edits < MaxEdits
    /\ db' = [db EXCEPT !.edits = @ + 1]
    /\ UNCHANGED <<disk, at, run, clock, history, onces, faults>>

-----------------------------------------------------------------------------
(* The loop and the single dump.                                           *)

\* Seconds until BACKUP_AT, today or tomorrow.
NextRun == TICKS - tod

StartLoop ==
    /\ at["loop"] = "down"
    /\ IF newest_dump_age_days >= 1
       THEN Goto("loop", "fp") /\ left' = 0
       ELSE Goto("loop", "wait") /\ left' = NextRun
    /\ UNCHANGED <<db, disk, run, tod, age, unsaved, history, onces, faults>>

Wake ==
    /\ at["loop"] = "wait" /\ left = 0
    /\ Goto("loop", "fp")
    /\ UNCHANGED <<db, disk, run, clock, history, onces, faults>>

\* docker compose exec, in the same container.
StartOnce ==
    /\ at["loop"] # "down" /\ at["once"] = "down" /\ onces < MaxOnce
    /\ onces' = onces + 1
    /\ Goto("once", "fp")
    /\ UNCHANGED <<db, disk, run, clock, history, faults>>

\* dump() returns: the loop sleeps until the next night, the other exits.
Leave(p) ==
    /\ Goto(p, IF p = "loop" THEN "wait" ELSE "down")
    /\ left' = IF p = "loop" THEN NextRun ELSE left
    /\ run' = [run EXCEPT ![p] = NoRun]

\* It returns 0.  Not counted on any more once a dump was lost or damaged.
Promise(p) ==
    promised' = IF spoiled \/ run[p].begun < promised THEN promised ELSE run[p].begun

-----------------------------------------------------------------------------
(* dump(), of process p.                                                   *)

\* psql counts the rows; without the tables, or a connection, it fails and the
\* fingerprint is empty.
Fingerprint(p, tables) ==
    /\ at[p] = "fp"
    /\ run' = [run EXCEPT ![p].begun = db.rows,
                          ![p].fp = IF tables THEN db.rows ELSE None]
    /\ Goto(p, "check")
    /\ UNCHANGED <<db, disk, clock, history, onces, faults>>

FingerprintFails(p) ==
    /\ at[p] = "fp" /\ Fault
    /\ run' = [run EXCEPT ![p].begun = db.rows]
    /\ Goto(p, "check")
    /\ UNCHANGED <<db, disk, clock, history, onces>>

Unchanged(p) == run[p].fp # None /\ run[p].fp = last

\* Mutant: a dump that is FORCE_AFTER_DAYS old will do.
SkipLate(p) ==
    /\ at[p] = "check"
    /\ Unchanged(p) /\ newest_dump_age_days <= ForceAfter(p)
    /\ Leave(p) /\ Promise(p)
    /\ UNCHANGED <<db, disk, tod, age, unsaved, disturbed, spoiled, onces, faults>>

Skip(p) ==
    /\ at[p] = "check"
    /\ Unchanged(p) /\ newest_dump_age_days < ForceAfter(p)
    /\ Leave(p) /\ Promise(p)
    /\ UNCHANGED <<db, disk, tod, age, unsaved, disturbed, spoiled, onces, faults>>

\* pg_dump begins, into a .partial file; in the second in which the other one
\* began, into the same.  Nothing is promised any more then: the damaged dump is
\* counted as one of KEEP_DAILY.  Up to a tick it is in time.
TakeSnapshot(p) ==
    /\ at[p] = "check"
    /\ ~(Unchanged(p) /\ newest_dump_age_days < ForceAfter(p))
    /\ run' = [run EXCEPT ![p].snapshot = db]
    /\ Goto(p, "dumping")
    /\ left' = IF p = "loop" THEN 1 ELSE left
    /\ \/ /\ partial' = [partial EXCEPT ![p] = "new"]
          /\ UNCHANGED history
       \/ /\ partial[Other(p)] = "new"
          /\ partial' = [q \in Procs |-> "joint"]
          /\ promised' = 0 /\ disturbed' = TRUE /\ spoiled' = TRUE
    /\ UNCHANGED <<db, daily, last, cached, tod, age, unsaved, onces, faults>>

\* mv renames the .partial, or rm -f removes it, also under the other's hands.
Released(p) ==
    [q \in Procs |-> IF q = p THEN "own"
                     ELSE IF partial[p] = "joint" /\ partial[q] = "joint" THEN "gone"
                     ELSE partial[q]]

\* What is in the file when pg_dump ends.
Written(p) == {run[p].snapshot} \cup {Damaged : q \in {r \in {p} : partial[r] = "joint"}}

\* pg_dump ends well and mv gives the dump its name.
FinishDump(p) ==
    /\ at[p] = "dumping" /\ partial[p] # "gone"
    /\ \E d \in Written(p) : daily' = Append(daily, d)
    /\ age' = 0
    /\ partial' = Released(p) /\ cached' = cached + 1
    /\ Goto(p, "record")
    /\ left' = IF p = "loop" THEN 0 ELSE left
    /\ UNCHANGED <<db, last, run, tod, unsaved, history, onces, faults>>

\* pg_dump fails, or is cut off.  The loop logs it and waits for the next night.
DumpFails(p) ==
    /\ at[p] = "dumping" /\ Fault
    /\ partial' = Released(p)
    /\ Leave(p)
    /\ disturbed' = (disturbed \/ p = "loop")
    /\ UNCHANGED <<db, daily, last, cached, tod, age, unsaved, promised, spoiled, onces>>

\* mv fails, as it does when the .partial is gone.  "dump || log" suspends set -e
\* in the loop, which goes on as if it had not; the single dump exits.
RenameFails(p) ==
    /\ at[p] = "dumping"
    /\ IF partial[p] = "gone" THEN UNCHANGED faults ELSE Fault
    /\ partial' = [partial EXCEPT ![p] = "own"]
    /\ IF p = "loop"
       THEN /\ Goto(p, "record") /\ left' = 0
            /\ disturbed' = TRUE /\ spoiled' = TRUE
            /\ UNCHANGED run
       ELSE /\ Leave(p)
            /\ UNCHANGED <<disturbed, spoiled>>
    /\ UNCHANGED <<db, daily, last, cached, tod, age, unsaved, promised, onces>>

\* Mutant: the rows are counted again after the dump.
RecordFreshly(p) ==
    /\ at[p] = "record"
    /\ last' = IF run[p].fp # None THEN db.rows ELSE last
    /\ Goto(p, "promote")
    /\ UNCHANGED <<db, daily, partial, cached, run, clock, history, onces, faults>>

Record(p) ==
    /\ at[p] = "record"
    /\ last' = IF run[p].fp # None THEN run[p].fp ELSE last
    /\ Goto(p, "promote")
    /\ UNCHANGED <<db, daily, partial, cached, run, clock, history, onces, faults>>

\* The file is truncated and not written.
RecordFails(p) ==
    /\ at[p] = "record" /\ run[p].fp # None /\ Fault
    /\ last' = None
    /\ IF p = "loop" THEN Goto(p, "promote") /\ UNCHANGED <<run, left>> ELSE Leave(p)
    /\ UNCHANGED <<db, daily, partial, cached, tod, age, unsaved, history, onces>>

\* On a Monday (UTC) the dump is copied to weekly/.  Nothing reads the copies,
\* and they are not counted here.
Promote(p) ==
    /\ at[p] = "promote"
    /\ Goto(p, "prune")
    /\ UNCHANGED <<db, disk, run, clock, history, onces, faults>>

\* cp fails: the single dump exits before it prunes.
PromoteFails(p) ==
    /\ at[p] = "promote" /\ Fault
    /\ IF p = "loop" THEN Goto(p, "prune") /\ UNCHANGED <<run, left>> ELSE Leave(p)
    /\ UNCHANGED <<db, disk, tod, age, unsaved, history, onces>>

\* The newest n.
Newest(s, n) == IF Len(s) > n THEN SubSeq(s, Len(s) - n + 1, Len(s)) ELSE s

Prune(p) ==
    /\ at[p] = "prune"
    /\ daily' = Newest(daily, KEEP_DAILY)
    /\ Leave(p) /\ Promise(p)
    /\ UNCHANGED <<db, last, partial, cached, tod, age, unsaved, disturbed, spoiled, onces, faults>>

-----------------------------------------------------------------------------
\* The container ends, wherever the two processes are.
Killed ==
    /\ at["loop"] # "down" /\ Fault
    /\ at' = [p \in Procs |-> "down"] /\ run' = [p \in Procs |-> NoRun]
    /\ partial' = [p \in Procs |-> "own"] /\ left' = 0
    /\ UNCHANGED <<db, tod, unsaved, onces>>

\* It is stopped, or its host is and every dump is on the disk.
Die ==
    /\ Killed
    /\ last' \in {last} \cup {None : p \in {q \in Procs : at[q] = "record"}}
    /\ disturbed' = (disturbed \/ at["loop"] # "wait" \/ left = 0)
    /\ UNCHANGED <<daily, cached, age, promised, spoiled>>

\* The host goes down too early: up to n of the newest dumps are undone, or left
\* without their data; so may be the fingerprint.
HostDies ==
    /\ Killed
    /\ \E n \in 1..Len(daily) : \E m \in 0..n :
          /\ n <= cached
          /\ daily' = SubSeq(daily, 1, Len(daily) - n) \o [i \in 1..m |-> Damaged]
    /\ cached' = 0 /\ age' \in age..Old
    /\ last' \in {last, None}
    /\ promised' = 0 /\ disturbed' = TRUE /\ spoiled' = TRUE

\* The k-th edit is in a dump.
Dumped(k) == \E i \in DOMAIN daily : daily[i].edits >= k

\* Time passes, enough to write a dump back.  The loop may be asleep with its
\* host, or slow: then it is late.
Tick ==
    /\ tod' = (tod + 1) % TICKS
    /\ age' = AtMost(age + 1, Old)
    /\ left' = IF left = 0 THEN 0 ELSE left - 1
    /\ disturbed' = (disturbed \/ left = 0 \/ at["once"] # "down")
    /\ unsaved' = [k \in 1..MaxEdits |->
          IF disturbed' \/ k > db.edits \/ Dumped(k) THEN 0 ELSE AtMost(unsaved[k] + 1, EditBound + 1)]
    /\ partial' = [p \in Procs |-> IF partial[p] = "new" THEN "own" ELSE partial[p]]
    /\ cached' = 0
    /\ UNCHANGED <<db, daily, last, at, run, promised, spoiled, onces, faults>>

Dump(p) ==
    \/ FingerprintFails(p) \/ Skip(p) \/ TakeSnapshot(p)
    \/ FinishDump(p) \/ DumpFails(p) \/ RenameFails(p)
    \/ Record(p) \/ RecordFails(p) \/ Promote(p) \/ PromoteFails(p) \/ Prune(p)
=============================================================================
