--------------------------- MODULE Backend_proofs ----------------------------
(***************************************************************************)
(* The schema and the backups, for every number of versions, deaths,       *)
(* deployments, rows, updates, faults and dumps that are kept.             *)
(*                                                                         *)
(* RecordMatches is not inductive: a server that is about to commit, and a *)
(* transaction that lost its server, must have the schema of the version   *)
(* before.                                                                 *)
(*                                                                         *)
(* RowsSaved and EditsSaved rest on what it takes for a dump to be kept    *)
(* (Kept): a run that began earlier may still add an older dump after it,  *)
(* but there are only two processes.  A file that both of them write, and  *)
(* a host that goes down before a dump is on its disk, void the promises   *)
(* first (OwnInv).                                                         *)
(***************************************************************************)
EXTENDS Backend, SequenceTheorems, TLAPS

SchemaInv ==
    /\ RecordMatches
    /\ pc \in {"loop", "sql", "record", "commit", "serving"} => 1..version \subseteq applied
    /\ pc \in {"sql", "record", "commit"} => version < build
    /\ pc = "serving" => build <= version
    /\ orphan # 0 => 1..(orphan - 1) \subseteq applied

LEMMA Bounds ==
    /\ Latest \in Nat /\ Latest > 0 /\ MaxDeaths \in Nat /\ MaxDeploys \in Nat
    /\ Versions = 1..Latest
BY MigrateAssumption DEF Versions

\* A version whose predecessors are applied may be applied.
LEMMA NoGap ==
    ASSUME NEW S \in SUBSET Versions, NEW v \in Versions,
           \A u \in S : 1..u \subseteq S, 1..(v - 1) \subseteq S
    PROVE  /\ S \cup {v} \in SUBSET Versions
           /\ \A u \in S \cup {v} : 1..u \subseteq S \cup {v}
BY Bounds

LEMMA SchemaInit == Init => SchemaInv
BY Bounds DEF Init, MigrateInit, SchemaInv, RecordMatches, MigrateTypeOK

LEMMA SchemaStep == SchemaInv /\ [Next]_vars => SchemaInv'
<1> SUFFICES ASSUME SchemaInv, [Next]_vars
             PROVE  SchemaInv'
  OBVIOUS
<1> USE Bounds DEF SchemaInv, RecordMatches, MigrateTypeOK
<1>1. CASE UNCHANGED migrateVars
  BY <1>1 DEF migrateVars, schema, server
<1>2. CASE Serve
  <2>1. CASE StartServer
    BY <2>1 DEF StartServer, schema
  <2>2. CASE ReadCurrent
    BY <2>2 DEF ReadCurrent, schema
  <2>3. CASE NextMigration
    BY <2>3 DEF NextMigration, schema
  <2>4. CASE ExecSql
    BY <2>4 DEF ExecSql, schema
  <2>5. CASE RecordVersion
    BY <2>5 DEF RecordVersion, schema
  <2>6. CASE Commit
    <3>1. version + 1 \in Versions /\ 1..((version + 1) - 1) \subseteq applied
      BY <2>6 DEF Commit
    <3>2. /\ applied' = applied \cup {version + 1} /\ recorded' = applied'
          /\ version' = version + 1 /\ pc' = "loop"
          /\ UNCHANGED <<build, orphan, deaths, deploys>>
      BY <2>6 DEF Commit
    <3>3. applied' \in SUBSET Versions /\ \A u \in applied' : 1..u \subseteq applied'
      BY <3>1, <3>2, NoGap
    <3> QED
      BY <3>1, <3>2, <3>3
  <2> QED
    BY <1>2, <2>1, <2>2, <2>3, <2>4, <2>5, <2>6 DEF Serve
<1>3. CASE ServerDies
  <2>1. /\ pc' = "down" /\ deaths' \in 0..MaxDeaths
        /\ UNCHANGED <<applied, recorded, build, version, deploys>>
    BY <1>3 DEF ServerDies, schema
  <2>2. \/ orphan' = 0 \/ orphan' = orphan
        \/ pc = "commit" /\ orphan' = version + 1
    BY <1>3 DEF ServerDies
  <2>3. orphan' \in 0..Latest /\ (orphan' # 0 => 1..(orphan' - 1) \subseteq applied)
    BY <2>2
  <2> QED
    BY <2>1, <2>3
<1>4. CASE Orphan
  <2>1. CASE OrphanCommits
    <3>1. /\ applied' = applied \cup {orphan} /\ recorded' = applied' /\ orphan' = 0
          /\ orphan \in Versions /\ 1..(orphan - 1) \subseteq applied
          /\ UNCHANGED <<build, pc, version, deaths, deploys>>
      BY <2>1 DEF OrphanCommits
    <3>2. applied' \in SUBSET Versions /\ \A u \in applied' : 1..u \subseteq applied'
      BY <3>1, NoGap
    <3> QED
      BY <3>1, <3>2
  <2>2. CASE OrphanRollsBack
    BY <2>2 DEF OrphanRollsBack, schema
  <2> QED
    BY <1>4, <2>1, <2>2 DEF Orphan
<1>5. CASE Deploy
  BY <1>5 DEF Deploy, schema
<1> QED
  BY <1>1, <1>2, <1>3, <1>4, <1>5 DEF Next, Server, Sync, Backups, vars

THEOREM SchemaInvariant == Spec => []SchemaInv
BY SchemaInit, SchemaStep, PTL DEF Spec

\* However often the server dies, also while PostgreSQL commits, and whatever
\* builds are deployed: the record of the schema is true and has no gap, and a
\* server that answers has the schema of its build.
THEOREM BackendRecordMatches == Spec => []RecordMatches
<1>1. SchemaInv => RecordMatches
  BY DEF SchemaInv
<1> QED
  BY <1>1, SchemaInvariant, PTL

-----------------------------------------------------------------------------
(* The backups.                                                            *)

RowsFrom(n)  == {d \in Dumps : d.rows >= n}
EditsFrom(k) == {d \in Dumps : d.edits >= k}

Stale(p, G) == at[p] = "dumping" /\ run[p].snapshot \notin G

\* A dump of G is kept for good: it is the newest, and at most one older dump
\* may still come after it; or it is the last but one, and none may.
Kept(G) ==
    \/ /\ Len(daily) > 0 /\ daily[Len(daily)] \in G
       /\ ~Stale("loop", G) \/ ~Stale("once", G)
    \/ /\ Len(daily) > 1 /\ daily[Len(daily) - 1] \in G
       /\ ~Stale("loop", G) /\ ~Stale("once", G)

After(p) == at[p] \in {"record", "promote", "prune"}
Added(p) == IF After(p) THEN 1 ELSE 0

\* Only runs under way, and those that a fault ended, leave more dumps than are
\* to be kept.  (The types of the clock are in TimeInv.)
DiskInv ==
    /\ db \in Dumps
    /\ daily \in Seq(Dumps)
    /\ Len(daily) <= KEEP_DAILY + Added("loop") + Added("once") + 2 * faults
    /\ last \in 0..MaxRows \cup {None}
    /\ at \in [Procs -> {"down", "wait", "fp", "check", "dumping", "record", "promote", "prune"}]
    /\ run \in [Procs -> [fp : 0..MaxRows \cup {None}, snapshot : Dumps, begun : 0..MaxRows]]
    /\ promised \in 0..MaxRows
    /\ onces \in 0..MaxOnce /\ faults \in 0..MaxFaults

\* Who writes into the file of the other, or lost it, promises nothing.
OwnInv ==
    /\ partial \in [Procs -> {"new", "own", "joint", "gone"}] /\ cached \in Nat
    /\ \A p \in Procs : partial[p] \in {"joint", "gone"} => spoiled /\ disturbed /\ promised = 0

LEMMA BackupParams ==
    /\ KEEP_DAILY \in Nat /\ KEEP_DAILY >= 2
    /\ FORCE_AFTER_DAYS \in Nat /\ FORCE_AFTER_DAYS >= 1
    /\ TICKS \in Nat /\ TICKS >= 1
    /\ MaxRows \in Nat /\ MaxEdits \in Nat /\ MaxOnce \in Nat /\ MaxFaults \in Nat
    /\ Procs = {"loop", "once"} /\ "loop" # "once"
    /\ None \notin Nat
BY BackupAssumption DEF Procs, None

LEMMA NoRunType ==
    /\ NoRun \in [fp : 0..MaxRows \cup {None}, snapshot : Dumps, begun : 0..MaxRows]
    /\ NoRun.fp = None /\ NoRun.begun = 0
BY BackupParams DEF NoRun, Dumps

LEMMA DamagedType == Damaged \in Dumps /\ Damaged.rows = 0 /\ Damaged.edits = 0
BY BackupParams DEF Damaged, Dumps

LEMMA DumpsType ==
    ASSUME NEW d \in Dumps
    PROVE  d.rows \in 0..MaxRows /\ d.edits \in 0..MaxEdits
BY DEF Dumps

\* What the newest dumps are after a dump is added, and after old ones are pruned.
LEMMA AppendDump ==
    ASSUME NEW s \in Seq(Dumps), NEW d \in Dumps
    PROVE  /\ Append(s, d) \in Seq(Dumps) /\ Len(s) \in Nat
           /\ Len(Append(s, d)) = Len(s) + 1
           /\ Append(s, d)[Len(s) + 1] = d
           /\ \A i \in 1..Len(s) : Append(s, d)[i] = s[i]
           /\ Len(s) > 0 => Append(s, d)[Len(s)] = s[Len(s)]
<1>1. Len(s) \in Nat
  BY LenProperties
<1>2. \A i \in 1..Len(s) : Append(s, d)[i] = s[i]
  BY AppendProperties
<1> QED
  BY <1>1, <1>2, AppendProperties

LEMMA NewestDumps ==
    ASSUME NEW s \in Seq(Dumps), NEW n \in Nat, n >= 2
    PROVE  /\ Newest(s, n) \in Seq(Dumps)
           /\ Len(Newest(s, n)) \in Nat /\ Len(Newest(s, n)) <= n
           /\ Len(s) > 0 => /\ Len(Newest(s, n)) > 0
                            /\ Newest(s, n)[Len(Newest(s, n))] = s[Len(s)]
           /\ Len(s) > 1 => /\ Len(Newest(s, n)) > 1
                            /\ Newest(s, n)[Len(Newest(s, n)) - 1] = s[Len(s) - 1]
<1>1. Len(s) \in Nat
  BY LenProperties
<1>2. CASE Len(s) > n
  <2>1. Newest(s, n) = SubSeq(s, Len(s) - n + 1, Len(s))
    BY <1>2 DEF Newest
  <2>2. /\ Len(s) - n + 1 \in 1..Len(s) + 1 /\ Len(s) \in Len(s) - n + 1 - 1..Len(s)
        /\ Len(s) - (Len(s) - n + 1) + 1 = n
    BY <1>1, <1>2
  <2>3. \A i \in (Len(s) - n + 1)..Len(s) : s[i] \in Dumps
    BY <1>1, <1>2, ElementOfSeq
  <2>4. /\ SubSeq(s, Len(s) - n + 1, Len(s)) \in Seq(Dumps)
        /\ Len(SubSeq(s, Len(s) - n + 1, Len(s))) = n
        /\ \A i \in 1..n : SubSeq(s, Len(s) - n + 1, Len(s))[i] = s[(Len(s) - n + 1) + i - 1]
    BY <1>1, <1>2, <2>2, <2>3, SubSeqProperties
  <2>5. (Len(s) - n + 1) + n - 1 = Len(s) /\ (Len(s) - n + 1) + (n - 1) - 1 = Len(s) - 1
    BY <1>1
  <2>6. n \in 1..n /\ n - 1 \in 1..n
    OBVIOUS
  <2> QED
    BY <1>1, <2>1, <2>4, <2>5, <2>6
<1>3. CASE ~(Len(s) > n)
  BY <1>1, <1>3 DEF Newest
<1> QED
  BY <1>2, <1>3

LEMMA NewestElements ==
    ASSUME NEW s \in Seq(Dumps), NEW n \in Nat, n >= 2
    PROVE  \A i \in DOMAIN Newest(s, n) : \E j \in DOMAIN s : Newest(s, n)[i] = s[j]
<1>1. Len(s) \in Nat /\ DOMAIN s = 1..Len(s)
  BY LenProperties
<1>2. CASE Len(s) > n
  <2>1. Newest(s, n) = SubSeq(s, Len(s) - n + 1, Len(s))
    BY <1>2 DEF Newest
  <2>2. DOMAIN Newest(s, n) = 1..n /\ \A i \in 1..n : Newest(s, n)[i] = s[(Len(s) - n + 1) + i - 1]
    BY <1>1, <1>2, <2>1
  <2>3. \A i \in 1..n : (Len(s) - n + 1) + i - 1 \in 1..Len(s)
    BY <1>1, <1>2
  <2> QED
    BY <1>1, <2>2, <2>3
<1>3. CASE ~(Len(s) > n)
  BY <1>3 DEF Newest
<1> QED
  BY <1>2, <1>3

LEMMA FirstDumps ==
    ASSUME NEW s \in Seq(Dumps), NEW l \in Nat, l <= Len(s)
    PROVE  /\ SubSeq(s, 1, l) \in Seq(Dumps) /\ Len(SubSeq(s, 1, l)) = l
           /\ \A i \in 1..l : SubSeq(s, 1, l)[i] = s[i]
<1>1. Len(s) \in Nat
  BY LenProperties
<1>2. \A i \in 1..l : s[i] \in Dumps
  BY <1>1, ElementOfSeq
<1>3. /\ SubSeq(s, 1, l) \in Seq(Dumps)
      /\ Len(SubSeq(s, 1, l)) = IF 1 <= l THEN l - 1 + 1 ELSE 0
      /\ \A i \in 1..l - 1 + 1 : SubSeq(s, 1, l)[i] = s[1 + i - 1]
  <2>1. 1 \in Int /\ l \in Int
    OBVIOUS
  <2> QED
    BY <1>2, <2>1, SubSeqProperties
<1>4. Len(SubSeq(s, 1, l)) = l
  BY <1>3
<1>5. \A i \in 1..l : i \in 1..l - 1 + 1 /\ 1 + i - 1 = i
  OBVIOUS
<1> QED
  BY <1>3, <1>4, <1>5

\* The steps that touch the backups' state.
BackupNext ==
    \/ Insert \/ Edit
    \/ StartLoop \/ Wake \/ StartOnce \/ Die \/ HostDies \/ Tick
    \/ \E p \in Procs : Fingerprint(p, 1 \in applied) \/ Dump(p)

LEMMA BackupSteps == [Next]_vars => [BackupNext]_backupVars
BY DEF Next, vars, Server, Sync, Backups, BackupNext

LEMMA DiskInit == Init => DiskInv
<1> SUFFICES ASSUME Init
             PROVE  DiskInv
  OBVIOUS
<1>1. db \in Dumps
  BY BackupParams DEF Init, BackupInit, Dumps
<1>2. daily \in Seq(Dumps) /\ Len(daily) = 0
  BY EmptySeq DEF Init, BackupInit
<1>3. run \in [Procs -> [fp : 0..MaxRows \cup {None}, snapshot : Dumps, begun : 0..MaxRows]]
  BY NoRunType DEF Init, BackupInit
<1> QED
  BY <1>1, <1>2, <1>3, BackupParams DEF Init, BackupInit, DiskInv, Added, After

\* The end of a run, whatever the reason.
LEMMA LeaveType ==
    ASSUME DiskInv, NEW p \in Procs, Leave(p)
    PROVE  /\ at' \in [Procs -> {"down", "wait", "fp", "check", "dumping", "record", "promote", "prune"}]
           /\ at'[p] \in {"wait", "down"} /\ \A q \in Procs : q # p => at'[q] = at[q]
           /\ run' \in [Procs -> [fp : 0..MaxRows \cup {None}, snapshot : Dumps, begun : 0..MaxRows]]
           /\ run'[p] = NoRun /\ \A q \in Procs : q # p => run'[q] = run[q]
BY NoRunType DEF DiskInv, Leave, Goto

LEMMA DbGrows ==
    ASSUME db \in Dumps, Insert \/ Edit
    PROVE  db' \in Dumps /\ db'.rows >= db.rows /\ db'.edits >= db.edits
<1>1. /\ db = [rows |-> db.rows, edits |-> db.edits]
      /\ db.rows \in 0..MaxRows /\ db.edits \in 0..MaxEdits
  BY DEF Dumps
<1>2. CASE Insert
  <2>1. db.rows < MaxRows /\ db' = [rows |-> db.rows + 1, edits |-> db.edits]
    BY <1>1, <1>2 DEF Insert
  <2> QED
    BY <1>1, <2>1, BackupParams DEF Dumps
<1>3. CASE Edit
  <2>1. db.edits < MaxEdits /\ db' = [rows |-> db.rows, edits |-> db.edits + 1]
    BY <1>1, <1>3 DEF Edit
  <2> QED
    BY <1>1, <2>1, BackupParams DEF Dumps
<1> QED
  BY <1>2, <1>3

\* The run after its fingerprint was taken, whether or not that failed.
LEMMA FingerprintType ==
    ASSUME DiskInv, NEW p \in Procs, Fingerprint(p, 1 \in applied) \/ FingerprintFails(p)
    PROVE  /\ run' \in [Procs -> [fp : 0..MaxRows \cup {None}, snapshot : Dumps, begun : 0..MaxRows]]
           /\ run'[p].begun = db.rows /\ run'[p].fp \in {run[p].fp, db.rows, None}
           /\ \A q \in Procs : q # p => run'[q] = run[q]
<1> DEFINE type == [fp : 0..MaxRows \cup {None}, snapshot : Dumps, begun : 0..MaxRows]
<1>1. db.rows \in 0..MaxRows /\ run \in [Procs -> type]
  BY DumpsType DEF DiskInv
<1>2. [run EXCEPT ![p].begun = db.rows] \in [Procs -> type]
  BY <1>1
<1>3. CASE FingerprintFails(p)
  BY <1>1, <1>2, <1>3 DEF FingerprintFails
<1>4. CASE Fingerprint(p, 1 \in applied)
  <2>1. PICK n \in 0..MaxRows \cup {None} :
           run' = [run EXCEPT ![p].begun = db.rows, ![p].fp = n] /\ n \in {db.rows, None}
    BY <1>1, <1>4 DEF Fingerprint
  <2>2. run' = [[run EXCEPT ![p].begun = db.rows] EXCEPT ![p].fp = n]
    BY <2>1
  <2>3. run' \in [Procs -> type]
    BY <1>2, <2>2
  <2> QED
    BY <1>1, <2>1, <2>3
<1> QED
  BY <1>3, <1>4

\* The steps of a run before its dump leave the directory alone, and promise nothing.
LEMMA ReadEffect ==
    ASSUME NEW p \in Procs, faults \in 0..MaxFaults,
           Fingerprint(p, 1 \in applied) \/ FingerprintFails(p) \/ TakeSnapshot(p)
    PROVE  /\ at[p] \in {"fp", "check"} /\ at' \in {[at EXCEPT ![p] = "check"], [at EXCEPT ![p] = "dumping"]}
           /\ faults' \in {faults, faults + 1} /\ faults' \in 0..MaxFaults
           /\ promised' \in {promised, 0} /\ UNCHANGED <<db, daily, last, onces>>
<1>1. CASE Fingerprint(p, 1 \in applied)
  BY <1>1 DEF Fingerprint, Goto, disk, history
<1>2. CASE FingerprintFails(p)
  BY <1>2, BackupParams DEF FingerprintFails, Goto, Fault, disk, history
<1>3. CASE TakeSnapshot(p)
  BY <1>3 DEF TakeSnapshot, Goto, disk, history
<1> QED
  BY <1>1, <1>2, <1>3

\* What a host that goes down leaves of the dumps.
LEMMA HostLoses ==
    ASSUME DiskInv, HostDies
    PROVE  /\ daily' \in Seq(Dumps) /\ Len(daily') \in Nat /\ Len(daily') <= Len(daily)
           /\ \A i \in DOMAIN daily' : daily'[i] = Damaged \/ \E j \in DOMAIN daily : daily'[i] = daily[j]
<1>1. PICK n \in 1..Len(daily) : \E m \in 0..n :
         daily' = SubSeq(daily, 1, Len(daily) - n) \o [i \in 1..m |-> Damaged]
  BY DEF HostDies
<1>2. PICK m \in 0..n : daily' = SubSeq(daily, 1, Len(daily) - n) \o [i \in 1..m |-> Damaged]
  BY <1>1
<1>3. PICK t : t = daily'
  OBVIOUS
<1>4. PICK s \in Seq(Dumps) : s = daily
  BY DEF DiskInv
<1>5. Len(s) \in Nat /\ DOMAIN s = 1..Len(s)
  BY LenProperties
<1>6. PICK l \in Nat : l = Len(s) - n
  <2>1. Len(s) - n \in Nat
    BY <1>4, <1>5
  <2> QED
    BY <2>1
<1>7. PICK a : a = SubSeq(s, 1, l)
  OBVIOUS
<1>8. a \in Seq(Dumps) /\ Len(a) = l /\ \A i \in 1..l : a[i] = s[i]
  <2>1. l <= Len(s)
    BY <1>4, <1>5, <1>6
  <2>2. /\ SubSeq(s, 1, l) \in Seq(Dumps) /\ Len(SubSeq(s, 1, l)) = l
        /\ \A i \in 1..l : SubSeq(s, 1, l)[i] = s[i]
    BY <2>1, FirstDumps
  <2> QED
    BY <1>7, <2>2, Zenon
<1>9. PICK b : b = [i \in 1..m |-> Damaged]
  OBVIOUS
<1>10. b \in Seq(Dumps)
  BY <1>9, DamagedType, IsASeq
<1>11. Len(b) = m /\ \A i \in 1..m : b[i] = Damaged
  BY <1>9
<1>12. t = a \o b
  BY <1>2, <1>3, <1>4, <1>6, <1>7, <1>9
<1>13. /\ t \in Seq(Dumps) /\ Len(t) = l + m
       /\ \A i \in 1..l + m : t[i] = IF i <= l THEN a[i] ELSE b[i - l]
  <2>1. /\ a \o b \in Seq(Dumps) /\ Len(a \o b) = Len(a) + Len(b)
        /\ \A i \in 1..Len(a) + Len(b) : (a \o b)[i] = IF i <= Len(a) THEN a[i] ELSE b[i - Len(a)]
    BY <1>8, <1>10, ConcatProperties
  <2> QED
    BY <1>8, <1>11, <1>12, <2>1
<1>14. ASSUME NEW i \in 1..l + m
       PROVE  t[i] = Damaged \/ \E j \in 1..Len(s) : t[i] = s[j]
  <2>1. CASE i <= l
    BY <1>4, <1>5, <1>6, <1>8, <1>13, <2>1
  <2>2. CASE ~(i <= l)
    <3>1. m \in Nat /\ i \in Nat
      BY <1>5
    <3>2. i - l \in 1..m
      BY <2>2, <3>1
    <3>3. t[i] = b[i - l]
      BY <1>13, <2>2
    <3>4. b[i - l] = Damaged
      BY <1>11, <3>2
    <3> QED
      BY <3>3, <3>4, Zenon
  <2> QED
    BY <2>1, <2>2
<1>15. Len(t) \in Nat /\ Len(t) <= Len(s)
  BY <1>4, <1>5, <1>6, <1>13
<1>16. DOMAIN t = 1..l + m
  BY <1>13, LenProperties
<1>17. \A i \in DOMAIN t : t[i] = Damaged \/ \E j \in DOMAIN s : t[i] = s[j]
  BY <1>5, <1>14, <1>16
<1> QED
  BY <1>3, <1>4, <1>13, <1>15, <1>17, Zenon

\* What a dump adds that ends well.
LEMMA FinishAdds ==
    ASSUME DiskInv, NEW p \in Procs, FinishDump(p)
    PROVE  \E d \in Dumps : /\ daily' = Append(daily, d)
                            /\ d = run[p].snapshot \/ (d = Damaged /\ partial[p] = "joint")
<1>1. PICK d \in Written(p) : daily' = Append(daily, d)
  BY DEF FinishDump
<1>2. d = run[p].snapshot \/ (d = Damaged /\ partial[p] = "joint")
  BY DEF Written
<1>3. d \in Dumps
  BY <1>2, DamagedType DEF DiskInv
<1> QED
  BY <1>1, <1>2, <1>3

LEMMA DiskStep == DiskInv /\ [BackupNext]_backupVars => DiskInv'
<1> SUFFICES ASSUME DiskInv, [BackupNext]_backupVars
             PROVE  DiskInv'
  OBVIOUS
<1>0. Len(daily) \in Nat
  BY LenProperties DEF DiskInv
<1> USE <1>0, BackupParams DEF DiskInv, Added, After
<1>1. CASE UNCHANGED backupVars
  BY <1>1 DEF backupVars, disk, clock, history
<1>2. CASE Insert \/ Edit
  <2>1. db' \in Dumps
    BY <1>2, DbGrows
  <2>2. UNCHANGED <<daily, last, at, run, promised, onces, faults>>
    BY <1>2 DEF Insert, Edit, disk, history
  <2> QED
    BY <2>1, <2>2
<1>3. CASE StartLoop \/ Wake \/ StartOnce
  <2>1. \E p \in Procs : /\ at[p] \in {"down", "wait"}
                         /\ at' \in {[at EXCEPT ![p] = "fp"], [at EXCEPT ![p] = "wait"]}
    BY <1>3 DEF StartLoop, Wake, StartOnce, Goto
  <2>2. onces' \in 0..MaxOnce /\ UNCHANGED <<db, daily, last, run, promised, faults>>
    BY <1>3 DEF StartLoop, Wake, StartOnce, disk, history
  <2> QED
    BY <2>1, <2>2
<1>4. CASE Die \/ HostDies
  <2>1. run' \in [Procs -> [fp : 0..MaxRows \cup {None}, snapshot : Dumps, begun : 0..MaxRows]]
    BY <1>4, NoRunType DEF Die, HostDies, Killed
  <2>2. last' \in 0..MaxRows \cup {None}
    BY <1>4 DEF Die, HostDies
  <2>3. faults' = faults + 1 /\ faults' \in 0..MaxFaults
    BY <1>4 DEF Die, HostDies, Killed, Fault
  <2>4. at' = [q \in Procs |-> "down"] /\ UNCHANGED <<db, onces>> /\ promised' \in {promised, 0}
    BY <1>4 DEF Die, HostDies, Killed
  <2>5. daily' \in Seq(Dumps) /\ Len(daily') \in Nat /\ Len(daily') <= Len(daily)
    <3>1. CASE Die
      BY <3>1 DEF Die
    <3>2. CASE HostDies
      BY <3>2, HostLoses
    <3> QED
      BY <1>4, <3>1, <3>2
  <2>6. Len(daily') <= KEEP_DAILY + 2 * faults'
    BY <2>3, <2>5
  <2> QED
    BY <2>1, <2>2, <2>3, <2>4, <2>5, <2>6
<1>5. CASE Tick
  BY <1>5 DEF Tick, disk
<1>6. ASSUME NEW p \in Procs, Fingerprint(p, 1 \in applied) \/ FingerprintFails(p) \/ TakeSnapshot(p)
      PROVE  DiskInv'
  <2>1. run' \in [Procs -> [fp : 0..MaxRows \cup {None}, snapshot : Dumps, begun : 0..MaxRows]]
    <3>1. CASE Fingerprint(p, 1 \in applied) \/ FingerprintFails(p)
      BY <3>1, FingerprintType
    <3>2. CASE TakeSnapshot(p)
      BY <3>2 DEF TakeSnapshot
    <3> QED
      BY <1>6, <3>1, <3>2
  <2>2. /\ at[p] \in {"fp", "check"} /\ at' \in {[at EXCEPT ![p] = "check"], [at EXCEPT ![p] = "dumping"]}
        /\ faults' \in {faults, faults + 1} /\ faults' \in 0..MaxFaults
        /\ promised' \in {promised, 0} /\ UNCHANGED <<db, daily, last, onces>>
    <3>1. faults \in 0..MaxFaults
      OBVIOUS
    <3> HIDE <1>0, BackupParams DEF DiskInv, Added, After
    <3> QED
      BY <1>6, <3>1, ReadEffect
  <2>3. \A q \in Procs : After(q)' <=> After(q)
    BY <2>2
  <2>4. at' \in [Procs -> {"down", "wait", "fp", "check", "dumping", "record", "promote", "prune"}]
    BY <2>2
  <2>5. \A q \in Procs : Added(q)' = Added(q)
    BY <2>3
  <2>6. faults' \in Nat /\ faults \in Nat /\ faults <= faults'
    BY <1>6 DEF Fingerprint, FingerprintFails, TakeSnapshot, Fault
  <2>7. Len(daily') <= KEEP_DAILY + Added("loop")' + Added("once")' + 2 * faults'
    BY <2>2, <2>5, <2>6
  <2>8. promised' \in 0..MaxRows
    BY <2>2
  <2> QED
    BY <2>1, <2>2, <2>4, <2>7, <2>8
<1>7. ASSUME NEW p \in Procs, Skip(p)
      PROVE  DiskInv'
  <2>1. run[p].begun \in 0..MaxRows
    OBVIOUS
  <2>2. promised' \in 0..MaxRows /\ at[p] = "check" /\ UNCHANGED <<db, daily, last, onces, faults>>
    BY <1>7, <2>1 DEF Skip, Promise, disk
  <2>3. Leave(p)
    BY <1>7 DEF Skip
  <2>4. \A q \in Procs : After(q)' <=> After(q)
    BY <2>2, <2>3, LeaveType
  <2>5. /\ at' \in [Procs -> {"down", "wait", "fp", "check", "dumping", "record", "promote", "prune"}]
        /\ run' \in [Procs -> [fp : 0..MaxRows \cup {None}, snapshot : Dumps, begun : 0..MaxRows]]
    BY <2>3, LeaveType
  <2> QED
    BY <2>2, <2>4, <2>5
<1>8. ASSUME NEW p \in Procs, FinishDump(p)
      PROVE  DiskInv'
  <2>1. PICK d \in Dumps : daily' = Append(daily, d)
    BY <1>8, FinishAdds
  <2>2. daily' \in Seq(Dumps) /\ Len(daily') = Len(daily) + 1
    BY <2>1, AppendDump
  <2>3. /\ at[p] = "dumping" /\ at' = [at EXCEPT ![p] = "record"]
        /\ UNCHANGED <<db, last, run, promised, onces, faults>>
    BY <1>8 DEF FinishDump, Goto, history
  <2> QED
    BY <2>2, <2>3
<1>9. ASSUME NEW p \in Procs, DumpFails(p) \/ RenameFails(p) \/ RecordFails(p) \/ PromoteFails(p)
      PROVE  DiskInv'
  <2>1. /\ faults' \in 0..MaxFaults /\ UNCHANGED <<db, daily, promised, onces>>
        /\ faults' = faults + 1 \/ (faults' = faults /\ at[p] = "dumping")
    BY <1>9 DEF DumpFails, RenameFails, RecordFails, PromoteFails, Fault, disk, history
  <2>2. last' \in {last, None}
    BY <1>9 DEF DumpFails, RenameFails, RecordFails, PromoteFails, disk
  <2>3. \/ Leave(p)
        \/ \E place \in {"record", "promote", "prune"} : at' = [at EXCEPT ![p] = place] /\ UNCHANGED run
    BY <1>9 DEF DumpFails, RenameFails, RecordFails, PromoteFails, Goto
  <2>4. /\ at' \in [Procs -> {"down", "wait", "fp", "check", "dumping", "record", "promote", "prune"}]
        /\ run' \in [Procs -> [fp : 0..MaxRows \cup {None}, snapshot : Dumps, begun : 0..MaxRows]]
        /\ \A q \in Procs : q # p => at'[q] = at[q]
    BY <2>3, LeaveType
  <2>5. Len(daily') <= KEEP_DAILY + Added("loop")' + Added("once")' + 2 * faults'
    <3>1. Len(daily') = Len(daily) /\ Len(daily) \in Nat
      BY <2>1
    <3>2. \A q \in Procs : Added(q) \in 0..1 /\ Added(q)' \in 0..1
      OBVIOUS
    <3>3. Len(daily) <= KEEP_DAILY + Added("loop") + Added("once") + 2 * faults
      BY <1>0
    <3>4. \A q \in Procs : q # p => Added(q)' = Added(q)
      BY <2>4
    <3>5. at[p] = "dumping" => Added(p) = 0
      OBVIOUS
    <3>6. faults \in Nat /\ faults' \in Nat /\ KEEP_DAILY \in Nat
      BY <1>0, <2>1
    <3>7. p = "loop" \/ p = "once"
      BY DEF Procs
    <3> HIDE <1>0, BackupParams DEF DiskInv, Added, After
    <3>8. /\ Added("loop") \in 0..1 /\ Added("loop")' \in 0..1
          /\ Added("once") \in 0..1 /\ Added("once")' \in 0..1
      BY <3>2 DEF Procs
    <3>9. CASE faults' = faults + 1
      BY <3>1, <3>3, <3>6, <3>8, <3>9
    <3>10. CASE faults' = faults /\ at[p] = "dumping"
      <4>1. Added("loop") <= Added("loop")' /\ Added("once") <= Added("once")'
        BY <3>4, <3>5, <3>7, <3>8, <3>10 DEF Procs
      <4> QED
        BY <3>1, <3>3, <3>6, <3>8, <3>10, <4>1
    <3> QED
      BY <2>1, <3>9, <3>10
  <2> QED
    BY <2>1, <2>2, <2>4, <2>5
<1>10. ASSUME NEW p \in Procs, Record(p) \/ Promote(p)
       PROVE  DiskInv'
  <2>1. CASE Record(p)
    <3>1. last' \in 0..MaxRows \cup {None}
      BY <2>1 DEF Record
    <3> QED
      BY <2>1, <3>1 DEF Record, Goto, history
  <2>2. CASE Promote(p)
    BY <2>2 DEF Promote, Goto, disk, history
  <2> QED
    BY <1>10, <2>1, <2>2
<1>11. ASSUME NEW p \in Procs, Prune(p)
       PROVE  DiskInv'
  <2>1. /\ daily' = Newest(daily, KEEP_DAILY)
        /\ Leave(p) /\ UNCHANGED <<db, last, onces, faults>>
    BY <1>11 DEF Prune
  <2>2. promised' \in 0..MaxRows
    BY <1>11 DEF Prune, Promise
  <2>3. daily' \in Seq(Dumps) /\ Len(daily') \in Nat /\ Len(daily') <= KEEP_DAILY
    BY <2>1, NewestDumps
  <2> QED
    BY <2>1, <2>2, <2>3, LeaveType
<1> QED
  BY <1>1, <1>2, <1>3, <1>4, <1>5, <1>6, <1>7, <1>8, <1>9, <1>10, <1>11 DEF BackupNext, Dump

\* A dump that begins holds what the database holds.
LEMMA StaleStep ==
    ASSUME DiskInv, NEW G \in SUBSET Dumps, [BackupNext]_backupVars,
           NEW q \in Procs, Stale(q, G)'
    PROVE  Stale(q, G) \/ (TakeSnapshot(q) /\ db \notin G)
<1> USE BackupParams DEF Stale
<1>1. CASE UNCHANGED backupVars \/ Insert \/ Edit \/ Tick
  BY <1>1 DEF backupVars, Insert, Edit, Tick
<1>2. CASE StartLoop \/ Wake \/ StartOnce
  BY <1>2 DEF StartLoop, Wake, StartOnce, Goto, DiskInv
<1>3. CASE Die \/ HostDies
  BY <1>3 DEF Die, HostDies, Killed
<1>4. ASSUME NEW p \in Procs, Fingerprint(p, 1 \in applied) \/ FingerprintFails(p)
      PROVE  Stale(q, G)
  <2>1. at' = [at EXCEPT ![p] = "check"]
    BY <1>4 DEF Fingerprint, FingerprintFails, Goto
  <2> QED
    BY <1>4, <2>1, FingerprintType DEF DiskInv
<1>5. ASSUME NEW p \in Procs, TakeSnapshot(p)
      PROVE  Stale(q, G) \/ (TakeSnapshot(q) /\ db \notin G)
  <2>1. at' = [at EXCEPT ![p] = "dumping"] /\ run' = [run EXCEPT ![p].snapshot = db]
    BY <1>5 DEF TakeSnapshot, Goto
  <2>2. run'[p].snapshot = db /\ (q # p => run'[q] = run[q] /\ at'[q] = at[q])
    BY <2>1 DEF DiskInv
  <2> QED
    BY <1>5, <2>2
<1>6. ASSUME NEW p \in Procs, Leave(p)
      PROVE  Stale(q, G)
  BY <1>6, LeaveType
<1>7. ASSUME NEW p \in Procs, NEW place \in {"record", "promote", "prune"},
             at' = [at EXCEPT ![p] = place], UNCHANGED run
      PROVE  Stale(q, G)
  BY <1>7 DEF DiskInv
<1>8. ASSUME NEW p \in Procs, Dump(p)
      PROVE  \/ FingerprintFails(p) \/ TakeSnapshot(p) \/ Leave(p)
             \/ \E place \in {"record", "promote", "prune"} : at' = [at EXCEPT ![p] = place] /\ UNCHANGED run
  BY <1>8 DEF Dump, Skip, FinishDump, DumpFails, RenameFails, Record, RecordFails, Promote,
              PromoteFails, Prune, Goto
<1> QED
  BY <1>1, <1>2, <1>3, <1>4, <1>5, <1>6, <1>7, <1>8 DEF BackupNext

LEMMA DailyStep ==
    ASSUME [BackupNext]_backupVars
    PROVE  \/ UNCHANGED daily
           \/ HostDies
           \/ \E p \in Procs : FinishDump(p) \/ Prune(p)
BY DEF BackupNext, backupVars, disk, Insert, Edit, StartLoop, Wake, StartOnce, Die, Tick, Fingerprint, Dump,
       FingerprintFails, Skip, TakeSnapshot, DumpFails, RenameFails, Record, RecordFails, Promote, PromoteFails

\* Every dump that is kept was kept before, is the one that has just been made, or
\* is damaged.
LEMMA DailyElements ==
    ASSUME DiskInv, [BackupNext]_backupVars, NEW i \in DOMAIN daily'
    PROVE  \/ \E j \in DOMAIN daily : daily'[i] = daily[j]
           \/ \E p \in Procs : FinishDump(p) /\ daily'[i] = run[p].snapshot
           \/ daily'[i] = Damaged
<1>1. Len(daily) \in Nat /\ DOMAIN daily = 1..Len(daily)
  BY LenProperties DEF DiskInv
<1>2. CASE UNCHANGED daily
  BY <1>2
<1>3. ASSUME NEW p \in Procs, FinishDump(p)
      PROVE  \/ \E j \in DOMAIN daily : daily'[i] = daily[j]
             \/ FinishDump(p) /\ daily'[i] = run[p].snapshot
             \/ daily'[i] = Damaged
  <2>1. PICK d \in Dumps : daily' = Append(daily, d) /\ d \in {run[p].snapshot, Damaged}
    BY <1>3, FinishAdds
  <2>2. DOMAIN daily' = 1..Len(daily) + 1
    BY <1>1, <2>1, AppendDump, LenProperties DEF DiskInv
  <2>3. i \in 1..Len(daily) => daily'[i] = daily[i]
    BY <2>1, AppendDump DEF DiskInv
  <2>4. i = Len(daily) + 1 => daily'[i] = d
    BY <2>1, AppendDump DEF DiskInv
  <2> QED
    BY <1>1, <1>3, <2>1, <2>2, <2>3, <2>4
<1>4. ASSUME NEW p \in Procs, Prune(p)
      PROVE  \E j \in DOMAIN daily : daily'[i] = daily[j]
  <2>1. daily' = Newest(daily, KEEP_DAILY)
    BY <1>4 DEF Prune
  <2> QED
    BY <2>1, NewestElements, BackupParams DEF DiskInv
<1>5. CASE HostDies
  BY <1>5, HostLoses
<1> QED
  BY <1>2, <1>3, <1>4, <1>5, DailyStep

\* Every file is one run's, and the host stays up.
Whole == ~HostDies /\ \A p \in Procs : partial[p] # "joint"

LEMMA WholeDump ==
    ASSUME DiskInv, Whole, NEW p \in Procs, FinishDump(p)
    PROVE  daily' = Append(daily, run[p].snapshot)
BY FinishAdds DEF Whole

LEMMA KeptStep ==
    ASSUME DiskInv, NEW G \in SUBSET Dumps, Kept(G), db \in G, [BackupNext]_backupVars, Whole
    PROVE  Kept(G)'
<1>0. /\ Len(daily) \in Nat
      /\ \A q \in Procs : Stale(q, G)' => Stale(q, G)
      /\ "loop" \in Procs /\ "once" \in Procs
  BY LenProperties, StaleStep, BackupParams DEF DiskInv
<1>1. CASE UNCHANGED daily
  BY <1>0, <1>1 DEF Kept
<1>2. ASSUME NEW p \in Procs, FinishDump(p)
      PROVE  Kept(G)'
  <2>1. daily' = Append(daily, run[p].snapshot) /\ at[p] = "dumping" /\ at' = [at EXCEPT ![p] = "record"]
    BY <1>2, WholeDump DEF FinishDump, Goto
  <2>2. /\ Len(daily') = Len(daily) + 1 /\ daily'[Len(daily')] = run[p].snapshot
        /\ Len(daily) > 0 => daily'[Len(daily') - 1] = daily[Len(daily)]
    <3>1. run[p].snapshot \in Dumps
      BY DEF DiskInv
    <3> QED
      BY <1>0, <2>1, <3>1, AppendDump DEF DiskInv
  <2>3. ~Stale(p, G)'
    BY <2>1 DEF Stale, DiskInv
  <2>4. CASE run[p].snapshot \in G
    BY <1>0, <2>2, <2>3, <2>4, BackupParams DEF Kept
  <2>5. CASE run[p].snapshot \notin G
    <3>1. Stale(p, G)
      BY <2>1, <2>5 DEF Stale
    <3>2. Len(daily) > 0 /\ daily[Len(daily)] \in G /\ \A q \in Procs : q # p => ~Stale(q, G)
      BY <3>1, BackupParams DEF Kept
    <3>3. ~Stale("loop", G)' /\ ~Stale("once", G)'
      BY <1>0, <2>3, <3>2
    <3> QED
      BY <1>0, <2>2, <3>2, <3>3 DEF Kept
  <2> QED
    BY <2>4, <2>5
<1>3. ASSUME NEW p \in Procs, Prune(p)
      PROVE  Kept(G)'
  <2>1. daily' = Newest(daily, KEEP_DAILY)
    BY <1>3 DEF Prune
  <2>2. /\ Len(daily) > 0 => Len(daily') > 0 /\ daily'[Len(daily')] = daily[Len(daily)]
        /\ Len(daily) > 1 => Len(daily') > 1 /\ daily'[Len(daily') - 1] = daily[Len(daily) - 1]
    BY <2>1, NewestDumps, BackupParams DEF DiskInv
  <2> QED
    BY <1>0, <2>2 DEF Kept
<1> QED
  BY <1>1, <1>2, <1>3, DailyStep DEF Whole

\* A dump that has just been made is kept.
LEMMA KeptNew ==
    ASSUME DiskInv, NEW G \in SUBSET Dumps, NEW p \in Procs, FinishDump(p), Whole,
           run[p].snapshot \in G
    PROVE  Kept(G)'
<1>1. daily' = Append(daily, run[p].snapshot) /\ at' = [at EXCEPT ![p] = "record"]
  BY WholeDump DEF FinishDump, Goto
<1>2. Len(daily') = Len(daily) + 1 /\ Len(daily) \in Nat /\ daily'[Len(daily')] = run[p].snapshot
  BY <1>1, AppendDump DEF DiskInv
<1>3. ~Stale(p, G)'
  BY <1>1 DEF Stale, DiskInv
<1> QED
  BY <1>2, <1>3, BackupParams DEF Kept

LEMMA KeptIsThere ==
    ASSUME NEW s \in Seq(Dumps), NEW G,
           \/ Len(s) > 0 /\ s[Len(s)] \in G
           \/ Len(s) > 1 /\ s[Len(s) - 1] \in G
    PROVE  \E i \in DOMAIN s : s[i] \in G
<1>1. Len(s) \in Nat /\ DOMAIN s = 1..Len(s)
  BY LenProperties
<1> QED
  BY <1>1

-----------------------------------------------------------------------------
\* What a run counted is in the dump it makes.
RunOf(p) ==
    /\ at[p] \in {"down", "wait", "fp"} => run[p] = NoRun
    /\ run[p].begun <= db.rows /\ run[p].fp \in {None, run[p].begun}
    /\ at[p] = "dumping" => run[p].snapshot.rows >= run[p].begun
    /\ After(p) /\ ~spoiled => Kept(RowsFrom(run[p].begun))

\* The fingerprint on the disk is that of a dump that is kept, unless the mv of a
\* dump failed.
PromiseInv ==
    /\ promised <= db.rows
    /\ promised > 0 => Kept(RowsFrom(promised))
    /\ ~spoiled /\ last # None => last <= db.rows /\ Kept(RowsFrom(last))
    /\ \A p \in Procs : RunOf(p)

LEMMA KeptRows ==
    ASSUME DiskInv, [BackupNext]_backupVars, Whole,
           NEW n \in Nat, n <= db.rows, Kept(RowsFrom(n))
    PROVE  Kept(RowsFrom(n))'
<1>1. db \in RowsFrom(n) /\ RowsFrom(n) \in SUBSET Dumps
  BY DEF RowsFrom, DiskInv
<1> QED
  BY <1>1, KeptStep

LEMMA PromiseInit == Init => PromiseInv
<1> SUFFICES ASSUME Init
             PROVE  PromiseInv
  OBVIOUS
<1>1. db.rows = 0 /\ promised = 0 /\ last = None /\ \A p \in Procs : at[p] = "down" /\ run[p] = NoRun
  BY DEF Init, BackupInit
<1> QED
  BY <1>1, NoRunType DEF PromiseInv, RunOf, After

\* The database only grows.
LEMMA RowsGrow ==
    ASSUME DiskInv, [BackupNext]_backupVars
    PROVE  db'.rows >= db.rows /\ db.rows \in Nat /\ db'.rows \in Nat
           /\ db'.edits >= db.edits /\ db.edits \in Nat /\ db'.edits \in Nat
<1>1. db.rows \in Nat /\ db.edits \in Nat
  BY DumpsType DEF DiskInv
<1>2. CASE Insert \/ Edit
  BY <1>1, <1>2, DbGrows, DumpsType DEF DiskInv
<1>3. CASE UNCHANGED db
  BY <1>1, <1>3
<1>4. Insert \/ Edit \/ UNCHANGED db
  BY DEF BackupNext, backupVars, StartLoop, Wake, StartOnce, Die, HostDies, Killed, Tick, Fingerprint, Dump,
         FingerprintFails, Skip, TakeSnapshot, FinishDump, DumpFails, RenameFails, Record,
         RecordFails, Promote, PromoteFails, Prune
<1> QED
  BY <1>2, <1>3, <1>4

\* What is kept stays kept, as long as nobody changes the number.
LEMMA SameRows ==
    ASSUME DiskInv, [BackupNext]_backupVars, NEW n \in Nat
    PROVE  /\ n <= db.rows => n <= db'.rows
           /\ Whole /\ n <= db.rows /\ Kept(RowsFrom(n)) => Kept(RowsFrom(n))'
BY RowsGrow, KeptRows

LEMMA SpoiledStep ==
    ASSUME [BackupNext]_backupVars, ~spoiled'
    PROVE  ~spoiled /\ ~HostDies
<1>1. ~HostDies
  BY Zenon DEF HostDies
<1>2. ASSUME NEW p \in Procs, RenameFails(p) \/ TakeSnapshot(p), spoiled' # spoiled
      PROVE  FALSE
  BY <1>2, Zenon DEF RenameFails, TakeSnapshot, history
<1>3. UNCHANGED spoiled \/ HostDies \/ \E p \in Procs : RenameFails(p) \/ TakeSnapshot(p)
  BY DEF BackupNext, backupVars, history, Insert, Edit, StartLoop, Wake, StartOnce, Die, Tick, Fingerprint, Dump,
         FingerprintFails, Skip, FinishDump, DumpFails, Record,
         RecordFails, Promote, PromoteFails, Prune
<1> QED
  BY <1>1, <1>2, <1>3

LEMMA SoundWhole ==
    ASSUME OwnInv, [BackupNext]_backupVars, ~spoiled'
    PROVE  Whole
<1>1. ~spoiled /\ ~HostDies
  BY SpoiledStep
<1> QED
  BY <1>1, Zenon DEF OwnInv, Whole

LEMMA PromisedCases ==
    ASSUME [BackupNext]_backupVars
    PROVE  \/ UNCHANGED promised /\ ~HostDies
           \/ promised' = 0
           \/ ~HostDies /\ \E p \in Procs : Skip(p) \/ Prune(p)
<1>1. HostDies => promised' = 0
  BY DEF HostDies
<1>2. \A p \in Procs : TakeSnapshot(p) => UNCHANGED promised \/ promised' = 0
  BY DEF TakeSnapshot, history
<1>3. \/ UNCHANGED promised \/ HostDies
      \/ \E p \in Procs : TakeSnapshot(p) \/ Skip(p) \/ Prune(p)
  BY DEF BackupNext, backupVars, history, Insert, Edit, StartLoop, Wake, StartOnce, Die, Tick, Fingerprint, Dump,
         FingerprintFails, FinishDump, DumpFails, RenameFails, Record,
         RecordFails, Promote, PromoteFails
<1> QED
  BY <1>1, <1>2, <1>3

\* A run that ends well ends with a number that is kept.
LEMMA PromisedStep ==
    ASSUME DiskInv, OwnInv, PromiseInv, [BackupNext]_backupVars
    PROVE  promised' <= db'.rows /\ (promised' > 0 => Kept(RowsFrom(promised))')
<1>1. promised \in Nat /\ \A p \in Procs : run[p].begun \in Nat
  BY BackupParams DEF DiskInv
<1>2. CASE UNCHANGED promised /\ ~HostDies
  <2>1. PICK n \in Nat : n = promised
    BY <1>1
  <2>2. promised > 0 => Whole
    BY <1>1, <1>2 DEF OwnInv, Whole
  <2> QED
    BY <1>2, <2>1, <2>2, SameRows DEF PromiseInv
<1>3. ASSUME NEW p \in Procs, ~spoiled, ~HostDies, promised' = run[p].begun,
             run[p].begun <= db.rows, Kept(RowsFrom(run[p].begun))
      PROVE  promised' <= db'.rows /\ (promised' > 0 => Kept(RowsFrom(promised))')
  <2>1. PICK n \in Nat : n = run[p].begun
    BY <1>1
  <2>2. Whole
    BY <1>3, Zenon DEF OwnInv, Whole
  <2> QED
    BY <1>3, <2>1, <2>2, SameRows
<1>4. ASSUME NEW p \in Procs, Skip(p)
      PROVE  UNCHANGED promised \/ (~spoiled /\ promised' = run[p].begun /\ Kept(RowsFrom(run[p].begun)))
  <2>1. run[p].fp # None /\ run[p].fp = last /\ run[p].fp = run[p].begun
    BY <1>4 DEF Skip, Unchanged, PromiseInv, RunOf
  <2>2. UNCHANGED promised \/ (~spoiled /\ promised' = run[p].begun)
    BY <1>4 DEF Skip, Promise
  <2> QED
    BY <2>1, <2>2 DEF PromiseInv
<1>5. ASSUME NEW p \in Procs, Prune(p)
      PROVE  UNCHANGED promised \/ (~spoiled /\ promised' = run[p].begun /\ Kept(RowsFrom(run[p].begun)))
  <2>1. After(p)
    BY <1>5 DEF Prune, After
  <2>2. UNCHANGED promised \/ (~spoiled /\ promised' = run[p].begun)
    BY <1>5 DEF Prune, Promise
  <2> QED
    BY <2>1, <2>2 DEF PromiseInv, RunOf
<1>6. CASE promised' = 0
  <2>1. db'.rows \in Nat
    BY RowsGrow
  <2> QED
    BY <1>6, <2>1
<1>7. \/ UNCHANGED promised /\ ~HostDies
      \/ promised' = 0
      \/ ~HostDies /\ \E p \in Procs : Skip(p) \/ Prune(p)
  BY PromisedCases
<1>8. \A p \in Procs : run[p].begun <= db.rows
  BY DEF PromiseInv, RunOf
<1> QED
  BY <1>2, <1>3, <1>4, <1>5, <1>6, <1>7, <1>8

\* What is recorded is the fingerprint of a run whose dump is kept.
LEMMA LastStep ==
    ASSUME DiskInv, OwnInv, PromiseInv, [BackupNext]_backupVars, ~spoiled', last' # None
    PROVE  last' <= db'.rows /\ Kept(RowsFrom(last))'
<1>1. ~spoiled /\ ~HostDies /\ Whole
  BY SpoiledStep, SoundWhole
<1>2. CASE UNCHANGED last
  <2>1. PICK n \in Nat : n = last
    BY <1>2, BackupParams DEF DiskInv
  <2>2. n <= db.rows /\ Kept(RowsFrom(n))
    BY <1>1, <1>2, <2>1 DEF PromiseInv
  <2> QED
    BY <1>1, <1>2, <2>1, <2>2, SameRows
<1>3. ASSUME NEW p \in Procs, Record(p), last' # last
      PROVE  last' <= db'.rows /\ Kept(RowsFrom(last))'
  <2>1. last' = run[p].begun /\ After(p)
    BY <1>3 DEF Record, PromiseInv, RunOf, After
  <2>2. PICK n \in Nat : n = run[p].begun
    BY BackupParams DEF DiskInv
  <2>3. n <= db.rows /\ Kept(RowsFrom(n))
    BY <1>1, <2>1, <2>2 DEF PromiseInv, RunOf
  <2> QED
    BY <1>1, <2>1, <2>2, <2>3, SameRows
<1>4. UNCHANGED last \/ last' = None \/ HostDies \/ \E p \in Procs : Record(p)
  BY DEF BackupNext, backupVars, disk, Insert, Edit, StartLoop, Wake, StartOnce, Die, Tick, Fingerprint, Dump,
         FingerprintFails, Skip, TakeSnapshot, FinishDump, DumpFails, RenameFails,
         RecordFails, Promote, PromoteFails, Prune
<1> QED
  BY <1>1, <1>2, <1>3, <1>4

\* A run that does not move, or only on to the next of its last steps.
LEMMA RunStays ==
    ASSUME DiskInv, OwnInv, [BackupNext]_backupVars, NEW q \in Procs, RunOf(q), run'[q] = run[q],
           \/ at'[q] = at[q]
           \/ at[q] \in {"down", "wait"} /\ at'[q] \in {"wait", "fp"}
           \/ After(q) /\ After(q)'
    PROVE  RunOf(q)'
<1>1. db'.rows >= db.rows /\ db.rows \in Nat /\ db'.rows \in Nat /\ run[q].begun \in Nat
  BY RowsGrow, BackupParams DEF DiskInv
<1>2. run'[q].begun <= db'.rows /\ run'[q].fp \in {None, run'[q].begun}
  BY <1>1 DEF RunOf
<1>3. at'[q] \in {"down", "wait", "fp"} => run'[q] = NoRun
  BY DEF RunOf, After
<1>4. at'[q] = "dumping" => run'[q].snapshot.rows >= run'[q].begun
  BY DEF RunOf, After
<1>5. ASSUME After(q)', ~spoiled'
      PROVE  Kept(RowsFrom(run[q].begun))'
  <2>1. ~spoiled /\ Whole /\ After(q)
    BY <1>5, SpoiledStep, SoundWhole DEF After
  <2>2. PICK n \in Nat : n = run[q].begun
    BY <1>1
  <2>3. n <= db.rows /\ Kept(RowsFrom(n))
    BY <2>1, <2>2 DEF RunOf
  <2>4. n = run'[q].begun
    BY <2>2
  <2> QED
    BY <2>1, <2>3, <2>4, KeptRows
<1> QED
  BY <1>2, <1>3, <1>4, <1>5 DEF RunOf

\* A step of dump() is of one run.
LEMMA OthersRun ==
    ASSUME DiskInv, NEW p \in Procs, Fingerprint(p, 1 \in applied) \/ Dump(p),
           NEW q \in Procs, q # p
    PROVE  run'[q] = run[q] /\ at'[q] = at[q]
<1>1. CASE Fingerprint(p, 1 \in applied) \/ FingerprintFails(p)
  BY <1>1, FingerprintType DEF Fingerprint, FingerprintFails, Goto, DiskInv
<1>2. CASE Leave(p)
  BY <1>2, LeaveType
<1>3. CASE TakeSnapshot(p)
  BY <1>3 DEF TakeSnapshot, Goto, DiskInv
<1>4. ASSUME NEW place, Goto(p, place), UNCHANGED run
      PROVE  run'[q] = run[q] /\ at'[q] = at[q]
  BY <1>4 DEF Goto, DiskInv
<1>5. \/ Leave(p) \/ Fingerprint(p, 1 \in applied) \/ FingerprintFails(p) \/ TakeSnapshot(p)
      \/ \E place : Goto(p, place) /\ UNCHANGED run
  BY DEF Dump, Skip, FinishDump, DumpFails, RenameFails, Record, RecordFails, Promote, PromoteFails, Prune
<1> QED
  BY <1>1, <1>2, <1>3, <1>4, <1>5

LEMMA RunStep == DiskInv /\ OwnInv /\ PromiseInv /\ [BackupNext]_backupVars => \A q \in Procs : RunOf(q)'
<1> SUFFICES ASSUME DiskInv, OwnInv, PromiseInv, [BackupNext]_backupVars, NEW q \in Procs
             PROVE  RunOf(q)'
  OBVIOUS
<1>0. /\ RunOf(q) /\ db.rows \in Nat /\ db'.rows \in Nat /\ db'.rows >= db.rows
      /\ run[q].begun \in Nat
  BY RowsGrow, BackupParams DEF PromiseInv, DiskInv
<1>1. CASE UNCHANGED backupVars \/ Insert \/ Edit \/ Tick
  <2>1. run' = run /\ at' = at
    BY <1>1 DEF backupVars, Insert, Edit, Tick
  <2> QED
    BY <1>0, <2>1, RunStays
<1>2. CASE StartLoop \/ Wake \/ StartOnce
  <2>1. run' = run /\ (at'[q] = at[q] \/ (at[q] \in {"down", "wait"} /\ at'[q] \in {"wait", "fp"}))
    BY <1>2, BackupParams DEF StartLoop, Wake, StartOnce, Goto, DiskInv
  <2> QED
    BY <1>0, <2>1, RunStays
<1>3. CASE Die \/ HostDies \/ Leave(q)
  <2>1. run'[q] = NoRun /\ at'[q] \in {"down", "wait"}
    BY <1>3, LeaveType DEF Die, HostDies, Killed
  <2> QED
    BY <1>0, <2>1, NoRunType DEF RunOf, After
<1>4. CASE Fingerprint(q, 1 \in applied) \/ FingerprintFails(q)
  <2>1. run[q].fp = None
    BY <1>0, <1>4, NoRunType DEF Fingerprint, FingerprintFails, RunOf
  <2>2. at'[q] = "check" /\ db' = db
    BY <1>4 DEF Fingerprint, FingerprintFails, Goto, DiskInv
  <2>3. run'[q].begun = db.rows /\ run'[q].fp \in {None, db.rows}
    BY <1>4, <2>1, FingerprintType
  <2> QED
    BY <1>0, <2>2, <2>3 DEF RunOf, After
<1>5. CASE TakeSnapshot(q)
  <2>1. at'[q] = "dumping" /\ db' = db
    BY <1>5 DEF TakeSnapshot, Goto, DiskInv
  <2>2. run'[q].snapshot = db /\ run'[q].begun = run[q].begun /\ run'[q].fp = run[q].fp
    BY <1>5 DEF TakeSnapshot, DiskInv
  <2> QED
    BY <1>0, <2>1, <2>2 DEF RunOf, After
<1>6. CASE FinishDump(q)
  <2>1. at[q] = "dumping" /\ at'[q] = "record" /\ run' = run /\ db' = db
    BY <1>6 DEF FinishDump, Goto, DiskInv
  <2>2. PICK n \in Nat : n = run[q].begun
    BY <1>0
  <2>3. run[q].snapshot \in RowsFrom(n) /\ RowsFrom(n) \in SUBSET Dumps
    BY <1>0, <2>1, <2>2 DEF RunOf, RowsFrom, DiskInv
  <2>4. ~spoiled' => Kept(RowsFrom(n))'
    BY <1>6, <2>3, KeptNew, SoundWhole
  <2> QED
    BY <1>0, <2>1, <2>2, <2>4 DEF RunOf, After
<1>7. CASE RenameFails(q) /\ ~Leave(q)
  <2>1. at[q] = "dumping" /\ at'[q] = "record" /\ run' = run /\ db' = db /\ spoiled' = TRUE
    BY <1>7 DEF RenameFails, Goto, DiskInv
  <2> QED
    BY <1>0, <2>1 DEF RunOf, After
<1>8. CASE (Record(q) \/ RecordFails(q) \/ Promote(q) \/ PromoteFails(q)) /\ ~Leave(q)
  <2>1. run' = run /\ After(q) /\ After(q)'
    BY <1>8 DEF Record, RecordFails, Promote, PromoteFails, Goto, After, DiskInv
  <2> QED
    BY <1>0, <2>1, RunStays
<1>9. ASSUME NEW p \in Procs, p # q, Fingerprint(p, 1 \in applied) \/ Dump(p)
      PROVE  RunOf(q)'
  <2>1. run'[q] = run[q] /\ at'[q] = at[q]
    BY <1>9, OthersRun
  <2> QED
    BY <1>0, <2>1, RunStays
<1>10. CASE \E p \in Procs : Fingerprint(p, 1 \in applied) \/ Dump(p)
  BY <1>3, <1>4, <1>5, <1>6, <1>7, <1>8, <1>9, <1>10 DEF Dump, Skip, DumpFails, Prune
<1> QED
  BY <1>1, <1>2, <1>3, <1>10 DEF BackupNext

LEMMA PromiseStep == DiskInv /\ OwnInv /\ PromiseInv /\ [BackupNext]_backupVars => PromiseInv'
BY PromisedStep, LastStep, RunStep DEF PromiseInv

-----------------------------------------------------------------------------
\* Where the loop is in its day.  Without a delay it is in the last steps of a run
\* at the very tick its dump ended.
TimeInv ==
    /\ tod \in 0..TICKS - 1 /\ left \in 0..TICKS /\ age \in 0..Old
    /\ at["loop"] \notin {"wait", "dumping"} => left = 0
    /\ at["loop"] = "dumping" => left <= 1
    /\ at["loop"] = "wait" /\ left > 0 => left + tod = TICKS
    /\ After("loop") /\ ~disturbed => age = 0
    /\ disturbed \in BOOLEAN /\ spoiled \in BOOLEAN

\* No dump holds an edit that is not made yet.
SnapshotInv ==
    /\ \A p \in Procs : at[p] = "dumping" => run[p].snapshot.edits <= db.edits
    /\ \A i \in DOMAIN daily : daily[i].edits <= db.edits

\* How long an edit has waited that is in no dump.  The newest dump is a tick
\* older than it at most; a loop that finds that dump Old makes another in this
\* night; and a dump under way takes a tick.
Waits(k) ==
    /\ age < Old => unsaved[k] <= age + 1
    /\ age = Old /\ (at["loop"] = "down" \/ (at["loop"] = "wait" /\ left > 0))
          => unsaved[k] <= Old + tod
    /\ at["loop"] # "dumping" => unsaved[k] <= Old + TICKS
    /\ at["loop"] = "dumping" => unsaved[k] + left <= Old + TICKS + 1
    /\ Stale("loop", EditsFrom(k)) => unsaved[k] + left <= 1
    /\ unsaved[k] > 0 => ~Stale("once", EditsFrom(k))

EditOf(k) ==
    /\ unsaved[k] > 0 => k <= db.edits
    /\ ~disturbed /\ Dumped(k) => Kept(EditsFrom(k))
    /\ ~disturbed /\ ~Dumped(k) => Waits(k)

EditInv ==
    /\ unsaved \in [1..MaxEdits -> 0..EditBound]
    /\ \A k \in 1..MaxEdits : EditOf(k)

LEMMA TimesMonotone ==
    ASSUME NEW a \in Nat, NEW b \in Nat, NEW t \in Nat, a <= b
    PROVE  a * t <= b * t /\ a * t \in Nat
OBVIOUS

LEMMA Days ==
    ASSUME NEW a \in Nat, NEW t \in Nat, t >= 1, NEW n \in Nat, a \div t < n
    PROVE  a < n * t
<1>1. PICK q \in Nat : q = a \div t
  OBVIOUS
<1>2. a < (q + 1) * t
  BY <1>1
<1>3. (q + 1) * t <= n * t
  BY <1>1, TimesMonotone
<1> QED
  BY <1>2, <1>3

LEMMA ClockParams ==
    /\ Old \in Nat /\ Old >= TICKS /\ EditBound = Old + TICKS + 1
    /\ \A a \in 0..Old : a \div TICKS < FORCE_AFTER_DAYS => a < Old
    /\ \A a \in 0..Old : ~(a \div TICKS >= 1) => a < Old
    /\ \A n \in 0..TICKS - 1 : /\ (n + 1) % TICKS \in 0..TICKS - 1
                               /\ n + 1 < TICKS => (n + 1) % TICKS = n + 1
<1> USE BackupParams
<1>1. Old \in Nat /\ Old >= TICKS
  BY TimesMonotone DEF Old
<1>2. EditBound = Old + TICKS + 1
  BY DEF Old, EditBound
<1>3. \A a \in 0..Old : a \div TICKS < FORCE_AFTER_DAYS => a < Old
  BY Days DEF Old
<1>4. \A a \in 0..Old : ~(a \div TICKS >= 1) => a < Old
  <2> SUFFICES ASSUME NEW a \in 0..Old, ~(a \div TICKS >= 1)
               PROVE  a < Old
    OBVIOUS
  <2>1. a \in Nat /\ a \div TICKS \in Nat
    BY <1>1
  <2>2. a \div TICKS < FORCE_AFTER_DAYS
    BY <2>1
  <2> QED
    BY <1>3, <2>2
<1>5. \A n \in 0..TICKS - 1 : /\ (n + 1) % TICKS \in 0..TICKS - 1
                              /\ n + 1 < TICKS => (n + 1) % TICKS = n + 1
  OBVIOUS
<1> QED
  BY <1>1, <1>2, <1>3, <1>4, <1>5

LEMMA DisturbedStays ==
    ASSUME [BackupNext]_backupVars, ~disturbed'
    PROVE  ~disturbed /\ ~HostDies
<1>0. ~HostDies
  BY Zenon DEF HostDies
<1>1. CASE UNCHANGED disturbed
  BY <1>0, <1>1
<1>2. CASE Die \/ Tick
  BY <1>0, <1>2, Zenon DEF Die, Tick
<1>3. ASSUME NEW p \in Procs, TakeSnapshot(p) \/ DumpFails(p) \/ RenameFails(p), disturbed' # disturbed
      PROVE  ~disturbed
  BY <1>3, Zenon DEF TakeSnapshot, DumpFails, RenameFails, history
<1>4. \/ UNCHANGED disturbed \/ Die \/ HostDies \/ Tick
      \/ \E p \in Procs : TakeSnapshot(p) \/ DumpFails(p) \/ RenameFails(p)
  BY DEF BackupNext, backupVars, history, Insert, Edit, StartLoop, Wake, StartOnce, Fingerprint, Dump,
         FingerprintFails, Skip, FinishDump, Record, RecordFails, Promote, PromoteFails, Prune
<1> QED
  BY <1>0, <1>1, <1>2, <1>3, <1>4

LEMMA QuietWhole ==
    ASSUME OwnInv, [BackupNext]_backupVars, ~disturbed'
    PROVE  Whole
<1>1. ~disturbed /\ ~HostDies
  BY DisturbedStays
<1> QED
  BY <1>1, Zenon DEF OwnInv, Whole

\* A tick that disturbs nothing finds the loop asleep, or in a dump, in time.
LEMMA QuietTick ==
    ASSUME Tick, ~disturbed'
    PROVE  left # 0 /\ at["once"] = "down"
BY Zenon DEF Tick

\* A death that disturbs nothing finds the loop asleep.
LEMMA QuietDeath ==
    ASSUME Die, ~disturbed'
    PROVE  at["loop"] = "wait" /\ left # 0
BY Zenon DEF Die

LEMMA BooleanStep ==
    ASSUME disturbed \in BOOLEAN, spoiled \in BOOLEAN, [BackupNext]_backupVars
    PROVE  disturbed' \in BOOLEAN /\ spoiled' \in BOOLEAN
<1>1. CASE UNCHANGED <<disturbed, spoiled>>
  BY <1>1
<1>2. CASE Die \/ HostDies \/ Tick
  BY <1>2, Zenon DEF Die, HostDies, Tick
<1>3. ASSUME NEW p \in Procs, DumpFails(p) \/ RenameFails(p)
      PROVE  disturbed' \in BOOLEAN /\ spoiled' \in BOOLEAN
  BY <1>3, Zenon DEF DumpFails, RenameFails
<1>4. ASSUME NEW p \in Procs, TakeSnapshot(p)
      PROVE  UNCHANGED <<disturbed, spoiled>> \/ (disturbed' = TRUE /\ spoiled' = TRUE)
  BY <1>4 DEF TakeSnapshot, history
<1>5. \/ UNCHANGED <<disturbed, spoiled>> \/ Die \/ HostDies \/ Tick
      \/ \E p \in Procs : TakeSnapshot(p) \/ DumpFails(p) \/ RenameFails(p)
  BY DEF BackupNext, backupVars, history, Insert, Edit, StartLoop, Wake, StartOnce, Fingerprint, Dump,
         FingerprintFails, Skip, FinishDump, Record, RecordFails, Promote, PromoteFails, Prune
<1> QED
  BY <1>1, <1>2, <1>3, <1>4, <1>5

\* Once a promise is void it stays so.
LEMMA VoidStays ==
    ASSUME [BackupNext]_backupVars, spoiled, disturbed, promised = 0
    PROVE  spoiled' /\ disturbed' /\ promised' = 0
<1>1. CASE UNCHANGED history
  BY <1>1 DEF history
<1>2. CASE Die \/ HostDies \/ Tick
  BY <1>2, Zenon DEF Die, HostDies, Tick
<1>3. ASSUME NEW p \in Procs, DumpFails(p) \/ RenameFails(p)
      PROVE  spoiled' /\ disturbed' /\ promised' = 0
  BY <1>3, Zenon DEF DumpFails, RenameFails
<1>4. ASSUME NEW p \in Procs, TakeSnapshot(p)
      PROVE  spoiled' /\ disturbed' /\ promised' = 0
  BY <1>4 DEF TakeSnapshot, history
<1>5. ASSUME NEW p \in Procs, Skip(p) \/ Prune(p)
      PROVE  spoiled' /\ disturbed' /\ promised' = 0
  <2>1. UNCHANGED <<disturbed, spoiled>> /\ Promise(p)
    BY <1>5 DEF Skip, Prune
  <2>2. promised' = 0
    BY <2>1 DEF Promise
  <2> QED
    BY <2>1, <2>2
<1>6. \/ UNCHANGED history \/ Die \/ HostDies \/ Tick
      \/ \E p \in Procs : TakeSnapshot(p) \/ DumpFails(p) \/ RenameFails(p) \/ Skip(p) \/ Prune(p)
  BY DEF BackupNext, backupVars, Insert, Edit, StartLoop, Wake, StartOnce, Fingerprint, Dump,
         FingerprintFails, FinishDump, Record, RecordFails, Promote, PromoteFails
<1> QED
  BY <1>1, <1>2, <1>3, <1>4, <1>5, <1>6

\* A file that is shared, or lost to the other run, was shared before, or comes
\* to be in a step that voids the promise.
LEMMA PartialStep ==
    ASSUME OwnInv, [BackupNext]_backupVars
    PROVE  /\ partial' \in [Procs -> {"new", "own", "joint", "gone"}]
           /\ \/ spoiled' /\ disturbed' /\ promised' = 0
              \/ \A q \in Procs : partial'[q] \in {"joint", "gone"} => partial[q] \in {"joint", "gone"}
<1> USE DEF OwnInv
<1>1. CASE UNCHANGED partial
  BY <1>1
<1>2. CASE Die \/ HostDies
  <2>1. partial' = [q \in Procs |-> "own"]
    BY <1>2 DEF Die, HostDies, Killed
  <2> QED
    BY <2>1
<1>3. CASE Tick
  <2>1. partial' = [q \in Procs |-> IF partial[q] = "new" THEN "own" ELSE partial[q]]
    BY <1>3 DEF Tick
  <2> QED
    BY <2>1
<1>4. ASSUME NEW p \in Procs, TakeSnapshot(p)
      PROVE  /\ partial' \in [Procs -> {"new", "own", "joint", "gone"}]
             /\ \/ spoiled' /\ disturbed' /\ promised' = 0
                \/ \A q \in Procs : partial'[q] \in {"joint", "gone"} => partial[q] \in {"joint", "gone"}
  <2>1. CASE partial' = [partial EXCEPT ![p] = "new"]
    BY <2>1
  <2>2. CASE partial' = [q \in Procs |-> "joint"] /\ promised' = 0 /\ disturbed' = TRUE /\ spoiled' = TRUE
    BY <2>2
  <2> QED
    BY <1>4, <2>1, <2>2 DEF TakeSnapshot
<1>5. ASSUME NEW p \in Procs, FinishDump(p) \/ DumpFails(p)
      PROVE  /\ partial' \in [Procs -> {"new", "own", "joint", "gone"}]
             /\ \A q \in Procs : partial'[q] \in {"joint", "gone"} => partial[q] \in {"joint", "gone"}
  <2>1. partial' = [q \in Procs |-> IF q = p THEN "own"
                                    ELSE IF partial[p] = "joint" /\ partial[q] = "joint" THEN "gone"
                                    ELSE partial[q]]
    BY <1>5 DEF FinishDump, DumpFails, Released
  <2> QED
    BY <2>1
<1>6. ASSUME NEW p \in Procs, RenameFails(p)
      PROVE  /\ partial' \in [Procs -> {"new", "own", "joint", "gone"}]
             /\ \A q \in Procs : partial'[q] \in {"joint", "gone"} => partial[q] \in {"joint", "gone"}
  <2>1. partial' = [partial EXCEPT ![p] = "own"]
    BY <1>6 DEF RenameFails
  <2> QED
    BY <2>1
<1>7. \/ UNCHANGED partial \/ Die \/ HostDies \/ Tick
      \/ \E p \in Procs : TakeSnapshot(p) \/ FinishDump(p) \/ DumpFails(p) \/ RenameFails(p)
  BY DEF BackupNext, backupVars, disk, Insert, Edit, StartLoop, Wake, StartOnce, Fingerprint, Dump,
         FingerprintFails, Skip, Record, RecordFails, Promote, PromoteFails, Prune
<1> QED
  BY <1>1, <1>2, <1>3, <1>4, <1>5, <1>6, <1>7

LEMMA OwnStep == OwnInv /\ [BackupNext]_backupVars => OwnInv'
<1> SUFFICES ASSUME OwnInv, [BackupNext]_backupVars
             PROVE  OwnInv'
  OBVIOUS
<1>1. cached' \in Nat
  <2>1. cached' \in {cached, 0, cached + 1}
    BY DEF BackupNext, backupVars, disk, Insert, Edit, StartLoop, Wake, StartOnce, Die, HostDies, Killed, Tick,
           Fingerprint, Dump, FingerprintFails, Skip, TakeSnapshot, FinishDump, DumpFails, RenameFails, Record,
           RecordFails, Promote, PromoteFails, Prune
  <2>2. cached \in Nat
    BY DEF OwnInv
  <2> QED
    BY <2>1, <2>2
<1>2. ASSUME NEW q \in Procs, partial[q] \in {"joint", "gone"}
      PROVE  spoiled' /\ disturbed' /\ promised' = 0
  <2>1. spoiled /\ disturbed /\ promised = 0
    BY <1>2, Zenon DEF OwnInv
  <2> QED
    BY <2>1, VoidStays
<1>3. \A q \in Procs : partial'[q] \in {"joint", "gone"} => spoiled' /\ disturbed' /\ promised' = 0
  BY <1>2, PartialStep, Zenon
<1>4. partial' \in [Procs -> {"new", "own", "joint", "gone"}]
  BY PartialStep
<1> QED
  BY <1>1, <1>3, <1>4 DEF OwnInv

LEMMA OwnInit == Init => OwnInv
BY DEF Init, BackupInit, OwnInv

\* What the single dump leaves to the loop.
LEMMA OnceStep ==
    ASSUME DiskInv, Fingerprint("once", 1 \in applied) \/ Dump("once")
    PROVE  at'["loop"] = at["loop"] /\ UNCHANGED <<tod, left>> /\ age' \in {age, 0}
<1>1. at'["loop"] = at["loop"]
  BY OthersRun, BackupParams
<1> QED
  BY <1>1, "loop" # "once" DEF Fingerprint, Dump, FingerprintFails, Skip, TakeSnapshot, FinishDump, DumpFails,
     RenameFails, Record, RecordFails, Promote, PromoteFails, Prune, Leave, clock

\* What the steps of its own run do to the loop.
LEMMA LoopStep ==
    ASSUME DiskInv, Fingerprint("loop", 1 \in applied) \/ Dump("loop")
    PROVE  /\ UNCHANGED tod
           /\ \/ at["loop"] = "fp" /\ at'["loop"] = "check" /\ UNCHANGED <<left, age>>
              \/ at["loop"] = "check" /\ at'["loop"] = "dumping" /\ left' = 1 /\ UNCHANGED age
              \/ at["loop"] = "dumping" /\ at'["loop"] = "record" /\ left' = 0 /\ age' \in {age, 0}
              \/ After("loop") /\ After("loop")' /\ UNCHANGED <<left, age>>
              \/ at["loop"] # "wait" /\ at'["loop"] = "wait" /\ left' = TICKS - tod /\ UNCHANGED age
<1> USE BackupParams DEF DiskInv, After
<1>1. CASE Fingerprint("loop", 1 \in applied) \/ FingerprintFails("loop")
  BY <1>1 DEF Fingerprint, FingerprintFails, Goto, clock
<1>2. CASE TakeSnapshot("loop")
  BY <1>2 DEF TakeSnapshot, Goto
<1>3. CASE FinishDump("loop") \/ RenameFails("loop")
  BY <1>3 DEF FinishDump, RenameFails, Goto
<1>4. CASE Record("loop") \/ RecordFails("loop") \/ Promote("loop") \/ PromoteFails("loop")
  BY <1>4 DEF Record, RecordFails, Promote, PromoteFails, Goto, clock
<1>5. CASE Skip("loop") \/ DumpFails("loop") \/ Prune("loop")
  BY <1>5 DEF Skip, DumpFails, Prune, Leave, Goto, NextRun
<1> QED
  BY <1>1, <1>2, <1>3, <1>4, <1>5 DEF Dump

\* The steps that are no part of a run.
LEMMA OtherStep ==
    ASSUME DiskInv, TimeInv,
           \/ UNCHANGED backupVars \/ Insert \/ Edit
           \/ StartLoop \/ Wake \/ StartOnce \/ Die
    PROVE  /\ UNCHANGED <<tod, age, unsaved>>
           /\ \/ at'["loop"] = at["loop"] /\ UNCHANGED left
              \/ at["loop"] \in {"down", "wait"} /\ at'["loop"] = "fp" /\ left' = 0
              \/ /\ at["loop"] = "down" /\ at'["loop"] = "wait" /\ left' = TICKS - tod
                 /\ age < Old
              \/ at'["loop"] = "down" /\ left' = 0
<1> USE BackupParams DEF DiskInv
<1>1. CASE UNCHANGED backupVars \/ Insert \/ Edit
  BY <1>1 DEF backupVars, Insert, Edit, clock
<1>2. CASE StartLoop
  BY <1>2, ClockParams DEF StartLoop, Goto, NextRun, newest_dump_age_days, TimeInv
<1>3. CASE Wake
  BY <1>3 DEF Wake, Goto, clock
<1>4. CASE StartOnce
  BY <1>4 DEF StartOnce, Goto, clock
<1>5. CASE Die
  BY <1>5 DEF Die, Killed
<1> QED
  BY <1>1, <1>2, <1>3, <1>4, <1>5

LEMMA TickStep ==
    ASSUME TimeInv, Tick
    PROVE  /\ tod' \in 0..TICKS - 1 /\ (tod + 1 < TICKS => tod' = tod + 1)
           /\ age' \in 0..Old /\ (age < Old => age' = age + 1) /\ (age = Old => age' = Old)
           /\ left' \in 0..TICKS /\ (left > 0 => left' = left - 1) /\ (left = 0 => left' = 0)
           /\ UNCHANGED <<db, daily, at, run>>
BY ClockParams, BackupParams DEF Tick, TimeInv, AtMost

LEMMA ClockCases ==
    ASSUME [BackupNext]_backupVars
    PROVE  \/ UNCHANGED backupVars \/ Insert \/ Edit \/ StartLoop \/ Wake \/ StartOnce \/ Die
           \/ HostDies \/ Tick
           \/ Fingerprint("once", 1 \in applied) \/ Dump("once")
           \/ Fingerprint("loop", 1 \in applied) \/ Dump("loop")
BY DEF BackupNext, Procs

LEMMA AgeStep ==
    ASSUME DiskInv, TimeInv, [BackupNext]_backupVars, After("loop")', ~disturbed'
    PROVE  age' = 0
<1>0. ~disturbed /\ ~HostDies /\ "loop" \in Procs
  BY DisturbedStays, BackupParams
<1>1. CASE \/ UNCHANGED backupVars \/ Insert \/ Edit \/ StartLoop \/ Wake \/ StartOnce \/ Die
  <2>1. After("loop") /\ age' = age
    BY <1>1, OtherStep DEF After
  <2> QED
    BY <1>0, <2>1 DEF TimeInv
<1>2. CASE Tick
  <2>1. After("loop") /\ left # 0
    BY <1>2, QuietTick, TickStep DEF After
  <2> QED
    BY <2>1 DEF After, TimeInv
<1>3. CASE Fingerprint("once", 1 \in applied) \/ Dump("once")
  <2>1. After("loop") /\ age' \in {age, 0}
    BY <1>3, OnceStep DEF After
  <2> QED
    BY <1>0, <2>1 DEF TimeInv
<1>4. CASE Fingerprint("loop", 1 \in applied) \/ Dump("loop")
  <2>1. CASE After("loop") /\ UNCHANGED age
    BY <1>0, <2>1 DEF TimeInv
  <2>2. CASE ~(After("loop") /\ UNCHANGED age)
    <3>1. at["loop"] = "dumping" /\ at'["loop"] = "record"
      BY <1>4, <2>2, LoopStep DEF After
    <3>2. FinishDump("loop") \/ RenameFails("loop")
      BY <1>0, <1>4, <3>1 DEF Dump, Fingerprint, FingerprintFails, Skip, TakeSnapshot, DumpFails, Leave, Goto,
         Record, RecordFails, Promote, PromoteFails, Prune, DiskInv
    <3>3. disturbed' \/ age' = 0
      BY <3>2 DEF FinishDump, RenameFails
    <3> QED
      BY <3>3
  <2> QED
    BY <2>1, <2>2
<1> QED
  BY <1>0, <1>1, <1>2, <1>3, <1>4, ClockCases

LEMMA TimeInit == Init => TimeInv /\ SnapshotInv /\ EditInv
<1> SUFFICES ASSUME Init
             PROVE  TimeInv /\ SnapshotInv /\ EditInv
  OBVIOUS
<1>1. TimeInv
  <2>1. at["loop"] = "down" /\ left = 0 /\ age = Old /\ tod \in 0..TICKS - 1
    BY BackupParams DEF Init, BackupInit
  <2>2. disturbed \in BOOLEAN /\ spoiled \in BOOLEAN
    BY DEF Init, BackupInit
  <2> QED
    BY <2>1, <2>2, ClockParams, BackupParams DEF TimeInv, After
<1>2. SnapshotInv
  BY EmptySeq DEF Init, BackupInit, SnapshotInv
<1>3. \A k \in 1..MaxEdits : /\ unsaved[k] = 0 /\ ~Dumped(k)
                             /\ ~Stale("loop", EditsFrom(k)) /\ ~Stale("once", EditsFrom(k))
  BY EmptySeq, BackupParams DEF Init, BackupInit, Dumped, Stale
<1>4. at["loop"] = "down" /\ at["once"] = "down" /\ age = Old /\ tod \in Nat
  BY BackupParams DEF Init, BackupInit
<1>5. unsaved \in [1..MaxEdits -> 0..EditBound]
  BY ClockParams, BackupParams DEF Init, BackupInit
<1>6. EditInv
  BY <1>3, <1>4, <1>5, ClockParams, BackupParams DEF EditInv, EditOf, Waits
<1> QED
  BY <1>1, <1>2, <1>6

LEMMA TimeStep == DiskInv /\ TimeInv /\ [BackupNext]_backupVars => TimeInv'
<1> SUFFICES ASSUME DiskInv, TimeInv, [BackupNext]_backupVars
             PROVE  TimeInv'
  OBVIOUS
<1>1. /\ disturbed' \in BOOLEAN /\ spoiled' \in BOOLEAN
      /\ After("loop")' /\ ~disturbed' => age' = 0
  BY AgeStep, BooleanStep DEF TimeInv
<1> DEFINE Day ==
           /\ tod' \in 0..TICKS - 1 /\ left' \in 0..TICKS /\ age' \in 0..Old
           /\ at'["loop"] \notin {"wait", "dumping"} => left' = 0
           /\ at'["loop"] = "dumping" => left' <= 1
           /\ at'["loop"] = "wait" /\ left' > 0 => left' + tod' = TICKS
<1>2. /\ tod \in 0..TICKS - 1 /\ left \in 0..TICKS /\ age \in 0..Old
      /\ at["loop"] \notin {"wait", "dumping"} => left = 0
      /\ at["loop"] = "dumping" => left <= 1
      /\ at["loop"] = "wait" /\ left > 0 => left + tod = TICKS
  BY DEF TimeInv
<1> USE BackupParams, ClockParams
<1>3. ASSUME \/ UNCHANGED backupVars \/ Insert \/ Edit \/ StartLoop \/ Wake \/ StartOnce \/ Die
      PROVE  Day
  BY <1>2, <1>3, OtherStep
<1>4. ASSUME Tick
      PROVE  Day
  BY <1>2, <1>4, TickStep
<1>5. ASSUME Fingerprint("once", 1 \in applied) \/ Dump("once")
      PROVE  Day
  <2>1. at'["loop"] = at["loop"] /\ tod' = tod /\ left' = left /\ age' \in {age, 0}
    BY <1>5, OnceStep
  <2>2. age' \in 0..Old
    BY <1>2, <2>1
  <2> QED
    BY <1>2, <2>1, <2>2
<1>6. ASSUME Fingerprint("loop", 1 \in applied) \/ Dump("loop")
      PROVE  Day
  <2>1. tod' = tod /\ age' \in {age, 0}
    BY <1>6, LoopStep
  <2>2. tod' \in 0..TICKS - 1 /\ age' \in 0..Old
    BY <1>2, <2>1
  <2>3. CASE at["loop"] \notin {"wait", "dumping"} /\ at'["loop"] \notin {"wait", "dumping"} /\ left' = left
    BY <1>2, <2>2, <2>3
  <2>4. CASE at'["loop"] = "dumping" /\ left' = 1
    BY <2>2, <2>4
  <2>5. CASE at'["loop"] = "record" /\ left' = 0
    BY <2>2, <2>5
  <2>6. CASE at'["loop"] = "wait" /\ left' = TICKS - tod
    BY <1>2, <2>1, <2>2, <2>6
  <2> QED
    BY <1>6, <2>3, <2>4, <2>5, <2>6, LoopStep DEF After
<1>7. ASSUME HostDies
      PROVE  Day
  <2>1. at'["loop"] = "down" /\ tod' = tod /\ left' = 0 /\ age' \in age..Old
    BY <1>7 DEF HostDies, Killed
  <2>2. age' \in 0..Old
    BY <1>2, <2>1
  <2> QED
    BY <1>2, <2>1, <2>2
<1>8. Day
  BY <1>3, <1>4, <1>5, <1>6, <1>7, ClockCases
<1> QED
  BY <1>1, <1>8 DEF TimeInv

LEMMA SnapshotStep == DiskInv /\ SnapshotInv /\ [BackupNext]_backupVars => SnapshotInv'
<1> SUFFICES ASSUME DiskInv, SnapshotInv, [BackupNext]_backupVars
             PROVE  SnapshotInv'
  OBVIOUS
<1>1. db'.edits >= db.edits /\ db.edits \in Nat /\ db'.edits \in Nat
  BY RowsGrow
<1>2. \A p \in Procs : run[p].snapshot.edits \in Nat
  BY DumpsType, BackupParams DEF DiskInv
<1> DEFINE Made == {d \in Dumps : d.edits <= db.edits}
<1>3. db \in Made /\ \A p \in Procs : ~Stale(p, Made)
  <2>1. db \in Made
    BY <1>1 DEF DiskInv
  <2>2. ASSUME NEW p \in Procs, at[p] = "dumping"
        PROVE  run[p].snapshot \in Made
    BY <2>2 DEF SnapshotInv, DiskInv
  <2> QED
    BY <2>1, <2>2 DEF Stale
<1>4. PICK m \in Nat : m = db.edits
  BY <1>1
<1> DEFINE G == {d \in Dumps : d.edits <= m}
<1>5. \A p \in Procs : ~Stale(p, G)'
  BY <1>3, <1>4, StaleStep
<1>6. ASSUME NEW p \in Procs, at'[p] = "dumping"
      PROVE  run'[p].snapshot.edits <= db'.edits
  <2>1. run'[p].snapshot \in G
    BY <1>5, <1>6 DEF Stale
  <2>2. run'[p].snapshot.edits <= m /\ run'[p].snapshot.edits \in Nat
    BY <2>1, DumpsType
  <2> QED
    BY <1>1, <1>4, <2>2
<1>7. ASSUME NEW i \in DOMAIN daily'
      PROVE  daily'[i].edits <= db'.edits
  <2>1. CASE \E j \in DOMAIN daily : daily'[i] = daily[j]
    <3>1. PICK j \in DOMAIN daily : daily'[i] = daily[j]
      BY <2>1
    <3>2. daily[j] \in Dumps
      BY ElementOfSeq, LenProperties DEF DiskInv
    <3>3. daily[j].edits \in Nat /\ daily[j].edits <= db.edits
      BY <3>2, DumpsType DEF SnapshotInv
    <3> QED
      BY <1>1, <3>1, <3>3
  <2>2. ASSUME NEW p \in Procs, FinishDump(p), daily'[i] = run[p].snapshot
        PROVE  daily'[i].edits <= db'.edits
    <3>1. run[p].snapshot.edits <= db.edits
      BY <2>2 DEF FinishDump, SnapshotInv
    <3> QED
      BY <1>1, <1>2, <2>2, <3>1
  <2>3. CASE daily'[i] = Damaged
    BY <1>1, <2>3, DamagedType
  <2> QED
    BY <2>1, <2>2, <2>3, DailyElements
<1> QED
  BY <1>6, <1>7 DEF SnapshotInv

\* An edit that is in a dump stays in one.
LEMMA DumpedStep ==
    ASSUME DiskInv, DiskInv', SnapshotInv, [BackupNext]_backupVars, Whole, NEW k \in 1..MaxEdits,
           Dumped(k) => Kept(EditsFrom(k))
    PROVE  Dumped(k) => Dumped(k)' /\ Kept(EditsFrom(k))'
<1> DEFINE G == EditsFrom(k)
<1> SUFFICES ASSUME Dumped(k)
             PROVE  Dumped(k)' /\ Kept(G)'
  OBVIOUS
<1>1. G \in SUBSET Dumps /\ Kept(G)
  BY DEF EditsFrom
<1>2. db \in G
  <2>1. PICK i \in DOMAIN daily : daily[i].edits >= k
    BY DEF Dumped
  <2>2. daily[i] \in Dumps /\ daily[i].edits <= db.edits
    BY ElementOfSeq, LenProperties DEF DiskInv, SnapshotInv
  <2>3. daily[i].edits \in Nat /\ db.edits \in Nat /\ k \in Nat
    BY <2>2, DumpsType, RowsGrow, BackupParams
  <2>4. db.edits >= k
    BY <2>1, <2>2, <2>3
  <2> QED
    BY <2>4 DEF EditsFrom, DiskInv
<1>3. Kept(G)'
  BY <1>1, <1>2, KeptStep
<1>4. \E i \in DOMAIN daily' : daily'[i] \in G
  BY <1>3, KeptIsThere DEF Kept, DiskInv
<1>5. Dumped(k)'
  BY <1>4 DEF Dumped, EditsFrom
<1> QED
  BY <1>3, <1>5

\* An edit that comes to be in a dump is in one that is kept.
LEMMA DumpedNew ==
    ASSUME DiskInv, [BackupNext]_backupVars, Whole, NEW k \in 1..MaxEdits, ~Dumped(k), Dumped(k)'
    PROVE  Kept(EditsFrom(k))'
<1> DEFINE G == EditsFrom(k)
<1>1. PICK i \in DOMAIN daily' : daily'[i].edits >= k
  BY DEF Dumped
<1>2. ~(\E j \in DOMAIN daily : daily'[i] = daily[j])
  BY <1>1 DEF Dumped
<1>3. daily'[i] # Damaged
  BY <1>1, DamagedType
<1>4. PICK p \in Procs : FinishDump(p) /\ daily'[i] = run[p].snapshot
  BY <1>2, <1>3, DailyElements
<1>5. run[p].snapshot \in G /\ G \in SUBSET Dumps
  BY <1>1, <1>4 DEF EditsFrom, DiskInv
<1> QED
  BY <1>4, <1>5, KeptNew

\* Only time makes an edit wait.
LEMMA UnsavedStep ==
    ASSUME DiskInv, EditInv, [BackupNext]_backupVars, NEW k \in 1..MaxEdits
    PROVE  \/ unsaved'[k] = unsaved[k]
           \/ unsaved'[k] = 0
           \/ /\ Tick /\ ~disturbed' /\ ~Dumped(k) /\ k <= db.edits
              /\ unsaved'[k] = AtMost(unsaved[k] + 1, EditBound + 1)
<1>1. CASE UNCHANGED unsaved
  BY <1>1
<1>2. CASE Tick
  <2>1. unsaved' = [n \in 1..MaxEdits |->
           IF disturbed' \/ n > db.edits \/ Dumped(n) THEN 0 ELSE AtMost(unsaved[n] + 1, EditBound + 1)]
    BY <1>2 DEF Tick
  <2>2. CASE disturbed' \/ k > db.edits \/ Dumped(k)
    BY <2>1, <2>2
  <2>3. CASE ~(disturbed' \/ k > db.edits \/ Dumped(k))
    <3>1. unsaved'[k] = AtMost(unsaved[k] + 1, EditBound + 1)
      BY <2>1, <2>3
    <3>2. k <= db.edits
      BY <2>3, RowsGrow, BackupParams
    <3> QED
      BY <1>2, <2>3, <3>1, <3>2, Zenon
  <2> QED
    BY <2>2, <2>3
<1>3. UNCHANGED unsaved \/ Tick
  BY DEF BackupNext, backupVars, clock, Insert, Edit, StartLoop, Wake, StartOnce, Die, HostDies, Killed, Fingerprint, Dump,
         FingerprintFails, Skip, TakeSnapshot, FinishDump, DumpFails, RenameFails, Record, RecordFails,
         Promote, PromoteFails, Prune
<1> QED
  BY <1>1, <1>2, <1>3

LEMMA UnsavedFunction ==
    ASSUME EditInv, [BackupNext]_backupVars
    PROVE  unsaved' = [k \in 1..MaxEdits |-> unsaved'[k]]
<1>1. CASE Tick
  BY <1>1 DEF Tick
<1>2. UNCHANGED unsaved \/ Tick
  BY DEF BackupNext, backupVars, clock, Insert, Edit, StartLoop, Wake, StartOnce, Die, HostDies, Killed, Fingerprint, Dump,
         FingerprintFails, Skip, TakeSnapshot, FinishDump, DumpFails, RenameFails, Record, RecordFails,
         Promote, PromoteFails, Prune
<1> QED
  BY <1>1, <1>2 DEF EditInv

\* Only a dump that leaves the edit out makes the newest dump younger than the edit.
LEMMA NewestStep ==
    ASSUME DiskInv, OwnInv, TimeInv, EditInv, [BackupNext]_backupVars, NEW k \in 1..MaxEdits,
           ~disturbed', ~Dumped(k), ~Dumped(k)'
    PROVE  UNCHANGED age \/ Tick \/ (age' = 0 /\ unsaved[k] <= 1)
<1>1. Waits(k) /\ unsaved[k] \in Nat
  BY DisturbedStays, ClockParams, BackupParams DEF EditInv, EditOf
<1>2. ASSUME NEW p \in Procs, FinishDump(p)
      PROVE  age' = 0 /\ unsaved[k] <= 1
  <2>1. daily' = Append(daily, run[p].snapshot) /\ age' = 0 /\ at[p] = "dumping"
    BY <1>2, QuietWhole, WholeDump DEF FinishDump
  <2>2. run[p].snapshot \in Dumps
    BY DEF DiskInv
  <2>3. Len(daily) + 1 \in DOMAIN daily' /\ daily'[Len(daily) + 1] = run[p].snapshot
    BY <2>1, <2>2, AppendDump, LenProperties DEF DiskInv
  <2>4. ~(run[p].snapshot.edits >= k)
    BY <2>3 DEF Dumped
  <2>5. Stale(p, EditsFrom(k))
    BY <2>1, <2>4 DEF Stale, EditsFrom
  <2>6. left \in Nat
    BY BackupParams DEF TimeInv
  <2>7. unsaved[k] <= 1
    BY <1>1, <2>5, <2>6, BackupParams DEF Waits
  <2> QED
    BY <2>1, <2>7
<1>3. UNCHANGED age \/ Tick \/ HostDies \/ \E p \in Procs : FinishDump(p)
  BY DEF BackupNext, backupVars, clock, Insert, Edit, StartLoop, Wake, StartOnce, Die, HostDies, Killed, Fingerprint, Dump,
         FingerprintFails, Skip, TakeSnapshot, DumpFails, RenameFails, Record, RecordFails,
         Promote, PromoteFails, Prune
<1> QED
  BY <1>2, <1>3, DisturbedStays

\* The loop goes to sleep with a dump that is not Old.
LEMMA AsleepStep ==
    ASSUME DiskInv, TimeInv, Fingerprint("loop", 1 \in applied) \/ Dump("loop"), ~disturbed, ~disturbed',
           at'["loop"] = "wait"
    PROVE  age < Old /\ age' = age
<1> USE BackupParams, ClockParams
<1>1. CASE Skip("loop")
  BY <1>1 DEF Skip, newest_dump_age_days, ForceAfter, TimeInv
<1>2. CASE DumpFails("loop")
  BY <1>2, Zenon DEF DumpFails
<1>3. CASE Prune("loop")
  <2>1. age = 0 /\ age' = age
    BY <1>3 DEF Prune, TimeInv, After
  <2> QED
    BY <2>1
<1>4. \/ Skip("loop") \/ DumpFails("loop") \/ Prune("loop")
  BY DEF Dump, Fingerprint, FingerprintFails, TakeSnapshot, FinishDump, RenameFails, Record, RecordFails,
     Promote, PromoteFails, Goto, DiskInv
<1> QED
  BY <1>1, <1>2, <1>3, <1>4

LEMMA WaitsStep ==
    ASSUME DiskInv, OwnInv, TimeInv, EditInv, [BackupNext]_backupVars, NEW k \in 1..MaxEdits,
           ~disturbed', ~Dumped(k), ~Dumped(k)'
    PROVE  Waits(k)' /\ unsaved'[k] \in 0..EditBound
<1> DEFINE G == EditsFrom(k)
<1>1. Waits(k) /\ unsaved[k] \in 0..EditBound
  BY DisturbedStays DEF EditInv, EditOf
<1>2. /\ unsaved[k] \in Nat /\ left \in Nat /\ age \in Nat /\ tod \in Nat /\ age <= Old /\ tod < TICKS
      /\ Old \in Nat /\ TICKS \in Nat /\ TICKS >= 1 /\ Old >= TICKS /\ EditBound = Old + TICKS + 1
  BY <1>1, ClockParams, BackupParams DEF TimeInv
<1>3. unsaved[k] = 0 \/ db \in G
  <2>1. unsaved[k] > 0 => k <= db.edits
    BY DEF EditInv, EditOf
  <2> QED
    BY <1>2, <2>1, RowsGrow, BackupParams DEF EditsFrom, DiskInv
<1>4. G \in SUBSET Dumps /\ "loop" \in Procs /\ "once" \in Procs
  BY BackupParams DEF EditsFrom
<1>5. /\ Stale("loop", G)' => Stale("loop", G) \/ (at["loop"] = "check" /\ unsaved[k] = 0)
      /\ Stale("once", G)' => Stale("once", G) \/ unsaved[k] = 0
  BY <1>3, <1>4, StaleStep DEF TakeSnapshot
<1>6. /\ Stale("loop", G) => at["loop"] = "dumping"
      /\ Stale("loop", G)' => at'["loop"] = "dumping"
  BY DEF Stale
<1>7. UNCHANGED age \/ Tick \/ (age' = 0 /\ unsaved[k] <= 1)
  BY NewestStep
<1>8. CASE Tick
  <2>1. /\ tod' \in 0..TICKS - 1 /\ (tod + 1 < TICKS => tod' = tod + 1)
        /\ age' \in 0..Old /\ (age < Old => age' = age + 1) /\ (age = Old => age' = Old)
        /\ left > 0 /\ left' = left - 1 /\ UNCHANGED <<at, run>> /\ at["once"] = "down"
    BY <1>2, <1>8, TickStep, QuietTick
  <2>2. unsaved'[k] \in Nat /\ unsaved'[k] <= unsaved[k] + 1
    BY <1>2, UnsavedStep DEF AtMost
  <2>3. \/ at["loop"] = "wait" /\ left + tod = TICKS
        \/ at["loop"] = "dumping" /\ left = 1
    BY <1>2, <2>1 DEF TimeInv
  <2>4. ~Stale("once", G)' /\ (Stale("loop", G)' <=> Stale("loop", G))
    BY <2>1 DEF Stale
  <2>5. CASE at["loop"] = "wait" /\ left + tod = TICKS
    BY <1>1, <1>2, <1>6, <2>1, <2>2, <2>4, <2>5 DEF Waits
  <2>6. CASE at["loop"] = "dumping" /\ left = 1
    BY <1>1, <1>2, <2>1, <2>2, <2>4, <2>6 DEF Waits
  <2> QED
    BY <2>3, <2>5, <2>6
<1>9. unsaved'[k] \in Nat /\ (Tick \/ unsaved'[k] <= unsaved[k])
  BY <1>2, UnsavedStep DEF AtMost
<1>10. ~Stale("once", G)' \/ unsaved'[k] = 0 \/ Tick
  BY <1>1, <1>2, <1>5, <1>9 DEF Waits
<1>11. ASSUME ~Tick, \/ UNCHANGED backupVars \/ Insert \/ Edit
                     \/ StartLoop \/ Wake \/ StartOnce \/ Die
       PROVE  Waits(k)' /\ unsaved'[k] \in 0..EditBound
  <2>1. tod' = tod /\ age' = age
    BY <1>11, OtherStep
  <2>2. CASE at'["loop"] = at["loop"] /\ UNCHANGED left
    <3>1. Stale("loop", G)' => Stale("loop", G)
      BY <1>5, <1>6, <2>2
    <3> QED
      BY <1>1, <1>2, <1>9, <1>10, <1>11, <2>1, <2>2, <3>1 DEF Waits
  <2>3. CASE at["loop"] \in {"down", "wait"} /\ at'["loop"] = "fp" /\ left' = 0
    BY <1>1, <1>2, <1>6, <1>9, <1>10, <1>11, <2>1, <2>3 DEF Waits
  <2>4. CASE at["loop"] = "down" /\ at'["loop"] = "wait" /\ left' = TICKS - tod /\ age < Old
    BY <1>1, <1>2, <1>6, <1>9, <1>10, <1>11, <2>1, <2>4 DEF Waits
  <2>5. CASE at'["loop"] = "down" /\ left' = 0
    <3>1. CASE at["loop"] = "wait" /\ left # 0
      BY <1>1, <1>2, <1>6, <1>9, <1>10, <1>11, <2>1, <2>5, <3>1 DEF Waits
    <3>2. CASE Die
      <4>1. at["loop"] = "wait" /\ left # 0
        BY <3>2, QuietDeath
      <4> QED
        BY <3>1, <4>1
    <3>3. CASE ~Die
      <4>1. at["loop"] = "down"
        BY <1>4, <1>11, <2>5, <3>3 DEF backupVars, Insert, Edit, StartLoop, Wake, StartOnce, Goto, DiskInv
      <4> QED
        BY <1>1, <1>2, <1>6, <1>9, <1>10, <1>11, <2>1, <2>5, <4>1 DEF Waits
    <3> QED
      BY <3>2, <3>3
  <2> QED
    BY <1>11, <2>2, <2>3, <2>4, <2>5, OtherStep
<1>12. ASSUME ~Tick, Fingerprint("once", 1 \in applied) \/ Dump("once")
       PROVE  Waits(k)' /\ unsaved'[k] \in 0..EditBound
  <2>1. at'["loop"] = at["loop"] /\ tod' = tod /\ left' = left
    BY <1>12, OnceStep
  <2> QED
    BY <1>1, <1>2, <1>5, <1>6, <1>7, <1>9, <1>10, <1>12, <2>1 DEF Waits
<1>13. ASSUME ~Tick, Fingerprint("loop", 1 \in applied) \/ Dump("loop")
       PROVE  Waits(k)' /\ unsaved'[k] \in 0..EditBound
  <2>1. tod' = tod
    BY <1>13, LoopStep
  <2>2. CASE at'["loop"] = "wait"
    <3>1. age < Old /\ age' = age /\ left' = TICKS - tod
      BY <1>13, <2>2, AsleepStep, DisturbedStays, LoopStep DEF After
    <3> QED
      BY <1>1, <1>2, <1>6, <1>9, <1>10, <1>13, <2>1, <2>2, <3>1 DEF Waits
  <2>3. CASE at["loop"] = "check" /\ at'["loop"] = "dumping" /\ left' = 1
    BY <1>1, <1>2, <1>5, <1>6, <1>7, <1>9, <1>10, <1>13, <2>1, <2>3 DEF Waits
  <2>4. CASE at'["loop"] \in {"check", "record", "promote", "prune"}
    <3>1. CASE at'["loop"] = "check"
      <4>1. at["loop"] = "fp" /\ age' = age
        BY <1>13, <3>1, LoopStep DEF After
      <4> QED
        BY <1>1, <1>2, <1>6, <1>9, <1>10, <1>13, <2>1, <3>1, <4>1 DEF Waits
    <3>2. CASE at'["loop"] # "check"
      <4>1. age' = 0
        BY <2>4, <3>2, AgeStep DEF After
      <4>2. unsaved[k] <= 1
        BY <1>1, <1>2, <1>7, <1>13, <4>1 DEF Waits
      <4> QED
        BY <1>2, <1>6, <1>9, <1>10, <1>13, <2>1, <2>4, <4>1, <4>2 DEF Waits
    <3> QED
      BY <3>1, <3>2
  <2> QED
    BY <1>13, <2>2, <2>3, <2>4, LoopStep DEF After
<1> QED
  BY <1>8, <1>11, <1>12, <1>13, ClockCases, DisturbedStays

LEMMA EditStep ==
    DiskInv /\ DiskInv' /\ OwnInv /\ TimeInv /\ SnapshotInv /\ EditInv /\ [BackupNext]_backupVars => EditInv'
<1> SUFFICES ASSUME DiskInv, DiskInv', OwnInv, TimeInv, SnapshotInv, EditInv, [BackupNext]_backupVars
             PROVE  EditInv'
  OBVIOUS
<1>1. ASSUME NEW k \in 1..MaxEdits
      PROVE  EditOf(k)' /\ unsaved'[k] \in 0..EditBound
  <2>1. EditOf(k) /\ unsaved[k] \in 0..EditBound
    BY DEF EditInv
  <2>2. ~disturbed' => /\ Dumped(k)' => Kept(EditsFrom(k))'
                       /\ ~Dumped(k)' => ~Dumped(k)
    <3> SUFFICES ASSUME ~disturbed'
                 PROVE  /\ Dumped(k)' => Kept(EditsFrom(k))'
                        /\ ~Dumped(k)' => ~Dumped(k)
      OBVIOUS
    <3>1. Whole /\ (Dumped(k) => Kept(EditsFrom(k)))
      BY <2>1, DisturbedStays, QuietWhole DEF EditOf
    <3> QED
      BY <3>1, DumpedStep, DumpedNew
  <2>4. unsaved'[k] > 0 => k <= db'.edits
    <3>1. db'.edits >= db.edits /\ db.edits \in Nat /\ db'.edits \in Nat /\ k \in Nat
      BY RowsGrow, BackupParams
    <3> QED
      BY <2>1, <3>1, UnsavedStep DEF EditOf
  <2>5. ~disturbed' /\ ~Dumped(k)' => Waits(k)' /\ unsaved'[k] \in 0..EditBound
    BY <2>2, WaitsStep
  <2>6. unsaved'[k] \in 0..EditBound
    <3>1. CASE unsaved'[k] \in {unsaved[k], 0}
      BY <2>1, <3>1, ClockParams, BackupParams
    <3>2. CASE ~(unsaved'[k] \in {unsaved[k], 0})
      <4>1. Tick /\ ~disturbed' /\ ~Dumped(k)
        BY <3>2, UnsavedStep
      <4>2. ~Dumped(k)'
        BY <4>1, TickStep DEF Dumped
      <4> QED
        BY <2>5, <4>1, <4>2
    <3> QED
      BY <3>1, <3>2
  <2> QED
    BY <2>2, <2>4, <2>5, <2>6 DEF EditOf
<1>2. unsaved' \in [1..MaxEdits -> 0..EditBound]
  BY <1>1, UnsavedFunction
<1> QED
  BY <1>1, <1>2 DEF EditInv

BackupInv == DiskInv /\ OwnInv /\ PromiseInv /\ TimeInv /\ SnapshotInv /\ EditInv

THEOREM BackupInvariant == Spec => []BackupInv
<1>1. Init => BackupInv
  BY DiskInit, OwnInit, PromiseInit, TimeInit DEF BackupInv
<1>2. BackupInv /\ [Next]_vars => BackupInv'
  BY BackupSteps, DiskStep, OwnStep, PromiseStep, TimeStep, SnapshotStep, EditStep DEF BackupInv
<1> QED
  BY <1>1, <1>2, PTL DEF Spec

LEMMA BackupTypes ==
    ASSUME BackupInv
    PROVE  BackupTypeOK
<1>1. Len(daily) \in Nat /\ faults \in 0..MaxFaults
  BY LenProperties DEF BackupInv, DiskInv
<1>2. Len(daily) <= KEEP_DAILY + 2 + 2 * MaxFaults
  BY <1>1, BackupParams DEF BackupInv, DiskInv, Added
<1>4. unsaved \in [1..MaxEdits -> 0..EditBound + 1]
  BY ClockParams, BackupParams DEF BackupInv, EditInv
<1>5. DiskInv /\ OwnInv /\ TimeInv
  BY DEF BackupInv
<1>6. daily \in Seq(Dumps) /\ db \in Dumps
  BY <1>5 DEF DiskInv
<1> QED
  BY <1>2, <1>4, <1>5, <1>6 DEF BackupTypeOK, DiskInv, OwnInv, TimeInv

\* Whatever is inserted, counted, dumped, promoted, pruned or cut off meanwhile,
\* and however the loop and the single dump interleave: every row there was when
\* a run began that ended well is in one of the dumps that are kept, until two runs
\* write one file or the host goes down with a dump in its cache.
THEOREM BackendRowsSaved == Spec => []RowsSaved
<1>1. BackupInv => RowsSaved
  <2> SUFFICES ASSUME BackupInv
               PROVE  RowsSaved
    OBVIOUS
  <2>1. ASSUME promised > 0
        PROVE  \E i \in DOMAIN daily : daily[i].rows >= promised
    <3>1. Kept(RowsFrom(promised)) /\ daily \in Seq(Dumps)
      BY <2>1 DEF BackupInv, PromiseInv, DiskInv
    <3> QED
      BY <3>1, KeptIsThere DEF Kept, RowsFrom
  <2> QED
    BY <2>1, BackupTypes DEF RowsSaved
<1> QED
  BY <1>1, BackupInvariant, PTL

\* As long as the nightly runs take place, in time and without a failure, an
\* update is in a dump after FORCE_AFTER_DAYS + 1 nights and the tick a dump takes,
\* although the fingerprint does not tell it and dumps of other rows come between.
THEOREM BackendEditsSaved == Spec => []EditsSaved
<1>1. BackupInv => EditsSaved
  BY ClockParams, BackupParams DEF BackupInv, EditInv, EditOf, EditsSaved
<1> QED
  BY <1>1, BackupInvariant, PTL
=============================================================================
