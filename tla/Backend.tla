------------------------------ MODULE Backend -------------------------------
(***************************************************************************)
(* The server that migrates the schema when it starts and the backups that *)
(* go on meanwhile, on one database: containers of backend/compose.yaml    *)
(* that nothing but the database connects.  Rows change only while the     *)
(* server serves, and cannot be counted before the first migration.        *)
(***************************************************************************)
EXTENDS Migrate, Backup

vars == <<migrateVars, backupVars>>

Init == MigrateInit /\ BackupInit

Server ==
    /\ Serve \/ ServerDies \/ Orphan \/ Deploy
    /\ UNCHANGED backupVars

Sync ==
    /\ pc = "serving"
    /\ Insert \/ Edit
    /\ UNCHANGED migrateVars

Backups ==
    /\ \/ StartLoop \/ Wake \/ StartOnce \/ Die \/ HostDies \/ Tick
       \/ \E p \in Procs : Fingerprint(p, 1 \in applied) \/ Dump(p)
    /\ UNCHANGED migrateVars

Next == Server \/ Sync \/ Backups

Spec == Init /\ [][Next]_vars

\* compose restarts the server, and PostgreSQL ends the transaction of a client
\* that is gone.  Nothing is assumed of the backups.
Fairness == WF_vars(Serve /\ UNCHANGED backupVars) /\ WF_vars(Orphan /\ UNCHANGED backupVars)

FairSpec == Spec /\ Fairness

-----------------------------------------------------------------------------
\* Wherever the server died before, and whatever build it is, it comes to serve:
\* no migration is applied again or left out.
ComesUp == <>[](pc = "serving")

\* Every row there was when a run began that ended well, with a dump or with
\* "data unchanged", is in one of the dumps that are kept; whatever else is
\* inserted, dumped, pruned or cut off in between.  It holds until a dump that
\* counts is lost in its mv, is written by two runs of one second, or is not on
\* the disk yet when the host goes down: after that nothing is promised.  (And
\* every variable of Backup has its type.)
RowsSaved ==
    /\ BackupTypeOK
    /\ promised > 0 => \E i \in DOMAIN daily : daily[i].rows >= promised

\* An UPDATE is not in the fingerprint.  As long as the nightly runs take place,
\* each of them is in a dump after FORCE_AFTER_DAYS + 1 nights.
EditsSaved == \A k \in 1..MaxEdits : unsaved[k] <= EditBound
=============================================================================
