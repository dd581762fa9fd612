----------------------------- MODULE SyncProps -----------------------------
(* The properties of Sync.  MCSync checks them, Sync_proofs proves some.   *)
EXTENDS Sync

OnServer(S) == S \subseteq onServer

\* Nothing is counted as delivered that is not in PostgreSQL: the synced flag
\* is set only after a 2xx (api/sync.go handleSync), and neither a lost answer,
\* a refused batch, a restart nor a power cut that undoes commits breaks that.
NoLoss == OnServer(synced)

\* Every data row in PostgreSQL has its trip there (trip_id REFERENCES trips),
\* and the server knows only ends that the car recorded.
ServerConsistent ==
    /\ \A r \in onServer \cap Rows : Parent[r] \in onServer \cup {NoTrip}
    /\ srvClosed \subseteq onServer \cap ended

\* Trips-first ordering (sync.py SYNC_TABLE_ORDER): while no table of the pass
\* has failed, every trip that was stored when the pass began is already on the
\* server once the children are sent, so no row older than the pass is refused
\* as an orphan.
ParentsFirst ==
    pc \in {"select", "wait"} /\ passOk /\ tab > 1 => OnServer(begun \cap Trips)

\* _sync_pass returns True only if everything that was stored when it began is
\* on the server (sync.py:130, "True only if every table fully drained").
CompletePass == pc = "grace" => OnServer(begun)

\* The end of a trip is never undone on the server: an open version that is
\* delivered late or twice does not reopen it (store.go conflictClause).
ClosesAreMonotone == [][srvClosed \subseteq srvClosed']_srvClosed

\* The trips whose end is recorded, counted as delivered, and not on the server.
LostCloses == (closed \cap synced) \ srvClosed

\* A close can be lost in one way only: the trip ended between the SELECT and
\* the UPDATE of the batch that carries its open version (or a power cut falls
\* back to a state where that had happened).  Every other interleaving of
\* _TRIP_END_SQL, of the boot repair and of sync.py keeps the close.
ClosesLostOnlyByMark ==
    [][\A t \in LostCloses' \ LostCloses :
          \/ pc = "wait" /\ t \in batch.ids /\ t \notin batch.closed
          \/ pc' = "off" /\ t \in disk.closed]_vars

\* sync.py's docstring: a trip is "re-synced closed after update_trip_end()
\* resets synced=0", so a closed trip counted as delivered is closed on the
\* server too.
ClosesReachServer == LostCloses = {}

\* sync.py's docstring: a pass that fails partway is retried.  Every row stored
\* when a pass of the retry loop begins reaches the server in this drive, unless
\* the power goes first.
Delivered ==
    \A i \in Ids :
        (i \in begun /\ pc # "off" /\ ~final) ~> (i \in onServer \/ pc = "off")

\* The abstract specification: what the car and the server promise together.
R == INSTANCE Replica WITH acked <- synced
ReplicaSpec == R!Spec
=============================================================================
