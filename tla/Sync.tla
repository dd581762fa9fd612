-------------------------------- MODULE Sync --------------------------------
(***************************************************************************)
(* pi/src/sync.py draining the car's SQLite database into PostgreSQL       *)
(* through the Go API, while the collector process keeps writing to the    *)
(* same database and the car may lose power at any moment.                 *)
(*                                                                         *)
(* A row is an id; of its columns only the two that the protocol depends   *)
(* on are kept: the synced flag, and for a trips row whether end_time is   *)
(* set.  So the database is three sets (stored, closed, synced) and the    *)
(* server two (onServer, srvClosed).                                       *)
(***************************************************************************)
EXTENDS Naturals, Sequences, FiniteSets

CONSTANTS
    Trips,         \* ids of trips rows
    Rows,          \* ids of the rows of every other table
    NoTrip,        \* NULL trip_id
    Parent,        \* trip_id of each child row
    ChildTables,   \* SYNC_TABLE_ORDER after its head, "trips"
    TableOf,       \* the table of each child row
    HealthTable,   \* the table _write_health_snapshot inserts into
    SyncBatchSize, \* config.SYNC_BATCH_SIZE
    MaxBatches,    \* _MAX_BATCHES_PER_TABLE
    MaxLate,       \* bound: requests still in the network after the client gave up
    MaxCuts,       \* bound: power cuts (WAL syncs only matter before one)
    Faults         \* subset of {"open", "select"}: SQLite calls of sync.py that may raise

Ids == Trips \cup Rows

\* Mutant: the parents are sent last.
TripsLastOrder == Append(ChildTables, "trips")

SYNC_TABLE_ORDER == <<"trips">> \o ChildTables

ParentAssumption ==
    /\ NoTrip \notin Trips
    /\ Trips \cap Rows = {}
    /\ Parent \in [Rows -> Trips \cup {NoTrip}]

TableAssumption ==
    /\ ChildTables \in Seq(STRING)
    /\ \A n \in 1..Len(ChildTables) : ChildTables[n] # "trips"
    /\ TableOf \in [Rows -> {ChildTables[n] : n \in 1..Len(ChildTables)}]

ASSUME SyncAssumption ==
    /\ ParentAssumption
    /\ TableAssumption
    /\ SyncBatchSize \in Nat \ {0}
    /\ MaxBatches \in Nat \ {0}
    /\ MaxLate \in Nat
    /\ MaxCuts \in Nat

VARIABLES
    stored, closed, synced, \* the SQLite rows, those with end_time set, those with synced=1
    disk,        \* the state of the three a power cut falls back to
    cuts,        \* power cuts so far
    made, ended, \* history: every id ever inserted, every trip ever closed
    collector,   \* the collector process: "off", "booting" (before the repair) or "up"
    onServer, srvClosed, \* PostgreSQL
    late,        \* requests the client gave up on that may still arrive
    pc,          \* where sync.py stands
    tab,         \* loop index over SYNC_TABLE_ORDER
    batches,     \* _sync_table's batch counter
    passOk,      \* _sync_pass's pass_ok
    final,       \* TRUE in the pass after the grace window
    batch,       \* the rows read by the last SELECT, in the version read
    rpc,         \* the POST of batch: "idle", "sent", "stored" or "refused"
    begun        \* history: the rows stored when the current pass began

db     == <<stored, closed, synced>>
car    == <<made, ended, collector, disk, cuts>>
server == <<onServer, srvClosed>>
client == <<pc, tab, batches, passOk, final, batch, rpc, begun>>
vars   == <<db, car, server, late, client>>

Request == [ids : SUBSET Ids, closed : SUBSET Trips]
NoBatch == [ids |-> {}, closed |-> {}]
Image   == [stored |-> stored, closed |-> closed, synced |-> synced]

\* The rows of the n-th table of the sync order.
TableIds(n) ==
    IF SYNC_TABLE_ORDER[n] = "trips"
    THEN Trips
    ELSE {r \in Rows : TableOf[r] = SYNC_TABLE_ORDER[n]}

HealthRows == {r \in Rows : TableOf[r] = HealthTable}

TypeOK ==
    /\ stored \in SUBSET Ids /\ closed \in SUBSET Trips /\ synced \in SUBSET Ids
    /\ disk \in [stored : SUBSET Ids, closed : SUBSET Trips, synced : SUBSET Ids]
    /\ cuts \in 0..MaxCuts
    /\ made \in SUBSET Ids /\ ended \in SUBSET Trips
    /\ collector \in {"off", "booting", "up"}
    /\ onServer \in SUBSET Ids /\ srvClosed \in SUBSET Trips
    /\ late \in SUBSET Request
    /\ pc \in {"off", "poll", "select", "wait", "grace", "exited"}
    /\ tab \in 1..Len(SYNC_TABLE_ORDER)
    /\ batches \in 0..MaxBatches
    /\ passOk \in BOOLEAN /\ final \in BOOLEAN
    /\ batch \in Request
    /\ rpc \in {"idle", "sent", "stored", "refused"}
    /\ begun \in SUBSET Ids

Init ==
    /\ stored = {} /\ closed = {} /\ synced = {}
    /\ disk = [stored |-> {}, closed |-> {}, synced |-> {}]
    /\ cuts = 0 /\ made = {} /\ ended = {}
    /\ collector = "off"
    /\ onServer = {} /\ srvClosed = {} /\ late = {}
    /\ pc = "off" /\ tab = 1 /\ batches = 0
    /\ passOk = TRUE /\ final = FALSE
    /\ batch = NoBatch /\ rpc = "idle" /\ begun = {}

-----------------------------------------------------------------------------
(* The collector process: the writes it commits to the shared database.    *)

\* _insert of a trips row, committed by the queue writer.
InsertTrip(t) ==
    /\ collector = "up"
    /\ t \notin made
    /\ made' = made \cup {t}
    /\ stored' = stored \cup {t}
    /\ UNCHANGED <<closed, synced, disk, cuts, ended, collector, server, late, client>>

\* _insert of a data row; foreign_keys=ON refuses it before its trip is stored.
InsertRow(r) ==
    /\ collector = "up"
    /\ r \notin made /\ r \notin HealthRows
    /\ Parent[r] \in stored \cup {NoTrip}
    /\ made' = made \cup {r}
    /\ stored' = stored \cup {r}
    /\ UNCHANGED <<closed, synced, disk, cuts, ended, collector, server, late, client>>

\* Mutant: the end of a trip does not reset synced.
CloseWithoutReset(T) ==
    /\ closed' = closed \cup T
    /\ ended' = ended \cup T
    /\ UNCHANGED synced

\* _TRIP_END_SQL: end_time is set and the row must be sent again.
CloseRows(T) ==
    /\ closed' = closed \cup T
    /\ synced' = synced \ T
    /\ ended' = ended \cup T

EndTrip(t) ==
    /\ collector = "up"
    /\ t \in stored \ closed
    /\ CloseRows({t})
    /\ UNCHANGED <<stored, disk, cuts, made, collector, server, late, client>>

\* repair_orphaned_trips, before the collector starts writing.
RepairOrphanedTrips ==
    /\ collector = "booting"
    /\ collector' = "up"
    /\ CloseRows((stored \cap Trips) \ closed)
    /\ UNCHANGED <<stored, disk, cuts, made, server, late, client>>

\* systemd restarts the collector in the middle of a drive.
CollectorRestart ==
    /\ collector = "up"
    /\ collector' = "booting"
    /\ UNCHANGED <<db, disk, cuts, made, ended, server, late, client>>

-----------------------------------------------------------------------------
(* Power.  With synchronous=NORMAL a commit reaches the USB stick when the *)
(* WAL is next synced; a cut undoes the commits made since.                *)

WalSync ==
    /\ collector # "off" /\ cuts < MaxCuts
    /\ disk' = Image
    /\ UNCHANGED <<db, cuts, made, ended, collector, server, late, client>>

\* A request on the wire may outlive the client that sent it.
Abandon ==
    \/ late' = late
    \/ /\ rpc = "sent"
       /\ Cardinality(late) < MaxLate
       /\ late' = late \cup {batch}

PowerOff ==
    /\ collector # "off" /\ cuts < MaxCuts
    /\ collector' = "off" /\ cuts' = cuts + 1
    /\ stored' = disk.stored /\ closed' = disk.closed /\ synced' = disk.synced
    /\ Abandon
    /\ pc' = "off" /\ tab' = 1 /\ batches' = 0
    /\ passOk' = TRUE /\ final' = FALSE
    /\ batch' = NoBatch /\ rpc' = "idle" /\ begun' = {}
    /\ UNCHANGED <<disk, made, ended, server>>

Boot ==
    /\ collector = "off"
    /\ collector' = "booting"
    /\ pc' = "poll"
    /\ UNCHANGED <<db, disk, cuts, made, ended, server, late,
                   tab, batches, passOk, final, batch, rpc, begun>>

-----------------------------------------------------------------------------
(* sync.py.                                                                *)

\* The part of _write_health_snapshot that changes state; a failed INSERT is
\* logged and the pass goes on.
WriteHealthSnapshot ==
    \/ \E h \in HealthRows \ made :
          made' = made \cup {h} /\ stored' = stored \cup {h}
    \/ UNCHANGED <<made, stored>>

\* _check_network succeeded, or the grace window is over: _sync_pass begins.
StartPass ==
    /\ pc \in {"poll", "grace"}
    /\ WriteHealthSnapshot
    /\ pc' = "select" /\ tab' = 1 /\ batches' = 0 /\ passOk' = TRUE
    /\ final' = (pc = "grace")
    /\ begun' = stored'
    /\ UNCHANGED <<closed, synced, disk, cuts, ended, collector, server, late, batch, rpc>>

\* get_connection raises in _sync_pass: nothing catches it.
OpenFails ==
    /\ "open" \in Faults
    /\ pc \in {"poll", "grace"}
    /\ pc' = "exited"
    /\ UNCHANGED <<db, car, server, late,
                   tab, batches, passOk, final, batch, rpc, begun>>

\* Mutant: the process exits after a pass that failed.
PassEndNoRetry(complete) ==
    /\ pc' = IF final \/ ~complete THEN "exited" ELSE "grace"
    /\ tab' = 1

\* What run() does with the result of _sync_pass.
PassEnd(complete) ==
    /\ pc' = IF final THEN "exited" ELSE IF complete THEN "grace" ELSE "poll"
    /\ tab' = 1

\* Mutant: pass_ok is overwritten by the last table instead of folded.
TableEndOverwrites(ok, n) ==
    LET complete == ok /\ n < MaxBatches
    IN  /\ passOk' = complete
        /\ batches' = 0
        /\ batch' = NoBatch /\ rpc' = "idle"
        /\ \/ /\ tab < Len(SYNC_TABLE_ORDER)
              /\ pc' = "select" /\ tab' = tab + 1
           \/ /\ tab = Len(SYNC_TABLE_ORDER)
              /\ PassEnd(complete)
        /\ UNCHANGED <<final, begun>>

\* The loop of _sync_table is left after n batches: the cap clears ok, the
\* result is folded into pass_ok, and the next table or the end of the pass
\* follows.
TableEnd(ok, n) ==
    LET complete == passOk /\ ok /\ n < MaxBatches
    IN  /\ passOk' = complete
        /\ batches' = 0
        /\ batch' = NoBatch /\ rpc' = "idle"
        /\ \/ /\ tab < Len(SYNC_TABLE_ORDER)
              /\ pc' = "select" /\ tab' = tab + 1
           \/ /\ tab = Len(SYNC_TABLE_ORDER)
              /\ PassEnd(complete)
        /\ UNCHANGED <<final, begun>>

Unsynced == (stored \ synced) \cap TableIds(tab)

\* SELECT ... WHERE synced=0 LIMIT n, and the POST that carries the result.
SelectBatch ==
    /\ pc = "select" /\ batches < MaxBatches
    /\ \E B \in SUBSET Unsynced :
          /\ B # {} /\ Cardinality(B) <= SyncBatchSize
          /\ B = Unsynced \/ Cardinality(B) = SyncBatchSize
          /\ batch' = [ids |-> B, closed |-> B \cap closed]
    /\ batches' = batches + 1
    /\ pc' = "wait" /\ rpc' = "sent"
    /\ UNCHANGED <<db, car, server, late, tab, passOk, final, begun>>

SelectNothing ==
    /\ pc = "select" /\ batches < MaxBatches
    /\ Unsynced = {}
    /\ TableEnd(TRUE, batches + 1)
    /\ UNCHANGED <<db, car, server, late>>

\* Any OperationalError of the SELECT is taken for a table that is not there.
SelectFails ==
    /\ "select" \in Faults
    /\ pc = "select" /\ batches < MaxBatches
    /\ TableEnd(TRUE, batches + 1)
    /\ UNCHANGED <<db, car, server, late>>

\* Mutant: any answer counts, raise_for_status is missing.
MarkOnAnyAnswer ==
    /\ rpc \in {"stored", "refused"}
    /\ synced' = synced \cup batch.ids
    /\ \/ /\ batches < MaxBatches
          /\ pc' = "select" /\ batch' = NoBatch /\ rpc' = "idle"
          /\ UNCHANGED <<tab, batches, passOk, final, begun>>
       \/ /\ batches = MaxBatches
          /\ TableEnd(TRUE, batches)
    /\ UNCHANGED <<stored, closed, car, server, late>>

\* A 2xx arrived: UPDATE ... SET synced=1 WHERE id IN (the ids read before).
MarkSynced ==
    /\ rpc = "stored"
    /\ synced' = synced \cup batch.ids
    /\ \/ /\ batches < MaxBatches
          /\ pc' = "select" /\ batch' = NoBatch /\ rpc' = "idle"
          /\ UNCHANGED <<tab, batches, passOk, final, begun>>
       \/ /\ batches = MaxBatches
          /\ TableEnd(TRUE, batches)
    /\ UNCHANGED <<stored, closed, car, server, late>>

\* The UPDATE stayed locked through _SYNCED_UPDATE_RETRIES attempts.
MarkFails ==
    /\ rpc = "stored"
    /\ TableEnd(FALSE, batches)
    /\ UNCHANGED <<db, car, server, late>>

\* raise_for_status on a 4xx or 5xx.
PostRefused ==
    /\ rpc = "refused"
    /\ TableEnd(FALSE, batches)
    /\ UNCHANGED <<db, car, server, late>>

\* The connection failed, or the answer did not come within the timeout.
PostLost ==
    /\ rpc \in {"sent", "stored"}
    /\ Abandon
    /\ TableEnd(FALSE, batches)
    /\ UNCHANGED <<db, car, server>>

-----------------------------------------------------------------------------
(* The API server: one multi-row INSERT per request.                       *)

\* Mutant: the schema without the foreign keys.
NoForeignKeys(m) == TRUE

ForeignKeysHold(m) ==
    \A r \in m.ids \cap Rows : Parent[r] # NoTrip => Parent[r] \in onServer

\* Mutant: end_time = EXCLUDED.end_time, without COALESCE.
ConflictOverwrites(m) == (srvClosed \ m.ids) \cup m.closed

\* The conflict clause: trips COALESCE the end, other tables DO NOTHING.
ConflictClause(m) == srvClosed \cup m.closed

InsertRows(m) ==
    /\ ForeignKeysHold(m)
    /\ onServer' = onServer \cup m.ids
    /\ srvClosed' = ConflictClause(m)

\* handleSync answers 200 when the whole batch is stored.
HandleSync ==
    /\ rpc = "sent"
    /\ InsertRows(batch)
    /\ rpc' = "stored"
    /\ UNCHANGED <<db, car, late, pc, tab, batches, passOk, final, batch, begun>>

\* 409 on an orphan row, 500 on any other database error.
HandleSyncError ==
    /\ rpc = "sent"
    /\ rpc' = "refused"
    /\ UNCHANGED <<db, car, server, late, pc, tab, batches, passOk, final, batch, begun>>

HandleLate(m) ==
    /\ m \in late
    /\ late' = late \ {m}
    /\ InsertRows(m) \/ UNCHANGED server
    /\ UNCHANGED <<db, car, client>>

-----------------------------------------------------------------------------
Collector ==
    \/ \E t \in Trips : InsertTrip(t) \/ EndTrip(t)
    \/ \E r \in Rows : InsertRow(r)
    \/ RepairOrphanedTrips
    \/ CollectorRestart

Power == WalSync \/ PowerOff \/ Boot

Client ==
    \/ StartPass \/ OpenFails
    \/ SelectBatch \/ SelectNothing \/ SelectFails
    \/ MarkSynced \/ MarkFails \/ PostRefused \/ PostLost

Server == HandleSync \/ HandleSyncError \/ \E m \in late : HandleLate(m)

Next == Collector \/ Power \/ Client \/ Server

Spec == Init /\ [][Next]_vars

\* The loop of run() always takes its next step.  A network that comes back
\* again and again eventually lets a request and its answer through, and the
\* locked UPDATE eventually succeeds.
Fairness ==
    /\ WF_vars(StartPass)
    /\ WF_vars(SelectBatch) /\ WF_vars(SelectNothing)
    /\ WF_vars(PostRefused) /\ WF_vars(PostLost)
    /\ SF_vars(HandleSync)
    /\ SF_vars(MarkSynced)

FairSpec == Spec /\ Fairness
=============================================================================
