---------------------------- MODULE Sync_proofs ----------------------------
(* Machine-checked theorems about Sync, for every set of trips and rows,   *)
(* every table order that begins with trips and every bound.               *)
EXTENDS SyncProps, SequenceTheorems, TLAPS

-----------------------------------------------------------------------------
(* The sync order.                                                         *)

LEMMA OrderLemma ==
    /\ Len(SYNC_TABLE_ORDER) = Len(ChildTables) + 1
    /\ SYNC_TABLE_ORDER[1] = "trips"
    /\ \A n \in 1..Len(ChildTables) : SYNC_TABLE_ORDER[n + 1] = ChildTables[n]
    /\ Len(ChildTables) \in Nat
<1> DEFINE Name == STRING \cup {"trips"}
<1>1. ChildTables \in Seq(Name)
  BY SyncAssumption DEF TableAssumption
<1>2. <<"trips">> \in Seq(Name) /\ Len(<<"trips">>) = 1 /\ <<"trips">>[1] = "trips"
  OBVIOUS
<1>3. Len(ChildTables) \in Nat
  BY <1>1
<1> HIDE DEF Name
<1>4. /\ Len(SYNC_TABLE_ORDER) = 1 + Len(ChildTables)
      /\ \A i \in 1..(1 + Len(ChildTables)) :
            SYNC_TABLE_ORDER[i] = IF i <= 1 THEN <<"trips">>[i] ELSE ChildTables[i - 1]
  BY <1>1, <1>2, ConcatProperties DEF SYNC_TABLE_ORDER
<1>5. SYNC_TABLE_ORDER[1] = "trips"
  BY <1>2, <1>3, <1>4
<1>6. \A n \in 1..Len(ChildTables) : SYNC_TABLE_ORDER[n + 1] = ChildTables[n]
  BY <1>3, <1>4
<1>7. QED
  BY <1>3, <1>4, <1>5, <1>6

LEMMA FirstTable == 1 \in 1..Len(SYNC_TABLE_ORDER) /\ Len(SYNC_TABLE_ORDER) \in Nat
  BY OrderLemma

LEMMA NoBatchType == NoBatch \in Request
  BY DEF NoBatch, Request

\* The trips are the rows of the first table, and every row is in some table.
LEMMA TablesCover ==
    /\ TableIds(1) = Trips
    /\ \A i \in Ids : \E n \in 1..Len(SYNC_TABLE_ORDER) : i \in TableIds(n)
<1>1. TableIds(1) = Trips
  BY OrderLemma DEF TableIds
<1>2. ASSUME NEW i \in Ids
      PROVE  \E n \in 1..Len(SYNC_TABLE_ORDER) : i \in TableIds(n)
  <2>1. CASE i \in Trips
    BY <1>1, <2>1, OrderLemma
  <2>2. CASE i \in Rows
    <3>1. PICK n \in 1..Len(ChildTables) : TableOf[i] = ChildTables[n]
      BY <2>2, SyncAssumption DEF TableAssumption
    <3>2. SYNC_TABLE_ORDER[n + 1] = ChildTables[n] /\ ChildTables[n] # "trips"
      BY OrderLemma, SyncAssumption DEF TableAssumption
    <3>3. i \in TableIds(n + 1)
      BY <2>2, <3>1, <3>2 DEF TableIds
    <3>4. QED
      BY <3>3, OrderLemma
  <2>3. QED
    BY <1>2, <2>1, <2>2 DEF Ids
<1>3. QED
  BY <1>1, <1>2

-----------------------------------------------------------------------------
(* Type correctness.                                                       *)

ClientTypeOK ==
    /\ pc \in {"off", "poll", "select", "wait", "grace", "exited"}
    /\ tab \in 1..Len(SYNC_TABLE_ORDER)
    /\ batches \in 0..MaxBatches
    /\ passOk \in BOOLEAN /\ final \in BOOLEAN
    /\ batch \in Request
    /\ rpc \in {"idle", "sent", "stored", "refused"}
    /\ begun \in SUBSET Ids

LEMMA TableEndType ==
    ASSUME TypeOK, NEW ok \in BOOLEAN, NEW n \in Nat, TableEnd(ok, n)
    PROVE  ClientTypeOK'
<1>1. tab' \in 1..Len(SYNC_TABLE_ORDER)
  BY FirstTable DEF TypeOK, TableEnd, PassEnd
<1>2. pc' \in {"off", "poll", "select", "wait", "grace", "exited"}
  BY DEF TypeOK, TableEnd, PassEnd
<1>3. passOk' \in BOOLEAN
  BY DEF TypeOK, TableEnd
<1>4. batch' \in Request
  BY NoBatchType DEF TableEnd
<1>5. batches' \in 0..MaxBatches
  BY SyncAssumption DEF TableEnd
<1>6. QED
  BY <1>1, <1>2, <1>3, <1>4, <1>5 DEF ClientTypeOK, TypeOK, TableEnd

LEMMA InitType == Init => TypeOK
<1> SUFFICES ASSUME Init PROVE TypeOK
  OBVIOUS
<1>1. cuts \in 0..MaxCuts /\ batches \in 0..MaxBatches
  BY SyncAssumption DEF Init
<1>2. tab \in 1..Len(SYNC_TABLE_ORDER)
  BY FirstTable DEF Init
<1>3. batch \in Request
  BY NoBatchType DEF Init
<1>4. disk \in [stored : SUBSET Ids, closed : SUBSET Trips, synced : SUBSET Ids]
  BY DEF Init
<1>5. QED
  BY <1>1, <1>2, <1>3, <1>4 DEF Init, TypeOK

LEMMA StepType == TypeOK /\ [Next]_vars => TypeOK'
<1> SUFFICES ASSUME TypeOK, [Next]_vars
             PROVE  TypeOK'
  OBVIOUS
<1> USE DEF db, car, server
<1>1. ASSUME NEW t \in Trips, InsertTrip(t) PROVE TypeOK'
  BY <1>1 DEF TypeOK, InsertTrip, client, Ids
<1>2. ASSUME NEW t \in Trips, EndTrip(t) PROVE TypeOK'
  BY <1>2 DEF TypeOK, EndTrip, CloseRows, client
<1>3. ASSUME NEW r \in Rows, InsertRow(r) PROVE TypeOK'
  BY <1>3 DEF TypeOK, InsertRow, client, Ids
<1>4. CASE RepairOrphanedTrips
  BY <1>4 DEF TypeOK, RepairOrphanedTrips, CloseRows, client
<1>5. CASE CollectorRestart
  BY <1>5 DEF TypeOK, CollectorRestart, client
<1>6. CASE WalSync
  BY <1>6 DEF TypeOK, WalSync, Image, client
<1>7. CASE PowerOff
  <2>1. late' \in SUBSET Request
    BY <1>7 DEF TypeOK, PowerOff, Abandon
  <2>2. ClientTypeOK'
    <3>1. batches' \in 0..MaxBatches
      BY <1>7, SyncAssumption DEF PowerOff
    <3>2. tab' \in 1..Len(SYNC_TABLE_ORDER)
      BY <1>7, FirstTable DEF PowerOff
    <3>3. batch' \in Request
      BY <1>7, NoBatchType DEF PowerOff
    <3>4. QED
      BY <1>7, <3>1, <3>2, <3>3 DEF ClientTypeOK, PowerOff
  <2>3. QED
    BY <1>7, <2>1, <2>2, SyncAssumption DEF TypeOK, ClientTypeOK, PowerOff
<1>8. CASE Boot
  BY <1>8 DEF TypeOK, Boot
<1>9. CASE StartPass
  <2>1. made' \in SUBSET Ids /\ stored' \in SUBSET Ids
    BY <1>9 DEF TypeOK, StartPass, WriteHealthSnapshot, HealthRows, Ids
  <2>2. QED
    BY <1>9, <2>1, FirstTable, SyncAssumption DEF TypeOK, StartPass
<1>10. CASE OpenFails
  BY <1>10 DEF TypeOK, OpenFails
<1>11. CASE SelectBatch
  <2>1. batch' \in Request
    BY <1>11 DEF TypeOK, SelectBatch, Unsynced, Request
  <2>2. QED
    BY <1>11, <2>1, SyncAssumption DEF TypeOK, SelectBatch
<1>12. CASE SelectNothing \/ SelectFails
  <2>1. ClientTypeOK'
    <3>1. TableEnd(TRUE, batches + 1)
      BY <1>12 DEF SelectNothing, SelectFails
    <3>2. batches + 1 \in Nat
      BY SyncAssumption DEF TypeOK
    <3>3. QED
      BY <3>1, <3>2, TableEndType
  <2>2. QED
    BY <1>12, <2>1 DEF TypeOK, ClientTypeOK, SelectNothing, SelectFails
<1>13. CASE MarkSynced
  <2>1. synced' \in SUBSET Ids
    BY <1>13 DEF TypeOK, MarkSynced, Request
  <2>2. ClientTypeOK'
    <3>1. CASE TableEnd(TRUE, batches)
      <4>1. batches \in Nat
        BY SyncAssumption DEF TypeOK
      <4>2. QED
        BY <3>1, <4>1, TableEndType
    <3>2. CASE /\ pc' = "select" /\ batch' = NoBatch /\ rpc' = "idle"
               /\ UNCHANGED <<tab, batches, passOk, final, begun>>
      BY <3>2 DEF TypeOK, ClientTypeOK, NoBatch, Request
    <3>3. QED
      BY <1>13, <3>1, <3>2 DEF MarkSynced
  <2>3. QED
    BY <1>13, <2>1, <2>2 DEF TypeOK, ClientTypeOK, MarkSynced
<1>14. CASE MarkFails \/ PostRefused \/ PostLost
  <2>1. ClientTypeOK'
    <3>1. TableEnd(FALSE, batches)
      BY <1>14 DEF MarkFails, PostRefused, PostLost
    <3>2. batches \in Nat
      BY SyncAssumption DEF TypeOK
    <3>3. QED
      BY <3>1, <3>2, TableEndType
  <2>2. late' \in SUBSET Request
    BY <1>14 DEF TypeOK, MarkFails, PostRefused, PostLost, Abandon
  <2>3. QED
    BY <1>14, <2>1, <2>2 DEF TypeOK, ClientTypeOK, MarkFails, PostRefused, PostLost
<1>15. CASE HandleSync
  BY <1>15 DEF TypeOK, HandleSync, InsertRows, ConflictClause, Request
<1>16. CASE HandleSyncError
  BY <1>16 DEF TypeOK, HandleSyncError
<1>17. ASSUME NEW m \in late, HandleLate(m) PROVE TypeOK'
  BY <1>17 DEF TypeOK, HandleLate, InsertRows, ConflictClause, Request, client
<1>18. CASE UNCHANGED vars
  BY <1>18 DEF TypeOK, vars, client
<1>19. QED
  BY <1>1, <1>2, <1>3, <1>4, <1>5, <1>6, <1>7, <1>8, <1>9, <1>10, <1>11, <1>12,
     <1>13, <1>14, <1>15, <1>16, <1>17, <1>18
     DEF Next, Collector, Power, Client, Server

\* Every variable keeps its type (for every instance, not only the checked one).
THEOREM SyncTypeCorrect == Spec => []TypeOK
  BY InitType, StepType, PTL DEF Spec

-----------------------------------------------------------------------------
(* The inductive invariant.                                                *)

\* A database image: an ended trip is stored and its end was recorded, and a
\* row is only marked when it is stored and on the server.
ImageOK(stor, clos, sync) ==
    /\ stor \subseteq made
    /\ clos \subseteq stor \cap ended
    /\ sync \subseteq stor \cap onServer

\* A request carries rows of the car, closed only if their end was recorded.
RequestOK(m) ==
    /\ m.ids \subseteq made
    /\ m.closed \subseteq m.ids \cap ended

CarInv ==
    /\ ended \subseteq made
    /\ ImageOK(stored, closed, synced)
    /\ ImageOK(disk.stored, disk.closed, disk.synced)

NetInv ==
    /\ RequestOK(batch)
    /\ \A m \in late : RequestOK(m)
    /\ onServer \subseteq made
    /\ ServerConsistent

\* The client marks what a 2xx confirmed: once rpc = "stored" the batch is on
\* the server in the version that was read.
ClientInv ==
    /\ pc = "wait" <=> rpc # "idle"
    /\ pc = "off" <=> collector = "off"
    /\ batch.ids \subseteq stored
    /\ rpc = "stored" => batch.ids \subseteq onServer /\ batch.closed \subseteq srvClosed

IInv == TypeOK /\ CarInv /\ NetInv /\ ClientInv

LEMMA InitInv == Init => IInv
<1> SUFFICES ASSUME Init PROVE IInv
  OBVIOUS
<1>1. TypeOK
  BY InitType
<1>2. CarInv
  BY DEF Init, CarInv, ImageOK
<1>3. NetInv
  BY DEF Init, NetInv, RequestOK, NoBatch, ServerConsistent
<1>4. ClientInv
  BY DEF Init, ClientInv, NoBatch
<1>5. QED
  BY <1>1, <1>2, <1>3, <1>4 DEF IInv

\* A step that writes only to the car's own database, and only adds rows and ends.
LEMMA WriteStep ==
    ASSUME IInv, TypeOK',
           UNCHANGED <<disk, server, late, batch, rpc>>,
           made \subseteq made', ended \subseteq ended', ended' \subseteq made',
           stored \subseteq stored', stored' \subseteq stored \cup made',
           closed' \subseteq stored' \cap ended',
           synced' \subseteq synced,
           pc' = "wait" <=> pc = "wait",
           pc' = "off" <=> collector' = "off"
    PROVE  IInv'
<1> USE DEF IInv, server
<1>1. CarInv'
  BY DEF CarInv, ImageOK
<1>2. NetInv'
  BY DEF NetInv, RequestOK, ServerConsistent
<1>3. ClientInv'
  BY DEF ClientInv
<1>4. QED
  BY <1>1, <1>2, <1>3

\* A step of the client that leaves the table, with nothing marked.
LEMMA LeaveStep ==
    ASSUME IInv, TypeOK', NEW ok \in BOOLEAN, NEW n \in Nat, TableEnd(ok, n),
           pc # "off", UNCHANGED <<db, car, server>>,
           late' \in {late, late \cup {batch}}
    PROVE  IInv'
<1> USE DEF IInv, server, db, car
<1>1. CarInv'
  BY DEF CarInv, ImageOK
<1>2. /\ batch' = [ids |-> {}, closed |-> {}] /\ rpc' = "idle"
      /\ pc' # "wait" /\ pc' # "off"
  BY DEF TableEnd, NoBatch, PassEnd
<1>3. NetInv'
  BY <1>2 DEF NetInv, RequestOK, ServerConsistent
<1>4. ClientInv'
  BY <1>2 DEF ClientInv
<1>5. QED
  BY <1>1, <1>3, <1>4

LEMMA StepInv == IInv /\ [Next]_vars => IInv'
<1> SUFFICES ASSUME IInv, [Next]_vars
             PROVE  IInv'
  OBVIOUS
<1>0. TypeOK /\ TypeOK'
  BY StepType DEF IInv
<1> USE <1>0 DEF db, car, server, client
<1>1. ASSUME NEW t \in Trips, InsertTrip(t) PROVE IInv'
  BY <1>1, WriteStep DEF InsertTrip, IInv, CarInv, ImageOK, ClientInv
<1>2. ASSUME NEW t \in Trips, EndTrip(t) PROVE IInv'
  BY <1>2, WriteStep DEF EndTrip, CloseRows, IInv, CarInv, ImageOK, ClientInv
<1>3. ASSUME NEW r \in Rows, InsertRow(r) PROVE IInv'
  BY <1>3, WriteStep DEF InsertRow, IInv, CarInv, ImageOK, ClientInv
<1>4. CASE RepairOrphanedTrips
  BY <1>4, WriteStep DEF RepairOrphanedTrips, CloseRows, IInv, CarInv, ImageOK, ClientInv
<1>5. CASE CollectorRestart
  BY <1>5, WriteStep DEF CollectorRestart, IInv, CarInv, ImageOK, ClientInv
<1>6. CASE WalSync
  <2>1. CarInv'
    BY <1>6 DEF WalSync, Image, IInv, CarInv, ImageOK
  <2>2. NetInv' /\ ClientInv'
    BY <1>6 DEF WalSync, IInv, NetInv, ClientInv, RequestOK, ServerConsistent
  <2>3. QED
    BY <2>1, <2>2 DEF IInv
<1>7. CASE PowerOff
  <2>1. CarInv'
    BY <1>7 DEF PowerOff, IInv, CarInv, ImageOK
  <2>2. batch' = [ids |-> {}, closed |-> {}] /\ rpc' = "idle" /\ pc' = "off"
    BY <1>7 DEF PowerOff, NoBatch
  <2>3. late' \in {late, late \cup {batch}}
    BY <1>7 DEF PowerOff, Abandon
  <2>4. NetInv'
    BY <1>7, <2>2, <2>3 DEF PowerOff, IInv, NetInv, RequestOK, ServerConsistent
  <2>5. ClientInv'
    BY <1>7, <2>2 DEF PowerOff, ClientInv
  <2>6. QED
    BY <2>1, <2>4, <2>5 DEF IInv
<1>8. CASE Boot
  <2>1. pc # "wait"
    BY <1>8 DEF Boot, IInv, ClientInv
  <2>2. QED
    BY <1>8, <2>1, WriteStep DEF Boot, IInv, CarInv, ImageOK, ClientInv
<1>9. CASE StartPass
  BY <1>9, WriteStep DEF StartPass, WriteHealthSnapshot, IInv, CarInv, ImageOK, ClientInv
<1>10. CASE OpenFails
  BY <1>10, WriteStep DEF OpenFails, IInv, CarInv, ImageOK, ClientInv
<1>11. CASE SelectBatch
  <2>1. CarInv'
    BY <1>11 DEF SelectBatch, IInv, CarInv, ImageOK
  <2>2. PICK B \in SUBSET Unsynced : batch' = [ids |-> B, closed |-> B \cap closed]
    BY <1>11 DEF SelectBatch
  <2>3. B \subseteq stored
    BY <2>2 DEF Unsynced
  <2>4. NetInv'
    BY <1>11, <2>2, <2>3
       DEF SelectBatch, IInv, CarInv, ImageOK, NetInv, RequestOK, ServerConsistent
  <2>5. ClientInv'
    BY <1>11, <2>2, <2>3 DEF SelectBatch, IInv, ClientInv
  <2>6. QED
    BY <2>1, <2>4, <2>5 DEF IInv
<1>12. CASE SelectNothing \/ SelectFails
  <2>1. TableEnd(TRUE, batches + 1)
    BY <1>12 DEF SelectNothing, SelectFails
  <2>2. batches + 1 \in Nat
    BY SyncAssumption DEF TypeOK
  <2>3. QED
    BY <1>12, <2>1, <2>2, LeaveStep DEF SelectNothing, SelectFails, IInv, ClientInv
<1>13. CASE MarkSynced
  <2>1. CarInv'
    BY <1>13 DEF MarkSynced, IInv, CarInv, ImageOK, ClientInv
  <2>2. /\ batch' = [ids |-> {}, closed |-> {}] /\ rpc' = "idle"
        /\ pc' # "wait" /\ pc' # "off"
    BY <1>13 DEF MarkSynced, TableEnd, PassEnd, NoBatch
  <2>3. NetInv'
    BY <1>13, <2>2 DEF MarkSynced, IInv, NetInv, RequestOK, ServerConsistent
  <2>4. ClientInv'
    BY <1>13, <2>2 DEF MarkSynced, IInv, ClientInv
  <2>5. QED
    BY <2>1, <2>3, <2>4 DEF IInv
<1>14. CASE MarkFails \/ PostRefused \/ PostLost
  <2>1. TableEnd(FALSE, batches)
    BY <1>14 DEF MarkFails, PostRefused, PostLost
  <2>2. batches \in Nat
    BY SyncAssumption DEF TypeOK
  <2>3. QED
    BY <1>14, <2>1, <2>2, LeaveStep
       DEF MarkFails, PostRefused, PostLost, Abandon, IInv, ClientInv
<1>15. CASE HandleSync
  <2>1. CarInv'
    BY <1>15 DEF HandleSync, InsertRows, IInv, CarInv, ImageOK
  <2>2. NetInv'
    BY <1>15 DEF HandleSync, InsertRows, ForeignKeysHold, ConflictClause, IInv, NetInv,
                 RequestOK, ServerConsistent
  <2>3. ClientInv'
    BY <1>15 DEF HandleSync, InsertRows, ConflictClause, IInv, ClientInv
  <2>4. QED
    BY <2>1, <2>2, <2>3 DEF IInv
<1>16. CASE HandleSyncError
  <2>1. CarInv' /\ NetInv'
    BY <1>16 DEF HandleSyncError, IInv, CarInv, ImageOK, NetInv, RequestOK, ServerConsistent
  <2>2. ClientInv'
    BY <1>16 DEF HandleSyncError, IInv, ClientInv
  <2>3. QED
    BY <2>1, <2>2 DEF IInv
<1>17. ASSUME NEW m \in late, HandleLate(m) PROVE IInv'
  <2>1. CarInv'
    BY <1>17 DEF HandleLate, InsertRows, IInv, CarInv, ImageOK
  <2>2. NetInv'
    BY <1>17 DEF HandleLate, InsertRows, ForeignKeysHold, ConflictClause, IInv, NetInv,
                 RequestOK, ServerConsistent
  <2>3. ClientInv'
    BY <1>17 DEF HandleLate, InsertRows, ConflictClause, IInv, ClientInv
  <2>4. QED
    BY <2>1, <2>2, <2>3 DEF IInv
<1>18. CASE UNCHANGED vars
  BY <1>18 DEF vars, IInv, CarInv, ImageOK, NetInv, RequestOK, ServerConsistent, ClientInv
<1>19. QED
  BY <1>1, <1>2, <1>3, <1>4, <1>5, <1>6, <1>7, <1>8, <1>9, <1>10, <1>11, <1>12,
     <1>13, <1>14, <1>15, <1>16, <1>17, <1>18
     DEF Next, Collector, Power, Client, Server

\* The inductive invariant holds in every reachable state.
THEOREM SyncInvariant == Spec => []IInv
  BY InitInv, StepInv, PTL DEF Spec

\* Whatever the network, the power and the collector do, a row is counted as
\* delivered only when PostgreSQL holds it (the contract between sync.py's
\* synced=1 and handleSync's 2xx).
THEOREM SyncNoLoss == Spec => []NoLoss
<1>1. IInv => NoLoss
  BY DEF IInv, CarInv, ImageOK, NoLoss, OnServer
<1>2. QED
  BY <1>1, SyncInvariant, PTL

\* No orphan data row and no end the car never recorded on the server, even
\* with late and repeated requests.
THEOREM SyncServerConsistent == Spec => []ServerConsistent
<1>1. IInv => ServerConsistent
  BY DEF IInv, NetInv
<1>2. QED
  BY <1>1, SyncInvariant, PTL

-----------------------------------------------------------------------------
(* A complete pass.  If the SELECT of sync.py never raises, the tables that *)
(* a pass has left with pass_ok still set hold nothing that was stored when *)
(* it began and is not on the server.                                       *)

Drained(n) == OnServer(begun \cap TableIds(n))

PassInv ==
    /\ begun \subseteq stored
    /\ pc \in {"select", "wait"} /\ passOk => \A n \in 1..(tab - 1) : Drained(n)
    /\ pc = "grace" => OnServer(begun)

\* Leaving table tab with every row of begun in it delivered, or with a failure.
LEMMA LeaveTable ==
    ASSUME TypeOK, PassInv, NEW ok \in BOOLEAN, NEW n \in Nat, TableEnd(ok, n),
           pc \in {"select", "wait"},
           begun \subseteq stored', onServer' = onServer,
           ok /\ n < MaxBatches => Drained(tab)
    PROVE  PassInv'
<1>1. begun' = begun /\ begun' \subseteq stored'
  BY DEF TableEnd
<1>2. passOk' => passOk /\ ok /\ n < MaxBatches
  BY DEF TableEnd
<1>3. passOk' => \A k \in 1..tab : Drained(k)
  BY <1>2, FirstTable DEF PassInv, TypeOK
<1>4. \A k \in 1..tab : Drained(k) => Drained(k)'
  BY <1>1 DEF Drained, OnServer, TableIds
<1>5. CASE tab < Len(SYNC_TABLE_ORDER) /\ pc' = "select" /\ tab' = tab + 1
  BY <1>1, <1>3, <1>4, <1>5, FirstTable DEF PassInv, TypeOK
<1>6. CASE tab = Len(SYNC_TABLE_ORDER) /\ PassEnd(passOk /\ ok /\ n < MaxBatches)
  <2>1. pc' = "grace" => passOk /\ ok /\ n < MaxBatches
    BY <1>6 DEF PassEnd
  <2>2. pc' \notin {"select", "wait"}
    BY <1>6 DEF PassEnd
  <2>3. passOk /\ ok /\ n < MaxBatches => OnServer(begun)
    <3>1. SUFFICES ASSUME passOk, ok, n < MaxBatches, NEW i \in begun
                   PROVE  i \in onServer
      BY DEF OnServer
    <3>2. \A k \in 1..tab : Drained(k)
      BY <3>1, FirstTable DEF PassInv, TypeOK
    <3>3. PICK k \in 1..Len(SYNC_TABLE_ORDER) : i \in TableIds(k)
      BY <3>1, TablesCover DEF TypeOK
    <3>4. QED
      BY <1>6, <3>1, <3>2, <3>3 DEF Drained, OnServer
  <2>4. QED
    BY <1>1, <2>1, <2>2, <2>3 DEF PassInv, OnServer
<1>7. QED
  BY <1>5, <1>6 DEF TableEnd

LEMMA StepPass ==
    ASSUME "select" \notin Faults
    PROVE  IInv /\ PassInv /\ [Next]_vars => PassInv'
<1> SUFFICES ASSUME IInv, PassInv, [Next]_vars
             PROVE  PassInv'
  OBVIOUS
<1> USE DEF db, car, server
<1>0. TypeOK /\ batches \in Nat /\ batches + 1 \in Nat
  BY SyncAssumption DEF IInv, TypeOK
<1>1. ASSUME stored \subseteq stored', onServer \subseteq onServer',
             UNCHANGED <<pc, tab, passOk, begun>>
      PROVE  PassInv'
  BY <1>1 DEF PassInv, Drained, OnServer, TableIds
<1>2. ASSUME NEW t \in Trips, InsertTrip(t) \/ EndTrip(t) PROVE PassInv'
  BY <1>1, <1>2 DEF InsertTrip, EndTrip, CloseRows, client
<1>3. ASSUME NEW r \in Rows, InsertRow(r) PROVE PassInv'
  BY <1>1, <1>3 DEF InsertRow, client
<1>4. CASE RepairOrphanedTrips \/ CollectorRestart \/ WalSync
  BY <1>1, <1>4 DEF RepairOrphanedTrips, CollectorRestart, WalSync, CloseRows, client
<1>5. CASE PowerOff
  BY <1>5 DEF PowerOff, PassInv, OnServer
<1>6. CASE Boot
  BY <1>6 DEF Boot, PassInv
<1>7. CASE StartPass
  BY <1>7 DEF StartPass, PassInv
<1>8. CASE OpenFails
  BY <1>8 DEF OpenFails, PassInv
<1>9. CASE SelectBatch
  BY <1>9 DEF SelectBatch, PassInv, Drained, OnServer, TableIds
<1>10. CASE SelectNothing
  <2>1. Drained(tab)
    BY <1>10 DEF SelectNothing, Unsynced, Drained, OnServer, PassInv, IInv, CarInv, ImageOK
  <2>2. TableEnd(TRUE, batches + 1)
    BY <1>10 DEF SelectNothing
  <2>3. begun \subseteq stored'
    BY <1>10 DEF SelectNothing, PassInv
  <2>4. QED
    BY <1>0, <1>10, <2>1, <2>2, <2>3, LeaveTable DEF SelectNothing
<1>11. CASE SelectFails
  BY <1>11 DEF SelectFails
<1>12. CASE MarkSynced
  <2>1. CASE pc' = "select" /\ UNCHANGED <<tab, batches, passOk, final, begun>>
    <3>1. pc = "wait" /\ stored' = stored /\ onServer' = onServer
      BY <1>12 DEF MarkSynced, IInv, ClientInv
    <3>2. QED
      BY <2>1, <3>1 DEF PassInv, Drained, OnServer, TableIds
  <2>2. CASE batches = MaxBatches /\ TableEnd(TRUE, batches)
    <3>1. pc = "wait" /\ begun \subseteq stored' /\ onServer' = onServer
      BY <1>12 DEF MarkSynced, IInv, ClientInv, PassInv
    <3>2. ~(batches < MaxBatches)
      BY <1>0, <2>2
    <3>3. QED
      BY <1>0, <2>2, <3>1, <3>2, LeaveTable
  <2>3. QED
    BY <1>12, <2>1, <2>2 DEF MarkSynced
<1>13. CASE MarkFails \/ PostRefused \/ PostLost
  <2>1. TableEnd(FALSE, batches)
    BY <1>13 DEF MarkFails, PostRefused, PostLost
  <2>2. pc = "wait" /\ begun \subseteq stored' /\ onServer' = onServer
    BY <1>13 DEF MarkFails, PostRefused, PostLost, IInv, ClientInv, PassInv
  <2>3. QED
    BY <1>0, <2>1, <2>2, LeaveTable
<1>14. CASE HandleSync \/ HandleSyncError
  BY <1>1, <1>14 DEF HandleSync, HandleSyncError, InsertRows
<1>15. ASSUME NEW m \in late, HandleLate(m) PROVE PassInv'
  BY <1>1, <1>15 DEF HandleLate, InsertRows, client
<1>16. CASE UNCHANGED vars
  BY <1>1, <1>16 DEF vars, client
<1>17. QED
  BY <1>2, <1>3, <1>4, <1>5, <1>6, <1>7, <1>8, <1>9, <1>10, <1>11, <1>12, <1>13,
     <1>14, <1>15, <1>16 DEF Next, Collector, Power, Client, Server

LEMMA PassInvariant ==
    ASSUME "select" \notin Faults
    PROVE  Spec => [](IInv /\ PassInv)
<1>1. Init => PassInv
  BY DEF Init, PassInv
<1>2. QED
  BY <1>1, InitInv, StepInv, StepPass, PTL DEF Spec

\* _sync_pass returns True only when everything stored at its start is on the
\* server, provided the SELECT of _sync_table does not raise (the run
\* SyncSelectFault shows what happens when it does).
THEOREM SyncCompletePass ==
    ASSUME "select" \notin Faults
    PROVE  Spec => []CompletePass
<1>1. PassInv => CompletePass
  BY DEF PassInv, CompletePass
<1>2. QED
  BY <1>1, PassInvariant, PTL

\* Trips-first ordering: once the trips table is left with pass_ok set, the
\* parents of everything older than the pass are on the server.
THEOREM SyncParentsFirst ==
    ASSUME "select" \notin Faults
    PROVE  Spec => []ParentsFirst
<1>1. TypeOK /\ PassInv => ParentsFirst
  BY TablesCover, FirstTable DEF PassInv, ParentsFirst, Drained, TypeOK
<1>2. QED
  BY <1>1, PassInvariant, PTL DEF IInv

-----------------------------------------------------------------------------
(* Trip ends.                                                              *)

\* No step of the system takes an end away from the server.
THEOREM SyncClosesAreMonotone == Spec => ClosesAreMonotone
<1>1. [Next]_vars => [srvClosed \subseteq srvClosed']_srvClosed
  BY DEF Next, Collector, Power, Client, Server, vars, server,
         InsertTrip, InsertRow, EndTrip, RepairOrphanedTrips, CollectorRestart,
         WalSync, PowerOff, Boot, StartPass, OpenFails, SelectBatch, SelectNothing,
         SelectFails, MarkSynced, MarkFails, PostRefused, PostLost,
         HandleSync, HandleSyncError, HandleLate, InsertRows, ConflictClause
<1>2. QED
  BY <1>1, PTL DEF Spec, ClosesAreMonotone

\* A recorded end is lost only by the UPDATE of a batch that was read before
\* the trip ended: that window is the only one.
THEOREM SyncClosesLostOnlyByMark == Spec => ClosesLostOnlyByMark
<1> DEFINE Step == \A t \in LostCloses' \ LostCloses :
                      \/ pc = "wait" /\ t \in batch.ids /\ t \notin batch.closed
                      \/ pc' = "off" /\ t \in disk.closed
<1>1. IInv /\ [Next]_vars => [Step]_vars
  <2> SUFFICES ASSUME IInv, Next, NEW t \in LostCloses', t \notin LostCloses
               PROVE  \/ pc = "wait" /\ t \in batch.ids /\ t \notin batch.closed
                      \/ pc' = "off" /\ t \in disk.closed
    BY DEF vars
  <2> USE DEF LostCloses, db, car, server, client
  <2>1. ASSUME closed' = closed, synced' \subseteq synced, srvClosed \subseteq srvClosed'
        PROVE  FALSE
    BY <2>1
  <2>2. ASSUME NEW T, CloseRows(T), srvClosed' = srvClosed PROVE FALSE
    BY <2>2 DEF CloseRows
  <2>3. CASE Collector
    BY <2>1, <2>2, <2>3 DEF Collector, InsertTrip, InsertRow, EndTrip,
                            RepairOrphanedTrips, CollectorRestart
  <2>4. CASE Power
    BY <2>1, <2>4 DEF Power, WalSync, PowerOff, Boot
  <2>5. CASE MarkSynced
    BY <2>5 DEF MarkSynced, IInv, ClientInv
  <2>6. CASE Client /\ ~MarkSynced
    BY <2>1, <2>6 DEF Client, StartPass, OpenFails, SelectBatch, SelectNothing,
                      SelectFails, MarkFails, PostRefused, PostLost
  <2>7. CASE Server
    BY <2>1, <2>7 DEF Server, HandleSync, HandleSyncError, HandleLate, InsertRows,
                      ConflictClause
  <2>8. QED
    BY <2>3, <2>4, <2>5, <2>6, <2>7 DEF Next
<1>2. QED
  BY <1>1, SyncInvariant, PTL DEF Spec, ClosesLostOnlyByMark

-----------------------------------------------------------------------------
(* Refinement: each step of Sync is a step of Replica or changes nothing   *)
(* that Replica sees.                                                      *)

LEMMA RefineStep == IInv /\ IInv' /\ [Next]_vars => [R!Next]_(R!vars)
<1> SUFFICES ASSUME IInv, IInv', Next
             PROVE  R!Next \/ UNCHANGED R!vars
  BY DEF vars, R!vars, db, car, server
<1>0. made' \subseteq Ids /\ ended' \subseteq Trips \cap made'
  BY DEF IInv, TypeOK, CarInv
<1> USE DEF db, car, server, client, R!vars
<1>1. CASE Collector
  <2>1. /\ made \subseteq made' /\ ended \subseteq ended' /\ synced' \subseteq synced
        /\ UNCHANGED <<onServer, srvClosed>>
    BY <1>1 DEF Collector, InsertTrip, InsertRow, EndTrip, RepairOrphanedTrips,
                CollectorRestart, CloseRows
  <2>2. made' \subseteq Ids /\ ended' \subseteq Trips \cap made'
    BY <1>0
  <2>3. QED
    BY <2>1, <2>2 DEF R!Next, R!Record, Ids, R!Ids
<1>2. CASE PowerOff
  <2>1. R!Acknowledge
    BY <1>2 DEF PowerOff, R!Acknowledge, IInv, CarInv, ImageOK
  <2>2. QED
    BY <2>1 DEF R!Next
<1>3. CASE WalSync \/ Boot
  BY <1>3 DEF WalSync, Boot
<1>4. CASE StartPass
  <2>1. made \subseteq made' /\ UNCHANGED <<ended, synced, onServer, srvClosed>>
    BY <1>4 DEF StartPass, WriteHealthSnapshot
  <2>2. made' \subseteq Ids /\ ended' \subseteq Trips \cap made'
    BY <1>0
  <2>3. QED
    BY <2>1, <2>2 DEF R!Next, R!Record, Ids, R!Ids
<1>5. CASE MarkSynced
  <2>1. R!Acknowledge
    BY <1>5 DEF MarkSynced, R!Acknowledge, IInv, CarInv, ImageOK, ClientInv
  <2>2. QED
    BY <2>1 DEF R!Next
<1>6. CASE Client /\ ~StartPass /\ ~MarkSynced
  BY <1>6 DEF Client, OpenFails, SelectBatch, SelectNothing, SelectFails, MarkFails,
              PostRefused, PostLost
<1>7. ASSUME NEW m, RequestOK(m), InsertRows(m), UNCHANGED <<made, ended, synced>>
      PROVE  R!Receive
  <2>1. m.ids \in SUBSET made /\ m.closed \in SUBSET ended /\ m.closed \subseteq m.ids
    BY <1>7 DEF RequestOK
  <2>2. R!ParentsIn(m.ids, onServer)
    BY <1>7 DEF InsertRows, ForeignKeysHold, R!ParentsIn
  <2>3. onServer' = onServer \cup m.ids /\ srvClosed' = srvClosed \cup m.closed
    BY <1>7 DEF InsertRows, ConflictClause
  <2>4. QED
    BY <1>7, <2>1, <2>2, <2>3 DEF R!Receive
<1>8. CASE HandleSync
  <2>1. R!Receive
    BY <1>7, <1>8 DEF HandleSync, IInv, NetInv
  <2>2. QED
    BY <2>1 DEF R!Next
<1>9. CASE HandleSyncError
  BY <1>9 DEF HandleSyncError
<1>10. ASSUME NEW m \in late, HandleLate(m)
       PROVE  R!Next \/ UNCHANGED R!vars
  <2>1. CASE InsertRows(m)
    <3>1. R!Receive
      BY <1>7, <1>10, <2>1 DEF HandleLate, IInv, NetInv
    <3>2. QED
      BY <3>1 DEF R!Next
  <2>2. CASE UNCHANGED server
    BY <1>10, <2>2 DEF HandleLate
  <2>3. QED
    BY <1>10, <2>1, <2>2 DEF HandleLate
<1>11. QED
  BY <1>1, <1>2, <1>3, <1>4, <1>5, <1>6, <1>8, <1>9, <1>10 DEF Next, Power, Server

\* Sync implements Replica: what sync.py, the API and the power supply do
\* together is at every step something the store-and-forward promise allows.
THEOREM SyncRefinesReplica == Spec => ReplicaSpec
<1>1. Init => R!Init
  BY DEF Init, R!Init
<1>2. QED
  BY <1>1, RefineStep, SyncInvariant, PTL DEF Spec, ReplicaSpec, R!Spec
=============================================================================
