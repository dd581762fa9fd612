------------------------------- MODULE MCSync -------------------------------
(* A small instance: two trips, one reading of each, one health row.       *)
EXTENDS SyncProps

CONSTANTS t1, t2, r1, r2, h1

MCTrips == {t1, t2}
MCRows == {r1, r2, h1}
MCOneRow == {r1}
MCOneTrip == {t1}
MCOneTripRows == {r1, h1}
MCParent == [r \in Rows |-> IF r = r1 THEN t1 ELSE IF r = r2 THEN t2 ELSE NoTrip]
MCChildTables == <<"obd_1s", "pi_health_log">>
MCTableOf == [r \in Rows |-> IF r = h1 THEN "pi_health_log" ELSE "obd_1s"]
=============================================================================
