--------------------------- MODULE MCQueueWriter ---------------------------
(* Two trips with one row each; a queue and a batch of two rows.           *)
EXTENDS QueueWriter

CONSTANTS t1, t2, r1, r2

MCTrips == {t1, t2}
MCReadings == {r1, r2}
MCParent == [r \in Readings |-> IF r = r1 THEN t1 ELSE t2]
=============================================================================
